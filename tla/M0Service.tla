----------------------------- MODULE M0Service -----------------------------
(***************************************************************************)
(* The M0 certificate service: callers query the certificate store or run  *)
(* episodes on it, each on SQLite connections of its own.                  *)
(*                                                                         *)
(* submit_claim (client.py) asks the store and, when the pair is unknown,  *)
(* runs a one-row episode and audits the store. run_m0_episode             *)
(* (m0_certificate_factory.py) triages the rows against the store,         *)
(* searches a countermodel for each unknown pair, imports what was found   *)
(* (countermodel_importer.py) on one connection, and asks the store again. *)
(*                                                                         *)
(* SQLite: a read sees the committed rows and the rows its own connection  *)
(* has not committed. A commit that outlasts its busy timeout behind a     *)
(* slow reader fails and leaves its row uncommitted on the connection,     *)
(* which keeps the others from reading and writing until it commits or     *)
(* closes. The next executescript commits the row first; closing drops it. *)
(***************************************************************************)
EXTENDS Naturals, Sequences

CONSTANTS
  Caller,       \* request threads of the service and scripts on its store
  Pair,         \* (source, target) pairs of parsable equations
  Refutable,    \* the pairs with a countermodel within the largest search bound
  Warehouse,    \* the pairs with a derived or imported warehouse certificate
  Batches,      \* the rows episodes are run on
  Nothing,      \* no certificate
  MaxEpisodes,  \* bound: episodes
  MaxBusy       \* bound: commits that time out

ASSUME PairsAssumption == Refutable \subseteq Pair /\ Warehouse \subseteq Pair
ASSUME BatchesAssumption == \A b \in Batches : b \in Seq(Pair) /\ b # << >>
ASSUME BoundsAssumption == MaxEpisodes \in Nat /\ MaxBusy \in Nat

\* A certificate of an episode's row, or one of the warehouse.
Certificates == ((1..MaxEpisodes) \X Nat) \cup {<<p>> : p \in Pair}
ASSUME NothingAssumption == Nothing \notin Certificates

VARIABLES
  traces,       \* the committed rows of table traces, in id order
  uncommitted,  \* the rows each caller's import connection has not committed
  busy,         \* how many commits have timed out
  critical,     \* an older row of the store fails the audit
  pc,           \* where each caller is
  audited,      \* whether its episode serves submit_claim, which audits it
  batch,        \* the rows of its episode
  row,          \* the row it is at
  found,        \* the rows the executor found a countermodel for
  imported,     \* the importer's status for each row
  result,       \* the status and certificate of each row
  episode,      \* the number of its episode
  episodes,     \* how many episodes have begun
  given,        \* the certified answers callers have received
  sure          \* the pairs certified to somebody before its episode began

store == <<traces, uncommitted, busy, critical>>
run == <<audited, batch, row, found, imported, result, episode, sure>>
vars == <<store, pc, run, episodes, given>>
-----------------------------------------------------------------------------
(***************************************************************************)
(* The store. Certificates hash the task, so each row of each episode      *)
(* makes its own.                                                          *)
(***************************************************************************)
Certificate(c) == <<episode[c], row[c]>>

Rows(t, p) == {i \in DOMAIN t : t[i].pair = p}

\* Mutant: the newest row answers.
get_by_pair_Newest(t, p) == CHOOSE i \in Rows(t, p) : \A j \in Rows(t, p) : i >= j

\* ORDER BY id LIMIT 1
get_by_pair(t, p) == CHOOSE i \in Rows(t, p) : \A j \in Rows(t, p) : i <= j

\* KernelOracle.query: a primitive trace, else a certificate of the warehouse.
OracleOn(t, p) ==
  IF Rows(t, p) # {} THEN t[get_by_pair(t, p)].cert
  ELSE IF p \in Warehouse THEN <<p>>
  ELSE Nothing

Oracle(p) == OracleOn(traces, p)

\* No other connection holds the write lock of a commit that timed out.
Unlocked(c) == \A d \in Caller \ {c} : uncommitted[d] = << >>

Certified(p, cert) == [pair |-> p, cert |-> cert]

Unresolved == [status |-> "NONE", cert |-> Nothing]

Init ==
  /\ traces = << >>
  /\ uncommitted = [c \in Caller |-> << >>]
  /\ busy = 0
  /\ critical \in BOOLEAN
  /\ pc = [c \in Caller |-> "idle"]
  /\ audited = [c \in Caller |-> FALSE]
  /\ batch = [c \in Caller |-> << >>]
  /\ row = [c \in Caller |-> 1]
  /\ found = [c \in Caller |-> {}]
  /\ imported = [c \in Caller |-> << >>]
  /\ result = [c \in Caller |-> << >>]
  /\ episode = [c \in Caller |-> 0]
  /\ episodes = 0
  /\ given = {}
  /\ sure = [c \in Caller |-> {}]
-----------------------------------------------------------------------------
(***************************************************************************)
(* Requests.                                                               *)
(***************************************************************************)

\* query_claim, and the query submit_claim begins with, when the pair is known.
\* An unknown pair is answered UNKNOWN, which changes nothing.
Query(c, p) ==
  /\ pc[c] = "idle"
  /\ Unlocked(c)
  /\ Oracle(p) # Nothing
  /\ given' = given \cup {Certified(p, Oracle(p))}
  /\ UNCHANGED <<store, pc, run, episodes>>

\* Mutant: the importer's statuses are not made for the new batch.
Begin_NoStatuses(c, b, audit) ==
  /\ pc[c] = "idle"
  /\ episodes < MaxEpisodes
  /\ pc' = [pc EXCEPT ![c] = "triage"]
  /\ audited' = [audited EXCEPT ![c] = audit]
  /\ batch' = [batch EXCEPT ![c] = b]
  /\ result' = [result EXCEPT ![c] = [i \in DOMAIN b |-> Unresolved]]
  /\ episodes' = episodes + 1
  /\ episode' = [episode EXCEPT ![c] = episodes + 1]
  /\ sure' = [sure EXCEPT ![c] = {a.pair : a \in given}]
  /\ UNCHANGED <<store, row, found, imported, given>>

Begin(c, b, audit) ==
  /\ pc[c] = "idle"
  /\ episodes < MaxEpisodes
  /\ pc' = [pc EXCEPT ![c] = "triage"]
  /\ audited' = [audited EXCEPT ![c] = audit]
  /\ batch' = [batch EXCEPT ![c] = b]
  /\ row' = [row EXCEPT ![c] = 1]
  /\ found' = [found EXCEPT ![c] = {}]
  /\ imported' = [imported EXCEPT ![c] = [i \in DOMAIN b |-> "none"]]
  /\ result' = [result EXCEPT ![c] = [i \in DOMAIN b |-> Unresolved]]
  /\ episodes' = episodes + 1
  /\ episode' = [episode EXCEPT ![c] = episodes + 1]
  /\ sure' = [sure EXCEPT ![c] = {a.pair : a \in given}]
  /\ UNCHANGED <<store, given>>

\* submit_claim whose query found the pair unknown.
Submit(c, p) ==
  /\ Unlocked(c)
  /\ Oracle(p) = Nothing
  /\ Begin(c, <<p>>, TRUE)

RunEpisode(c, b) == Begin(c, b, FALSE)
-----------------------------------------------------------------------------
(***************************************************************************)
(* The episode.                                                            *)
(***************************************************************************)
InBatch(c) == row[c] \in DOMAIN batch[c]
ThisPair(c) == batch[c][row[c]]

Resolve(c, status, cert) ==
  result' = [result EXCEPT ![c][row[c]] = [status |-> status, cert |-> cert]]

NextRow(c) == row' = [row EXCEPT ![c] = @ + 1]

GoTo(c, phase) == pc' = [pc EXCEPT ![c] = phase]

\* Mutant: the rows go to the search without a look at the store.
Triage_NoLookup(c) ==
  /\ pc[c] = "triage"
  /\ InBatch(c)
  /\ NextRow(c)
  /\ UNCHANGED <<store, pc, audited, batch, found, imported, result, episode, episodes, given, sure>>

Triage(c) ==
  /\ pc[c] = "triage"
  /\ InBatch(c)
  /\ Unlocked(c)
  /\ IF Oracle(ThisPair(c)) # Nothing
       THEN Resolve(c, "KNOWN_CERTIFICATE_FOUND", Oracle(ThisPair(c)))
       ELSE UNCHANGED result
  /\ NextRow(c)
  /\ UNCHANGED <<store, pc, audited, batch, found, imported, episode, episodes, given, sure>>

Unknown(c) == {i \in DOMAIN batch[c] : result[c][i] = Unresolved}

\* The search bound of the request decides whether a countermodel that exists
\* is found.
Execute(c, F) ==
  /\ pc[c] = "triage"
  /\ ~InBatch(c)
  /\ F \subseteq {i \in Unknown(c) : batch[c][i] \in Refutable}
  /\ found' = [found EXCEPT ![c] = F]
  /\ GoTo(c, "import")
  /\ row' = [row EXCEPT ![c] = 1]
  /\ UNCHANGED <<store, audited, batch, imported, result, episode, episodes, given, sure>>

Report(c, status) == imported' = [imported EXCEPT ![c][row[c]] = status]

\* A row without a countermodel is passed over, and a pair the connection
\* already sees a row for is a duplicate.
ImportCheck(c) ==
  /\ pc[c] = "import"
  /\ InBatch(c)
  /\ Unlocked(c)
  /\ LET mine == traces \o uncommitted[c] IN
       \/ /\ row[c] \notin found[c]
          /\ NextRow(c)
          /\ UNCHANGED <<imported, pc>>
       \/ /\ row[c] \in found[c]
          /\ Rows(mine, ThisPair(c)) # {}
          /\ Report(c, "skipped_duplicate")
          /\ NextRow(c)
          /\ UNCHANGED pc
       \/ /\ row[c] \in found[c]
          /\ Rows(mine, ThisPair(c)) = {}
          /\ GoTo(c, "insert")
          /\ UNCHANGED <<imported, row>>
  /\ UNCHANGED <<store, audited, batch, found, result, episode, episodes, given, sure>>

\* init_schema: executescript commits what the connection left uncommitted.
InitSchema(c) ==
  /\ pc[c] = "insert"
  /\ uncommitted[c] # << >>
  /\ traces' = traces \o uncommitted[c]
  /\ uncommitted' = [uncommitted EXCEPT ![c] = << >>]
  /\ UNCHANGED <<busy, critical, pc, run, episodes, given>>

NewRow(c) == [pair |-> ThisPair(c), cert |-> Certificate(c)]

\* Mutant: the commit after the INSERT is left out.
Insert_NoCommit(c) ==
  /\ pc[c] = "insert"
  /\ uncommitted[c] = << >>
  /\ Unlocked(c)
  /\ uncommitted' = [uncommitted EXCEPT ![c] = <<NewRow(c)>>]
  /\ GoTo(c, "stats")
  /\ UNCHANGED <<traces, busy, critical, run, episodes, given>>

\* Mutant: import_lawbook is called with replace = True.
Insert_Replaces(c) ==
  /\ pc[c] = "insert"
  /\ uncommitted[c] = << >>
  /\ Unlocked(c)
  /\ traces' = <<NewRow(c)>>
  /\ GoTo(c, "stats")
  /\ UNCHANGED <<uncommitted, busy, critical, run, episodes, given>>

\* The INSERT and its commit.
Insert(c) ==
  /\ pc[c] = "insert"
  /\ uncommitted[c] = << >>
  /\ Unlocked(c)
  /\ traces' = Append(traces, NewRow(c))
  /\ GoTo(c, "stats")
  /\ UNCHANGED <<uncommitted, busy, critical, run, episodes, given>>

\* import_lawbook reads the store once more, for statistics, before it returns
\* and the row is reported as imported.
Stats(c) ==
  /\ pc[c] = "stats"
  /\ Unlocked(c)
  /\ Report(c, "imported")
  /\ NextRow(c)
  /\ GoTo(c, "import")
  /\ UNCHANGED <<store, audited, batch, found, result, episode, episodes, given, sure>>

\* The exception is caught and reported; the connection lives on.
ImportError(c) ==
  /\ Report(c, "error")
  /\ NextRow(c)
  /\ GoTo(c, "import")
  /\ UNCHANGED <<traces, critical, audited, batch, found, result, episode, episodes, given, sure>>

\* The commit after the INSERT times out behind a slow reader.
CommitBusy(c) ==
  /\ pc[c] = "insert"
  /\ busy < MaxBusy
  /\ uncommitted[c] = << >>
  /\ Unlocked(c)
  /\ uncommitted' = [uncommitted EXCEPT ![c] = <<NewRow(c)>>]
  /\ busy' = busy + 1
  /\ ImportError(c)

\* The commit inside executescript times out, and the row is not inserted.
SchemaBusy(c) ==
  /\ pc[c] = "insert"
  /\ busy < MaxBusy
  /\ uncommitted[c] # << >>
  /\ busy' = busy + 1
  /\ UNCHANGED uncommitted
  /\ ImportError(c)

\* Another connection keeps the write lock for longer than the INSERT waits.
InsertLocked(c) ==
  /\ pc[c] = "insert"
  /\ ~Unlocked(c)
  /\ UNCHANGED <<uncommitted, busy>>
  /\ ImportError(c)

\* The statistics wait too long for another connection's lock: the row is
\* reported as an error though it is committed.
StatsLocked(c) ==
  /\ pc[c] = "stats"
  /\ ~Unlocked(c)
  /\ UNCHANGED <<uncommitted, busy>>
  /\ ImportError(c)

\* Mutant: the import connection is not closed.
CloseImport_StaysOpen(c) ==
  /\ pc[c] = "import"
  /\ ~InBatch(c)
  /\ GoTo(c, "after")
  /\ row' = [row EXCEPT ![c] = 1]
  /\ UNCHANGED <<store, audited, batch, found, imported, result, episode, episodes, given, sure>>

CloseImport(c) ==
  /\ pc[c] = "import"
  /\ ~InBatch(c)
  /\ uncommitted' = [uncommitted EXCEPT ![c] = << >>]
  /\ GoTo(c, "after")
  /\ row' = [row EXCEPT ![c] = 1]
  /\ UNCHANGED <<traces, busy, critical, audited, batch, found, imported, result, episode, episodes, given, sure>>

\* Mutant: the importer's own certificate is the answer.
After_OwnCertificate(c) ==
  /\ pc[c] = "after"
  /\ InBatch(c)
  /\ Unlocked(c)
  /\ \/ result[c][row[c]] # Unresolved /\ UNCHANGED result
     \/ /\ result[c][row[c]] = Unresolved
        /\ imported[c][row[c]] = "imported"
        /\ Resolve(c, "VERIFIED_FALSE", Certificate(c))
     \/ /\ result[c][row[c]] = Unresolved
        /\ imported[c][row[c]] # "imported"
        /\ Resolve(c, "VERIFICATION_FAILED", Nothing)
  /\ NextRow(c)
  /\ UNCHANGED <<store, pc, audited, batch, found, imported, episode, episodes, given, sure>>

\* The oracle is asked again and decides what an imported row is answered with.
After(c) ==
  /\ pc[c] = "after"
  /\ InBatch(c)
  /\ Unlocked(c)
  /\ \/ result[c][row[c]] # Unresolved /\ UNCHANGED result
     \/ /\ result[c][row[c]] = Unresolved
        /\ imported[c][row[c]] = "imported"
        /\ Resolve(c, "VERIFIED_FALSE", Oracle(ThisPair(c)))
     \/ /\ result[c][row[c]] = Unresolved
        /\ imported[c][row[c]] # "imported"
        /\ Resolve(c, IF row[c] \in found[c] THEN "VERIFICATION_FAILED" ELSE "CONSTRUCTOR_FAILED",
                   Nothing)
  /\ NextRow(c)
  /\ UNCHANGED <<store, pc, audited, batch, found, imported, episode, episodes, given, sure>>

\* What the episode held is gone when its call returns or raises.
Return(c) ==
  /\ GoTo(c, "idle")
  /\ batch' = [batch EXCEPT ![c] = << >>]
  /\ row' = [row EXCEPT ![c] = 1]
  /\ found' = [found EXCEPT ![c] = {}]
  /\ imported' = [imported EXCEPT ![c] = << >>]
  /\ result' = [result EXCEPT ![c] = << >>]
  /\ audited' = [audited EXCEPT ![c] = FALSE]
  /\ episode' = [episode EXCEPT ![c] = 0]
  /\ sure' = [sure EXCEPT ![c] = {}]
  /\ UNCHANGED episodes

Answers(c) ==
  {Certified(batch[c][i], result[c][i].cert) : i \in
     {j \in DOMAIN batch[c] : result[c][j].cert # Nothing}}

\* The results are returned; or the audit after submit_claim's write finds a
\* critical row and raises, and the caller learns nothing of what was stored.
Finish(c) ==
  /\ pc[c] = "after"
  /\ ~InBatch(c)
  /\ Unlocked(c)
  /\ Return(c)
  /\ \/ given' = given \cup Answers(c)
     \/ critical /\ audited[c] /\ UNCHANGED given
  /\ UNCHANGED store

\* A read that waits too long for another connection's lock raises, and the
\* episode is lost; what it has committed stays.
Abort(c) ==
  /\ pc[c] \in {"triage", "import", "after"}
  /\ InBatch(c)
  /\ ~Unlocked(c)
  /\ uncommitted' = [uncommitted EXCEPT ![c] = << >>]
  /\ Return(c)
  /\ UNCHANGED <<traces, busy, critical, given>>

Episode(c) ==
  \/ Triage(c) \/ (\E F \in SUBSET DOMAIN batch[c] : Execute(c, F))
  \/ ImportCheck(c) \/ InitSchema(c) \/ Insert(c)
  \/ CommitBusy(c) \/ SchemaBusy(c) \/ InsertLocked(c) \/ Stats(c) \/ StatsLocked(c)
  \/ CloseImport(c) \/ After(c) \/ Finish(c) \/ Abort(c)

Next ==
  \E c \in Caller :
    \/ \E p \in Pair : Query(c, p) \/ Submit(c, p)
    \/ \E b \in Batches : RunEpisode(c, b)
    \/ Episode(c)

Safe == Init /\ [][Next]_vars

\* A thread that has begun an episode runs it to the end.
Spec == Safe /\ \A c \in Caller : WF_vars(Episode(c))
-----------------------------------------------------------------------------
Trace == [pair : Pair, cert : Certificates]
Result == [status : {"NONE", "KNOWN_CERTIFICATE_FOUND", "VERIFIED_FALSE",
                     "VERIFICATION_FAILED", "CONSTRUCTOR_FAILED"},
           cert : Certificates \cup {Nothing}]

\* Every variable stays in its domain, and what an episode keeps of its rows
\* fits its batch.
TypeOK ==
  /\ traces \in Seq(Trace) /\ uncommitted \in [Caller -> Seq(Trace)]
  /\ busy \in 0..MaxBusy /\ critical \in BOOLEAN
  /\ pc \in [Caller -> {"idle", "triage", "import", "insert", "stats", "after"}]
  /\ audited \in [Caller -> BOOLEAN] /\ batch \in [Caller -> Seq(Pair)]
  /\ row \in [Caller -> Nat] /\ found \in [Caller -> SUBSET Nat]
  /\ imported \in [Caller -> Seq({"none", "imported", "skipped_duplicate", "error"})]
  /\ result \in [Caller -> Seq(Result)]
  /\ episode \in [Caller -> 0..MaxEpisodes] /\ episodes \in 0..MaxEpisodes
  /\ given \subseteq Trace /\ sure \in [Caller -> SUBSET Pair]
  /\ \A c \in Caller :
       /\ row[c] \in 1..(Len(batch[c]) + 1) /\ found[c] \subseteq DOMAIN batch[c]
       /\ Len(imported[c]) = Len(batch[c]) /\ Len(result[c]) = Len(batch[c])

\* "LawbookStore now remembers the pair": a certified answer, once given, is
\* the answer to the pair for ever after, whichever episode's certificate won.
AnswersStand == \A a \in given : Oracle(a.pair) = a.cert

\* What an episode is about to answer is already the store's answer, even when
\* another episode imported the pair first.
ResultsStand ==
  \A c \in Caller : \A a \in Answers(c) : Oracle(a.pair) = a.cert

\* run_m0_episode skips what is known: a pair certified to any caller before an
\* episode began is not searched, imported or answered as a failure by it.
RememberedIsNotRetried ==
  \A c \in Caller : \A i \in DOMAIN batch[c] :
    batch[c][i] \in sure[c] =>
      /\ i \notin found[c]
      /\ imported[c][i] = "none"
      /\ pc[c] \in {"import", "insert", "stats", "after"} =>
           result[c][i].status = "KNOWN_CERTIFICATE_FOUND"

\* A row the importer reports as imported is committed, whatever happens to the
\* other rows of its connection.
ImportedIsCommitted ==
  \A c \in Caller : \A i \in DOMAIN imported[c] :
    imported[c][i] = "imported" =>
      \E k \in DOMAIN traces :
        traces[k] = [pair |-> batch[c][i], cert |-> <<episode[c], i>>]

\* A timed-out commit does not keep the store locked: its connection commits
\* the row or closes.
LockIsReleased ==
  \A c \in Caller : uncommitted[c] # << >> ~> uncommitted[c] = << >>

\* allow_duplicate_certificates = False, "exact primitive pair already exists":
\* the store holds at most one primitive row for a pair.
NoDuplicateRow == \A i, j \in DOMAIN traces : traces[i].pair = traces[j].pair => i = j

\* "Countermodel candidate was not imported": a row the importer reports as an
\* error is not in the store.
ErrorMeansAbsent ==
  \A c \in Caller : \A i \in DOMAIN imported[c] :
    imported[c][i] = "error" =>
      \A k \in DOMAIN traces : traces[k].cert # <<episode[c], i>>
-----------------------------------------------------------------------------
\* Each pair has one certificate, its first.
Memory == INSTANCE CertificateMemory WITH
  memory <- [p \in Pair |-> Oracle(p)],
  told   <- given

\* The service implements the memory: a pair is certified once, and every
\* certified answer is the memory's.
RemembersOnce == Memory!MSpec
=============================================================================
