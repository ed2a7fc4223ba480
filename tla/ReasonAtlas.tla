---------------------------- MODULE ReasonAtlas ----------------------------
(* The persistent Reason Atlas (mathgraph/reason_atlas_store.py), written by *)
(* the processes that use it: runs of the closed verification loop           *)
(* (mathgraph/closed_verification_loop.py), breakthrough loops               *)
(* (mathgraph/breakthrough_loop.py), and callers that retire an entry. Both  *)
(* loops ask the promotion gate, and record what follows from its decision   *)
(* one transaction at a time. add_feedback reads and writes in one SQLite    *)
(* transaction; recomputing and retiring read an entry, and write all of it  *)
(* back in a later transaction.                                              *)
EXTENDS PromotionGate, Naturals, FiniteSets, Sequences

CONSTANTS
    Loops,       \* processes with a connection to the one database file
    Entries,     \* entry ids; Absent stands for an id with no row
    MaxRuns,     \* bound on runs of the verification loop and episodes
    MaxSeeds,    \* bound on breakthrough loops constructed
    MaxAttempts, \* bound on attempts of breakthrough loops
    MaxRetires,  \* bound on calls that retire or supersede an entry
    MaxAborts    \* bound on processes killed and calls that raise

ASSUME BoundsAssumption ==
    /\ MaxRuns \in Nat /\ MaxSeeds \in Nat /\ MaxAttempts \in Nat
    /\ MaxRetires \in Nat /\ MaxAborts \in Nat
ASSUME LoopsAssumption == IsFiniteSet(Loops)

VARIABLES
    entries,     \* table reason_atlas_entries: a status and a count per outcome
    rows,        \* table reason_atlas_feedback: how many rows per entry, outcome
    emitted,     \* Lawbook candidates that were handed on or listed, per entry
    pc, todo, held,  \* of each process: place and entry, entries left, what it read
    script,      \* of each process: the outcomes that it still has to record
    seeded,      \* the processes that have constructed a breakthrough loop
    unrecorded,  \* history: emissions whose feedback was lost with the process
    misjudged,   \* history: whether the gate accepted what is not backed, or not what is
    forgot,      \* history: whether an entry with a past was seeded again
    overlapped,  \* history: whether two processes have been busy at once
    runs, seeds, attempts, retires, aborts

tables == <<entries, rows>>
histories == <<unrecorded, misjudged, forgot>>
bounds == <<runs, seeds, attempts, retires, aborts>>
vars == <<tables, emitted, pc, todo, held, script, seeded, histories, overlapped, bounds>>

\* ReasonAtlasFeedbackOutcome, as far as the two loops record it.
Outcomes == {"VERIFIER_SUCCESS", "VERIFIER_FAILURE", "OBSTRUCTION_FOUND",
             "TRANSFER_SUCCESS", "RESIDUAL_COMPRESSED"}
Statuses == {"ACTIVE", "RETIRED", "SUPERSEDED"}
Entry == [status : Statuses, count : [Outcomes -> Nat]]
ASSUME AbsentAssumption == Absent \notin Entry

Fresh == [status |-> "ACTIVE", count |-> [o \in Outcomes |-> 0]]
Exists(e) == entries[e] # Absent
At(l, at, e) == pc[l] = <<at, e>>
Idle(l) == At(l, "idle", Absent)
\* Every step moves one process, and notices whether another is busy.
Goto(l, to, e) ==
    /\ pc' = [pc EXCEPT ![l] = <<to, e>>]
    /\ overlapped' = (overlapped \/ \E k \in Loops \ {l} : ~Idle(k))

Init ==
    /\ entries \in [Entries -> {Absent, Fresh}]
    /\ rows = [e \in Entries |-> Fresh.count]
    /\ emitted = [e \in Entries |-> 0] /\ unrecorded = emitted
    /\ pc = [l \in Loops |-> <<"idle", Absent>>]
    /\ todo = [l \in Loops |-> {}] /\ script = [l \in Loops |-> <<>>]
    /\ held = [l \in Loops |-> Absent] /\ seeded = {}
    /\ misjudged = FALSE /\ forgot = FALSE /\ overlapped = FALSE
    /\ runs = 0 /\ seeds = 0 /\ attempts = 0 /\ retires = 0 /\ aborts = 0

-----------------------------------------------------------------------------
(* Feedback.                                                                 *)

apply_feedback_to_entry(t, o) == [t EXCEPT !.count[o] = @ + 1]

\* Mutant: the entry is not written back.
add_feedback_Unapplied(e, o) ==
    rows' = [rows EXCEPT ![e][o] = @ + 1] /\ UNCHANGED entries

\* Mutant: the event is applied twice.
add_feedback_Twice(e, o) ==
    /\ rows' = [rows EXCEPT ![e][o] = @ + 1]
    /\ entries' = IF Exists(e)
                  THEN [entries EXCEPT ![e] =
                            apply_feedback_to_entry(apply_feedback_to_entry(@, o), o)]
                  ELSE entries

\* One transaction: the row, and the entry read and written back if there is
\* one. The row of an id with no entry is kept without effect.
add_feedback(e, o) ==
    /\ rows' = [rows EXCEPT ![e][o] = @ + 1]
    /\ entries' = IF Exists(e)
                  THEN [entries EXCEPT ![e] = apply_feedback_to_entry(@, o)]
                  ELSE entries

-----------------------------------------------------------------------------
(* The verdict on an attempt, and the feedback that follows from it.         *)

\* What the gate can decide on a certificate, and whether that one is backed.
Verdicts == {[kind |-> evaluate_external_certificate(c), backed |-> Backed(c)] : c \in Certificate}
Accepts(v) == v.kind = "ACCEPT_FOR_LAWBOOK"
Obstructs(v) ==
    v.kind \in {"REJECT_INVALID_BOUNDARY", "REJECT_TERMINAL_MISMATCH", "NEEDS_REPLAY"}
Judged(v) == misjudged' = (misjudged \/ Accepts(v) # v.backed)

\* Each outcome is a transaction of its own.
Success == <<"VERIFIER_SUCCESS">>
Transfer == <<"VERIFIER_SUCCESS", "TRANSFER_SUCCESS", "RESIDUAL_COMPRESSED">>
Failure == <<"VERIFIER_FAILURE">>
\* Mutant: the obstruction is recorded before the failure it explains.
Obstruction_First == <<"OBSTRUCTION_FOUND", "VERIFIER_FAILURE">>
Obstruction == <<"VERIFIER_FAILURE", "OBSTRUCTION_FOUND">>

\* record_verifier_result, record_transfer_result, record_obstruction: the next
\* outcome of a queue row, or of an attempt; after the last the loop goes on.
record(l) ==
    /\ \E e \in Entries, place \in {"row", "attempt"} :
          /\ At(l, place, e) /\ add_feedback(e, Head(script[l]))
          /\ IF Tail(script[l]) # <<>> THEN Goto(l, place, e)
             ELSE Goto(l, IF place = "row" THEN "rows" ELSE "episode", Absent)
    /\ script' = [script EXCEPT ![l] = Tail(@)]
    /\ UNCHANGED <<emitted, todo, held, seeded, histories, bounds>>

-----------------------------------------------------------------------------
(* ClosedVerificationLoop.run: the queue rows it is given, which may name    *)
(* any entry, or else some active ones, one at a time; then every entry is   *)
(* rescored.                                                                 *)

run(l) ==
    /\ Idle(l) /\ runs < MaxRuns /\ runs' = runs + 1
    /\ \E queue_rows \in SUBSET Entries :
          todo' = [todo EXCEPT ![l] = queue_rows]
    /\ Goto(l, "rows", Absent)
    /\ UNCHANGED <<tables, emitted, held, script, seeded, histories, seeds, attempts, retires, aborts>>

\* Mutant: the candidate is not handed to the adapter.
VerifyRow_NoAdapter(l) ==
    /\ At(l, "rows", Absent)
    /\ \E e \in todo[l], v \in Verdicts :
          /\ todo' = [todo EXCEPT ![l] = @ \ {e}] /\ Judged(v)
          /\ Goto(l, "row", e)
          /\ script' = [script EXCEPT ![l] =
                 IF Accepts(v) THEN Success ELSE IF Obstructs(v) THEN Obstruction ELSE Failure]
    /\ UNCHANGED <<tables, emitted, held, seeded, unrecorded, forgot, bounds>>

\* The verifier may return any certificate.
VerifyRow(l) ==
    /\ At(l, "rows", Absent)
    /\ \E e \in todo[l], v \in Verdicts :
          /\ todo' = [todo EXCEPT ![l] = @ \ {e}] /\ Judged(v)
          /\ \/ Accepts(v) /\ Goto(l, "emit", e) /\ UNCHANGED script
             \/ /\ ~Accepts(v) /\ Goto(l, "row", e)
                /\ script' = [script EXCEPT ![l] = IF Obstructs(v) THEN Obstruction ELSE Failure]
    /\ UNCHANGED <<tables, emitted, held, seeded, unrecorded, forgot, bounds>>

EmitCandidate(l) ==
    /\ \E e \in Entries :
          /\ At(l, "emit", e) /\ Goto(l, "row", e)
          /\ emitted' = [emitted EXCEPT ![e] = @ + 1]
    /\ script' = [script EXCEPT ![l] = Success]
    /\ UNCHANGED <<tables, todo, held, seeded, histories, bounds>>

-----------------------------------------------------------------------------
(* BreakthroughLoop.run_episode: each task that is not solved is tried with  *)
(* a constructor, and the entry of that family and constructor gets the      *)
(* feedback; then every entry is rescored.                                   *)

run_episode(l) ==
    /\ Idle(l) /\ l \in seeded /\ Goto(l, "episode", Absent)
    /\ runs < MaxRuns /\ runs' = runs + 1
    /\ UNCHANGED <<tables, emitted, todo, held, script, seeded, histories, seeds, attempts, retires, aborts>>

\* What the loop makes of a table that refutes the implication, and of one that
\* does not.
CountermodelCertificate ==
    [verifier |-> "other", status |-> "refuted", certificate_kind |-> "refutation",
     proposed_terminal_form |-> "REFUTATION_CERTIFICATE",
     boundary_evidence |-> [terminal_form |-> "REFUTATION_CERTIFICATE", promoting |-> TRUE,
                            identified |-> TRUE, traced |-> TRUE, advisory |-> FALSE],
     claims_boundary |-> TRUE, finite_search_miss |-> FALSE, raw_success_text |-> FALSE,
     unsat_proves_claim |-> FALSE, countermodel |-> TRUE]
FailureCertificate ==
    [verifier |-> "other", status |-> "refuted", certificate_kind |-> "ADVISORY_ONLY",
     proposed_terminal_form |-> Absent, boundary_evidence |-> Absent,
     claims_boundary |-> FALSE, finite_search_miss |-> TRUE, raw_success_text |-> FALSE,
     unsat_proves_claim |-> FALSE, countermodel |-> FALSE]

Attempt(l) ==
    /\ At(l, "episode", Absent) /\ attempts < MaxAttempts /\ attempts' = attempts + 1
    /\ \E e \in Entries, cert \in {CountermodelCertificate, FailureCertificate} :
          LET accepted == evaluate_external_certificate(cert) = "ACCEPT_FOR_LAWBOOK" IN
          /\ Goto(l, "attempt", e)
          /\ misjudged' = (misjudged \/ accepted # Backed(cert))
          /\ emitted' = [emitted EXCEPT ![e] = @ + (IF accepted THEN 1 ELSE 0)]
          /\ script' = [script EXCEPT ![l] = IF accepted THEN Transfer ELSE Obstruction]
    /\ UNCHANGED <<tables, todo, held, seeded, unrecorded, forgot, runs, seeds, retires, aborts>>

-----------------------------------------------------------------------------
(* rescore, which ends a run and an episode: recompute_all_scores lists the  *)
(* entries, and then reads and writes each.                                  *)

Rescore(l) ==
    /\ (At(l, "rows", Absent) /\ todo[l] = {}) \/ At(l, "episode", Absent)
    /\ Goto(l, "rescore", Absent)
    /\ todo' = [todo EXCEPT ![l] = {e \in Entries : Exists(e)}]
    /\ UNCHANGED <<tables, emitted, held, script, seeded, histories, bounds>>

\* recompute_entry_scores, its read and its write.
ReadEntry(l) ==
    /\ At(l, "rescore", Absent)
    /\ \E e \in todo[l] :
          /\ held' = [held EXCEPT ![l] = entries[e]]
          /\ todo' = [todo EXCEPT ![l] = @ \ {e}]
          /\ Goto(l, "score", e)
    /\ UNCHANGED <<tables, emitted, script, seeded, histories, bounds>>

\* Mutant: rescoring writes the default status.
WriteEntry_AsNew(l) ==
    /\ \E e \in Entries :
          /\ At(l, "score", e) /\ Goto(l, "rescore", Absent)
          /\ entries' = [entries EXCEPT ![e] = [held[l] EXCEPT !.status = "ACTIVE"]]
    /\ held' = [held EXCEPT ![l] = Absent]
    /\ UNCHANGED <<rows, emitted, todo, script, seeded, histories, bounds>>

WriteEntry(l) ==
    /\ \E e \in Entries :
          /\ At(l, "score", e) /\ Goto(l, "rescore", Absent)
          /\ entries' = [entries EXCEPT ![e] = held[l]]
    /\ held' = [held EXCEPT ![l] = Absent]
    /\ UNCHANGED <<rows, emitted, todo, script, seeded, histories, bounds>>

RunEnds(l) ==
    /\ At(l, "rescore", Absent) /\ todo[l] = {} /\ Goto(l, "idle", Absent)
    /\ UNCHANGED <<tables, emitted, todo, held, script, seeded, histories, bounds>>

-----------------------------------------------------------------------------
(* Retiring and superseding an entry.                                        *)

ReadToRetire(l) ==
    /\ Idle(l) /\ retires < MaxRetires /\ retires' = retires + 1
    /\ \E e \in Entries, s \in Statuses \ {"ACTIVE"} :
          /\ Exists(e)
          /\ held' = [held EXCEPT ![l] = [entries[e] EXCEPT !.status = s]]
          /\ Goto(l, "retire", e)
    /\ UNCHANGED <<tables, emitted, todo, script, seeded, histories, runs, seeds, attempts, aborts>>

WriteRetired(l) ==
    /\ \E e \in Entries :
          /\ At(l, "retire", e) /\ Goto(l, "idle", Absent)
          /\ entries' = [entries EXCEPT ![e] = held[l]]
    /\ held' = [held EXCEPT ![l] = Absent]
    /\ UNCHANGED <<rows, emitted, todo, script, seeded, histories, bounds>>

-----------------------------------------------------------------------------
(* BreakthroughLoop.__init__ ingests its entries with zero counts; each      *)
(* upsert_entry replaces the row that is there and commits.                  *)

SeedEntries(l) ==
    /\ Idle(l) /\ seeds < MaxSeeds /\ seeds' = seeds + 1
    /\ todo' = [todo EXCEPT ![l] = Entries]
    /\ Goto(l, "seed", Absent)
    /\ UNCHANGED <<tables, emitted, held, script, seeded, histories, runs, attempts, retires, aborts>>

SeedNext(l, e) ==
    /\ todo' = [todo EXCEPT ![l] = @ \ {e}]
    /\ Goto(l, IF todo'[l] = {} THEN "idle" ELSE "seed", Absent)
    /\ seeded' = IF todo'[l] = {} THEN seeded \cup {l} ELSE seeded

\* Mutant: the row is written without its counts.
UpsertSeed_StatusOnly(l) ==
    /\ At(l, "seed", Absent)
    /\ \E e \in todo[l] :
          SeedNext(l, e) /\ entries' = [entries EXCEPT ![e] = [status |-> "ACTIVE"]]
    /\ UNCHANGED <<rows, emitted, held, script, histories, bounds>>

UpsertSeed(l) ==
    /\ At(l, "seed", Absent)
    /\ \E e \in todo[l] :
          /\ SeedNext(l, e) /\ entries' = [entries EXCEPT ![e] = Fresh]
          /\ forgot' = (forgot \/ entries[e] \notin {Absent, Fresh} \/ rows[e] # Fresh.count)
    /\ UNCHANGED <<rows, emitted, held, script, unrecorded, misjudged, bounds>>

\* The next outcome of l is the success of a candidate for e that is out.
Pending(l, e) ==
    /\ pc[l] \in {"row", "attempt"} \X {e}
    /\ Head(script[l]) = "VERIFIER_SUCCESS"

\* The process is killed, or a verifier, the adapter or a locked database
\* raises out of the call: what that had in memory is gone.
Abort(l) ==
    /\ ~Idle(l) /\ aborts < MaxAborts /\ aborts' = aborts + 1
    /\ Goto(l, "idle", Absent)
    /\ todo' = [todo EXCEPT ![l] = {}] /\ held' = [held EXCEPT ![l] = Absent]
    /\ script' = [script EXCEPT ![l] = <<>>] /\ seeded' \in {seeded, seeded \ {l}}
    /\ unrecorded' = [e \in Entries |-> unrecorded[e] + (IF Pending(l, e) THEN 1 ELSE 0)]
    /\ UNCHANGED <<tables, emitted, misjudged, forgot, runs, seeds, attempts, retires>>

Step(l) ==
    \/ run(l) \/ VerifyRow(l) \/ EmitCandidate(l) \/ record(l)
    \/ run_episode(l) \/ Attempt(l) \/ Rescore(l) \/ ReadEntry(l) \/ WriteEntry(l) \/ RunEnds(l)
    \/ ReadToRetire(l) \/ WriteRetired(l) \/ SeedEntries(l) \/ UpsertSeed(l) \/ Abort(l)

Next == \E l \in Loops : Step(l)

Spec == Init /\ [][Next]_vars

-----------------------------------------------------------------------------
(* Properties.                                                               *)

Places == {"idle", "rows", "episode", "rescore", "seed"} \X {Absent}
    \cup ({"emit", "row", "attempt", "score", "retire"} \X Entries)
Scripts == {<<>>, Success, Failure, Obstruction, Transfer, Tail(Obstruction),
            Tail(Transfer), Tail(Tail(Transfer))}

\* Every variable stays in its domain.
TypeOK ==
    /\ entries \in [Entries -> Entry \cup {Absent}]
    /\ rows \in [Entries -> [Outcomes -> Nat]]
    /\ emitted \in [Entries -> Nat] /\ unrecorded \in [Entries -> Nat]
    /\ pc \in [Loops -> Places]
    /\ todo \in [Loops -> SUBSET Entries] /\ script \in [Loops -> Scripts]
    /\ held \in [Loops -> Entry \cup {Absent}] /\ seeded \subseteq Loops
    /\ misjudged \in BOOLEAN /\ forgot \in BOOLEAN /\ overlapped \in BOOLEAN
    /\ runs \in 0 .. MaxRuns /\ seeds \in 0 .. MaxSeeds /\ attempts \in 0 .. MaxAttempts
    /\ retires \in 0 .. MaxRetires /\ aborts \in 0 .. MaxAborts

\* No count of an entry exceeds the feedback recorded for it, whatever
\* processes race, die, seed or write back what they read before: the store
\* may forget evidence, it never invents any.
CountsAreBacked ==
    \A e \in Entries, o \in Outcomes : Exists(e) => entries[e].count[o] <= rows[e][o]

\* Every candidate that is handed to the Lawbook adapter or listed by a
\* breakthrough loop is recorded as a success of its entry, exactly once, but
\* for those whose process is about to record it or has died there; and nothing
\* else is recorded as a success.
EmissionsAreRecorded ==
    \A e \in Entries :
        emitted[e] = rows[e]["VERIFIER_SUCCESS"] + unrecorded[e]
                     + Cardinality({l \in Loops : Pending(l, e)})

\* Feedback of one attempt is recorded cause first, so that a process that dies
\* between two of its transactions leaves no effect without its cause: every
\* obstruction of an entry has its failure, every compressed residual its
\* transfer, and every transfer its verified success.
CausesComeFirst ==
    \A e \in Entries :
        /\ rows[e]["OBSTRUCTION_FOUND"] <= rows[e]["VERIFIER_FAILURE"]
        /\ rows[e]["RESIDUAL_COMPRESSED"] <= rows[e]["TRANSFER_SUCCESS"]
        /\ rows[e]["TRANSFER_SUCCESS"] <= rows[e]["VERIFIER_SUCCESS"]

\* What is promoted is backed: over every certificate a verifier can return, the
\* loops emit a candidate just when it carries valid evidence of the form it
\* claims, and never on advice, text or the miss of a finite search.
PromotedIsBacked == ~misjudged

\* As long as processes use the atlas one after the other, and no breakthrough
\* loop seeds an entry that has a past, an entry counts exactly the feedback
\* recorded for it, through aborted runs, rescoring and retirements.
CountsAreExact ==
    (~overlapped /\ ~forgot) =>
        \A e \in Entries, o \in Outcomes : Exists(e) => entries[e].count[o] = rows[e][o]

\* Under the same conditions an entry that was retired or superseded does not
\* become active again.
RetiredStaysRetired ==
    [][(~overlapped' /\ ~forgot') =>
          \A e \in Entries :
              (Exists(e) /\ entries[e].status # "ACTIVE") => entries'[e].status # "ACTIVE"]_vars
=============================================================================
