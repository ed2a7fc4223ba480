-------------------------- MODULE M0ServiceProofs --------------------------
(***************************************************************************)
(* The M0 service for any callers, pairs, batches and number of episodes.  *)
(* The heart of it is that a pair, once it has a certificate, keeps it:    *)
(* rows are only appended, the oldest row of a pair answers, and no row is *)
(* ever inserted for a pair that the warehouse certifies.                  *)
(***************************************************************************)
EXTENDS M0Service, SequenceTheorems, FiniteSetTheorems, WellFoundedInduction, TLAPS

\* An episode has a number, and inserts only rows with a countermodel.
PlaceInv ==
  \A c \in Caller :
    /\ pc[c] # "idle" => episode[c] # 0
    /\ pc[c] \in {"insert", "stats"} => row[c] \in found[c]

\* The row of an episode has its certificate in the store.
Stored(c, i) ==
  \E k \in DOMAIN traces : traces[k] = [pair |-> batch[c][i], cert |-> <<episode[c], i>>]

\* While the importer reads its statistics, the row is committed.
StatsInv == \A c \in Caller : pc[c] = "stats" => Stored(c, row[c])

\* What is searched, and what a connection has not committed, is of pairs that
\* the warehouse does not certify.
SearchInv ==
  \A c \in Caller :
    /\ \A i \in found[c] : batch[c][i] \notin Warehouse
    /\ pc[c] = "triage" =>
         \A i \in 1..Len(batch[c]) :
           i < row[c] /\ result[c][i] = Unresolved => batch[c][i] \notin Warehouse
    /\ Len(uncommitted[c]) <= 1
    /\ uncommitted[c] # << >> => uncommitted[c][1].pair \notin Warehouse

\* What an episode is sure of was answered, and triage finds it.
KnownInv ==
  \A c \in Caller :
    /\ \A p \in sure[c] : \E a \in given : a.pair = p
    /\ pc[c] = "triage" =>
         \A i \in 1..Len(batch[c]) :
           i < row[c] /\ batch[c][i] \in sure[c] =>
             result[c][i].status = "KNOWN_CERTIFICATE_FOUND"

IInv ==
  /\ TypeOK /\ PlaceInv /\ SearchInv /\ KnownInv /\ StatsInv
  /\ AnswersStand /\ ResultsStand /\ RememberedIsNotRetried /\ ImportedIsCommitted
-----------------------------------------------------------------------------
(***************************************************************************)
(* The store answers with the oldest row.                                  *)
(***************************************************************************)
LEMMA LeastNumber ==
  ASSUME NEW T, T \subseteq Nat, T # {}
  PROVE  \E x \in T : \A y \in T : x <= y
<1> DEFINE R == {pair \in Nat \X Nat : pair[1] < pair[2]}
<1>1. IsWellFoundedOn(R, Nat)  BY NatLessThanWellFounded DEF OpToRel
<1>2. \A x, y \in Nat : <<x, y>> \in R <=> x < y  OBVIOUS
<1> HIDE DEF R
<1>3. PICK x \in T : \A y \in T : ~(<<y, x>> \in R)  BY <1>1, WFMin
<1>4. \A y \in T : y \in Nat /\ x \in Nat /\ ~(y < x)  BY <1>2, <1>3
<1>5. \A y \in T : x <= y  BY <1>4
<1> QED BY <1>5

LEMMA OldestRow ==
  ASSUME NEW t \in Seq(Trace), NEW p, Rows(t, p) # {}
  PROVE  /\ get_by_pair(t, p) \in Rows(t, p)
         /\ \A j \in Rows(t, p) : get_by_pair(t, p) <= j
<1>1. Rows(t, p) \in SUBSET Nat
  <2>1. DOMAIN t = 1..Len(t) /\ Len(t) \in Nat  BY LenProperties
  <2> QED BY <2>1 DEF Rows
<1>2. \E i \in Rows(t, p) : \A j \in Rows(t, p) : i <= j
      BY <1>1, LeastNumber
<1> QED BY <1>2 DEF get_by_pair

LEMMA OracleType ==
  ASSUME NEW t \in Seq(Trace), NEW p \in Pair
  PROVE  OracleOn(t, p) \in Certificates \cup {Nothing}
<1>1. CASE Rows(t, p) # {}
  <2>1. get_by_pair(t, p) \in DOMAIN t  BY <1>1, OldestRow DEF Rows
  <2>2. DOMAIN t = 1..Len(t)  BY LenProperties
  <2>3. t[get_by_pair(t, p)] \in Trace  BY <2>1, <2>2, ElementOfSeq
  <2> QED BY <1>1, <2>3 DEF OracleOn, Trace
<1>2. CASE Rows(t, p) = {}
      BY <1>2 DEF OracleOn, Certificates
<1> QED BY <1>1, <1>2

\* Rows that are appended change no answer but that of a pair that had none.
LEMMA OracleGrows ==
  ASSUME NEW t \in Seq(Trace), NEW u \in Seq(Trace), NEW p \in Pair,
         OracleOn(t, p) # Nothing,
         \A i \in 1..Len(u) : u[i].pair \notin Warehouse
  PROVE  OracleOn(t \o u, p) = OracleOn(t, p)
<1> DEFINE v == t \o u
<1>1. /\ Len(t) \in Nat /\ Len(u) \in Nat /\ DOMAIN t = 1..Len(t)
      /\ v \in Seq(Trace) /\ DOMAIN v = 1..(Len(t) + Len(u))
      /\ \A i \in DOMAIN v : v[i] = IF i <= Len(t) THEN t[i] ELSE u[i - Len(t)]
  <2>1. v \in Seq(Trace) /\ Len(v) = Len(t) + Len(u)  BY ConcatProperties
  <2>2. DOMAIN v = 1..Len(v)  BY <2>1, LenProperties
  <2> QED BY <2>1, <2>2, ConcatProperties, LenProperties
<1> HIDE DEF v
<1>2. CASE Rows(t, p) # {}
  <2>1. Rows(t, p) = {i \in Rows(v, p) : i <= Len(t)}
        BY <1>1 DEF Rows
  <2>2. Rows(v, p) # {}  BY <1>2, <2>1
  <2>3. /\ get_by_pair(t, p) \in Rows(t, p)
        /\ \A j \in Rows(t, p) : get_by_pair(t, p) <= j
        BY <1>2, OldestRow
  <2>4. /\ get_by_pair(v, p) \in Rows(v, p)
        /\ \A j \in Rows(v, p) : get_by_pair(v, p) <= j
        BY <2>2, <1>1, OldestRow
  <2>5. get_by_pair(t, p) \in DOMAIN v /\ get_by_pair(v, p) \in DOMAIN v
        BY <2>1, <2>3, <2>4 DEF Rows
  <2>6. get_by_pair(v, p) <= get_by_pair(t, p) /\ get_by_pair(t, p) <= Len(t)
        BY <2>1, <2>3, <2>4
  <2>7. get_by_pair(v, p) \in Rows(t, p)
        BY <1>1, <2>1, <2>4, <2>5, <2>6
  <2>8. get_by_pair(v, p) = get_by_pair(t, p)
        BY <1>1, <2>3, <2>5, <2>6, <2>7
  <2>9. v[get_by_pair(v, p)] = t[get_by_pair(t, p)]
        BY <1>1, <2>5, <2>6, <2>8
  <2> QED BY <1>2, <2>2, <2>9 DEF OracleOn, v
<1>3. CASE Rows(t, p) = {}
  <2>1. p \in Warehouse  BY <1>3 DEF OracleOn
  <2>2. Rows(v, p) = {}
    <3> SUFFICES ASSUME NEW i \in DOMAIN v, v[i].pair = p PROVE FALSE  BY DEF Rows
    <3>1. CASE i <= Len(t)  BY <1>1, <1>3, <3>1 DEF Rows
    <3>2. CASE ~(i <= Len(t))
      <4>1. i - Len(t) \in 1..Len(u)  BY <1>1, <3>2
      <4>2. v[i] = u[i - Len(t)]  BY <1>1, <3>2
      <4> QED BY <2>1, <4>1, <4>2
    <3> QED BY <3>1, <3>2
  <2> QED BY <1>3, <2>2 DEF OracleOn, v
<1> QED BY <1>2, <1>3

-----------------------------------------------------------------------------
(***************************************************************************)
(* Types.                                                                  *)
(***************************************************************************)
LEMMA RowInBatch ==
  ASSUME TypeOK, NEW c \in Caller
  PROVE  /\ Len(batch[c]) \in Nat /\ DOMAIN batch[c] = 1..Len(batch[c])
         /\ DOMAIN imported[c] = 1..Len(batch[c]) /\ DOMAIN result[c] = 1..Len(batch[c])
         /\ InBatch(c) <=> row[c] <= Len(batch[c])
         /\ \A i \in 1..Len(batch[c]) :
              batch[c][i] \in Pair /\ result[c][i] \in Result
<1>1. batch[c] \in Seq(Pair) /\ result[c] \in Seq(Result)  BY DEF TypeOK
<1>2. imported[c] \in Seq({"none", "imported", "skipped_duplicate", "error"})  BY DEF TypeOK
<1>3. /\ row[c] \in 1..(Len(batch[c]) + 1)
      /\ Len(imported[c]) = Len(batch[c]) /\ Len(result[c]) = Len(batch[c])
      BY DEF TypeOK
<1>4. Len(batch[c]) \in Nat /\ DOMAIN batch[c] = 1..Len(batch[c])  BY <1>1, LenProperties
<1>5. DOMAIN imported[c] = 1..Len(batch[c]) /\ DOMAIN result[c] = 1..Len(batch[c])
      BY <1>1, <1>2, <1>3, LenProperties
<1>6. \A i \in 1..Len(batch[c]) : batch[c][i] \in Pair /\ result[c][i] \in Result
      BY <1>1, <1>3, ElementOfSeq
<1> QED BY <1>3, <1>4, <1>5, <1>6 DEF InBatch

\* What Resolve and Report change, and what they leave alone.
LEMMA Resolves ==
  ASSUME TypeOK, NEW c \in Caller, InBatch(c), NEW s, NEW cert,
         [status |-> s, cert |-> cert] \in Result, Resolve(c, s, cert)
  PROVE  /\ result' \in [Caller -> Seq(Result)] /\ Len(result'[c]) = Len(result[c])
         /\ \A d \in Caller \ {c} : result'[d] = result[d]
         /\ result'[c][row[c]] = [status |-> s, cert |-> cert]
         /\ \A i \in 1..Len(batch[c]) : i # row[c] => result'[c][i] = result[c][i]
<1> DEFINE new == [status |-> s, cert |-> cert]
           mine == [result[c] EXCEPT ![row[c]] = new]
<1>1. result[c] \in Seq(Result) /\ result \in [Caller -> Seq(Result)]  BY DEF TypeOK
<1>2. row[c] \in 1..Len(result[c]) /\ Len(result[c]) = Len(batch[c])
  <2>1. row[c] \in 1..(Len(batch[c]) + 1) /\ Len(result[c]) = Len(batch[c])  BY DEF TypeOK
  <2> QED BY <2>1, RowInBatch
<1>3. /\ mine \in Seq(Result) /\ Len(mine) = Len(result[c])
      /\ \A j \in 1..Len(result[c]) : mine[j] = IF j = row[c] THEN new ELSE result[c][j]
      BY <1>1, <1>2, ExceptSeq
<1>4. result' = [result EXCEPT ![c] = mine]  BY DEF Resolve
<1> HIDE DEF mine, new
<1>5. /\ result' \in [Caller -> Seq(Result)] /\ result'[c] = mine
      /\ \A d \in Caller \ {c} : result'[d] = result[d]
      BY <1>1, <1>3, <1>4
<1> QED BY <1>2, <1>3, <1>5 DEF new

LEMMA Reports ==
  ASSUME TypeOK, NEW c \in Caller, InBatch(c),
         NEW s \in {"none", "imported", "skipped_duplicate", "error"}, Report(c, s)
  PROVE  /\ imported' \in [Caller -> Seq({"none", "imported", "skipped_duplicate", "error"})]
         /\ Len(imported'[c]) = Len(imported[c])
         /\ \A d \in Caller \ {c} : imported'[d] = imported[d]
         /\ imported'[c][row[c]] = s
         /\ \A i \in 1..Len(batch[c]) : i # row[c] => imported'[c][i] = imported[c][i]
<1> DEFINE S == {"none", "imported", "skipped_duplicate", "error"}
           mine == [imported[c] EXCEPT ![row[c]] = s]
<1>1. imported[c] \in Seq(S) /\ imported \in [Caller -> Seq(S)]  BY DEF TypeOK
<1>2. row[c] \in 1..Len(imported[c]) /\ Len(imported[c]) = Len(batch[c])
  <2>1. row[c] \in 1..(Len(batch[c]) + 1) /\ Len(imported[c]) = Len(batch[c])  BY DEF TypeOK
  <2> QED BY <2>1, RowInBatch
<1> HIDE DEF S
<1>3. /\ mine \in Seq(S) /\ Len(mine) = Len(imported[c])
      /\ \A j \in 1..Len(imported[c]) : mine[j] = IF j = row[c] THEN s ELSE imported[c][j]
  <2>1. s \in S  BY DEF S
  <2> QED BY <1>1, <1>2, <2>1, ExceptSeq
<1>4. imported' = [imported EXCEPT ![c] = mine]  BY DEF Report
<1> HIDE DEF mine
<1>5. /\ imported' \in [Caller -> Seq(S)] /\ imported'[c] = mine
      /\ \A d \in Caller \ {c} : imported'[d] = imported[d]
      BY <1>1, <1>3, <1>4
<1> QED BY <1>2, <1>3, <1>5 DEF S

\* The row that an episode is about to insert.
LEMMA NewRowType ==
  ASSUME TypeOK, PlaceInv, NEW c \in Caller, pc[c] \in {"insert", "stats"}
  PROVE  InBatch(c) /\ NewRow(c) \in Trace
<1>1. row[c] \in found[c] /\ episode[c] # 0  BY DEF PlaceInv
<1>2. found[c] \subseteq DOMAIN batch[c] /\ episode[c] \in 0..MaxEpisodes /\ row[c] \in Nat
      BY DEF TypeOK
<1>3. InBatch(c)  BY <1>1, <1>2 DEF InBatch
<1>4. ThisPair(c) \in Pair  BY <1>3, RowInBatch DEF InBatch, ThisPair
<1>5. Certificate(c) \in Certificates
      BY <1>1, <1>2, BoundsAssumption DEF Certificate, Certificates
<1> QED BY <1>3, <1>4, <1>5 DEF NewRow, Trace

\* Where an episode begins, and where it ends.
LEMMA BeginType ==
  ASSUME TypeOK, NEW c \in Caller, NEW b \in Seq(Pair), NEW audit \in BOOLEAN,
         Begin(c, b, audit)
  PROVE  TypeOK'
<1> USE DEF Begin, store
<1>1. Len(b) \in Nat /\ DOMAIN b = 1..Len(b)  BY LenProperties
<1>2. [i \in DOMAIN b |-> "none"] \in Seq({"none", "imported", "skipped_duplicate", "error"})
      BY <1>1, IsASeq
<1>3. Unresolved \in Result  BY DEF Unresolved, Result
<1>4. [i \in DOMAIN b |-> Unresolved] \in Seq(Result)  BY <1>1, <1>3, IsASeq
<1>5. /\ Len([i \in DOMAIN b |-> "none"]) = Len(b)
      /\ Len([i \in DOMAIN b |-> Unresolved]) = Len(b)
      BY <1>1
<1>6. /\ traces' \in Seq(Trace) /\ uncommitted' \in [Caller -> Seq(Trace)]
      /\ busy' \in 0..MaxBusy /\ critical' \in BOOLEAN /\ given' \subseteq Trace
      BY DEF TypeOK
<1>7. /\ pc' \in [Caller -> {"idle", "triage", "import", "insert", "stats", "after"}]
      /\ audited' \in [Caller -> BOOLEAN] /\ batch' \in [Caller -> Seq(Pair)]
      /\ row' \in [Caller -> Nat] /\ found' \in [Caller -> SUBSET Nat]
      BY DEF TypeOK
<1>8. /\ imported' \in [Caller -> Seq({"none", "imported", "skipped_duplicate", "error"})]
      /\ result' \in [Caller -> Seq(Result)]
      BY <1>2, <1>4 DEF TypeOK
<1>9. episodes' \in 0..MaxEpisodes /\ episode' \in [Caller -> 0..MaxEpisodes]
      BY BoundsAssumption DEF TypeOK
<1>10. sure' \in [Caller -> SUBSET Pair]
  <2>1. {a.pair : a \in given} \subseteq Pair  BY DEF TypeOK, Trace
  <2> QED BY <2>1 DEF TypeOK
<1>11. ASSUME NEW d \in Caller
       PROVE  /\ row'[d] \in 1..(Len(batch'[d]) + 1) /\ found'[d] \subseteq DOMAIN batch'[d]
              /\ Len(imported'[d]) = Len(batch'[d]) /\ Len(result'[d]) = Len(batch'[d])
  <2>1. CASE d = c
    <3>1. /\ row'[c] = 1 /\ batch'[c] = b /\ found'[c] = {}
          /\ imported'[c] = [i \in DOMAIN b |-> "none"]
          /\ result'[c] = [i \in DOMAIN b |-> Unresolved]
          BY DEF TypeOK
    <3> QED BY <1>1, <1>5, <2>1, <3>1
  <2>2. CASE d # c
    <3>1. /\ row'[d] = row[d] /\ batch'[d] = batch[d] /\ found'[d] = found[d]
          /\ imported'[d] = imported[d] /\ result'[d] = result[d]
          BY <2>2 DEF TypeOK
    <3> QED BY <3>1 DEF TypeOK
  <2> QED BY <2>1, <2>2
<1> QED BY <1>6, <1>7, <1>8, <1>9, <1>10, <1>11 DEF TypeOK

LEMMA ReturnType ==
  ASSUME TypeOK, NEW c \in Caller, Return(c)
  PROVE  /\ pc' \in [Caller -> {"idle", "triage", "import", "insert", "stats", "after"}]
         /\ audited' \in [Caller -> BOOLEAN] /\ batch' \in [Caller -> Seq(Pair)]
         /\ row' \in [Caller -> Nat] /\ found' \in [Caller -> SUBSET Nat]
         /\ imported' \in [Caller -> Seq({"none", "imported", "skipped_duplicate", "error"})]
         /\ result' \in [Caller -> Seq(Result)]
         /\ episode' \in [Caller -> 0..MaxEpisodes] /\ episodes' \in 0..MaxEpisodes
         /\ sure' \in [Caller -> SUBSET Pair]
         /\ \A d \in Caller :
              /\ row'[d] \in 1..(Len(batch'[d]) + 1) /\ found'[d] \subseteq DOMAIN batch'[d]
              /\ Len(imported'[d]) = Len(batch'[d]) /\ Len(result'[d]) = Len(batch'[d])
<1> USE DEF Return, GoTo
<1>1. \A S : << >> \in Seq(S)  BY EmptySeq
<1>2. /\ pc' \in [Caller -> {"idle", "triage", "import", "insert", "stats", "after"}]
      /\ audited' \in [Caller -> BOOLEAN] /\ batch' \in [Caller -> Seq(Pair)]
      /\ row' \in [Caller -> Nat] /\ found' \in [Caller -> SUBSET Nat]
      BY <1>1 DEF TypeOK
<1>3. /\ imported' \in [Caller -> Seq({"none", "imported", "skipped_duplicate", "error"})]
      /\ result' \in [Caller -> Seq(Result)]
      BY <1>1 DEF TypeOK
<1>4. /\ episode' \in [Caller -> 0..MaxEpisodes] /\ episodes' \in 0..MaxEpisodes
      /\ sure' \in [Caller -> SUBSET Pair]
      BY BoundsAssumption DEF TypeOK
<1>5. ASSUME NEW d \in Caller
      PROVE  /\ row'[d] \in 1..(Len(batch'[d]) + 1) /\ found'[d] \subseteq DOMAIN batch'[d]
             /\ Len(imported'[d]) = Len(batch'[d]) /\ Len(result'[d]) = Len(batch'[d])
  <2>1. CASE d = c
    <3>1. /\ row'[c] = 1 /\ batch'[c] = << >> /\ found'[c] = {}
          /\ imported'[c] = << >> /\ result'[c] = << >>
          BY DEF TypeOK
    <3> QED BY <2>1, <3>1
  <2>2. CASE d # c
    <3>1. /\ row'[d] = row[d] /\ batch'[d] = batch[d] /\ found'[d] = found[d]
          /\ imported'[d] = imported[d] /\ result'[d] = result[d]
          BY <2>2 DEF TypeOK
    <3> QED BY <3>1 DEF TypeOK
  <2> QED BY <2>1, <2>2
<1> QED BY <1>2, <1>3, <1>4, <1>5

\* A caller's step.
Step(c) ==
  \/ \E p \in Pair : Query(c, p) \/ Submit(c, p)
  \/ \E b \in Batches : RunEpisode(c, b)
  \/ Episode(c)

LEMMA Advances ==
  ASSUME TypeOK, NEW c \in Caller, InBatch(c), NextRow(c)
  PROVE  /\ row' \in [Caller -> Nat]
         /\ \A d \in Caller : row'[d] \in 1..(Len(batch[d]) + 1)
         /\ row'[c] = row[c] + 1 /\ \A d \in Caller \ {c} : row'[d] = row[d]
<1>1. row[c] <= Len(batch[c]) /\ Len(batch[c]) \in Nat  BY RowInBatch
<1>2. row \in [Caller -> Nat] /\ \A d \in Caller : row[d] \in 1..(Len(batch[d]) + 1)
      BY DEF TypeOK
<1>3. row' = [row EXCEPT ![c] = row[c] + 1]  BY DEF NextRow
<1> QED BY <1>1, <1>2, <1>3

LEMMA Moves ==
  ASSUME TypeOK, NEW c \in Caller,
         NEW to \in {"idle", "triage", "import", "insert", "stats", "after"}, GoTo(c, to)
  PROVE  /\ pc' \in [Caller -> {"idle", "triage", "import", "insert", "stats", "after"}]
         /\ pc'[c] = to /\ \A d \in Caller \ {c} : pc'[d] = pc[d]
BY DEF TypeOK, GoTo

\* Every answer of an episode is an answer.
LEMMA AnswersType ==
  ASSUME TypeOK, NEW c \in Caller
  PROVE  Answers(c) \subseteq Trace
<1> SUFFICES ASSUME NEW i \in DOMAIN batch[c], result[c][i].cert # Nothing
    PROVE  Certified(batch[c][i], result[c][i].cert) \in Trace
    BY DEF Answers
<1>1. batch[c][i] \in Pair /\ result[c][i] \in Result  BY RowInBatch
<1> QED BY <1>1 DEF Certified, Trace, Result

LEMMA TypeStep ==
  ASSUME TypeOK, PlaceInv, NEW c \in Caller, Step(c)
  PROVE  TypeOK'
<1>1. ASSUME NEW p \in Pair, Query(c, p) PROVE TypeOK'
  <2>1. Certified(p, Oracle(p)) \in Trace
        BY <1>1, OracleType DEF Query, Oracle, Certified, Trace, TypeOK
  <2>2. given' \subseteq Trace  BY <1>1, <2>1 DEF Query, TypeOK
  <2> QED BY <1>1, <2>2 DEF Query, store, run, TypeOK
<1>2. ASSUME NEW p \in Pair, Submit(c, p) PROVE TypeOK'
  <2>1. <<p>> \in Seq(Pair)  OBVIOUS
  <2> QED BY <1>2, <2>1, BeginType DEF Submit
<1>3. ASSUME NEW b \in Batches, RunEpisode(c, b) PROVE TypeOK'
      BY <1>3, BatchesAssumption, BeginType DEF RunEpisode
<1>4. CASE Triage(c)
  <2> USE <1>4 DEF Triage, store
  <2>1. /\ row' \in [Caller -> Nat]
        /\ \A d \in Caller : row'[d] \in 1..(Len(batch[d]) + 1)
        BY Advances
  <2>2. result' \in [Caller -> Seq(Result)] /\ \A d \in Caller : Len(result'[d]) = Len(batch[d])
    <3>1. CASE UNCHANGED result  BY <3>1 DEF TypeOK
    <3>2. CASE /\ Oracle(ThisPair(c)) # Nothing
               /\ Resolve(c, "KNOWN_CERTIFICATE_FOUND", Oracle(ThisPair(c)))
      <4>1. ThisPair(c) \in Pair  BY RowInBatch DEF InBatch, ThisPair
      <4>2. Oracle(ThisPair(c)) \in Certificates \cup {Nothing}
            BY <4>1, OracleType DEF Oracle, TypeOK
      <4>3. [status |-> "KNOWN_CERTIFICATE_FOUND", cert |-> Oracle(ThisPair(c))] \in Result
            BY <4>2 DEF Result
      <4>4. /\ result' \in [Caller -> Seq(Result)] /\ Len(result'[c]) = Len(result[c])
            /\ \A d \in Caller \ {c} : result'[d] = result[d]
            BY <3>2, <4>3, Resolves
      <4>5. \A d \in Caller : Len(result[d]) = Len(batch[d])  BY DEF TypeOK
      <4> QED BY <4>4, <4>5
    <3> QED BY <3>1, <3>2
  <2> QED BY <2>1, <2>2 DEF TypeOK
<1>5. ASSUME NEW F \in SUBSET DOMAIN batch[c], Execute(c, F) PROVE TypeOK'
  <2> USE <1>5 DEF Execute, store
  <2>1. pc' \in [Caller -> {"idle", "triage", "import", "insert", "stats", "after"}]  BY Moves
  <2>2. DOMAIN batch[c] \subseteq Nat /\ Len(batch[c]) \in Nat  BY RowInBatch
  <2>3. found' \in [Caller -> SUBSET Nat] /\ \A d \in Caller : found'[d] \subseteq DOMAIN batch[d]
        BY <2>2 DEF TypeOK
  <2>4. row' \in [Caller -> Nat] /\ \A d \in Caller : row'[d] \in 1..(Len(batch[d]) + 1)
        BY <2>2 DEF TypeOK
  <2> QED BY <2>1, <2>3, <2>4 DEF TypeOK
<1>6. CASE ImportCheck(c)
  <2> USE <1>6 DEF ImportCheck, store
  <2>1. pc' \in [Caller -> {"idle", "triage", "import", "insert", "stats", "after"}]
        BY Moves DEF TypeOK
  <2>2. row' \in [Caller -> Nat] /\ \A d \in Caller : row'[d] \in 1..(Len(batch[d]) + 1)
        BY Advances DEF TypeOK
  <2>3. /\ imported' \in [Caller -> Seq({"none", "imported", "skipped_duplicate", "error"})]
        /\ \A d \in Caller : Len(imported'[d]) = Len(batch[d])
    <3>1. CASE UNCHANGED imported  BY <3>1 DEF TypeOK
    <3>2. CASE Report(c, "skipped_duplicate")
      <4>1. /\ imported' \in [Caller -> Seq({"none", "imported", "skipped_duplicate", "error"})]
            /\ Len(imported'[c]) = Len(imported[c])
            /\ \A d \in Caller \ {c} : imported'[d] = imported[d]
            BY <3>2, Reports
      <4>2. \A d \in Caller : Len(imported[d]) = Len(batch[d])  BY DEF TypeOK
      <4> QED BY <4>1, <4>2
    <3> QED BY <3>1, <3>2
  <2> QED BY <2>1, <2>2, <2>3 DEF TypeOK
<1>7. CASE InitSchema(c)
  <2>1. traces' \in Seq(Trace) /\ uncommitted' \in [Caller -> Seq(Trace)]
    <3>1. traces \in Seq(Trace) /\ uncommitted[c] \in Seq(Trace)  BY DEF TypeOK
    <3>2. traces \o uncommitted[c] \in Seq(Trace)  BY <3>1, ConcatProperties
    <3>3. << >> \in Seq(Trace)  BY EmptySeq
    <3> QED BY <1>7, <3>2, <3>3 DEF InitSchema, TypeOK
  <2> QED BY <1>7, <2>1 DEF InitSchema, run, TypeOK
<1>8. ASSUME pc[c] \in {"insert", "stats"}, NEW s \in {"imported", "error"}, Report(c, s), NextRow(c),
             GoTo(c, "import"), traces' \in Seq(Trace), uncommitted' \in [Caller -> Seq(Trace)],
             busy' \in 0..MaxBusy,
             UNCHANGED <<critical, audited, batch, found, result, episode, episodes, given, sure>>
      PROVE  TypeOK'
  <2>1. InBatch(c)  BY <1>8, NewRowType
  <2>2. pc' \in [Caller -> {"idle", "triage", "import", "insert", "stats", "after"}]  BY <1>8, Moves
  <2>3. row' \in [Caller -> Nat] /\ \A d \in Caller : row'[d] \in 1..(Len(batch[d]) + 1)
        BY <1>8, <2>1, Advances
  <2>4. /\ imported' \in [Caller -> Seq({"none", "imported", "skipped_duplicate", "error"})]
        /\ Len(imported'[c]) = Len(imported[c])
        /\ \A d \in Caller \ {c} : imported'[d] = imported[d]
        BY <1>8, <2>1, Reports
  <2>5. \A d \in Caller : Len(imported'[d]) = Len(batch[d])  BY <2>4 DEF TypeOK
  <2> QED BY <1>8, <2>2, <2>3, <2>4, <2>5 DEF TypeOK
<1>9. CASE Insert(c)
  <2>1. traces \in Seq(Trace) /\ NewRow(c) \in Trace  BY <1>9, NewRowType DEF Insert, TypeOK
  <2>2. traces' \in Seq(Trace)  BY <1>9, <2>1, AppendProperties DEF Insert
  <2>3. pc' \in [Caller -> {"idle", "triage", "import", "insert", "stats", "after"}]
        BY <1>9, Moves DEF Insert
  <2> QED BY <1>9, <2>2, <2>3 DEF Insert, run, TypeOK
<1>10. CASE CommitBusy(c)
  <2>1. NewRow(c) \in Trace  BY <1>10, NewRowType DEF CommitBusy
  <2>2. <<NewRow(c)>> \in Seq(Trace)  BY <2>1
  <2>3. uncommitted' \in [Caller -> Seq(Trace)]  BY <1>10, <2>2 DEF CommitBusy, TypeOK
  <2>4. busy' \in 0..MaxBusy  BY <1>10, BoundsAssumption DEF CommitBusy, TypeOK
  <2> QED BY <1>8, <1>10, <2>3, <2>4 DEF CommitBusy, ImportError, TypeOK
<1>11. CASE SchemaBusy(c)
  <2>1. busy' \in 0..MaxBusy  BY <1>11, BoundsAssumption DEF SchemaBusy, TypeOK
  <2> QED BY <1>8, <1>11, <2>1 DEF SchemaBusy, ImportError, TypeOK
<1>12. CASE InsertLocked(c) \/ StatsLocked(c)
       BY <1>8, <1>12 DEF InsertLocked, StatsLocked, ImportError, TypeOK
<1>17. CASE Stats(c)
       BY <1>8, <1>17 DEF Stats, store, TypeOK
<1>13. CASE CloseImport(c)
  <2> USE <1>13 DEF CloseImport
  <2>1. pc' \in [Caller -> {"idle", "triage", "import", "insert", "stats", "after"}]  BY Moves
  <2>2. << >> \in Seq(Trace)  BY EmptySeq
  <2>3. uncommitted' \in [Caller -> Seq(Trace)]  BY <2>2 DEF TypeOK
  <2>4. \A d \in Caller : Len(batch[d]) \in Nat  BY RowInBatch
  <2>5. row' \in [Caller -> Nat] /\ \A d \in Caller : row'[d] \in 1..(Len(batch[d]) + 1)
        BY <2>4 DEF TypeOK
  <2> QED BY <2>1, <2>3, <2>5 DEF TypeOK
<1>14. CASE After(c)
  <2> USE <1>14 DEF After, store
  <2>1. /\ row' \in [Caller -> Nat]
        /\ \A d \in Caller : row'[d] \in 1..(Len(batch[d]) + 1)
        BY Advances
  <2>2. result' \in [Caller -> Seq(Result)] /\ \A d \in Caller : Len(result'[d]) = Len(batch[d])
    <3>1. CASE UNCHANGED result  BY <3>1 DEF TypeOK
    <3>2. CASE \E s, cert : [status |-> s, cert |-> cert] \in Result /\ Resolve(c, s, cert)
      <4>1. /\ result' \in [Caller -> Seq(Result)] /\ Len(result'[c]) = Len(result[c])
            /\ \A d \in Caller \ {c} : result'[d] = result[d]
            BY <3>2, Resolves
      <4>2. \A d \in Caller : Len(result[d]) = Len(batch[d])  BY DEF TypeOK
      <4> QED BY <4>1, <4>2
    <3>3. ThisPair(c) \in Pair  BY RowInBatch DEF InBatch, ThisPair
    <3>4. Oracle(ThisPair(c)) \in Certificates \cup {Nothing}
          BY <3>3, OracleType DEF Oracle, TypeOK
    <3>5. CASE Resolve(c, "VERIFIED_FALSE", Oracle(ThisPair(c)))
      <4>1. [status |-> "VERIFIED_FALSE", cert |-> Oracle(ThisPair(c))] \in Result
            BY <3>4 DEF Result
      <4> QED BY <3>2, <3>5, <4>1
    <3>6. ASSUME NEW s \in {"VERIFICATION_FAILED", "CONSTRUCTOR_FAILED"}, Resolve(c, s, Nothing)
          PROVE  /\ result' \in [Caller -> Seq(Result)]
                 /\ \A d \in Caller : Len(result'[d]) = Len(batch[d])
      <4>1. [status |-> s, cert |-> Nothing] \in Result  BY DEF Result
      <4> QED BY <3>2, <3>6, <4>1
    <3> QED BY <3>1, <3>5, <3>6
  <2> QED BY <2>1, <2>2 DEF TypeOK
<1>15. CASE Finish(c)
  <2>1. given' \subseteq Trace  BY <1>15, AnswersType DEF Finish, TypeOK
  <2>2. traces' \in Seq(Trace) /\ uncommitted' \in [Caller -> Seq(Trace)]
        BY <1>15 DEF Finish, store, TypeOK
  <2>3. busy' \in 0..MaxBusy /\ critical' \in BOOLEAN  BY <1>15 DEF Finish, store, TypeOK
  <2>4. Return(c)  BY <1>15 DEF Finish
  <2> QED BY <2>1, <2>2, <2>3, <2>4, ReturnType DEF TypeOK
<1>16. CASE Abort(c)
  <2>1. << >> \in Seq(Trace)  BY EmptySeq
  <2>2. uncommitted' \in [Caller -> Seq(Trace)]  BY <1>16, <2>1 DEF Abort, TypeOK
  <2>3. traces' \in Seq(Trace) /\ given' \subseteq Trace  BY <1>16 DEF Abort, TypeOK
  <2>4. busy' \in 0..MaxBusy /\ critical' \in BOOLEAN  BY <1>16 DEF Abort, TypeOK
  <2>5. Return(c)  BY <1>16 DEF Abort
  <2> QED BY <2>2, <2>3, <2>4, <2>5, ReturnType DEF TypeOK
<1> QED BY <1>1, <1>2, <1>3, <1>4, <1>5, <1>6, <1>7, <1>9, <1>10, <1>11, <1>12, <1>13,
           <1>14, <1>15, <1>16, <1>17 DEF Step, Episode

-----------------------------------------------------------------------------
(***************************************************************************)
(* Steps.                                                                  *)
(***************************************************************************)

\* What is one caller's own is left alone by the others.
Own(d) == <<pc[d], batch[d], row[d], found[d], imported[d], result[d], episode[d], sure[d],
            uncommitted[d]>>

LEMMA OthersKeepTheirs ==
  ASSUME TypeOK, NEW c \in Caller, Step(c), NEW d \in Caller \ {c}
  PROVE  Own(d)' = Own(d)
<1> USE DEF Own
<1>1. CASE \E p \in Pair : Query(c, p)
      BY <1>1 DEF Query, store, run
<1>2. CASE \E b, audit : Begin(c, b, audit)
      BY <1>2 DEF Begin, store, TypeOK
<1>3. CASE Triage(c)
      BY <1>3 DEF Triage, store, NextRow, Resolve, TypeOK
<1>4. CASE \E F : Execute(c, F)
      BY <1>4 DEF Execute, store, GoTo, TypeOK
<1>5. CASE ImportCheck(c)
      BY <1>5 DEF ImportCheck, store, GoTo, Report, NextRow, TypeOK
<1>6. CASE InitSchema(c)
      BY <1>6 DEF InitSchema, run, TypeOK
<1>7. CASE Insert(c)
      BY <1>7 DEF Insert, run, GoTo, TypeOK
<1>8. CASE CommitBusy(c) \/ SchemaBusy(c) \/ InsertLocked(c) \/ Stats(c) \/ StatsLocked(c)
      BY <1>8 DEF CommitBusy, SchemaBusy, InsertLocked, Stats, StatsLocked, ImportError, store,
                  Report, NextRow, GoTo, TypeOK
<1>9. CASE CloseImport(c)
      BY <1>9 DEF CloseImport, GoTo, TypeOK
<1>10. CASE After(c)
       BY <1>10 DEF After, store, NextRow, Resolve, TypeOK
<1>11. CASE Finish(c)
       BY <1>11 DEF Finish, Return, store, GoTo, TypeOK
<1>12. CASE Abort(c)
       BY <1>12 DEF Abort, Return, GoTo, TypeOK
<1> QED BY <1>1, <1>2, <1>3, <1>4, <1>5, <1>6, <1>7, <1>8, <1>9, <1>10, <1>11, <1>12
        DEF Step, Episode, Submit, RunEpisode

LEMMA PlaceStep ==
  ASSUME TypeOK, PlaceInv, NEW c \in Caller, Step(c)
  PROVE  PlaceInv'
<1>1. ASSUME NEW d \in Caller \ {c}
      PROVE  /\ pc'[d] # "idle" => episode'[d] # 0
             /\ pc'[d] \in {"insert", "stats"} => row'[d] \in found'[d]
      BY OthersKeepTheirs DEF Own, PlaceInv
<1> DEFINE Placed == /\ pc'[c] # "idle" => episode'[c] # 0
                     /\ pc'[c] \in {"insert", "stats"} => row'[c] \in found'[c]
<1>2. ASSUME \E p \in Pair : Query(c, p) PROVE Placed
      BY <1>2 DEF Query, run, PlaceInv
<1>3. ASSUME NEW b, NEW audit, Begin(c, b, audit) PROVE Placed
  <2>1. pc'[c] = "triage" /\ episode'[c] = episodes + 1  BY <1>3 DEF Begin, TypeOK
  <2>2. episodes + 1 # 0  BY BoundsAssumption DEF TypeOK
  <2> QED BY <2>1, <2>2
<1>4. ASSUME Triage(c) PROVE Placed
      BY <1>4 DEF Triage, PlaceInv
<1>5. ASSUME \E F : Execute(c, F) PROVE Placed
      BY <1>5 DEF Execute, GoTo, PlaceInv, TypeOK
<1>6. ASSUME ImportCheck(c) PROVE Placed
      BY <1>6 DEF ImportCheck, GoTo, PlaceInv, TypeOK
<1>7. ASSUME InitSchema(c) PROVE Placed
      BY <1>7 DEF InitSchema, run, PlaceInv
<1>8. ASSUME \/ Insert(c) \/ CommitBusy(c) \/ SchemaBusy(c) \/ InsertLocked(c)
             \/ Stats(c) \/ StatsLocked(c)
      PROVE  Placed
      BY <1>8 DEF Insert, CommitBusy, SchemaBusy, InsertLocked, Stats, StatsLocked, ImportError,
                  GoTo, run, PlaceInv, TypeOK
<1>9. ASSUME CloseImport(c) PROVE Placed
      BY <1>9 DEF CloseImport, GoTo, PlaceInv, TypeOK
<1>10. ASSUME After(c) PROVE Placed
       BY <1>10 DEF After, PlaceInv
<1>11. ASSUME Return(c) PROVE Placed
       BY <1>11 DEF Return, GoTo, TypeOK
<1>12. Placed
       BY <1>2, <1>3, <1>4, <1>5, <1>6, <1>7, <1>8, <1>9, <1>10, <1>11
       DEF Step, Episode, Submit, RunEpisode, Finish, Abort
<1> QED BY <1>1, <1>12 DEF PlaceInv

LEMMA SearchStep ==
  ASSUME TypeOK, PlaceInv, SearchInv, NEW c \in Caller, Step(c)
  PROVE  SearchInv'
<1> DEFINE Searched(d) ==
      /\ \A i \in found[d] : batch[d][i] \notin Warehouse
      /\ pc[d] = "triage" =>
           \A i \in 1..Len(batch[d]) :
             i < row[d] /\ result[d][i] = Unresolved => batch[d][i] \notin Warehouse
      /\ Len(uncommitted[d]) <= 1
      /\ uncommitted[d] # << >> => uncommitted[d][1].pair \notin Warehouse
<1>1. \A d \in Caller : Searched(d)  BY DEF SearchInv
<1>2. ASSUME NEW d \in Caller \ {c} PROVE Searched(d)'
      BY <1>1, OthersKeepTheirs DEF Own
<1>3. ASSUME \E p \in Pair : Query(c, p) PROVE Searched(c)'
      BY <1>1, <1>3 DEF Query, run, store
<1>4. ASSUME NEW b, NEW audit, Begin(c, b, audit) PROVE Searched(c)'
  <2>1. found'[c] = {} /\ row'[c] = 1 /\ uncommitted' = uncommitted
        BY <1>4 DEF Begin, store, TypeOK
  <2>2. \A i \in 1..Len(batch'[c]) : ~(i < 1)  OBVIOUS
  <2> QED BY <1>1, <2>1, <2>2
<1>5. ASSUME Triage(c) PROVE Searched(c)'
  <2> USE <1>5 DEF Triage, store
  <2>1. row'[c] = row[c] + 1 /\ row[c] \in Nat  BY Advances DEF TypeOK
  <2>2. InBatch(c)  OBVIOUS
  <2>3. ASSUME NEW i \in 1..Len(batch[c]), i < row'[c], result'[c][i] = Unresolved
        PROVE  batch[c][i] \notin Warehouse
    <3>1. CASE Oracle(ThisPair(c)) # Nothing
      <4>1. ThisPair(c) \in Pair  BY RowInBatch DEF InBatch, ThisPair
      <4>2. Oracle(ThisPair(c)) \in Certificates \cup {Nothing}
            BY <4>1, OracleType DEF Oracle, TypeOK
      <4>3. [status |-> "KNOWN_CERTIFICATE_FOUND", cert |-> Oracle(ThisPair(c))] \in Result
            BY <4>2 DEF Result
      <4>4. Resolve(c, "KNOWN_CERTIFICATE_FOUND", Oracle(ThisPair(c)))  BY <3>1
      <4>5. /\ result'[c][row[c]] = [status |-> "KNOWN_CERTIFICATE_FOUND",
                                     cert   |-> Oracle(ThisPair(c))]
            /\ \A j \in 1..Len(batch[c]) : j # row[c] => result'[c][j] = result[c][j]
            BY <4>3, <4>4, Resolves
      <4>6. i # row[c]  BY <2>3, <4>5 DEF Unresolved
      <4>7. i < row[c]  BY <2>1, <2>3, <4>6
      <4> QED BY <1>1, <2>3, <4>5, <4>6, <4>7
    <3>2. CASE Oracle(ThisPair(c)) = Nothing
      <4>1. result' = result  BY <3>2
      <4>2. CASE i = row[c]
        <5>1. batch[c][i] = ThisPair(c) /\ batch[c][i] \in Pair  BY <4>2, RowInBatch DEF ThisPair
        <5>2. batch[c][i] \in Warehouse /\ Rows(traces, batch[c][i]) = {} =>
                OracleOn(traces, batch[c][i]) \in Certificates
              BY <5>1 DEF OracleOn, Certificates
        <5>3. Rows(traces, batch[c][i]) # {} => OracleOn(traces, batch[c][i]) \in Certificates
          <6> SUFFICES ASSUME Rows(traces, batch[c][i]) # {}
              PROVE  OracleOn(traces, batch[c][i]) \in Certificates
              OBVIOUS
          <6>1. traces \in Seq(Trace)  BY DEF TypeOK
          <6>2. get_by_pair(traces, batch[c][i]) \in DOMAIN traces  BY <6>1, OldestRow DEF Rows
          <6>3. traces[get_by_pair(traces, batch[c][i])] \in Trace
                BY <6>1, <6>2, LenProperties, ElementOfSeq
          <6> QED BY <6>3 DEF OracleOn, Trace
        <5> QED BY <3>2, <5>1, <5>2, <5>3, NothingAssumption DEF Oracle
      <4>3. CASE i # row[c]
        <5>1. i < row[c]  BY <2>1, <2>3, <4>3
        <5> QED BY <1>1, <2>3, <4>1, <5>1
      <4> QED BY <4>2, <4>3
    <3> QED BY <3>1, <3>2
  <2> QED BY <1>1, <2>3
<1>6. ASSUME NEW F, Execute(c, F) PROVE Searched(c)'
  <2>1. /\ F \subseteq Unknown(c) /\ found'[c] = F /\ pc'[c] = "import"
        /\ batch' = batch /\ uncommitted' = uncommitted
        BY <1>6 DEF Execute, store, GoTo, TypeOK
  <2>2. pc[c] = "triage" /\ ~InBatch(c)  BY <1>6 DEF Execute
  <2>3. \A i \in 1..Len(batch[c]) : i < row[c]
        BY <2>2, RowInBatch DEF TypeOK
  <2>4. \A i \in F : i \in 1..Len(batch[c]) /\ result[c][i] = Unresolved
        BY <2>1, RowInBatch DEF Unknown
  <2> QED BY <1>1, <2>1, <2>2, <2>3, <2>4
<1>7. ASSUME ImportCheck(c) PROVE Searched(c)'
  <2>1. pc'[c] \in {"import", "insert"}  BY <1>7 DEF ImportCheck, GoTo, TypeOK
  <2> QED BY <1>1, <1>7, <2>1 DEF ImportCheck, store
<1>8. ASSUME InitSchema(c) PROVE Searched(c)'
  <2>1. uncommitted'[c] = << >> /\ pc'[c] # "triage"  BY <1>8 DEF InitSchema, TypeOK
  <2> QED BY <1>1, <1>8, <2>1 DEF InitSchema, run
<1>9. ASSUME Insert(c) \/ SchemaBusy(c) \/ InsertLocked(c) \/ Stats(c) \/ StatsLocked(c)
      PROVE  Searched(c)'
  <2>1. /\ pc'[c] \in {"import", "stats"} /\ found' = found /\ batch' = batch
        /\ uncommitted' = uncommitted
        BY <1>9 DEF Insert, SchemaBusy, InsertLocked, Stats, StatsLocked, ImportError, GoTo,
                    run, store, TypeOK
  <2> QED BY <1>1, <2>1
<1>10. ASSUME CommitBusy(c) PROVE Searched(c)'
  <2>1. /\ pc'[c] = "import" /\ found' = found /\ batch' = batch
        /\ uncommitted'[c] = <<NewRow(c)>>
        BY <1>10 DEF CommitBusy, ImportError, GoTo, TypeOK
  <2>2. row[c] \in found[c]  BY <1>10 DEF CommitBusy, PlaceInv
  <2>3. NewRow(c).pair \notin Warehouse  BY <1>1, <2>2 DEF NewRow, ThisPair
  <2> QED BY <1>1, <2>1, <2>3
<1>11. ASSUME CloseImport(c) PROVE Searched(c)'
  <2>1. /\ pc'[c] = "after" /\ found' = found /\ batch' = batch /\ uncommitted'[c] = << >>
        BY <1>11 DEF CloseImport, GoTo, TypeOK
  <2> QED BY <1>1, <2>1
<1>12. ASSUME After(c) PROVE Searched(c)'
       BY <1>1, <1>12 DEF After, store
<1>13. ASSUME Finish(c) \/ Abort(c) PROVE Searched(c)'
  <2>1. pc'[c] = "idle" /\ found'[c] = {}
        BY <1>13 DEF Finish, Abort, Return, GoTo, TypeOK
  <2>2. uncommitted'[c] = uncommitted[c] \/ uncommitted'[c] = << >>
        BY <1>13 DEF Finish, Abort, store, TypeOK
  <2> QED BY <1>1, <2>1, <2>2
<1>14. Searched(c)'
       BY <1>3, <1>4, <1>5, <1>6, <1>7, <1>8, <1>9, <1>10, <1>11, <1>12, <1>13
       DEF Step, Episode, Submit, RunEpisode
<1>15. \A d \in Caller : Searched(d)'  BY <1>2, <1>14
<1> QED BY <1>15 DEF SearchInv

-----------------------------------------------------------------------------
(***************************************************************************)
(* Answers.                                                                *)
(***************************************************************************)

\* The committed rows are appended to, one at most at a time, and never for a
\* pair of the warehouse.
LEMMA TracesGrow ==
  ASSUME TypeOK, PlaceInv, SearchInv, NEW c \in Caller, Step(c)
  PROVE  \E u \in Seq(Trace) :
           /\ traces' = traces \o u /\ Len(u) <= 1
           /\ \A i \in 1..Len(u) : u[i].pair \notin Warehouse
<1>1. traces \in Seq(Trace) /\ uncommitted[c] \in Seq(Trace)  BY DEF TypeOK
<1>2. CASE InitSchema(c)
  <2>1. traces' = traces \o uncommitted[c]  BY <1>2 DEF InitSchema
  <2>2. uncommitted[c] # << >>  BY <1>2 DEF InitSchema
  <2>3. /\ Len(uncommitted[c]) <= 1 /\ Len(uncommitted[c]) \in Nat
        /\ uncommitted[c][1].pair \notin Warehouse
        BY <1>1, <2>2, LenProperties DEF SearchInv
  <2>4. \A i \in 1..Len(uncommitted[c]) : i = 1  BY <2>3
  <2> QED BY <1>1, <2>1, <2>3, <2>4
<1>3. CASE Insert(c)
  <2>1. row[c] \in found[c] /\ NewRow(c) \in Trace
        BY <1>3, NewRowType DEF Insert, PlaceInv
  <2>2. NewRow(c).pair \notin Warehouse  BY <2>1 DEF SearchInv, NewRow, ThisPair
  <2>3. traces' = traces \o <<NewRow(c)>>  BY <1>1, <1>3, <2>1, AppendIsConcat DEF Insert
  <2> DEFINE u == <<NewRow(c)>>
  <2>4. u \in Seq(Trace) /\ Len(u) = 1 /\ u[1] = NewRow(c)  BY <2>1
  <2>5. traces' = traces \o u  BY <2>3
  <2> HIDE DEF u
  <2>6. \A i \in 1..Len(u) : u[i].pair \notin Warehouse  BY <2>2, <2>4
  <2>7. Len(u) <= 1  BY <2>4
  <2> QED BY <2>4, <2>5, <2>6, <2>7
<1>4. CASE traces' = traces
  <2> DEFINE u == << >>
  <2>1. traces' = traces \o u  BY <1>1, <1>4, ConcatEmptySeq
  <2>2. u \in Seq(Trace) /\ Len(u) = 0  BY EmptySeq
  <2> HIDE DEF u
  <2>3. Len(u) <= 1 /\ \A i \in 1..Len(u) : u[i].pair \notin Warehouse  BY <2>2
  <2> QED BY <2>1, <2>2, <2>3
<1>5. InitSchema(c) \/ Insert(c) \/ traces' = traces
      BY DEF Step, Episode, Query, Submit, RunEpisode, Begin, Triage, Execute, ImportCheck,
             CommitBusy, SchemaBusy, InsertLocked, Stats, StatsLocked, ImportError,
             CloseImport, After, Finish, Abort, store
<1> QED BY <1>2, <1>3, <1>4, <1>5

\* A pair that has a certificate keeps it.
LEMMA OracleStable ==
  ASSUME TypeOK, PlaceInv, SearchInv, NEW c \in Caller, Step(c), NEW p \in Pair,
         Oracle(p) # Nothing
  PROVE  OracleOn(traces', p) = OracleOn(traces, p)
<1>1. PICK u \in Seq(Trace) :
        /\ traces' = traces \o u
        /\ \A i \in 1..Len(u) : u[i].pair \notin Warehouse
      BY TracesGrow
<1>2. traces \in Seq(Trace)  BY DEF TypeOK
<1> QED BY <1>1, <1>2, OracleGrows DEF Oracle

\* The results that ResultsStand is about, row by row.
ResultStands(d) ==
  \A i \in 1..Len(batch[d]) :
    result[d][i].cert # Nothing => Oracle(batch[d][i]) = result[d][i].cert

LEMMA ResultsByRow ==
  ASSUME TypeOK, ResultsStand, NEW d \in Caller
  PROVE  ResultStands(d)
<1> SUFFICES ASSUME NEW i \in 1..Len(batch[d]), result[d][i].cert # Nothing
    PROVE  Oracle(batch[d][i]) = result[d][i].cert
    BY DEF ResultStands
<1> DEFINE a == Certified(batch[d][i], result[d][i].cert)
<1>1. i \in DOMAIN batch[d]  BY RowInBatch
<1>2. a \in Answers(d)  BY <1>1 DEF Answers
<1>3. Oracle(a.pair) = a.cert  BY <1>2 DEF ResultsStand
<1>4. a.pair = batch[d][i] /\ a.cert = result[d][i].cert  BY DEF Certified
<1> QED BY <1>3, <1>4

LEMMA AnswersStep ==
  ASSUME TypeOK, PlaceInv, SearchInv, AnswersStand, ResultsStand, NEW c \in Caller, Step(c)
  PROVE  given \subseteq given' /\ AnswersStand'
<1>1. given \subseteq Trace /\ Nothing \notin Certificates
      BY NothingAssumption DEF TypeOK
<1>2. ASSUME NEW a \in given PROVE OracleOn(traces', a.pair) = a.cert
  <2>1. a.pair \in Pair /\ a.cert # Nothing  BY <1>1 DEF Trace
  <2>2. Oracle(a.pair) = a.cert  BY DEF AnswersStand
  <2> QED BY <2>1, <2>2, OracleStable DEF Oracle
<1>3. ASSUME NEW p \in Pair, Query(c, p)
      PROVE  given \subseteq given' /\ \A a \in given' : OracleOn(traces', a.pair) = a.cert
  <2>1. OracleOn(traces', p) = Oracle(p)  BY <1>3, OracleStable DEF Query, Oracle
  <2>2. given' = given \cup {Certified(p, Oracle(p))}  BY <1>3 DEF Query
  <2>3. Certified(p, Oracle(p)).pair = p /\ Certified(p, Oracle(p)).cert = Oracle(p)
        BY DEF Certified
  <2>4. ASSUME NEW a \in given' PROVE OracleOn(traces', a.pair) = a.cert
    <3>1. CASE a \in given  BY <1>2, <3>1
    <3>2. CASE a = Certified(p, Oracle(p))
      <4>1. a.pair = p /\ a.cert = Oracle(p)  BY <2>3, <3>2
      <4> QED BY <2>1, <4>1
    <3> QED BY <2>2, <3>1, <3>2
  <2> QED BY <2>2, <2>4
<1>4. ASSUME Finish(c)
      PROVE  given \subseteq given' /\ \A a \in given' : OracleOn(traces', a.pair) = a.cert
  <2>1. given' \subseteq given \cup Answers(c) /\ given \subseteq given'
        BY <1>4 DEF Finish
  <2>2. ASSUME NEW a \in Answers(c) PROVE OracleOn(traces', a.pair) = a.cert
    <3>1. a \in Trace /\ Oracle(a.pair) = a.cert  BY AnswersType DEF ResultsStand
    <3>2. a.pair \in Pair /\ a.cert # Nothing  BY <1>1, <3>1 DEF Trace
    <3> QED BY <3>1, <3>2, OracleStable DEF Oracle
  <2> QED BY <1>2, <2>1, <2>2
<1>5. (\E p \in Pair : Query(c, p)) \/ Finish(c) \/ given' = given
      BY DEF Step, Episode, Submit, RunEpisode, Begin, Triage, Execute, ImportCheck,
             InitSchema, Insert, CommitBusy, SchemaBusy, InsertLocked, Stats, StatsLocked,
             ImportError, CloseImport, After, Abort, run
<1>6. given \subseteq given' /\ \A a \in given' : OracleOn(traces', a.pair) = a.cert
      BY <1>2, <1>3, <1>4, <1>5
<1> QED BY <1>6 DEF AnswersStand, Oracle

LEMMA ResultsStep ==
  ASSUME TypeOK, PlaceInv, SearchInv, ResultsStand, NEW c \in Caller, Step(c)
  PROVE  ResultsStand'
<1>1. \A d \in Caller : ResultStands(d)  BY ResultsByRow
<1>2. ASSUME NEW d \in Caller, NEW i \in 1..Len(batch[d]), result[d][i].cert # Nothing
      PROVE  OracleOn(traces', batch[d][i]) = result[d][i].cert
  <2>1. Oracle(batch[d][i]) = result[d][i].cert  BY <1>1, <1>2 DEF ResultStands
  <2>2. batch[d][i] \in Pair  BY RowInBatch
  <2> QED BY <1>2, <2>1, <2>2, OracleStable DEF Oracle
<1>3. ASSUME NEW d \in Caller, batch'[d] = batch[d], result'[d] = result[d]
      PROVE  ResultStands(d)'
      BY <1>2, <1>3 DEF ResultStands, Oracle
<1>4. ASSUME NEW d \in Caller \ {c} PROVE ResultStands(d)'
      BY <1>3, OthersKeepTheirs DEF Own
<1>5. ASSUME NEW b \in Seq(Pair), NEW audit, Begin(c, b, audit) PROVE ResultStands(c)'
  <2>1. batch'[c] = b /\ result'[c] = [i \in DOMAIN b |-> Unresolved]
        BY <1>5 DEF Begin, TypeOK
  <2>2. \A i \in 1..Len(b) : result'[c][i].cert = Nothing
        BY <2>1, LenProperties DEF Unresolved
  <2> QED BY <2>1, <2>2 DEF ResultStands
<1>6. ASSUME Return(c) PROVE ResultStands(c)'
  <2>1. batch'[c] = << >>  BY <1>6 DEF Return, TypeOK
  <2> QED BY <2>1 DEF ResultStands
<1>7. ASSUME batch' = batch, traces' = traces, InBatch(c), NEW s, NEW cert,
             [status |-> s, cert |-> cert] \in Result, Resolve(c, s, cert),
             cert \in {Nothing, Oracle(ThisPair(c))}
      PROVE  ResultStands(c)'
  <2>1. /\ result'[c][row[c]] = [status |-> s, cert |-> cert]
        /\ \A i \in 1..Len(batch[c]) : i # row[c] => result'[c][i] = result[c][i]
        BY <1>7, Resolves
  <2>2. ASSUME NEW i \in 1..Len(batch'[c]), result'[c][i].cert # Nothing
        PROVE  OracleOn(traces', batch'[c][i]) = result'[c][i].cert
    <3>1. CASE i = row[c]
      <4>1. cert = Oracle(batch[c][i]) /\ result'[c][i].cert = cert
            BY <1>7, <2>1, <2>2, <3>1 DEF ThisPair
      <4> QED BY <1>7, <4>1 DEF Oracle
    <3>2. CASE i # row[c]
      <4>1. result'[c][i] = result[c][i] /\ i \in 1..Len(batch[c])  BY <1>7, <2>1, <2>2, <3>2
      <4>2. Oracle(batch[c][i]) = result[c][i].cert  BY <1>1, <2>2, <4>1 DEF ResultStands
      <4> QED BY <1>7, <4>1, <4>2 DEF Oracle
    <3> QED BY <3>1, <3>2
  <2> QED BY <2>2 DEF ResultStands, Oracle
<1>8. ASSUME InBatch(c)
      PROVE  /\ Oracle(ThisPair(c)) \in Certificates \cup {Nothing}
             /\ \A s, cert : [status |-> s, cert |-> cert] \in Result
                  <=> /\ s \in {"NONE", "KNOWN_CERTIFICATE_FOUND", "VERIFIED_FALSE",
                                "VERIFICATION_FAILED", "CONSTRUCTOR_FAILED"}
                      /\ cert \in Certificates \cup {Nothing}
  <2>1. ThisPair(c) \in Pair  BY <1>8, RowInBatch DEF InBatch, ThisPair
  <2> QED BY <2>1, OracleType DEF Oracle, Result, TypeOK
<1>9. ASSUME Triage(c) PROVE ResultStands(c)'
  <2>1. /\ InBatch(c) /\ batch' = batch /\ traces' = traces
        /\ \/ Resolve(c, "KNOWN_CERTIFICATE_FOUND", Oracle(ThisPair(c)))
           \/ result' = result
        BY <1>9 DEF Triage, store
  <2> QED BY <1>3, <1>7, <1>8, <2>1
<1>10. ASSUME After(c) PROVE ResultStands(c)'
  <2>1. /\ InBatch(c) /\ batch' = batch /\ traces' = traces
        /\ \/ Resolve(c, "VERIFIED_FALSE", Oracle(ThisPair(c)))
           \/ \E s \in {"VERIFICATION_FAILED", "CONSTRUCTOR_FAILED"} : Resolve(c, s, Nothing)
           \/ result' = result
        BY <1>10 DEF After, store
  <2> QED BY <1>3, <1>7, <1>8, <2>1
<1>11. \/ \E b \in Seq(Pair) : \E audit : Begin(c, b, audit)
       \/ Return(c) \/ Triage(c) \/ After(c)
       \/ batch'[c] = batch[c] /\ result'[c] = result[c]
  <2>1. \A p \in Pair : <<p>> \in Seq(Pair)  OBVIOUS
  <2> QED BY <2>1, BatchesAssumption
          DEF Step, Episode, Query, Submit, RunEpisode, Execute, ImportCheck, InitSchema,
              Insert, CommitBusy, SchemaBusy, InsertLocked, Stats, StatsLocked, ImportError,
              CloseImport, Finish, Abort, run
<1>12. ResultStands(c)'  BY <1>3, <1>5, <1>6, <1>9, <1>10, <1>11
<1>13. \A d \in Caller : ResultStands(d)'  BY <1>4, <1>12
<1>14. SUFFICES ASSUME NEW d \in Caller, NEW a \in Answers(d)'
       PROVE  OracleOn(traces', a.pair) = a.cert
       BY DEF ResultsStand, Oracle
<1>15. PICK i \in DOMAIN batch'[d] :
         a = Certified(batch'[d][i], result'[d][i].cert) /\ result'[d][i].cert # Nothing
       BY DEF Answers, Certified
<1>16. batch'[d] \in Seq(Pair)  BY TypeStep DEF TypeOK
<1>17. i \in 1..Len(batch'[d])  BY <1>15, <1>16, LenProperties
<1>18. OracleOn(traces', batch'[d][i]) = result'[d][i].cert
       BY <1>13, <1>15, <1>17 DEF ResultStands, Oracle
<1> QED BY <1>15, <1>18 DEF Certified

-----------------------------------------------------------------------------
(***************************************************************************)
(* What is known is not searched, and what is imported is committed.       *)
(***************************************************************************)

\* A row of a pair that the caller is sure of is known to the store.
LEMMA SureIsCertified ==
  ASSUME TypeOK, KnownInv, AnswersStand, NEW c \in Caller, NEW p \in sure[c]
  PROVE  Oracle(p) # Nothing
<1>1. PICK a \in given : a.pair = p  BY DEF KnownInv
<1>2. a.cert \in Certificates  BY DEF TypeOK, Trace
<1> QED BY <1>1, <1>2, NothingAssumption DEF AnswersStand

LEMMA KnownStep ==
  ASSUME IInv, NEW c \in Caller, Step(c)
  PROVE  KnownInv'
<1> USE DEF IInv
<1>1. given \subseteq given'  BY AnswersStep
<1> DEFINE Sure(d) == \A p \in sure[d] : \E a \in given : a.pair = p
           Finds(d) == pc[d] = "triage" =>
                         \A i \in 1..Len(batch[d]) :
                           i < row[d] /\ batch[d][i] \in sure[d] =>
                             result[d][i].status = "KNOWN_CERTIFICATE_FOUND"
<1>2. \A d \in Caller : Sure(d) /\ Finds(d)  BY DEF KnownInv
<1>3. ASSUME NEW d \in Caller \ {c} PROVE Sure(d)' /\ Finds(d)'
      BY <1>1, <1>2, OthersKeepTheirs DEF Own
<1>4. ASSUME sure'[c] = sure[c] PROVE Sure(c)'  BY <1>1, <1>2, <1>4
<1>5. ASSUME NEW b, NEW audit, Begin(c, b, audit) PROVE Sure(c)' /\ Finds(c)'
  <2>1. sure'[c] = {a.pair : a \in given} /\ given' = given /\ row'[c] = 1
        BY <1>5 DEF Begin, TypeOK
  <2>2. \A i \in 1..Len(batch'[c]) : ~(i < 1)  OBVIOUS
  <2>3. Sure(c)'  BY <2>1
  <2> QED BY <2>1, <2>2, <2>3
<1>6. ASSUME Return(c) PROVE Sure(c)' /\ Finds(c)'
      BY <1>6 DEF Return, GoTo, TypeOK
<1>7. ASSUME Triage(c) PROVE Sure(c)' /\ Finds(c)'
  <2>1. sure'[c] = sure[c] /\ batch' = batch /\ InBatch(c)  BY <1>7 DEF Triage
  <2>2. row'[c] = row[c] + 1 /\ row[c] \in Nat
        BY <1>7, Advances DEF Triage, TypeOK
  <2>3. pc[c] = "triage"  BY <1>7 DEF Triage
  <2>4. ASSUME NEW i \in 1..Len(batch[c]), i < row'[c], batch[c][i] \in sure[c]
        PROVE  result'[c][i].status = "KNOWN_CERTIFICATE_FOUND"
    <3> DEFINE cert == Oracle(ThisPair(c))
    <3>1. [status |-> "KNOWN_CERTIFICATE_FOUND", cert |-> cert] \in Result
      <4>1. ThisPair(c) \in Pair  BY <2>1, RowInBatch DEF InBatch, ThisPair
      <4> QED BY <4>1, OracleType DEF Oracle, Result, TypeOK
    <3>2. CASE i = row[c]
      <4>1. Oracle(ThisPair(c)) # Nothing  BY <2>4, <3>2, SureIsCertified DEF ThisPair
      <4>2. Resolve(c, "KNOWN_CERTIFICATE_FOUND", cert)  BY <1>7, <4>1 DEF Triage
      <4>3. result'[c][row[c]] = [status |-> "KNOWN_CERTIFICATE_FOUND", cert |-> cert]
            BY <2>1, <3>1, <4>2, Resolves
      <4> QED BY <3>2, <4>3
    <3>3. CASE i # row[c]
      <4>1. i < row[c]  BY <2>2, <2>4, <3>3
      <4>2. result[c][i].status = "KNOWN_CERTIFICATE_FOUND"  BY <1>2, <2>3, <2>4, <4>1
      <4>3. Resolve(c, "KNOWN_CERTIFICATE_FOUND", cert) \/ result' = result
            BY <1>7 DEF Triage
      <4>4. result'[c][i] = result[c][i]  BY <2>1, <3>1, <3>3, <4>3, Resolves
      <4> QED BY <4>2, <4>4
    <3> QED BY <3>2, <3>3
  <2> QED BY <1>4, <2>1, <2>4
<1>8. ASSUME sure'[c] = sure[c], pc'[c] # "triage" PROVE Sure(c)' /\ Finds(c)'
      BY <1>4, <1>8
<1>9. ASSUME NEW p, Query(c, p) PROVE Sure(c)' /\ Finds(c)'
  <2>1. UNCHANGED <<pc, run>>  BY <1>9 DEF Query
  <2>2. Sure(c)'  BY <1>4, <2>1 DEF run
  <2>3. Finds(c)'  BY <1>2, <2>1 DEF run
  <2> QED BY <2>2, <2>3
<1>10. \/ \E p : Query(c, p)
       \/ \E b, audit : Begin(c, b, audit)
       \/ Return(c) \/ Triage(c)
       \/ sure'[c] = sure[c] /\ pc'[c] # "triage"
  <2>1. CASE (\E F : Execute(c, F)) \/ CloseImport(c)
        BY <2>1 DEF Execute, CloseImport, GoTo, TypeOK
  <2>2. CASE ImportCheck(c)
        BY <2>2 DEF ImportCheck, GoTo, TypeOK
  <2>3. CASE InitSchema(c) \/ After(c)
        BY <2>3 DEF InitSchema, run, After
  <2>4. CASE \/ Insert(c) \/ CommitBusy(c) \/ SchemaBusy(c) \/ InsertLocked(c)
             \/ Stats(c) \/ StatsLocked(c)
        BY <2>4 DEF Insert, CommitBusy, SchemaBusy, InsertLocked, Stats, StatsLocked,
                    ImportError, GoTo, run, TypeOK
  <2> QED BY <2>1, <2>2, <2>3, <2>4
          DEF Step, Episode, Submit, RunEpisode, Finish, Abort
<1>11. Sure(c)' /\ Finds(c)'  BY <1>5, <1>6, <1>7, <1>8, <1>9, <1>10
<1>12. \A d \in Caller : Sure(d)' /\ Finds(d)'  BY <1>3, <1>11
<1> QED BY <1>12 DEF KnownInv

LEMMA RememberedStep ==
  ASSUME IInv, NEW c \in Caller, Step(c)
  PROVE  RememberedIsNotRetried'
<1> USE DEF IInv
<1> DEFINE Skips(d) ==
      \A i \in DOMAIN batch[d] :
        batch[d][i] \in sure[d] =>
          /\ i \notin found[d] /\ imported[d][i] = "none"
          /\ pc[d] \in {"import", "insert", "stats", "after"} =>
               result[d][i].status = "KNOWN_CERTIFICATE_FOUND"
<1>1. \A d \in Caller : Skips(d)  BY DEF RememberedIsNotRetried
<1>2. DOMAIN batch[c] = 1..Len(batch[c])  BY RowInBatch
<1>3. ASSUME NEW d \in Caller \ {c} PROVE Skips(d)'
      BY <1>1, OthersKeepTheirs DEF Own
<1>4. ASSUME NEW b \in Seq(Pair), NEW audit, Begin(c, b, audit) PROVE Skips(c)'
      BY <1>4 DEF Begin, TypeOK
<1>5. ASSUME Return(c) PROVE Skips(c)'
      BY <1>5 DEF Return, TypeOK
<1>6. ASSUME Triage(c) PROVE Skips(c)'
      BY <1>1, <1>6 DEF Triage
<1>7. ASSUME NEW F, Execute(c, F) PROVE Skips(c)'
  <2>1. /\ F \subseteq Unknown(c) /\ found'[c] = F /\ pc[c] = "triage" /\ ~InBatch(c)
        /\ UNCHANGED <<batch, sure, imported, result>>
        BY <1>7 DEF Execute, TypeOK
  <2>2. \A i \in 1..Len(batch[c]) : i < row[c]  BY <2>1, RowInBatch DEF TypeOK
  <2>3. ASSUME NEW i \in DOMAIN batch[c], batch[c][i] \in sure[c]
        PROVE  result[c][i].status = "KNOWN_CERTIFICATE_FOUND" /\ i \notin F
    <3>1. result[c][i].status = "KNOWN_CERTIFICATE_FOUND"
          BY <1>2, <2>1, <2>2, <2>3 DEF KnownInv
    <3>2. \A j \in F : result[c][j] = Unresolved  BY <2>1 DEF Unknown
    <3> QED BY <3>1, <3>2 DEF Unresolved
  <2> QED BY <1>1, <2>1, <2>3
<1>8. ASSUME NEW s \in {"imported", "skipped_duplicate", "error"}, Report(c, s),
             row[c] \in found[c], pc[c] \in {"import", "insert", "stats"}, InBatch(c),
             UNCHANGED <<batch, sure, found, result>>
      PROVE  Skips(c)'
  <2>1. \A i \in 1..Len(batch[c]) : i # row[c] => imported'[c][i] = imported[c][i]
        BY <1>8, Reports
  <2> QED BY <1>1, <1>2, <1>8, <2>1
<1>9. ASSUME ImportCheck(c) PROVE Skips(c)'
  <2>1. CASE UNCHANGED imported  BY <1>1, <1>9, <2>1 DEF ImportCheck
  <2>2. CASE Report(c, "skipped_duplicate") /\ row[c] \in found[c]
        BY <1>8, <1>9, <2>2 DEF ImportCheck
  <2> QED BY <1>9, <2>1, <2>2 DEF ImportCheck
<1>10. ASSUME CommitBusy(c) \/ SchemaBusy(c) \/ InsertLocked(c) \/ Stats(c) \/ StatsLocked(c)
       PROVE  Skips(c)'
  <2>1. /\ pc[c] \in {"insert", "stats"} /\ UNCHANGED <<batch, sure, found, result>>
        /\ Report(c, "imported") \/ Report(c, "error")
        BY <1>10 DEF CommitBusy, SchemaBusy, InsertLocked, Stats, StatsLocked, ImportError
  <2>2. row[c] \in found[c] /\ InBatch(c)  BY <2>1, NewRowType DEF PlaceInv
  <2> QED BY <1>8, <2>1, <2>2
<1>11. ASSUME After(c) PROVE Skips(c)'
  <2>1. /\ pc[c] = "after" /\ InBatch(c)
        /\ UNCHANGED <<batch, sure, found, imported, pc>>
        BY <1>11 DEF After
  <2>2. result' = result
          \/ \E s, cert : Resolve(c, s, cert) /\ result[c][row[c]] = Unresolved
        BY <1>11 DEF After
  <2>3. ASSUME NEW i \in DOMAIN batch[c], batch[c][i] \in sure[c]
        PROVE  result'[c][i] = result[c][i]
    <3>1. result[c][i].status = "KNOWN_CERTIFICATE_FOUND"  BY <1>1, <2>1, <2>3
    <3>2. i = row[c] => result' = result  BY <2>2, <3>1 DEF Unresolved
    <3>3. i # row[c] => result'[c][i] = result[c][i]
          BY <2>2 DEF Resolve, TypeOK
    <3> QED BY <3>2, <3>3
  <2> QED BY <1>1, <2>1, <2>3
<1>12. ASSUME CloseImport(c) PROVE Skips(c)'
  <2>1. pc[c] = "import" /\ UNCHANGED <<batch, sure, found, imported, result>>
        BY <1>12 DEF CloseImport
  <2> QED BY <1>1, <2>1
<1>13. ASSUME InitSchema(c) \/ (\E p : Query(c, p)) PROVE Skips(c)'
  <2>1. UNCHANGED <<pc, run>>  BY <1>13 DEF InitSchema, Query, run
  <2> QED BY <1>1, <2>1 DEF run
<1>17. ASSUME Insert(c) PROVE Skips(c)'
  <2>1. pc[c] = "insert" /\ UNCHANGED run  BY <1>17 DEF Insert
  <2> QED BY <1>1, <2>1 DEF run
<1>14. \A p \in Pair : <<p>> \in Seq(Pair)  OBVIOUS
<1>15. Skips(c)'
       BY <1>4, <1>5, <1>6, <1>7, <1>9, <1>10, <1>11, <1>12, <1>13, <1>14, <1>17,
          BatchesAssumption
       DEF Step, Episode, Submit, RunEpisode, Finish, Abort
<1>16. \A d \in Caller : Skips(d)'  BY <1>3, <1>15
<1> QED BY <1>16 DEF RememberedIsNotRetried

\* A committed row stays where it is.
LEMMA RowsStay ==
  ASSUME IInv, NEW c \in Caller, Step(c), NEW k \in DOMAIN traces
  PROVE  k \in DOMAIN traces' /\ traces'[k] = traces[k]
<1>1. PICK u \in Seq(Trace) : traces' = traces \o u  BY TracesGrow DEF IInv
<1>2. traces \in Seq(Trace)  BY DEF IInv, TypeOK
<1>3. /\ Len(traces') = Len(traces) + Len(u) /\ traces' \in Seq(Trace)
      /\ \A i \in 1..Len(traces) + Len(u) :
           traces'[i] = IF i <= Len(traces) THEN traces[i] ELSE u[i - Len(traces)]
      BY <1>1, <1>2, ConcatProperties
<1>4. /\ DOMAIN traces = 1..Len(traces) /\ Len(traces) \in Nat /\ Len(u) \in Nat
      /\ DOMAIN traces' = 1..Len(traces')
      BY <1>2, <1>3, LenProperties
<1> QED BY <1>3, <1>4

LEMMA StatsStep ==
  ASSUME IInv, NEW c \in Caller, Step(c)
  PROVE  StatsInv'
<1>1. ASSUME NEW d \in Caller \ {c}, pc'[d] = "stats" PROVE Stored(d, row[d])'
  <2>1. Stored(d, row[d])  BY <1>1, OthersKeepTheirs DEF IInv, Own, StatsInv
  <2>2. batch'[d] = batch[d] /\ row'[d] = row[d] /\ episode'[d] = episode[d]
        BY OthersKeepTheirs DEF IInv, Own
  <2> QED BY <2>1, <2>2, RowsStay DEF Stored
<1>2. CASE Insert(c)
  <2>1. traces' = Append(traces, NewRow(c)) /\ UNCHANGED run /\ pc[c] = "insert"
        BY <1>2 DEF Insert
  <2>2. NewRow(c) \in Trace /\ traces \in Seq(Trace)  BY <2>1, NewRowType DEF IInv, TypeOK
  <2>3. /\ traces' \in Seq(Trace) /\ Len(traces') = Len(traces) + 1
        /\ traces'[Len(traces) + 1] = NewRow(c) /\ Len(traces) \in Nat
        BY <2>1, <2>2, AppendProperties, LenProperties
  <2>4. Len(traces) + 1 \in DOMAIN traces'  BY <2>3, LenProperties
  <2>5. NewRow(c) = [pair |-> batch'[c][row'[c]], cert |-> <<episode'[c], row'[c]>>]
        BY <2>1 DEF run, NewRow, ThisPair, Certificate
  <2>6. \E k \in DOMAIN traces' :
          traces'[k] = [pair |-> batch'[c][row'[c]], cert |-> <<episode'[c], row'[c]>>]
        BY <2>3, <2>4, <2>5
  <2>7. Stored(c, row[c])'  BY <2>6 DEF Stored
  <2> QED BY <1>1, <2>7 DEF StatsInv
<1>3. CASE ~Insert(c)
  <2>1. pc'[c] # "stats"
    <3>1. CASE \/ InitSchema(c) \/ CommitBusy(c) \/ SchemaBusy(c) \/ InsertLocked(c)
               \/ Stats(c) \/ StatsLocked(c) \/ ImportCheck(c) \/ CloseImport(c)
          BY <3>1 DEF IInv, TypeOK, InitSchema, CommitBusy, SchemaBusy, InsertLocked, Stats,
                      StatsLocked, ImportCheck, CloseImport, ImportError, GoTo
    <3>2. CASE \/ Triage(c) \/ After(c) \/ (\E F : Execute(c, F)) \/ Finish(c) \/ Abort(c)
               \/ (\E p \in Pair : Query(c, p)) \/ (\E b, audit : Begin(c, b, audit))
          BY <3>2 DEF IInv, TypeOK, Triage, After, Execute, Finish, Abort, Return, Query, Begin,
                      GoTo
    <3> QED BY <1>3, <3>1, <3>2 DEF Step, Episode, Submit, RunEpisode
  <2> QED BY <1>1, <2>1 DEF StatsInv
<1> QED BY <1>2, <1>3

LEMMA ImportedStep ==
  ASSUME IInv, NEW c \in Caller, Step(c)
  PROVE  ImportedIsCommitted'
<1> USE DEF IInv
<1> DEFINE Kept(d) == \A i \in DOMAIN imported[d] : imported[d][i] = "imported" => Stored(d, i)
<1>1. \A d \in Caller : Kept(d)  BY DEF ImportedIsCommitted, Stored
<1>2. \A k \in DOMAIN traces : k \in DOMAIN traces' /\ traces'[k] = traces[k]
      BY RowsStay
<1>3. ASSUME NEW d \in Caller, imported'[d] = imported[d], batch'[d] = batch[d],
             episode'[d] = episode[d]
      PROVE  Kept(d)'
      BY <1>1, <1>2, <1>3 DEF Stored
<1>4. ASSUME NEW d \in Caller \ {c} PROVE Kept(d)'
      BY <1>3, OthersKeepTheirs DEF Own
<1>5. ASSUME NEW b \in Seq(Pair), NEW audit, Begin(c, b, audit) PROVE Kept(c)'
  <2>1. imported'[c] = [i \in DOMAIN b |-> "none"]  BY <1>5 DEF Begin, TypeOK
  <2> QED BY <2>1
<1>6. ASSUME Return(c) PROVE Kept(c)'
  <2>1. imported'[c] = << >>  BY <1>6 DEF Return, TypeOK
  <2> QED BY <2>1
<1>7. ASSUME NEW s \in {"skipped_duplicate", "error"}, Report(c, s), InBatch(c),
             UNCHANGED <<batch, episode>>
      PROVE  Kept(c)'
  <2>1. /\ Len(imported'[c]) = Len(imported[c]) /\ imported'[c][row[c]] = s
        /\ imported'[c] \in Seq({"none", "imported", "skipped_duplicate", "error"})
        /\ \A i \in 1..Len(batch[c]) : i # row[c] => imported'[c][i] = imported[c][i]
        BY <1>7, Reports
  <2>2. DOMAIN imported'[c] = 1..Len(batch[c]) /\ DOMAIN imported[c] = 1..Len(batch[c])
        BY <2>1, RowInBatch, LenProperties DEF TypeOK
  <2>3. ASSUME NEW i \in 1..Len(batch[c]), imported'[c][i] = "imported" PROVE Stored(c, i)'
    <3>1. i # row[c]  BY <1>7, <2>1, <2>3
    <3> QED BY <1>1, <1>2, <1>7, <2>1, <2>2, <2>3, <3>1 DEF Stored
  <2> QED BY <2>2, <2>3
<1>8. ASSUME Stats(c) PROVE Kept(c)'
  <2>1. /\ traces' = traces /\ Report(c, "imported") /\ UNCHANGED <<batch, episode>>
        /\ pc[c] = "stats"
        BY <1>8 DEF Stats, store
  <2>2. InBatch(c) /\ Stored(c, row[c])  BY <2>1, NewRowType DEF StatsInv
  <2>3. ASSUME NEW i \in DOMAIN imported'[c], imported'[c][i] = "imported"
        PROVE  Stored(c, i)'
    <3>1. /\ Len(imported'[c]) = Len(imported[c])
          /\ imported'[c] \in Seq({"none", "imported", "skipped_duplicate", "error"})
          /\ \A j \in 1..Len(batch[c]) : j # row[c] => imported'[c][j] = imported[c][j]
          BY <2>1, <2>2, Reports
    <3>2. DOMAIN imported'[c] = 1..Len(batch[c]) /\ DOMAIN imported[c] = 1..Len(batch[c])
          BY <3>1, RowInBatch, LenProperties DEF TypeOK
    <3>3. CASE i = row[c]  BY <2>1, <2>2, <3>3 DEF Stored
    <3>4. CASE i # row[c]
      <4>1. Stored(c, i)  BY <1>1, <2>3, <3>1, <3>2, <3>4
      <4> QED BY <2>1, <4>1 DEF Stored
    <3> QED BY <3>3, <3>4
  <2> QED BY <2>3
<1>9. ASSUME CommitBusy(c) \/ SchemaBusy(c) \/ InsertLocked(c) \/ StatsLocked(c) PROVE Kept(c)'
  <2>1. pc[c] \in {"insert", "stats"} /\ Report(c, "error") /\ UNCHANGED <<batch, episode>>
        BY <1>9 DEF CommitBusy, SchemaBusy, InsertLocked, StatsLocked, ImportError
  <2>2. InBatch(c)  BY <2>1, NewRowType
  <2> QED BY <1>7, <2>1, <2>2
<1>10. ASSUME ImportCheck(c) PROVE Kept(c)'
  <2>1. CASE UNCHANGED imported  BY <1>3, <1>10, <2>1 DEF ImportCheck
  <2>2. CASE Report(c, "skipped_duplicate")  BY <1>7, <1>10, <2>2 DEF ImportCheck
  <2> QED BY <1>10, <2>1, <2>2 DEF ImportCheck
<1>11. \/ \E b \in Seq(Pair) : \E audit : Begin(c, b, audit)
       \/ Return(c) \/ Stats(c) \/ CommitBusy(c) \/ SchemaBusy(c) \/ InsertLocked(c)
       \/ StatsLocked(c) \/ ImportCheck(c)
       \/ imported' = imported /\ batch' = batch /\ episode' = episode
  <2>1. \A p \in Pair : <<p>> \in Seq(Pair)  OBVIOUS
  <2> QED BY <2>1, BatchesAssumption
          DEF Step, Episode, Query, Submit, RunEpisode, Triage, Execute, InitSchema, Insert,
              CloseImport, After, Finish, Abort, run
<1>12. Kept(c)'  BY <1>3, <1>5, <1>6, <1>8, <1>9, <1>10, <1>11
<1>13. \A d \in Caller : Kept(d)'  BY <1>4, <1>12
<1> QED BY <1>13 DEF ImportedIsCommitted, Stored

-----------------------------------------------------------------------------
(***************************************************************************)
(* The theorems.                                                           *)
(***************************************************************************)
LEMMA InitHolds == Init => IInv
<1> SUFFICES ASSUME Init PROVE IInv  OBVIOUS
<1> USE DEF Init
<1>1. TypeOK
  <2>1. \A S : << >> \in Seq(S)  BY EmptySeq
  <2>2. traces \in Seq(Trace) /\ uncommitted \in [Caller -> Seq(Trace)]  BY <2>1
  <2>3. /\ pc \in [Caller -> {"idle", "triage", "import", "insert", "stats", "after"}]
        /\ audited \in [Caller -> BOOLEAN] /\ batch \in [Caller -> Seq(Pair)]
        /\ row \in [Caller -> Nat] /\ found \in [Caller -> SUBSET Nat]
        BY <2>1
  <2>4. /\ imported \in [Caller -> Seq({"none", "imported", "skipped_duplicate", "error"})]
        /\ result \in [Caller -> Seq(Result)]
        BY <2>1
  <2>5. /\ episode \in [Caller -> 0..MaxEpisodes] /\ episodes \in 0..MaxEpisodes
        /\ busy \in 0..MaxBusy /\ critical \in BOOLEAN
        /\ given \subseteq Trace /\ sure \in [Caller -> SUBSET Pair]
        BY BoundsAssumption
  <2>6. ASSUME NEW c \in Caller
        PROVE  /\ row[c] \in 1..(Len(batch[c]) + 1) /\ found[c] \subseteq DOMAIN batch[c]
               /\ Len(imported[c]) = Len(batch[c]) /\ Len(result[c]) = Len(batch[c])
    <3>1. batch[c] = << >> /\ imported[c] = << >> /\ result[c] = << >> /\ row[c] = 1
          OBVIOUS
    <3> QED BY <3>1
  <2> QED BY <2>2, <2>3, <2>4, <2>5, <2>6 DEF TypeOK
<1>2. \A c \in Caller : batch[c] = << >> /\ imported[c] = << >>  OBVIOUS
<1>3. PlaceInv /\ SearchInv /\ KnownInv /\ StatsInv
      BY DEF PlaceInv, SearchInv, KnownInv, StatsInv
<1>4. AnswersStand  BY DEF AnswersStand
<1>5. ResultsStand /\ RememberedIsNotRetried /\ ImportedIsCommitted
      BY <1>2 DEF ResultsStand, Answers, RememberedIsNotRetried, ImportedIsCommitted
<1> QED BY <1>1, <1>3, <1>4, <1>5 DEF IInv

LEMMA NextIsStep ==
  ASSUME Next
  PROVE  \E c \in Caller : Step(c)
BY DEF Next, Step

LEMMA StepHolds ==
  ASSUME IInv, [Next]_vars
  PROVE  IInv'
<1>1. ASSUME NEW c \in Caller, Step(c) PROVE IInv'
      BY <1>1, TypeStep, PlaceStep, SearchStep, KnownStep, AnswersStep, ResultsStep,
         RememberedStep, StatsStep, ImportedStep DEF IInv
<1>2. CASE UNCHANGED vars
  <2> USE <1>2 DEF vars, store, run
  <2>1. TypeOK' /\ PlaceInv'  BY DEF IInv, TypeOK, PlaceInv
  <2>2. SearchInv' /\ KnownInv' /\ StatsInv'
        BY DEF IInv, SearchInv, KnownInv, StatsInv, Stored
  <2>3. AnswersStand' /\ ResultsStand'
        BY DEF IInv, AnswersStand, ResultsStand, Answers, Oracle
  <2>4. RememberedIsNotRetried' /\ ImportedIsCommitted'
        BY DEF IInv, RememberedIsNotRetried, ImportedIsCommitted
  <2> QED BY <2>1, <2>2, <2>3, <2>4 DEF IInv
<1> QED BY <1>1, <1>2, NextIsStep

\* The strengthened invariant holds throughout.
THEOREM Invariance == Safe => []IInv
<1>1. Init => IInv  BY InitHolds
<1>2. IInv /\ [Next]_vars => IInv'  BY StepHolds
<1> QED BY <1>1, <1>2, PTL DEF Safe

\* Every variable stays in its domain.
THEOREM TypeCorrect == Safe => []TypeOK
<1>1. IInv => TypeOK  BY DEF IInv
<1> QED BY <1>1, Invariance, PTL

\* A certified answer, once given (query_claim, submit_claim), stands.
THEOREM AnswersAlwaysStand == Safe => []AnswersStand
<1>1. IInv => AnswersStand  BY DEF IInv
<1> QED BY <1>1, Invariance, PTL

\* What an episode is about to answer is the store's answer.
THEOREM ResultsAlwaysStand == Safe => []ResultsStand
<1>1. IInv => ResultsStand  BY DEF IInv
<1> QED BY <1>1, Invariance, PTL

\* run_m0_episode does not search what was certified before it began.
THEOREM KnownIsSkipped == Safe => []RememberedIsNotRetried
<1>1. IInv => RememberedIsNotRetried  BY DEF IInv
<1> QED BY <1>1, Invariance, PTL

\* A row reported as imported is committed, whatever commits time out.
THEOREM ImportsAreCommitted == Safe => []ImportedIsCommitted
<1>1. IInv => ImportedIsCommitted  BY DEF IInv
<1> QED BY <1>1, Invariance, PTL

\* Every step of the service is a step of the memory it promises, or none.
LEMMA MemoryStep ==
  ASSUME IInv, [Next]_vars
  PROVE  [Memory!MNext]_(Memory!mvars)
<1> DEFINE memory == [p \in Pair |-> OracleOn(traces, p)]
           after == [p \in Pair |-> OracleOn(traces', p)]
<1>1. CASE UNCHANGED vars
      BY <1>1 DEF vars, store, Memory!mvars, Oracle
<1>2. ASSUME NEW c \in Caller, Step(c) PROVE [Memory!MNext]_(Memory!mvars)
  <2>1. AnswersStand' /\ given \subseteq given' /\ given' \subseteq Trace
        BY <1>2, AnswersStep, TypeStep DEF IInv, TypeOK
  <2>2. CASE traces' = traces
    <3>1. \A a \in given' : a.cert = memory[a.pair] /\ a.cert # Nothing
          BY <2>1, <2>2, NothingAssumption DEF AnswersStand, Oracle, Trace
    <3>2. after = memory  BY <2>2
    <3> QED BY <2>1, <3>1, <3>2 DEF Memory!MNext, Memory!Tell, Memory!mvars, Oracle
  <2>3. CASE traces' # traces
    <3>1. given' = given
          BY <1>2, <2>3 DEF Step, Episode, Query, Submit, RunEpisode, Begin, Triage, Execute,
             ImportCheck, InitSchema, Insert, CommitBusy, SchemaBusy, InsertLocked,
             Stats, StatsLocked, ImportError, CloseImport, After, Finish, Abort, store, run
    <3>2. PICK u \in Seq(Trace) : traces' = traces \o u /\ Len(u) <= 1
          BY <1>2, TracesGrow DEF IInv
    <3>3. traces \in Seq(Trace)  BY DEF IInv, TypeOK
    <3>4. Len(u) = 1
      <4>1. u # << >>  BY <2>3, <3>2, <3>3, ConcatEmptySeq
      <4>2. u \in Seq(Trace)  BY <3>2
      <4>3. Len(u) # 0 /\ Len(u) \in Nat  BY <4>1, <4>2, EmptySeq, LenProperties
      <4>4. Len(u) <= 1  BY <3>2
      <4>5. \A n \in Nat : n # 0 /\ n <= 1 => n = 1  OBVIOUS
      <4> HIDE DEF memory, after
      <4> QED BY <4>3, <4>4, <4>5, Zenon
    <3> DEFINE q == u[1].pair
    <3>5. q \in Pair
      <4>1. u \in Seq(Trace) /\ 1 \in 1..Len(u)  BY <3>2, <3>4
      <4>2. u[1] \in Trace  BY <4>1, ElementOfSeq
      <4> QED BY <4>2 DEF Trace
    <3>6. ASSUME NEW p \in Pair, p # q PROVE after[p] = memory[p]
      <4>1. Rows(traces', p) = Rows(traces, p) /\ \A i \in Rows(traces, p) : traces'[i] = traces[i]
        <5>1. /\ Len(traces') = Len(traces) + 1 /\ traces' \in Seq(Trace)
              /\ \A i \in 1..Len(traces) + 1 :
                   traces'[i] = IF i <= Len(traces) THEN traces[i] ELSE u[i - Len(traces)]
          <6>1. u \in Seq(Trace)  BY <3>2
          <6>2. /\ Len(traces \o u) = Len(traces) + Len(u) /\ traces \o u \in Seq(Trace)
                /\ \A i \in 1..Len(traces) + Len(u) :
                     (traces \o u)[i] = IF i <= Len(traces) THEN traces[i]
                                        ELSE u[i - Len(traces)]
                BY <3>3, <6>1, ConcatProperties
          <6> QED BY <3>2, <3>4, <6>2
        <5>2. /\ DOMAIN traces = 1..Len(traces) /\ Len(traces) \in Nat
              /\ DOMAIN traces' = 1..(Len(traces) + 1)
              BY <3>3, <5>1, LenProperties
        <5>3. traces'[Len(traces) + 1] = u[1]  BY <5>1, <5>2
        <5>4. \A i \in 1..Len(traces) : traces'[i] = traces[i]  BY <5>1, <5>2
        <5>5. \A i \in DOMAIN traces' : i \in DOMAIN traces \/ i = Len(traces) + 1
              BY <5>2
        <5>6. DOMAIN traces \subseteq DOMAIN traces'  BY <5>2
        <5> QED BY <3>6, <5>2, <5>3, <5>4, <5>5, <5>6 DEF Rows
      <4>2. get_by_pair(traces', p) = get_by_pair(traces, p)  BY <4>1 DEF get_by_pair
      <4>3. Rows(traces, p) # {} => get_by_pair(traces, p) \in Rows(traces, p)
            BY <3>3, OldestRow
      <4> QED BY <4>1, <4>2, <4>3 DEF OracleOn
    <3>7. CASE after = memory
          BY <3>1, <3>7 DEF Memory!mvars, Oracle
    <3>8. CASE after # memory
      <4>1. after[q] # memory[q]  BY <3>6, <3>8
      <4>2. memory[q] = Nothing
            BY <1>2, <3>5, <4>1, OracleStable DEF IInv, Oracle
      <4>3. after = [memory EXCEPT ![q] = after[q]]  BY <3>6
      <4>4. Memory!Learn(q)
            BY <3>1, <3>5, <4>2, <4>3 DEF Memory!Learn, Oracle
      <4> QED BY <3>5, <4>4 DEF Memory!MNext
    <3> QED BY <3>7, <3>8
  <2> QED BY <2>2, <2>3
<1> QED BY <1>1, <1>2, NextIsStep

\* The service implements the one-certificate memory, for any callers and pairs.
THEOREM ImplementsMemory == Safe => RemembersOnce
<1>1. Init => Memory!MInit
      BY DEF Init, Memory!MInit
<1> QED BY <1>1, MemoryStep, Invariance, PTL DEF Safe, RemembersOnce, Memory!MSpec
-----------------------------------------------------------------------------
(***************************************************************************)
(* The lock of a commit that timed out. One connection at most holds it,   *)
(* and its caller is inside the importer, where nothing that it does waits *)
(* for another connection.                                                 *)
(***************************************************************************)

\* The lock has one holder, which is at a row of the import and has not
\* stored that row's pair already.
LockInv ==
  \A c \in Caller : uncommitted[c] # << >> =>
    /\ pc[c] \in {"import", "insert"} /\ Unlocked(c)
    /\ pc[c] = "insert" => uncommitted[c][1].pair # ThisPair(c)

\* What the import connection of c has left to do: a check and an insert of
\* each row.
RowsLeft(c) == 2 * (Len(batch[c]) + 1 - row[c]) + (IF pc[c] = "import" THEN 1 ELSE 0)

\* A caller that holds the lock, and goes on with its episode, lets the lock go
\* or has less left to do (countermodel_importer.import_lawbook); nobody else
\* gives it more to do.
HolderAdvances ==
  [][\A c \in Caller : uncommitted[c] # << >> /\ uncommitted'[c] # << >> =>
       /\ RowsLeft(c) \in Nat /\ RowsLeft(c)' \in Nat
       /\ RowsLeft(c)' <= RowsLeft(c)
       /\ Episode(c) => RowsLeft(c)' < RowsLeft(c)]_vars

\* The callers that may yet store a row of p: they have found none, or hold an
\* uncommitted one.
MayStore(p) ==
  {c \in Caller : \/ pc[c] = "insert" /\ ThisPair(c) = p
                  \/ uncommitted[c] # << >> /\ uncommitted[c][1].pair = p}

StoreInv ==
  \A p \in Pair : Cardinality(Rows(traces, p)) + Cardinality(MayStore(p)) <= Cardinality(Caller)

\* The exact-pair check of the importer lets no pair have more rows than there
\* are callers.
DuplicatesAreBounded ==
  \A p \in Pair : Cardinality(Rows(traces, p)) <= Cardinality(Caller)

\* No two callers are inside the importer at once.
ImportsAlone ==
  \A c, d \in Caller :
    pc[c] \in {"import", "insert", "stats"} /\ pc[d] \in {"import", "insert", "stats"} => c = d

\* A pair about to be stored has no row.
AloneInv ==
  /\ NoDuplicateRow
  /\ \A c \in Caller :
       /\ pc[c] = "insert" => Rows(traces, ThisPair(c)) = {}
       /\ uncommitted[c] # << >> => Rows(traces, uncommitted[c][1].pair) = {}

\* What a step of c does to the store and to its own place in the import.
LEMMA StoreStep ==
  ASSUME IInv, LockInv, NEW c \in Caller, Step(c)
  PROVE  \/ /\ UNCHANGED <<traces, uncommitted>> /\ pc'[c] # "insert"
            /\ uncommitted[c] # << >> => pc'[c] \in {"import", "insert"}
         \/ /\ UNCHANGED <<traces, uncommitted, batch, row>> /\ pc'[c] = "insert"
            /\ Rows(traces \o uncommitted[c], ThisPair(c)) = {}
         \/ InitSchema(c) \/ Insert(c) \/ CommitBusy(c)
         \/ /\ UNCHANGED traces /\ pc'[c] # "insert"
            /\ uncommitted' = [uncommitted EXCEPT ![c] = << >>]
<1>1. TypeOK  BY DEF IInv
<1>2. ASSUME NEW p \in Pair, Query(c, p)
      PROVE  UNCHANGED <<traces, uncommitted, pc>> /\ pc[c] = "idle"
      BY <1>2 DEF Query, store
<1>3. ASSUME NEW b, NEW audit, Begin(c, b, audit)
      PROVE  UNCHANGED <<traces, uncommitted>> /\ pc[c] = "idle" /\ pc'[c] = "triage"
      BY <1>1, <1>3 DEF Begin, store, TypeOK
<1>4. ASSUME Triage(c) \/ After(c)
      PROVE  UNCHANGED <<traces, uncommitted, pc>> /\ pc[c] \in {"triage", "after"}
      BY <1>4 DEF Triage, After, store
<1>5. ASSUME NEW F, Execute(c, F)
      PROVE  UNCHANGED <<traces, uncommitted>> /\ pc[c] = "triage" /\ pc'[c] = "import"
      BY <1>1, <1>5 DEF Execute, store, GoTo, TypeOK
<1>6. ASSUME ImportCheck(c)
      PROVE  /\ UNCHANGED <<traces, uncommitted, batch>> /\ pc[c] = "import"
             /\ \/ UNCHANGED pc
                \/ /\ pc'[c] = "insert" /\ UNCHANGED row
                   /\ Rows(traces \o uncommitted[c], ThisPair(c)) = {}
      BY <1>1, <1>6 DEF ImportCheck, store, GoTo, TypeOK
<1>7. ASSUME SchemaBusy(c) \/ InsertLocked(c) \/ Stats(c) \/ StatsLocked(c)
      PROVE  UNCHANGED <<traces, uncommitted>> /\ pc'[c] = "import"
      BY <1>1, <1>7 DEF SchemaBusy, InsertLocked, Stats, StatsLocked, ImportError, store, GoTo,
                        TypeOK
<1>8. ASSUME CloseImport(c)
      PROVE  /\ UNCHANGED traces /\ pc'[c] = "after"
             /\ uncommitted' = [uncommitted EXCEPT ![c] = << >>]
      BY <1>1, <1>8 DEF CloseImport, GoTo, TypeOK
<1>9. ASSUME Finish(c)
      PROVE  UNCHANGED <<traces, uncommitted>> /\ pc[c] = "after" /\ pc'[c] = "idle"
      BY <1>1, <1>9 DEF Finish, Return, store, GoTo, TypeOK
<1>10. ASSUME Abort(c)
       PROVE  /\ UNCHANGED traces /\ pc'[c] = "idle"
              /\ uncommitted' = [uncommitted EXCEPT ![c] = << >>]
       BY <1>1, <1>10 DEF Abort, Return, GoTo, TypeOK
<1>11. uncommitted[c] # << >> => pc[c] \in {"import", "insert"}  BY DEF LockInv
<1> QED BY <1>2, <1>3, <1>4, <1>5, <1>6, <1>7, <1>8, <1>9, <1>10, <1>11
        DEF Step, Episode, Submit, RunEpisode

\* A connection's uncommitted rows are one row or none.
LEMMA OneRowOrNone ==
  ASSUME IInv, NEW c \in Caller, uncommitted[c] # << >>
  PROVE  uncommitted[c][1] \in Trace /\ uncommitted[c] = <<uncommitted[c][1]>>
<1>1. uncommitted[c] \in Seq(Trace) /\ Len(uncommitted[c]) <= 1  BY DEF IInv, TypeOK, SearchInv
<1>2. Len(uncommitted[c]) = 1
  <2>1. Len(uncommitted[c]) # 0 /\ Len(uncommitted[c]) \in Nat
        BY <1>1, EmptySeq, LenProperties
  <2>2. Len(uncommitted[c]) <= 1  BY <1>1
  <2>3. \A n \in Nat : n # 0 /\ n <= 1 => n = 1  OBVIOUS
  <2> QED BY <2>1, <2>2, <2>3, Zenon
<1>3. uncommitted[c][1] \in Trace  BY <1>1, <1>2, ElementOfSeq
<1>4. uncommitted[c] = [i \in 1..1 |-> uncommitted[c][i]]  BY <1>1, <1>2, LenProperties
<1> QED BY <1>3, <1>4

LEMMA RowsFinite ==
  ASSUME NEW t \in Seq(Trace), NEW p
  PROVE  IsFiniteSet(Rows(t, p)) /\ Cardinality(Rows(t, p)) \in Nat
<1>1. DOMAIN t = 1..Len(t) /\ Len(t) \in Nat  BY LenProperties
<1>2. IsFiniteSet(1..Len(t)) /\ Rows(t, p) \in SUBSET (1..Len(t))
      BY <1>1, FS_Interval DEF Rows
<1> QED BY <1>2, FS_Subset, FS_CardinalityType

LEMMA RowsOfConcat ==
  ASSUME NEW t \in Seq(Trace), NEW u \in Seq(Trace), NEW p
  PROVE  Rows(t, p) \subseteq Rows(t \o u, p)
<1>1. /\ DOMAIN t = 1..Len(t) /\ Len(t) \in Nat /\ Len(u) \in Nat
      /\ t \o u \in Seq(Trace) /\ Len(t \o u) = Len(t) + Len(u)
      /\ \A i \in 1..Len(t) + Len(u) :
           (t \o u)[i] = IF i <= Len(t) THEN t[i] ELSE u[i - Len(t)]
      BY LenProperties, ConcatProperties
<1>2. DOMAIN (t \o u) = 1..(Len(t) + Len(u))  BY <1>1, LenProperties
<1>3. \A i \in 1..Len(t) : i \in DOMAIN (t \o u) /\ (t \o u)[i] = t[i]  BY <1>1, <1>2
<1> QED BY <1>1, <1>3 DEF Rows

\* A row that is appended is one more row of its own pair, and of no other.
LEMMA RowsOfAppend ==
  ASSUME NEW t \in Seq(Trace), NEW x \in Trace, NEW p
  PROVE  /\ Len(t) + 1 \notin Rows(t, p)
         /\ Rows(Append(t, x), p) = IF x.pair = p THEN Rows(t, p) \cup {Len(t) + 1}
                                    ELSE Rows(t, p)
<1>1. DOMAIN t = 1..Len(t) /\ Len(t) \in Nat  BY LenProperties
<1>2. /\ Append(t, x) \in Seq(Trace) /\ Len(Append(t, x)) = Len(t) + 1
      /\ \A i \in 1..Len(t) : Append(t, x)[i] = t[i]
      /\ Append(t, x)[Len(t) + 1] = x
      BY <1>1, AppendProperties
<1>3. DOMAIN Append(t, x) = 1..(Len(t) + 1)  BY <1>2, LenProperties
<1>4. Len(t) + 1 \notin Rows(t, p)  BY <1>1 DEF Rows
<1> HIDE DEF Rows
<1>5. \A i : i \in Rows(Append(t, x), p) <=>
              i \in 1..(Len(t) + 1) /\ Append(t, x)[i].pair = p
      BY <1>3 DEF Rows
<1>6. \A i : i \in Rows(t, p) <=> i \in 1..Len(t) /\ t[i].pair = p
      BY <1>1 DEF Rows
<1>7. Rows(Append(t, x), p) = IF x.pair = p THEN Rows(t, p) \cup {Len(t) + 1} ELSE Rows(t, p)
  <2>1. \A i : i \in 1..(Len(t) + 1) <=> i \in 1..Len(t) \/ i = Len(t) + 1  BY <1>1
  <2>2. Len(t) + 1 \notin 1..Len(t)  BY <1>1
  <2>3. \A i : i \in Rows(Append(t, x), p) <=>
                i \in Rows(t, p) \/ (i = Len(t) + 1 /\ x.pair = p)
        BY <1>2, <1>5, <1>6, <2>1, <2>2, Zenon
  <2>4. CASE x.pair = p
    <3>1. \A i : i \in Rows(Append(t, x), p) <=> i \in Rows(t, p) \cup {Len(t) + 1}
          BY <2>3, <2>4
    <3> QED BY <2>4, <3>1
  <2>5. CASE x.pair # p
    <3>1. ASSUME NEW i PROVE i \in Rows(Append(t, x), p) <=> i \in Rows(t, p)
          BY <2>3, <2>5
    <3> QED BY <2>5, <3>1
  <2> QED BY <2>4, <2>5
<1> QED BY <1>4, <1>7

\* Where a row is committed, it is one row, of a pair the caller was to store.
LEMMA StoredRow ==
  ASSUME IInv, LockInv, NEW c \in Caller, InitSchema(c) \/ Insert(c)
  PROVE  \E x \in Trace :
           /\ traces' = Append(traces, x) /\ c \in MayStore(x.pair)
           /\ UNCHANGED batch
           /\ uncommitted' = [uncommitted EXCEPT ![c] = << >>]
           /\ \/ Insert(c) /\ x.pair = ThisPair(c) /\ pc'[c] = "stats"
              \/ /\ InitSchema(c) /\ x.pair = uncommitted[c][1].pair /\ pc[c] = "insert"
                 /\ x.pair # ThisPair(c) /\ UNCHANGED <<pc, row>>
<1> USE DEF IInv
<1>1. CASE InitSchema(c)
  <2>1. uncommitted[c] # << >> /\ pc[c] = "insert" /\ UNCHANGED <<pc, row, batch>>
        BY <1>1 DEF InitSchema, run
  <2> DEFINE x == uncommitted[c][1]
  <2>2. x \in Trace /\ uncommitted[c] = <<x>>  BY <2>1, OneRowOrNone
  <2>3. traces' = Append(traces, x)
    <3>1. traces' = traces \o uncommitted[c] /\ traces \in Seq(Trace)
          BY <1>1 DEF InitSchema, TypeOK
    <3> HIDE DEF x
    <3> QED BY <2>2, <3>1, AppendIsConcat
  <2>4. c \in MayStore(x.pair)  BY <2>1 DEF MayStore
  <2>5. x.pair # ThisPair(c)  BY <2>1 DEF LockInv
  <2> QED BY <1>1, <2>1, <2>2, <2>3, <2>4, <2>5 DEF InitSchema
<1>2. CASE Insert(c)
  <2>1. /\ pc[c] = "insert" /\ uncommitted[c] = << >> /\ pc'[c] = "stats"
        /\ traces' = Append(traces, NewRow(c)) /\ UNCHANGED <<uncommitted, batch>>
        BY <1>2 DEF Insert, run, GoTo, TypeOK
  <2>2. NewRow(c) \in Trace /\ NewRow(c).pair = ThisPair(c)  BY <2>1, NewRowType DEF NewRow
  <2>3. c \in MayStore(ThisPair(c))  BY <2>1 DEF MayStore
  <2>4. uncommitted' = [uncommitted EXCEPT ![c] = << >>]  BY <2>1 DEF TypeOK
  <2> QED BY <1>2, <2>1, <2>2, <2>3, <2>4
<1> QED BY <1>1, <1>2

\* The lock has one holder throughout, and the holder is inside the importer.
LEMMA LockStep ==
  ASSUME IInv, LockInv, NEW c \in Caller, Step(c)
  PROVE  LockInv'
<1> DEFINE Holds(d) ==
      uncommitted[d] # << >> =>
        /\ pc[d] \in {"import", "insert"} /\ Unlocked(d)
        /\ pc[d] = "insert" => uncommitted[d][1].pair # ThisPair(d)
<1>1. TypeOK  BY DEF IInv
<1>2. \A d \in Caller : Holds(d)  BY DEF LockInv
<1>3. ASSUME NEW d \in Caller \ {c}
      PROVE  pc'[d] = pc[d] /\ ThisPair(d)' = ThisPair(d)
      BY <1>1, OthersKeepTheirs DEF Own, ThisPair
<1>4. CASE UNCHANGED uncommitted
           /\ \/ pc'[c] # "insert" /\ (uncommitted[c] # << >> => pc'[c] \in {"import", "insert"})
              \/ /\ pc'[c] = "insert" /\ UNCHANGED <<batch, row>>
                 /\ Rows(traces \o uncommitted[c], ThisPair(c)) = {}
  <2>1. \A d \in Caller : Unlocked(d)' <=> Unlocked(d)  BY <1>4 DEF Unlocked
  <2>2. \A d \in Caller \ {c} : Holds(d)'  BY <1>2, <1>3, <1>4, <2>1
  <2>3. ASSUME uncommitted[c] # << >>, pc'[c] = "insert"
        PROVE  uncommitted'[c][1].pair # ThisPair(c)'
    <3>1. ThisPair(c)' = ThisPair(c) /\ uncommitted' = uncommitted
          BY <1>4, <2>3 DEF ThisPair
    <3> DEFINE x == uncommitted[c][1]
    <3>2. uncommitted[c] = <<x>> /\ x \in Trace  BY <2>3, OneRowOrNone
    <3>3. traces \in Seq(Trace)  BY <1>1 DEF TypeOK
    <3> HIDE DEF x
    <3>4. traces \o uncommitted[c] = Append(traces, x)  BY <3>2, <3>3, AppendIsConcat
    <3>5. x.pair = ThisPair(c) => Len(traces) + 1 \in Rows(traces \o uncommitted[c], ThisPair(c))
          BY <3>2, <3>3, <3>4, RowsOfAppend
    <3>6. x.pair # ThisPair(c)  BY <1>4, <2>3, <3>5
    <3> QED BY <3>1, <3>6 DEF x
  <2>4. Holds(c)'  BY <1>2, <1>4, <2>1, <2>3
  <2> QED BY <2>2, <2>4 DEF LockInv
<1>5. CASE uncommitted' = [uncommitted EXCEPT ![c] = << >>]
  <2>1. /\ uncommitted'[c] = << >>
        /\ \A d \in Caller \ {c} : uncommitted'[d] = uncommitted[d]
        BY <1>1, <1>5 DEF TypeOK
  <2>2. \A d \in Caller : Unlocked(d) => Unlocked(d)'  BY <2>1 DEF Unlocked
  <2> QED BY <1>2, <1>3, <2>1, <2>2 DEF LockInv
<1>6. CASE CommitBusy(c)
  <2>1. /\ uncommitted' = [uncommitted EXCEPT ![c] = <<NewRow(c)>>] /\ pc'[c] = "import"
        /\ Unlocked(c)
        BY <1>1, <1>6 DEF CommitBusy, ImportError, GoTo, TypeOK
  <2>2. \A d \in Caller \ {c} : uncommitted'[d] = uncommitted[d] /\ uncommitted[d] = << >>
        BY <1>1, <2>1 DEF Unlocked, TypeOK
  <2>3. Unlocked(c)'  BY <2>2 DEF Unlocked
  <2>4. Holds(c)'  BY <2>1, <2>3
  <2>5. \A d \in Caller \ {c} : Holds(d)'  BY <2>2
  <2> QED BY <2>4, <2>5 DEF LockInv
<1>7. InitSchema(c) \/ Insert(c) => uncommitted' = [uncommitted EXCEPT ![c] = << >>]
      BY StoredRow
<1> QED BY <1>4, <1>5, <1>6, <1>7, StoreStep

LEMMA LockHolds ==
  ASSUME IInv, LockInv, [Next]_vars
  PROVE  LockInv'
<1>1. CASE UNCHANGED vars
      BY <1>1 DEF vars, store, run, LockInv, Unlocked, ThisPair
<1> QED BY <1>1, LockStep, NextIsStep

\* One connection at most holds the lock of a commit that timed out; its caller
\* is inside the importer and finds no other connection in its way
\* (countermodel_importer.import_lawbook, lawbook_store.init_schema).
THEOREM LockHasOneHolder == Safe => []LockInv
<1>1. Init => LockInv  BY DEF Init, LockInv
<1>2. IInv /\ LockInv /\ [Next]_vars => LockInv'  BY LockHolds
<1> QED BY <1>1, <1>2, Invariance, PTL DEF Safe

LEMMA RowsLeftType ==
  ASSUME TypeOK, NEW c \in Caller
  PROVE  RowsLeft(c) \in Nat
<1>1. row[c] \in 1..(Len(batch[c]) + 1) /\ Len(batch[c]) \in Nat
      BY RowInBatch DEF TypeOK
<1>2. Len(batch[c]) + 1 - row[c] \in Nat  BY <1>1
<1> QED BY <1>2 DEF RowsLeft

LEMMA RowsLeftTypeAfter ==
  ASSUME TypeOK', NEW c \in Caller
  PROVE  RowsLeft(c)' \in Nat
<1>1. batch'[c] \in Seq(Pair) /\ row'[c] \in 1..(Len(batch'[c]) + 1)  BY DEF TypeOK
<1>2. Len(batch'[c]) \in Nat  BY <1>1, LenProperties
<1>3. Len(batch'[c]) + 1 - row'[c] \in Nat  BY <1>1, <1>2
<1> QED BY <1>3 DEF RowsLeft

\* A step that the holder takes brings it nearer to the end of its import.
LEMMA HolderStep ==
  ASSUME IInv, LockInv, NEW c \in Caller, Step(c), uncommitted[c] # << >>,
         uncommitted'[c] # << >>, ~(\E p \in Pair : Query(c, p))
  PROVE  RowsLeft(c)' < RowsLeft(c)
<1>1. TypeOK /\ PlaceInv  BY DEF IInv
<1>2. pc[c] \in {"import", "insert"} /\ Unlocked(c)  BY DEF LockInv
<1>3. row[c] \in 1..(Len(batch[c]) + 1) /\ Len(batch[c]) \in Nat
      BY <1>1, RowInBatch DEF TypeOK
<1>4. ASSUME InBatch(c), NextRow(c), UNCHANGED batch,
             pc'[c] = "import"
      PROVE  RowsLeft(c)' < RowsLeft(c)
  <2>1. row'[c] = row[c] + 1  BY <1>1, <1>4, Advances
  <2>2. RowsLeft(c)' = 2 * (Len(batch[c]) + 1 - (row[c] + 1)) + 1
        BY <1>4, <2>1 DEF RowsLeft
  <2>3. \/ RowsLeft(c) = 2 * (Len(batch[c]) + 1 - row[c]) + 1
        \/ RowsLeft(c) = 2 * (Len(batch[c]) + 1 - row[c]) + 0
        BY DEF RowsLeft
  <2>4. \A l \in Nat : \A r \in 1..(l + 1) :
          2 * (l + 1 - (r + 1)) + 1 < 2 * (l + 1 - r) + 0
        OBVIOUS
  <2>5. \A l \in Nat : \A r \in 1..(l + 1) :
          2 * (l + 1 - (r + 1)) + 1 < 2 * (l + 1 - r) + 1
        OBVIOUS
  <2> QED BY <1>3, <2>2, <2>3, <2>4, <2>5
<1>5. CASE ImportCheck(c)
  <2>1. InBatch(c) /\ UNCHANGED batch /\ pc[c] = "import"  BY <1>5 DEF ImportCheck
  <2>2. \/ NextRow(c) /\ UNCHANGED pc
        \/ GoTo(c, "insert") /\ UNCHANGED row
        BY <1>5 DEF ImportCheck
  <2>3. CASE NextRow(c) /\ UNCHANGED pc  BY <1>4, <2>1, <2>3
  <2>4. CASE GoTo(c, "insert") /\ UNCHANGED row
    <3>1. pc'[c] = "insert"  BY <1>1, <2>4, Moves
    <3>2. /\ RowsLeft(c) = 2 * (Len(batch[c]) + 1 - row[c]) + 1
          /\ RowsLeft(c)' = 2 * (Len(batch[c]) + 1 - row[c]) + 0
          BY <2>1, <2>4, <3>1 DEF RowsLeft
    <3> QED BY <1>3, <3>2
  <2> QED BY <2>2, <2>3, <2>4
<1>6. CASE SchemaBusy(c)
  <2>1. pc[c] = "insert" /\ NextRow(c) /\ UNCHANGED batch /\ pc'[c] = "import"
        BY <1>1, <1>6 DEF SchemaBusy, ImportError, GoTo, TypeOK
  <2>2. InBatch(c)  BY <1>1, <2>1, NewRowType
  <2> QED BY <1>4, <2>1, <2>2
<1>7. ~InitSchema(c) /\ ~CloseImport(c) /\ ~Abort(c)
      BY <1>1 DEF InitSchema, CloseImport, Abort, TypeOK
<1>8. ~Insert(c) /\ ~CommitBusy(c) /\ ~InsertLocked(c) /\ ~Stats(c) /\ ~StatsLocked(c)
      BY <1>2 DEF Insert, CommitBusy, InsertLocked, Stats, StatsLocked
<1>9. /\ ~(\E b, audit : Begin(c, b, audit)) /\ ~Triage(c) /\ ~(\E F : Execute(c, F))
      /\ ~After(c) /\ ~Finish(c)
      BY <1>2 DEF Begin, Triage, Execute, After, Finish
<1> QED BY <1>5, <1>6, <1>7, <1>8, <1>9 DEF Step, Episode, Submit, RunEpisode

\* The half of LockIsReleased that needs no fairness: whoever holds the lock of
\* a commit that timed out has a number of steps left, and each step of its
\* episode lets the lock go or lowers that number.
THEOREM HolderGoesOn == Safe => HolderAdvances
<1> DEFINE Advance ==
      \A c \in Caller : uncommitted[c] # << >> /\ uncommitted'[c] # << >> =>
        /\ RowsLeft(c) \in Nat /\ RowsLeft(c)' \in Nat
        /\ RowsLeft(c)' <= RowsLeft(c)
        /\ Episode(c) => RowsLeft(c)' < RowsLeft(c)
<1>1. ASSUME IInv, LockInv, IInv', Next PROVE Advance
  <2>1. PICK d \in Caller : Step(d)  BY <1>1, NextIsStep
  <2>2. TypeOK /\ TypeOK'  BY <1>1 DEF IInv
  <2>3. SUFFICES ASSUME NEW c \in Caller, uncommitted[c] # << >>, uncommitted'[c] # << >>
        PROVE  /\ RowsLeft(c)' <= RowsLeft(c)
               /\ Episode(c) => RowsLeft(c)' < RowsLeft(c)
    <3>1. \A c \in Caller : RowsLeft(c) \in Nat  BY <2>2, RowsLeftType
    <3>2. \A c \in Caller : RowsLeft(c)' \in Nat  BY <2>2, RowsLeftTypeAfter
    <3> QED BY <3>1, <3>2
  <2>4. RowsLeft(c) \in Nat /\ RowsLeft(c)' \in Nat
        BY <2>2, RowsLeftType, RowsLeftTypeAfter
  <2>5. pc[c] \in {"import", "insert"}  BY <1>1, <2>3 DEF LockInv
  <2>6. \A p \in Pair : ~Query(c, p)  BY <2>5 DEF Query
  <2>7. ASSUME Episode(c) PROVE RowsLeft(c)' < RowsLeft(c)
        BY <1>1, <2>3, <2>6, <2>7, HolderStep DEF Step
  <2>8. CASE d = c
    <3>1. RowsLeft(c)' < RowsLeft(c)  BY <1>1, <2>1, <2>3, <2>6, <2>8, HolderStep
    <3> QED BY <1>1, <2>3, <2>4, <2>7, <3>1
  <2>9. CASE d # c
    <3>1. RowsLeft(c)' = RowsLeft(c)
          BY <2>1, <2>2, <2>9, OthersKeepTheirs DEF Own, RowsLeft
    <3> QED BY <2>4, <2>7, <3>1
  <2> QED BY <2>8, <2>9
<1>2. IInv /\ LockInv /\ IInv' /\ [Next]_vars => [Advance]_vars  BY <1>1
<1> QED BY <1>2, Invariance, LockHasOneHolder, PTL DEF Safe, HolderAdvances
-----------------------------------------------------------------------------
(***************************************************************************)
(* Duplicate rows. The importer's check for an existing pair is not one    *)
(* transaction with its INSERT, so NoDuplicateRow fails for callers that   *)
(* import at once; these theorems say how far, and when it holds.          *)
(***************************************************************************)

\* Another caller's step leaves d among the callers that may store p, or not.
LEMMA MayStoreOfOthers ==
  ASSUME IInv, NEW c \in Caller, Step(c), NEW d \in Caller \ {c}, NEW p,
         uncommitted'[d] = uncommitted[d]
  PROVE  d \in MayStore(p)' <=> d \in MayStore(p)
<1>1. pc'[d] = pc[d] /\ ThisPair(d)' = ThisPair(d)
      BY OthersKeepTheirs DEF IInv, Own, ThisPair
<1> QED BY <1>1 DEF MayStore

\* A row stored takes its caller out of those that may store the pair, a row
\* found missing puts a caller in while the pair has none.
LEMMA StoreInvStep ==
  ASSUME IsFiniteSet(Caller), IInv, LockInv, StoreInv, NEW c \in Caller, Step(c)
  PROVE  StoreInv'
<1>1. TypeOK /\ traces \in Seq(Trace)  BY DEF IInv, TypeOK
<1>2. SUFFICES ASSUME NEW p \in Pair
      PROVE  Cardinality(Rows(traces', p)) + Cardinality(MayStore(p)') <= Cardinality(Caller)
      BY DEF StoreInv
<1> DEFINE M == MayStore(p)
           N == MayStore(p)'
           K == Cardinality(Caller)
<1>3. /\ IsFiniteSet(M) /\ Cardinality(M) \in Nat /\ M \subseteq Caller
      /\ IsFiniteSet(N) /\ Cardinality(N) \in Nat /\ N \subseteq Caller
      /\ Cardinality(N) <= K /\ K \in Nat
  <2>1. M \in SUBSET Caller /\ N \in SUBSET Caller  BY DEF MayStore
  <2>2. IsFiniteSet(M) /\ IsFiniteSet(N) /\ Cardinality(N) <= K  BY <2>1, FS_Subset
  <2> QED BY <2>1, <2>2, FS_CardinalityType
<1>4. Cardinality(Rows(traces, p)) \in Nat /\ IsFiniteSet(Rows(traces, p))
      BY <1>1, RowsFinite
<1>5. Cardinality(Rows(traces, p)) + Cardinality(M) <= K  BY DEF StoreInv
<1> HIDE DEF M, N, K
<1>6. N \subseteq M => Cardinality(N) <= Cardinality(M)
  <2>1. ASSUME N \subseteq M PROVE Cardinality(N) <= Cardinality(M)
    <3>1. N \in SUBSET M  BY <2>1
    <3> QED BY <1>3, <3>1, FS_Subset
  <2> QED BY <2>1
<1>7. \A d \in Caller \ {c} : uncommitted'[d] = uncommitted[d] => (d \in N <=> d \in M)
      BY MayStoreOfOthers DEF M, N
<1>8. \A d \in Caller \ {c} : uncommitted'[d] = uncommitted[d]
      BY <1>1, OthersKeepTheirs DEF Own
<1>9. (c \in N => c \in M) => N \subseteq M  BY <1>3, <1>7, <1>8
<1>10. CASE traces' = traces /\ (c \in N => c \in M)
       BY <1>3, <1>4, <1>5, <1>6, <1>9, <1>10 DEF K, N
<1>11. CASE Rows(traces, p) = {} /\ traces' = traces
  <2>1. Cardinality(Rows(traces', p)) = 0  BY <1>11, FS_EmptySet
  <2> QED BY <1>3, <2>1 DEF K, N
<1>12. CASE InitSchema(c) \/ Insert(c)
  <2>1. PICK x \in Trace :
          /\ traces' = Append(traces, x) /\ c \in MayStore(x.pair)
          /\ uncommitted' = [uncommitted EXCEPT ![c] = << >>]
          /\ UNCHANGED batch
          /\ \/ Insert(c) /\ x.pair = ThisPair(c) /\ pc'[c] = "stats"
             \/ /\ InitSchema(c) /\ x.pair = uncommitted[c][1].pair /\ pc[c] = "insert"
                /\ x.pair # ThisPair(c) /\ UNCHANGED <<pc, row>>
        BY <1>12, StoredRow
  <2>2. uncommitted'[c] = << >>  BY <1>1, <2>1 DEF TypeOK
  <2>3. c \in N => x.pair # p /\ pc[c] = "insert" /\ ThisPair(c) = p
        BY <2>1, <2>2 DEF N, MayStore, ThisPair
  <2>4. c \in N => c \in M  BY <2>3 DEF M, MayStore
  <2>5. CASE x.pair # p
    <3>1. Rows(traces', p) = Rows(traces, p)  BY <1>1, <2>1, <2>5, RowsOfAppend
    <3> QED BY <1>3, <1>4, <1>5, <1>6, <1>9, <2>4, <3>1 DEF K, N
  <2>6. CASE x.pair = p
    <3>1. /\ Rows(traces', p) = Rows(traces, p) \cup {Len(traces) + 1}
          /\ Len(traces) + 1 \notin Rows(traces, p)
          BY <1>1, <2>1, <2>6, RowsOfAppend
    <3>2. Cardinality(Rows(traces', p)) = Cardinality(Rows(traces, p)) + 1
          BY <1>4, <3>1, FS_AddElement
    <3>3. c \in M /\ c \notin N  BY <2>1, <2>3, <2>6 DEF M
    <3>4. N \in SUBSET (M \ {c})  BY <1>9, <3>3
    <3>5. IsFiniteSet(M \ {c}) /\ Cardinality(M \ {c}) = Cardinality(M) - 1
          BY <1>3, <3>3, FS_RemoveElement
    <3>6. Cardinality(N) <= Cardinality(M \ {c})  BY <3>4, <3>5, FS_Subset
    <3> QED BY <1>3, <1>4, <1>5, <3>2, <3>5, <3>6 DEF K, N
  <2> QED BY <2>5, <2>6
<1>13. CASE CommitBusy(c)
  <2>1. /\ UNCHANGED traces /\ pc[c] = "insert" /\ pc'[c] = "import"
        /\ uncommitted'[c] = <<NewRow(c)>>
        BY <1>1, <1>13 DEF CommitBusy, ImportError, GoTo, TypeOK
  <2>2. c \in N => ThisPair(c) = p  BY <2>1 DEF N, MayStore, NewRow
  <2>3. c \in N => c \in M  BY <2>1, <2>2 DEF M, MayStore
  <2> QED BY <1>10, <2>1, <2>3
<1>14. CASE UNCHANGED <<traces, uncommitted>> /\ pc'[c] # "insert"
  <2>1. c \in N => c \in M  BY <1>14 DEF M, N, MayStore
  <2> QED BY <1>10, <1>14, <2>1
<1>15. CASE /\ UNCHANGED <<traces, uncommitted, batch, row>> /\ pc'[c] = "insert"
            /\ Rows(traces \o uncommitted[c], ThisPair(c)) = {}
  <2>1. CASE c \in N /\ c \notin M
    <3>1. ThisPair(c) = p  BY <1>15, <2>1 DEF M, N, MayStore, ThisPair
    <3>2. Rows(traces, p) \subseteq Rows(traces \o uncommitted[c], p)
          BY <1>1, RowsOfConcat DEF TypeOK
    <3> QED BY <1>11, <1>15, <3>1, <3>2
  <2> QED BY <1>10, <1>15, <2>1
<1>16. CASE /\ UNCHANGED traces /\ pc'[c] # "insert"
            /\ uncommitted' = [uncommitted EXCEPT ![c] = << >>]
  <2>1. uncommitted'[c] = << >>  BY <1>1, <1>16 DEF TypeOK
  <2>2. c \notin N  BY <1>16, <2>1 DEF N, MayStore
  <2> QED BY <1>10, <1>16, <2>2
<1> QED BY <1>12, <1>13, <1>14, <1>15, <1>16, StoreStep

LEMMA StoreInvHolds ==
  ASSUME IsFiniteSet(Caller), IInv, LockInv, StoreInv, [Next]_vars
  PROVE  StoreInv'
<1>1. CASE UNCHANGED vars
      BY <1>1 DEF vars, store, run, StoreInv, MayStore, ThisPair
<1> QED BY <1>1, StoreInvStep, NextIsStep

\* However the checks and inserts of the callers interleave, and however many
\* episodes they run, a pair has at most one row for each caller: the store's
\* duplicates do not grow with use (countermodel_importer.py:175).
THEOREM DuplicatesStayBounded ==
  ASSUME IsFiniteSet(Caller)
  PROVE  Safe => []DuplicatesAreBounded
<1>1. Init => StoreInv
  <2>1. SUFFICES ASSUME Init PROVE StoreInv  OBVIOUS
  <2>2. ASSUME NEW p \in Pair
        PROVE  Cardinality(Rows(traces, p)) + Cardinality(MayStore(p)) <= Cardinality(Caller)
    <3>1. Rows(traces, p) = {}  BY <2>1 DEF Init, Rows
    <3>2. MayStore(p) = {}  BY <2>1 DEF Init, MayStore
    <3>3. Cardinality(Caller) \in Nat  BY FS_CardinalityType
    <3> QED BY <3>1, <3>2, <3>3, FS_EmptySet
  <2> QED BY <2>2 DEF StoreInv
<1>2. IInv /\ LockInv /\ StoreInv /\ [Next]_vars => StoreInv'  BY StoreInvHolds
<1>3. IInv /\ StoreInv => DuplicatesAreBounded
  <2>1. SUFFICES ASSUME IInv, StoreInv, NEW p \in Pair
        PROVE  Cardinality(Rows(traces, p)) <= Cardinality(Caller)
        BY DEF DuplicatesAreBounded
  <2>2. MayStore(p) \in SUBSET Caller  BY DEF MayStore
  <2>3. Cardinality(MayStore(p)) \in Nat /\ Cardinality(Caller) \in Nat
        BY <2>2, FS_Subset, FS_CardinalityType
  <2>4. Cardinality(Rows(traces, p)) \in Nat
    <3>1. traces \in Seq(Trace)  BY <2>1 DEF IInv, TypeOK
    <3> QED BY <3>1, RowsFinite
  <2>5. Cardinality(Rows(traces, p)) + Cardinality(MayStore(p)) <= Cardinality(Caller)
        BY <2>1 DEF StoreInv
  <2> QED BY <2>3, <2>4, <2>5
<1> QED BY <1>1, <1>2, <1>3, Invariance, LockHasOneHolder, PTL DEF Safe

\* Where no two callers import at once, a pair found missing stays missing
\* until it is stored.
LEMMA AloneStep ==
  ASSUME IInv, LockInv, ImportsAlone, AloneInv, NEW c \in Caller, Step(c)
  PROVE  AloneInv'
<1>1. TypeOK /\ traces \in Seq(Trace)  BY DEF IInv, TypeOK
<1> DEFINE Waits(d) ==
      /\ pc[d] = "insert" => Rows(traces, ThisPair(d)) = {}
      /\ uncommitted[d] # << >> => Rows(traces, uncommitted[d][1].pair) = {}
<1>2. \A d \in Caller : Waits(d)  BY DEF AloneInv
<1>3. ASSUME NEW d \in Caller \ {c}
      PROVE  /\ pc'[d] = pc[d] /\ ThisPair(d)' = ThisPair(d)
             /\ uncommitted'[d] = uncommitted[d]
      BY <1>1, OthersKeepTheirs DEF Own, ThisPair
<1>4. CASE UNCHANGED traces
  <2>1. \A d \in Caller \ {c} : Waits(d)'  BY <1>2, <1>3, <1>4
  <2>2. NoDuplicateRow'  BY <1>4 DEF AloneInv, NoDuplicateRow
  <2>3. Waits(c)'
    <3>1. CASE UNCHANGED uncommitted /\ pc'[c] # "insert"  BY <1>2, <1>4, <3>1
    <3>2. CASE /\ UNCHANGED <<uncommitted, batch, row>>
               /\ Rows(traces \o uncommitted[c], ThisPair(c)) = {}
      <4>1. Rows(traces, ThisPair(c)) \subseteq Rows(traces \o uncommitted[c], ThisPair(c))
            BY <1>1, RowsOfConcat DEF TypeOK
      <4>2. ThisPair(c)' = ThisPair(c)  BY <3>2 DEF ThisPair
      <4> QED BY <1>2, <1>4, <3>2, <4>1, <4>2
    <3>3. CASE CommitBusy(c)
      <4>1. /\ pc[c] = "insert" /\ pc'[c] = "import" /\ uncommitted'[c] = <<NewRow(c)>>
            BY <1>1, <3>3 DEF CommitBusy, ImportError, GoTo, TypeOK
      <4> QED BY <1>2, <1>4, <4>1 DEF NewRow
    <3>4. CASE uncommitted' = [uncommitted EXCEPT ![c] = << >>] /\ pc'[c] # "insert"
      <4>1. uncommitted'[c] = << >>  BY <1>1, <3>4 DEF TypeOK
      <4> QED BY <3>4, <4>1
    <3>5. CASE InitSchema(c) \/ Insert(c)
      <4>1. PICK x \in Trace : traces' = Append(traces, x)  BY <3>5, StoredRow
      <4>2. Append(traces, x) # traces  BY <1>1, AppendProperties, LenProperties
      <4> QED BY <1>4, <4>1, <4>2
    <3> QED BY <3>1, <3>2, <3>3, <3>4, <3>5, StoreStep
  <2> QED BY <2>1, <2>2, <2>3 DEF AloneInv
<1>5. CASE InitSchema(c) \/ Insert(c)
  <2>1. PICK x \in Trace :
          /\ traces' = Append(traces, x) /\ c \in MayStore(x.pair)
          /\ uncommitted' = [uncommitted EXCEPT ![c] = << >>]
          /\ UNCHANGED batch
          /\ \/ Insert(c) /\ x.pair = ThisPair(c) /\ pc'[c] = "stats"
             \/ /\ InitSchema(c) /\ x.pair = uncommitted[c][1].pair /\ pc[c] = "insert"
                /\ x.pair # ThisPair(c) /\ UNCHANGED <<pc, row>>
        BY <1>5, StoredRow
  <2>2. pc[c] = "insert" /\ uncommitted'[c] = << >>
        BY <1>1, <1>5, <2>1 DEF InitSchema, Insert, TypeOK
  <2>3. \A d \in Caller \ {c} : Waits(d)'
    <3>1. SUFFICES ASSUME NEW d \in Caller \ {c} PROVE Waits(d)'  OBVIOUS
    <3>2. pc[d] \notin {"import", "insert"}  BY <2>2 DEF ImportsAlone
    <3>3. uncommitted[d] = << >>  BY <3>2 DEF LockInv
    <3> QED BY <1>3, <3>2, <3>3
  <2>4. Rows(traces, x.pair) = {}  BY <1>2, <2>1 DEF MayStore
  <2>5. NoDuplicateRow'
    <3>1. /\ traces' \in Seq(Trace) /\ Len(traces') = Len(traces) + 1
          /\ \A i \in 1..Len(traces) : traces'[i] = traces[i]
          /\ traces'[Len(traces) + 1] = x
          /\ DOMAIN traces = 1..Len(traces) /\ Len(traces) \in Nat
          BY <1>1, <2>1, AppendProperties, LenProperties
    <3>2. DOMAIN traces' = 1..(Len(traces) + 1)  BY <3>1, LenProperties
    <3>3. \A i \in DOMAIN traces' : i \in DOMAIN traces \/ i = Len(traces) + 1
          BY <3>1, <3>2
    <3>4. \A i \in DOMAIN traces : traces'[i] = traces[i] /\ traces[i].pair # x.pair
          BY <2>4, <3>1 DEF Rows
    <3>5. \A i, j \in DOMAIN traces : traces[i].pair = traces[j].pair => i = j
          BY DEF AloneInv, NoDuplicateRow
    <3> QED BY <3>1, <3>3, <3>4, <3>5 DEF NoDuplicateRow
  <2>6. Waits(c)'
    <3>1. CASE pc'[c] = "stats"  BY <2>2, <3>1
    <3>2. CASE x.pair # ThisPair(c) /\ UNCHANGED row
      <4>1. ThisPair(c)' = ThisPair(c)  BY <2>1, <3>2 DEF ThisPair
      <4>2. Rows(traces', ThisPair(c)) = Rows(traces, ThisPair(c))
            BY <1>1, <2>1, <3>2, RowsOfAppend
      <4> QED BY <1>2, <2>2, <4>1, <4>2
    <3> QED BY <2>1, <3>1, <3>2
  <2> QED BY <2>3, <2>5, <2>6 DEF AloneInv
<1>6. UNCHANGED traces \/ InitSchema(c) \/ Insert(c)
      BY StoreStep DEF CommitBusy, ImportError
<1> QED BY <1>4, <1>5, <1>6

LEMMA AloneHolds ==
  ASSUME IInv, LockInv, ImportsAlone, AloneInv, [Next]_vars
  PROVE  AloneInv'
<1>1. CASE UNCHANGED vars
      BY <1>1 DEF vars, store, run, AloneInv, NoDuplicateRow, ThisPair
<1> QED BY <1>1, AloneStep, NextIsStep

\* "exact primitive pair already exists" is true of every behaviour in which no
\* two callers import at once, whatever else of their episodes overlaps and
\* whatever commits time out: the importer's window is the only way to a
\* duplicate row.
THEOREM AloneNoDuplicates == Safe /\ []ImportsAlone => []NoDuplicateRow
<1>1. Init => AloneInv
      BY DEF Init, AloneInv, NoDuplicateRow
<1>2. IInv /\ LockInv /\ ImportsAlone /\ AloneInv /\ [Next]_vars => AloneInv'
      BY AloneHolds
<1>3. AloneInv => NoDuplicateRow  BY DEF AloneInv
<1> QED BY <1>1, <1>2, <1>3, Invariance, LockHasOneHolder, PTL DEF Safe
-----------------------------------------------------------------------------
(***************************************************************************)
(* Error rows. ErrorMeansAbsent fails in two ways: a commit that times out *)
(* leaves its row on the connection, and the statistics are read after the *)
(* commit. Alone in the importer, only the first way is left.              *)
(***************************************************************************)

\* The certificates of the store's rows.
Certs(t) == {t[k].cert : k \in DOMAIN t}

\* An episode's number is its own, and the store's rows are of episodes.
NumberInv ==
  /\ \A c \in Caller : episode[c] <= episodes
  /\ \A c, d \in Caller : episode[c] = episode[d] /\ episode[c] # 0 => c = d
  /\ Certs(traces) \subseteq (1..episodes) \X Nat

\* Of the rows of c's episode, those in the store are behind it, and were
\* imported or are followed by another that had a countermodel, but for the one
\* whose statistics are being read; and the uncommitted one is behind it.
Carried(c) ==
  /\ \A i \in Nat : <<episode[c], i>> \in Certs(traces) =>
       /\ i \in 1..Len(batch[c]) /\ pc[c] # "triage"
       /\ pc[c] \in {"import", "insert"} => i < row[c]
       /\ pc[c] = "stats" => i <= row[c]
       /\ \/ imported[c][i] = "imported"
          \/ \E j \in found[c] : j > i
          \/ pc[c] = "stats" /\ i = row[c]
  /\ uncommitted[c] # << >> =>
       \E i \in 1..Len(batch[c]) : i < row[c] /\ uncommitted[c][1].cert = <<episode[c], i>>

\* The rows the importer has not come to have no status yet.
AheadInv ==
  \A c \in Caller : \A i \in 1..Len(batch[c]) :
    pc[c] = "triage" \/ (pc[c] \in {"import", "insert", "stats"} /\ i >= row[c]) =>
      imported[c][i] = "none"

CarryInv == NumberInv /\ AheadInv /\ \A c \in Caller : Carried(c)

\* A row that is reported as an error is in the store only if its connection went
\* on to a later row of the batch that had a countermodel. Where this holds, the
\* last such row of a batch, and the only row of submit_claim, is no stored error.
ErrorRowIsCarried ==
  \A c \in Caller : \A i \in DOMAIN imported[c], k \in DOMAIN traces :
    imported[c][i] = "error" /\ traces[k].cert = <<episode[c], i>> => \E j \in found[c] : j > i

LEMMA CertsOfAppend ==
  ASSUME NEW t \in Seq(Trace), NEW x \in Trace
  PROVE  Certs(Append(t, x)) = Certs(t) \cup {x.cert}
<1>1. DOMAIN t = 1..Len(t) /\ Len(t) \in Nat  BY LenProperties
<1>2. /\ Append(t, x) \in Seq(Trace) /\ Len(Append(t, x)) = Len(t) + 1
      /\ \A k \in 1..Len(t) : Append(t, x)[k] = t[k]
      /\ Append(t, x)[Len(t) + 1] = x
      BY <1>1, AppendProperties
<1>3. DOMAIN Append(t, x) = 1..(Len(t) + 1)  BY <1>2, LenProperties
<1>4. 1..(Len(t) + 1) = (1..Len(t)) \cup {Len(t) + 1}  BY <1>1
<1> QED BY <1>1, <1>2, <1>3, <1>4 DEF Certs

\* A row that is stored is of the episode that stores it.
LEMMA CertsStep ==
  ASSUME IInv, LockInv, CarryInv, NEW c \in Caller, Step(c)
  PROVE  \/ traces' = traces
         \/ /\ pc[c] = "insert" /\ UNCHANGED <<episode, episodes>>
            /\ \E i \in 1..Len(batch[c]) :
                 /\ Certs(traces') = Certs(traces) \cup {<<episode[c], i>>}
                 /\ \/ Insert(c) /\ i = row[c]
                    \/ InitSchema(c) /\ i < row[c]
<1>1. TypeOK /\ traces \in Seq(Trace)  BY DEF IInv, TypeOK
<1>2. CASE InitSchema(c)
  <2>1. /\ uncommitted[c] # << >> /\ pc[c] = "insert" /\ UNCHANGED <<episode, episodes>>
        /\ traces' = traces \o uncommitted[c]
        BY <1>2 DEF InitSchema, run
  <2> DEFINE x == uncommitted[c][1]
  <2>2. x \in Trace /\ uncommitted[c] = <<x>>  BY <2>1, OneRowOrNone
  <2>3. PICK i \in 1..Len(batch[c]) : i < row[c] /\ x.cert = <<episode[c], i>>
        BY <2>1 DEF CarryInv, Carried
  <2> HIDE DEF x
  <2>4. traces' = Append(traces, x)  BY <1>1, <2>1, <2>2, AppendIsConcat
  <2>5. Certs(traces') = Certs(traces) \cup {<<episode[c], i>>}
        BY <1>1, <2>2, <2>3, <2>4, CertsOfAppend
  <2> QED BY <1>2, <2>1, <2>3, <2>5
<1>3. CASE Insert(c)
  <2>1. /\ pc[c] = "insert" /\ UNCHANGED <<episode, episodes>>
        /\ traces' = Append(traces, NewRow(c))
        BY <1>3 DEF Insert, run
  <2>2. NewRow(c) \in Trace /\ InBatch(c)  BY <2>1, NewRowType DEF IInv
  <2>3. row[c] \in 1..Len(batch[c])  BY <1>1, <2>2, RowInBatch DEF InBatch
  <2>4. NewRow(c).cert = <<episode[c], row[c]>>  BY DEF NewRow, Certificate
  <2>5. Certs(traces') = Certs(traces) \cup {<<episode[c], row[c]>>}
        BY <1>1, <2>1, <2>2, <2>4, CertsOfAppend
  <2> QED BY <1>3, <2>1, <2>3, <2>5
<1>4. CASE ~InitSchema(c) /\ ~Insert(c)
      BY <1>4 DEF Step, Episode, Query, Submit, RunEpisode, Begin, Triage, Execute, ImportCheck,
                  CommitBusy, SchemaBusy, InsertLocked, Stats, StatsLocked, ImportError,
                  CloseImport, After, Finish, Return, Abort, store
<1> QED BY <1>2, <1>3, <1>4

\* What becomes of the episode's number.
LEMMA EpisodeStep ==
  ASSUME IInv, LockInv, NEW c \in Caller, Step(c)
  PROVE  /\ \A d \in Caller \ {c} : episode'[d] = episode[d]
         /\ \/ UNCHANGED <<episode, episodes>>
            \/ episode'[c] = 0 /\ UNCHANGED <<traces, episodes>> /\ uncommitted'[c] = << >>
            \/ /\ episode'[c] = episodes + 1 /\ episodes' = episodes + 1
               /\ UNCHANGED traces /\ uncommitted'[c] = << >>
<1>1. TypeOK  BY DEF IInv
<1>2. CASE \E b, audit : Begin(c, b, audit)
  <2>1. uncommitted[c] = << >>  BY <1>2 DEF Begin, LockInv
  <2> QED BY <1>1, <1>2, <2>1 DEF Begin, store, TypeOK
<1>3. CASE Finish(c)
  <2>1. uncommitted[c] = << >>  BY <1>3 DEF Finish, LockInv
  <2> QED BY <1>1, <1>3, <2>1 DEF Finish, Return, store, TypeOK
<1>4. CASE Abort(c)  BY <1>1, <1>4 DEF Abort, Return, TypeOK
<1>5. CASE /\ ~(\E b, audit : Begin(c, b, audit))
           /\ ~Finish(c) /\ ~Abort(c)
      BY <1>5 DEF Step, Episode, Query, Submit, RunEpisode, Triage, Execute, ImportCheck,
                  InitSchema, Insert, CommitBusy, SchemaBusy, InsertLocked, Stats,
                  StatsLocked, ImportError, CloseImport, After, run
<1> QED BY <1>2, <1>3, <1>4, <1>5

LEMMA NumberStep ==
  ASSUME IInv, LockInv, CarryInv, NEW c \in Caller, Step(c)
  PROVE  NumberInv'
<1>1. /\ episode \in [Caller -> 0..MaxEpisodes] /\ episodes \in Nat
      /\ \A d \in Caller : episode[d] \in Nat
      BY BoundsAssumption DEF IInv, TypeOK
<1>2. NumberInv  BY DEF CarryInv
<1>3. CASE UNCHANGED <<episode, episodes>>
  <2>1. CASE traces' = traces  BY <1>2, <1>3, <2>1 DEF NumberInv
  <2>2. CASE traces' # traces
    <3>1. PICK i \in 1..Len(batch[c]) :
             Certs(traces') = Certs(traces) \cup {<<episode[c], i>>} /\ pc[c] = "insert"
          BY <2>2, CertsStep
    <3>2. Len(batch[c]) \in Nat  BY RowInBatch DEF IInv
    <3>3. episode[c] \in 1..episodes
      <4>1. episode[c] # 0  BY <3>1 DEF IInv, PlaceInv
      <4> QED BY <1>1, <1>2, <4>1 DEF NumberInv
    <3> QED BY <1>2, <1>3, <3>1, <3>2, <3>3 DEF NumberInv
  <2> QED BY <2>1, <2>2
<1>4. CASE episode'[c] = 0 /\ UNCHANGED <<traces, episodes>>
      BY <1>1, <1>2, <1>4, EpisodeStep DEF NumberInv
<1>5. CASE episode'[c] = episodes + 1 /\ episodes' = episodes + 1 /\ UNCHANGED traces
  <2>1. \A d \in Caller \ {c} : episode'[d] = episode[d] /\ episode[d] <= episodes
        BY <1>2, EpisodeStep DEF NumberInv
  <2>2. 1..episodes \subseteq 1..episodes'  BY <1>1, <1>5
  <2>3. Certs(traces') \subseteq (1..episodes') \X Nat  BY <1>2, <1>5, <2>2 DEF NumberInv
  <2>4. \A d \in Caller : episode'[d] <= episodes'  BY <1>1, <1>5, <2>1
  <2>5. \A d, e \in Caller : episode'[d] = episode'[e] /\ episode'[d] # 0 => d = e
        BY <1>1, <1>2, <1>5, <2>1 DEF NumberInv
  <2> QED BY <2>3, <2>4, <2>5 DEF NumberInv
<1> QED BY <1>3, <1>4, <1>5, EpisodeStep

LEMMA AheadStep ==
  ASSUME IInv, AheadInv, NEW c \in Caller, Step(c)
  PROVE  AheadInv'
<1> DEFINE Ahead(d) ==
      \A i \in 1..Len(batch[d]) :
        pc[d] = "triage" \/ (pc[d] \in {"import", "insert", "stats"} /\ i >= row[d]) =>
          imported[d][i] = "none"
<1>1. TypeOK /\ \A d \in Caller : Ahead(d)  BY DEF IInv, AheadInv
<1>2. ASSUME NEW d \in Caller \ {c} PROVE Ahead(d)'
      BY <1>1, OthersKeepTheirs DEF Own
<1>3. ASSUME NEW b \in Seq(Pair), NEW audit, Begin(c, b, audit) PROVE Ahead(c)'
  <2>1. batch'[c] = b /\ imported'[c] = [i \in DOMAIN b |-> "none"]
        BY <1>1, <1>3 DEF Begin, TypeOK
  <2>2. DOMAIN b = 1..Len(b)  BY LenProperties
  <2> QED BY <2>1, <2>2
<1>4. ASSUME Triage(c) \/ (\E F : Execute(c, F)) PROVE Ahead(c)'
  <2>1. pc[c] = "triage" /\ UNCHANGED <<batch, imported>>
        BY <1>4 DEF Triage, Execute
  <2> QED BY <1>1, <2>1
<1>5. ASSUME InBatch(c), NextRow(c), UNCHANGED batch, pc[c] \in {"import", "insert", "stats"},
             \A i \in 1..Len(batch[c]) : i # row[c] => imported'[c][i] = imported[c][i]
      PROVE  Ahead(c)'
  <2>1. row'[c] = row[c] + 1 /\ row[c] \in Nat  BY <1>1, <1>5, Advances DEF TypeOK
  <2>2. ASSUME NEW i \in 1..Len(batch[c]), i >= row'[c] PROVE imported'[c][i] = "none"
    <3>1. i >= row[c] /\ i # row[c]  BY <2>1, <2>2
    <3> QED BY <1>1, <1>5, <3>1
  <2>3. pc'[c] # "triage" \/ \A i \in 1..Len(batch[c]) : imported'[c][i] = "none"
    <3>1. pc'[c] # "triage"
          BY <1>1, <1>5 DEF Step, Episode, Query, Submit, RunEpisode, Begin, Triage, Execute,
             ImportCheck, InitSchema, Insert, CommitBusy, SchemaBusy, InsertLocked, Stats,
             StatsLocked, ImportError, CloseImport, After, Finish, Abort, Return, GoTo, run,
             TypeOK
    <3> QED BY <3>1
  <2> QED BY <1>5, <2>2, <2>3
<1>6. ASSUME NEW s \in {"imported", "skipped_duplicate", "error"}, Report(c, s), InBatch(c)
      PROVE  \A i \in 1..Len(batch[c]) : i # row[c] => imported'[c][i] = imported[c][i]
      BY <1>1, <1>6, Reports
<1>7. ASSUME ImportCheck(c) PROVE Ahead(c)'
  <2>1. InBatch(c) /\ UNCHANGED batch /\ pc[c] = "import"  BY <1>7 DEF ImportCheck
  <2>2. CASE NextRow(c) /\ UNCHANGED imported  BY <1>5, <2>1, <2>2
  <2>3. CASE NextRow(c) /\ Report(c, "skipped_duplicate")  BY <1>5, <1>6, <2>1, <2>3
  <2>4. CASE GoTo(c, "insert") /\ UNCHANGED <<imported, row>>
    <3>1. pc'[c] = "insert"  BY <1>1, <2>4, Moves
    <3> QED BY <1>1, <2>1, <2>4, <3>1
  <2> QED BY <1>7, <2>2, <2>3, <2>4 DEF ImportCheck
<1>8. ASSUME \/ CommitBusy(c) \/ SchemaBusy(c) \/ InsertLocked(c) \/ Stats(c)
             \/ StatsLocked(c)
      PROVE  Ahead(c)'
  <2>1. /\ pc[c] \in {"insert", "stats"} /\ NextRow(c) /\ UNCHANGED batch
        /\ Report(c, "imported") \/ Report(c, "error")
        BY <1>8 DEF CommitBusy, SchemaBusy, InsertLocked, Stats, StatsLocked, ImportError
  <2>2. InBatch(c)  BY <2>1, NewRowType DEF IInv
  <2> QED BY <1>5, <1>6, <2>1, <2>2
<1>9. ASSUME Insert(c) PROVE Ahead(c)'
  <2>1. pc[c] = "insert" /\ pc'[c] = "stats" /\ UNCHANGED run
        BY <1>1, <1>9, Moves DEF Insert
  <2> QED BY <1>1, <2>1 DEF run
<1>10. ASSUME InitSchema(c) \/ (\E p \in Pair : Query(c, p)) PROVE Ahead(c)'
  <2>1. UNCHANGED <<pc, run>>  BY <1>10 DEF InitSchema, Query
  <2> QED BY <1>1, <2>1 DEF run
<1>11. ASSUME CloseImport(c) \/ After(c) \/ Finish(c) \/ Abort(c) PROVE Ahead(c)'
  <2>1. pc'[c] \in {"after", "idle"}
        BY <1>1, <1>11 DEF CloseImport, After, Finish, Abort, Return, GoTo, TypeOK
  <2> QED BY <2>1
<1>12. \A p \in Pair : <<p>> \in Seq(Pair)  OBVIOUS
<1>13. Ahead(c)'
       BY <1>3, <1>4, <1>7, <1>8, <1>9, <1>10, <1>11, <1>12, BatchesAssumption
       DEF Step, Episode, Submit, RunEpisode
<1>14. \A d \in Caller : Ahead(d)'  BY <1>2, <1>13
<1> QED BY <1>14 DEF AheadInv

\* Another caller's step stores no row of d's episode.
LEMMA CarriedOthers ==
  ASSUME IInv, LockInv, CarryInv, NEW c \in Caller, Step(c), NEW d \in Caller \ {c}
  PROVE  Carried(d)'
<1>1. /\ pc'[d] = pc[d] /\ batch'[d] = batch[d] /\ row'[d] = row[d] /\ found'[d] = found[d]
      /\ imported'[d] = imported[d] /\ episode'[d] = episode[d]
      /\ uncommitted'[d] = uncommitted[d]
      BY OthersKeepTheirs DEF IInv, Own
<1>2. ASSUME NEW i \in Nat, <<episode[d], i>> \in Certs(traces')
      PROVE  <<episode[d], i>> \in Certs(traces)
  <2>1. CASE traces' = traces  BY <1>2, <2>1
  <2>2. CASE traces' # traces
    <3>1. PICK j \in 1..Len(batch[c]) :
             Certs(traces') = Certs(traces) \cup {<<episode[c], j>>} /\ pc[c] = "insert"
          BY <2>2, CertsStep
    <3>2. episode[c] # 0  BY <3>1 DEF IInv, PlaceInv
    <3>3. episode[d] # episode[c]  BY <3>2 DEF CarryInv, NumberInv
    <3> QED BY <1>2, <3>1, <3>3
  <2> QED BY <2>1, <2>2
<1>3. Carried(d)  BY DEF CarryInv
<1> QED BY <1>1, <1>2, <1>3 DEF Carried

LEMMA CarriedOwn ==
  ASSUME IInv, LockInv, CarryInv, ImportsAlone, NEW c \in Caller, Step(c)
  PROVE  Carried(c)'
<1>1. TypeOK /\ Carried(c) /\ NumberInv  BY DEF IInv, CarryInv
<1>2. /\ row[c] \in Nat /\ row[c] \in 1..(Len(batch[c]) + 1) /\ Len(batch[c]) \in Nat
      /\ episode[c] \in Nat /\ episodes \in Nat /\ found[c] \subseteq Nat
      BY <1>1, RowInBatch, BoundsAssumption DEF TypeOK
<1>3. CASE \/ episode'[c] = 0 /\ UNCHANGED traces /\ uncommitted'[c] = << >>
           \/ episode'[c] = episodes + 1 /\ UNCHANGED traces /\ uncommitted'[c] = << >>
  <2>1. \A i : <<episode'[c], i>> \notin Certs(traces)
    <3>1. episode'[c] \notin 1..episodes  BY <1>2, <1>3
    <3> QED BY <1>1, <3>1 DEF NumberInv
  <2> QED BY <1>3, <2>1 DEF Carried
<1>4. CASE UNCHANGED <<episode, episodes>>
  <2>1. CASE /\ UNCHANGED <<traces, batch, imported>> /\ pc[c] \in {"idle", "triage", "after"}
             /\ UNCHANGED uncommitted /\ (pc[c] # "triage" => UNCHANGED <<pc, found>>)
    <3>1. uncommitted[c] = << >>  BY <2>1 DEF LockInv
    <3>2. ASSUME NEW i \in Nat, <<episode[c], i>> \in Certs(traces)
          PROVE  /\ i \in 1..Len(batch[c]) /\ pc'[c] \notin {"triage", "import", "insert", "stats"}
                 /\ imported[c][i] = "imported" \/ \E j \in found'[c] : j > i
          BY <1>1, <2>1, <3>2 DEF Carried
    <3> QED BY <1>4, <2>1, <3>1, <3>2 DEF Carried
  <2>2. CASE /\ UNCHANGED <<traces, batch, found>> /\ pc[c] \in {"import", "insert"}
             /\ pc'[c] \in {"import", "insert"} /\ row'[c] \in {row[c], row[c] + 1}
             /\ \A i \in 1..Len(batch[c]) : i < row[c] => imported'[c][i] = imported[c][i]
             /\ \/ UNCHANGED uncommitted
                \/ CommitBusy(c)
    <3>1. ASSUME NEW i \in Nat, <<episode[c], i>> \in Certs(traces)
          PROVE  /\ i \in 1..Len(batch[c]) /\ pc'[c] \notin {"triage", "stats"} /\ i < row'[c]
                 /\ imported'[c][i] = "imported" \/ \E j \in found[c] : j > i
      <4>1. /\ i \in 1..Len(batch[c]) /\ i < row[c]
            /\ imported[c][i] = "imported" \/ \E j \in found[c] : j > i
            BY <1>1, <2>2, <3>1 DEF Carried
      <4> QED BY <1>2, <2>2, <4>1
    <3>2. ASSUME uncommitted'[c] # << >>
          PROVE  \E i \in 1..Len(batch[c]) :
                    i < row'[c] /\ uncommitted'[c][1].cert = <<episode[c], i>>
      <4>1. CASE UNCHANGED uncommitted
        <5>1. PICK i \in 1..Len(batch[c]) :
                 i < row[c] /\ uncommitted[c][1].cert = <<episode[c], i>>
              BY <1>1, <3>2, <4>1 DEF Carried
        <5> QED BY <1>2, <2>2, <4>1, <5>1
      <4>2. CASE CommitBusy(c)
        <5>1. uncommitted'[c] = <<NewRow(c)>> /\ row'[c] = row[c] + 1 /\ pc[c] = "insert"
              BY <1>1, <4>2 DEF CommitBusy, ImportError, NextRow, TypeOK
        <5>2. row[c] \in 1..Len(batch[c])
              BY <1>1, <5>1, NewRowType, RowInBatch DEF IInv, InBatch
        <5>3. NewRow(c).cert = <<episode[c], row[c]>>  BY DEF NewRow, Certificate
        <5> QED BY <1>2, <5>1, <5>2, <5>3
      <4> QED BY <2>2, <4>1, <4>2
    <3> QED BY <1>4, <2>2, <3>1, <3>2 DEF Carried
  <2>3. CASE Insert(c)
    <3>1. /\ pc[c] = "insert" /\ pc'[c] = "stats" /\ uncommitted[c] = << >>
          /\ UNCHANGED <<uncommitted, batch, found, row, imported>>
          BY <1>1, <2>3 DEF Insert, run, GoTo, TypeOK
    <3>2. row[c] \in 1..Len(batch[c])
          BY <1>1, <3>1, NewRowType, RowInBatch DEF IInv, InBatch
    <3>3. Certs(traces') \subseteq Certs(traces) \cup {<<episode[c], row[c]>>}
      <4>1. pc[c] # pc'[c] /\ (InitSchema(c) => pc' = pc)  BY <3>1 DEF InitSchema
      <4> QED BY <4>1, CertsStep
    <3>4. ASSUME NEW i \in Nat, <<episode[c], i>> \in Certs(traces')
          PROVE  /\ i \in 1..Len(batch[c]) /\ i <= row[c]
                 /\ imported[c][i] = "imported" \/ (\E j \in found[c] : j > i) \/ i = row[c]
      <4>1. CASE i = row[c]  BY <1>2, <3>2, <4>1
      <4>2. CASE i # row[c]
        <5>1. <<episode[c], i>> \in Certs(traces)  BY <3>3, <3>4, <4>2
        <5>2. /\ i \in 1..Len(batch[c]) /\ i < row[c]
              /\ imported[c][i] = "imported" \/ \E j \in found[c] : j > i
              BY <1>1, <3>1, <5>1 DEF Carried
        <5> QED BY <1>2, <5>2
      <4> QED BY <4>1, <4>2
    <3> QED BY <1>4, <3>1, <3>4 DEF Carried
  <2>9. CASE Stats(c)
    <3>1. /\ pc[c] = "stats" /\ pc'[c] = "import" /\ row'[c] = row[c] + 1
          /\ UNCHANGED <<traces, uncommitted, batch, found>> /\ Report(c, "imported")
          BY <1>1, <2>9 DEF Stats, store, GoTo, NextRow, TypeOK
    <3>2. uncommitted[c] = << >>  BY <3>1 DEF LockInv
    <3>3. InBatch(c)  BY <1>1, <3>1, NewRowType DEF IInv
    <3>4. /\ imported'[c][row[c]] = "imported"
          /\ \A i \in 1..Len(batch[c]) : i # row[c] => imported'[c][i] = imported[c][i]
          BY <1>1, <3>1, <3>3, Reports
    <3>5. ASSUME NEW i \in Nat, <<episode[c], i>> \in Certs(traces)
          PROVE  /\ i \in 1..Len(batch[c]) /\ i < row'[c]
                 /\ imported'[c][i] = "imported" \/ \E j \in found[c] : j > i
      <4>1. /\ i \in 1..Len(batch[c]) /\ i <= row[c]
            /\ imported[c][i] = "imported" \/ (\E j \in found[c] : j > i) \/ i = row[c]
            BY <1>1, <3>1, <3>5 DEF Carried
      <4>2. CASE i = row[c]  BY <1>2, <3>1, <3>4, <4>1, <4>2
      <4>3. CASE i # row[c]  BY <1>2, <3>1, <3>4, <4>1, <4>3
      <4> QED BY <4>2, <4>3
    <3> QED BY <1>4, <3>1, <3>2, <3>5 DEF Carried
  <2>10. CASE StatsLocked(c)
    <3>1. pc[c] = "stats"  BY <2>10 DEF StatsLocked
    <3>2. PICK d \in Caller \ {c} : uncommitted[d] # << >>  BY <2>10 DEF StatsLocked, Unlocked
    <3>3. pc[d] \in {"import", "insert"}  BY <3>2 DEF LockInv
    <3> QED BY <3>1, <3>2, <3>3 DEF ImportsAlone
  <2>4. CASE InitSchema(c)
    <3>1. /\ pc[c] = "insert" /\ UNCHANGED <<pc, row, batch, found, imported>>
          /\ uncommitted'[c] = << >>
          BY <1>1, <2>4 DEF InitSchema, run, TypeOK
    <3>2. row[c] \in found[c]  BY <3>1 DEF IInv, PlaceInv
    <3>3. PICK i \in 1..Len(batch[c]) :
             /\ Certs(traces') \subseteq Certs(traces) \cup {<<episode[c], i>>}
             /\ i < row[c]
      <4>1. uncommitted[c] # << >> /\ (Insert(c) => uncommitted[c] = << >>)
            BY <2>4 DEF InitSchema, Insert
      <4>2. PICK i \in 1..Len(batch[c]) : i < row[c]  BY <1>1, <4>1 DEF Carried
      <4> QED BY <4>1, <4>2, CertsStep
    <3>4. ASSUME NEW j \in Nat, <<episode[c], j>> \in Certs(traces')
          PROVE  /\ j \in 1..Len(batch[c]) /\ j < row[c]
                 /\ imported[c][j] = "imported" \/ \E k \in found[c] : k > j
      <4>1. CASE j = i  BY <1>2, <3>2, <3>3, <4>1
      <4>2. CASE j # i
        <5>1. <<episode[c], j>> \in Certs(traces)  BY <3>3, <3>4, <4>2
        <5> QED BY <1>1, <3>1, <5>1 DEF Carried
      <4> QED BY <4>1, <4>2
    <3> QED BY <1>4, <3>1, <3>4 DEF Carried
  <2>5. CASE CloseImport(c)
    <3>1. /\ pc[c] = "import" /\ pc'[c] = "after" /\ uncommitted'[c] = << >>
          /\ UNCHANGED <<traces, batch, found, imported>>
          BY <1>1, <2>5 DEF CloseImport, GoTo, TypeOK
    <3> QED BY <1>1, <1>4, <3>1 DEF Carried
  <2>6. CASE Triage(c) \/ After(c) \/ (\E F : Execute(c, F)) \/ (\E p \in Pair : Query(c, p))
        BY <2>1, <2>6 DEF Triage, After, Execute, Query, store, run
  <2>7. CASE ImportCheck(c) \/ CommitBusy(c) \/ SchemaBusy(c) \/ InsertLocked(c)
    <3>1. /\ UNCHANGED <<traces, batch, found>> /\ pc[c] \in {"import", "insert"}
          /\ pc'[c] \in {"import", "insert"} /\ row'[c] \in {row[c], row[c] + 1}
          /\ UNCHANGED uncommitted \/ CommitBusy(c)
          BY <1>1, <2>7 DEF ImportCheck, CommitBusy, SchemaBusy, InsertLocked, ImportError,
                            NextRow, GoTo, store, TypeOK
    <3>2. InBatch(c)
          BY <1>1, <2>7, NewRowType DEF IInv, ImportCheck, CommitBusy, SchemaBusy, InsertLocked
    <3>3. \/ UNCHANGED imported
          \/ Report(c, "skipped_duplicate") \/ Report(c, "error")
          BY <2>7 DEF ImportCheck, CommitBusy, SchemaBusy, InsertLocked, ImportError
    <3>4. \A i \in 1..Len(batch[c]) : i # row[c] => imported'[c][i] = imported[c][i]
          BY <1>1, <3>2, <3>3, Reports
    <3>5. \A i \in 1..Len(batch[c]) : i < row[c] => imported'[c][i] = imported[c][i]
          BY <1>2, <3>4
    <3> QED BY <2>2, <3>1, <3>5
  <2>8. CASE (\E b, audit : Begin(c, b, audit)) \/ Finish(c) \/ Abort(c)
    <3>1. \/ pc[c] = "idle" /\ episodes' = episodes + 1
          \/ pc[c] # "idle" /\ episode'[c] = 0
          BY <1>1, <2>8 DEF Begin, Finish, Abort, Return, TypeOK
    <3>2. pc[c] # "idle" => episode[c] # 0  BY DEF IInv, PlaceInv
    <3> QED BY <1>2, <1>4, <3>1, <3>2
  <2> QED BY <2>3, <2>4, <2>5, <2>6, <2>7, <2>8, <2>9, <2>10 DEF Step, Episode, Submit, RunEpisode
<1> QED BY <1>3, <1>4, EpisodeStep

\* Where no two callers import at once, a row reported as an error is stored
\* only when a later row's executescript committed it
\* (countermodel_importer.py:181-194, lawbook_store.init_schema): the read of
\* the statistics after the commit (lawbook_store.py:1053) then meets no lock.
THEOREM AloneErrorsAreCarried == Safe /\ []ImportsAlone => []ErrorRowIsCarried
<1>1. Init => CarryInv
      BY DEF Init, CarryInv, NumberInv, AheadInv, Carried, Certs
<1>2. ASSUME IInv, LockInv, CarryInv, ImportsAlone, [Next]_vars PROVE CarryInv'
  <2>1. CASE UNCHANGED vars
        BY <1>2, <2>1 DEF vars, store, run, CarryInv, NumberInv, AheadInv, Carried, Certs
  <2>2. ASSUME NEW c \in Caller, Step(c) PROVE CarryInv'
    <3>1. NumberInv' /\ Carried(c)' /\ AheadInv'
          BY <1>2, <2>2, NumberStep, CarriedOwn, AheadStep DEF CarryInv
    <3>2. \A d \in Caller \ {c} : Carried(d)'  BY <1>2, <2>2, CarriedOthers
    <3> QED BY <3>1, <3>2 DEF CarryInv
  <2> QED BY <1>2, <2>1, <2>2, NextIsStep
<1>3. ASSUME IInv, CarryInv PROVE ErrorRowIsCarried
  <2> SUFFICES ASSUME NEW c \in Caller, NEW i \in DOMAIN imported[c], NEW k \in DOMAIN traces,
                      imported[c][i] = "error", traces[k].cert = <<episode[c], i>>
               PROVE  \E j \in found[c] : j > i
      BY DEF ErrorRowIsCarried
  <2>1. <<episode[c], i>> \in Certs(traces)  BY DEF Certs
  <2>2. i \in Nat /\ i \in 1..Len(batch[c])  BY <1>3, RowInBatch DEF IInv
  <2>3. ~(pc[c] = "stats" /\ i = row[c])  BY <1>3, <2>2 DEF CarryInv, AheadInv
  <2> QED BY <1>3, <2>1, <2>2, <2>3 DEF CarryInv, Carried
<1> QED BY <1>1, <1>2, <1>3, Invariance, LockHasOneHolder, PTL DEF Safe
=============================================================================
