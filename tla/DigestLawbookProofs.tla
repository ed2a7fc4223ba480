------------------------- MODULE DigestLawbookProofs -------------------------
(* The digest Lawbook, for any number of processes, configs, runs, plans and *)
(* aborts. IInv says at each place what a process still owes to the tables,  *)
(* and is inductive.                                                         *)
EXTENDS DigestLawbook, FiniteSetTheorems, TLAPS

Writing(p) == pc[p][1] \in {"targets", "target"}
Locked(p) == pc[p][1] \in {"reasons", "attempts", "constructors", "commit"}
Running(p) == pc[p][1] = "run" \/ Writing(p) \/ Locked(p)
Planning(p) == pc[p][1] \in {"propose", "pack"}

\* The trials of a run that verified.
Winners(d) == {x \in Trials(d) : Passed(d, x)}

\* What is left to do, by place, and what was read.
PlaceInv ==
    \A p \in Processes :
        /\ Running(p) => payload[p] \in Payloads
        /\ Writing(p) => pc[p][2] \in Nat \ {0}
        /\ Planning(p) => todo[p] \subseteq Basins \X Nat
        /\ pc[p][1] = "constructors" => todo[p] \subseteq Winners(payload[p])
        /\ pc[p][1] = "commit" => todo[p] = {}
        /\ Locked(p) => payload[p].entries # <<>>
        /\ pc[p][1] = "target" =>
              /\ pc[p][2] \in DOMAIN payload[p].entries
              /\ held[p] \in TargetRow \cup {Nothing}
        /\ pc[p][1] = "pack" => pc[p][2] \in Basins /\ held[p] \in PackRow
        /\ lock = p <=> Locked(p)

\* Runs have names of their own, and a run is on record once it has left "run".
RunInv ==
    /\ IsFiniteSet(runs)
    /\ \A r \in runs : r.run <= started
    /\ \A r, s \in runs : r.run = s.run => r = s
    /\ \A p \in Processes : Running(p) =>
          /\ payload[p].run <= started
          /\ \A q \in Processes : Running(q) /\ payload[q].run = payload[p].run => q = p
          /\ pc[p][1] = "run" => \A r \in runs : r.run # payload[p].run
          /\ pc[p][1] # "run" => payload[p] \in runs

\* What is observed is of runs in the table that are over.
RecordInv ==
    \A o \in details.observations :
        /\ \E r \in runs : r.run = o.run
        /\ \A p \in Processes : Running(p) => payload[p].run # o.run

\* The open transaction: the details, and what its run has written by now.
NewBasins(d) ==
    [b \in Basins |-> IF Touches(d, b)
                      THEN upsert_reason_basin(details.basins[b], d, b) ELSE details.basins[b]]
Upserted(p, c) == {x \in Winners(payload[p]) \ todo[p] : Constructor(payload[p], x) = c}

TxnInv ==
    /\ lock = Nothing => txn = details
    /\ \A p \in Processes : Locked(p) =>
          /\ txn.observations = details.observations \cup Observations(payload[p])
          /\ IF pc[p][1] = "reasons"
             THEN txn.basins = details.basins /\ txn.edges = details.edges
             ELSE txn.basins = NewBasins(payload[p])
                  /\ txn.edges = details.edges \cup Edges(payload[p])
          /\ IF pc[p][1] \in {"reasons", "attempts"}
             THEN txn.attempts = details.attempts /\ txn.constructors = details.constructors
             ELSE /\ txn.attempts = details.attempts \cup Attempts(payload[p])
                  /\ \A c \in Constructors :
                        txn.constructors[c] =
                            details.constructors[c] + Cardinality(Upserted(p, c))
          /\ IF pc[p][1] = "commit"
             THEN txn.obstructions = details.obstructions \cup Obstructions(payload[p])
             ELSE txn.obstructions = details.obstructions

\* A process owes the entries it has not written, and has noted those it has.
\* Counts stay within the sightings that nobody owes, also counts that were read
\* and are yet to be written back.
Owes(p, x) == Writing(p) /\ payload[p].run = x[1] /\ x[2] >= pc[p][2]
Noted(p, x) == (Writing(p) \/ Locked(p)) /\ payload[p].run = x[1] /\ ~Owes(p, x)
Paid(x) == \A p \in Processes : ~Owes(p, x)
Seen(t) == Cardinality({x \in Sightings(runs, t) : Paid(x)})
Won(t) == Cardinality({x \in Successes(runs, t) : Paid(x)})
Counted(row, t) == row.seen <= Seen(t) /\ row.success <= Won(t)

\* The status of a row is that of the entry that was written last.
LastOf(p, t) ==
    {i \in Naming(payload[p], t) :
        /\ ~Owes(p, <<payload[p].run, i>>)
        /\ \A k \in Naming(payload[p], t) : ~Owes(p, <<payload[p].run, k>>) => k <= i}

SeenInv ==
    /\ \A t \in Targets : targets[t] # Nothing =>
          /\ Counted(targets[t], t)
          /\ \E r \in runs : r.run = targets[t].last /\ Naming(r, t) # {}
          /\ \A o \in details.observations :
                (o.target = t /\ o.run = targets[t].last) => o.accepted = targets[t].accepted
          /\ \A p \in Processes :
                Running(p) /\ payload[p].run = targets[t].last =>
                    \E i \in LastOf(p, t) : targets[t].accepted = payload[p].entries[i].accepted
    /\ \A p \in Processes :
          pc[p][1] = "target" /\ held[p] # Nothing =>
              Counted(held[p], payload[p].entries[pc[p][2]].target)

\* Whoever is observed or noted has its row.
KnownInv ==
    /\ \A o \in details.observations : targets[o.target] # Nothing
    /\ \A p \in Processes : Writing(p) \/ Locked(p) =>
          \A i \in DOMAIN payload[p].entries :
              ~Owes(p, <<payload[p].run, i>>) => targets[payload[p].entries[i].target] # Nothing

\* Without overlap, the counts have all that was observed or noted.
Ahead(x) == \/ \E o \in details.observations : o.run = x[1]
            \/ \E p \in Processes : Noted(p, x)
MustSee(t) == {x \in Sightings(runs, t) : Ahead(x)}
MustWin(t) == {x \in Successes(runs, t) : Ahead(x)}

ExactInv ==
    ~overlapped =>
        /\ \A p, q \in Processes : ~Idle(p) /\ ~Idle(q) => p = q
        /\ \A p \in Processes : pc[p][1] = "target" =>
              held[p] = targets[payload[p].entries[pc[p][2]].target]
        /\ \A t \in Targets :
              IF targets[t] = Nothing THEN MustSee(t) = {}
              ELSE /\ Cardinality(MustSee(t)) <= targets[t].seen
                   /\ Cardinality(MustWin(t)) <= targets[t].success

\* What the scheduler has read is still so.
Ranked(b, n) == details.basins[b] # Nothing /\ n <= details.basins[b].support
Grounded(b, pack) ==
    /\ Ranked(b, pack.priority)
    /\ \A t \in pack.targets : targets[t] # Nothing /\ <<t, b>> \in details.edges
PackInv ==
    /\ \A b \in Basins : packs[b] # Nothing => Grounded(b, packs[b])
    /\ \A p \in Processes :
          /\ Planning(p) => \A x \in todo[p] : Ranked(x[1], x[2])
          /\ pc[p][1] = "pack" => Grounded(pc[p][2], held[p])

IInv ==
    /\ TypeOK /\ PlaceInv /\ RunInv /\ RecordInv /\ TxnInv /\ SeenInv /\ KnownInv /\ ExactInv
    /\ BasinsAreEarned /\ PackInv

-----------------------------------------------------------------------------
(* What a run finds.                                                         *)

\* A run's findings are a list of entries, each with a target in a basin.
LEMMA PayloadFacts ==
    ASSUME NEW d \in Payloads
    PROVE  /\ d.run \in 1 .. MaxRuns
           /\ Len(d.entries) \in Nat /\ DOMAIN d.entries = 1 .. Len(d.entries)
           /\ d.entries = <<>> <=> Len(d.entries) = 0
           /\ \A i \in DOMAIN d.entries :
                 /\ d.entries[i].target \in Targets /\ d.entries[i].accepted \in BOOLEAN
                 /\ d.entries[i].refs \in Refs /\ BasinAt(d, i) \in Basins
<1> DEFINE found(c) ==
              {s \in [DOMAIN c.names -> Entries] :
                  \A i \in DOMAIN c.names : s[i] \in Findings(c.names[i], c.basin[c.names[i]])}
<1>0. PICK c \in Configs :
         d \in {[run |-> n, basin |-> c.basin, entries |-> s] : n \in 1 .. MaxRuns, s \in found(c)}
      BY DEF Payloads
<1>1. PICK n \in 1 .. MaxRuns, s \in found(c) : d = [run |-> n, basin |-> c.basin, entries |-> s]
      BY <1>0
<1>2. c.names \in Seq(Targets) /\ c.basin \in [Targets -> Basins]  BY ConfigsAssumption
<1>3. s \in Seq(Entries) /\ DOMAIN s = 1 .. Len(s) /\ Len(s) \in Nat
  <2>1. DOMAIN c.names = 1 .. Len(c.names) /\ Len(c.names) \in Nat  BY <1>2
  <2>2. s \in [1 .. Len(c.names) -> Entries]  BY <2>1
  <2> QED BY <2>1, <2>2
<1>4. d.run = n /\ d.basin = c.basin /\ d.entries = s  BY <1>1
<1>5. ASSUME NEW i \in DOMAIN d.entries
      PROVE  /\ d.entries[i].target \in Targets /\ d.entries[i].accepted \in BOOLEAN
             /\ d.entries[i].refs \in Refs /\ BasinAt(d, i) \in Basins
  <2>1. d.entries[i] \in Entries  BY <1>3, <1>4, <1>5
  <2>2. /\ d.entries[i].target \in Targets /\ d.entries[i].accepted \in BOOLEAN
        /\ d.entries[i].refs \in Refs
        BY <2>1 DEF Entries
  <2> QED BY <1>2, <1>4, <2>2 DEF BasinAt
<1>6. s = <<>> <=> Len(s) = 0  BY <1>3
<1> QED BY <1>3, <1>4, <1>5, <1>6

\* There are finitely many trials and entries to count.
LEMMA TrialFacts ==
    ASSUME NEW d \in Payloads
    PROVE  /\ Trials(d) \subseteq Nat \X Templates
           /\ \A S : S \subseteq Trials(d) => IsFiniteSet(S) /\ Cardinality(S) \in Nat
           /\ \A x \in Trials(d) : /\ Attempt(d, x) \in Targets \X Templates
                                   /\ Constructor(d, x) \in Constructors
                                   /\ Constructor(d, x).basin = BasinAt(d, x[1])
           /\ \A S : S \subseteq DOMAIN d.entries => IsFiniteSet(S) /\ Cardinality(S) \in Nat
<1> DEFINE D == DOMAIN d.entries
<1>1. D = 1 .. Len(d.entries) /\ Len(d.entries) \in Nat  BY PayloadFacts
<1>2. IsFiniteSet(D)  BY <1>1, FS_Interval
<1>3. IsFiniteSet(D \X Templates)  BY <1>2, ConfigsAssumption, FS_Product
<1>4. Trials(d) \subseteq D \X Templates  BY DEF Trials
<1>5. Trials(d) \subseteq Nat \X Templates  BY <1>1, <1>4
<1>6. ASSUME NEW S, S \subseteq Trials(d)
      PROVE  IsFiniteSet(S) /\ Cardinality(S) \in Nat
  <2>1. IsFiniteSet(S)  BY <1>3, <1>4, <1>6, FS_Subset
  <2> QED BY <2>1, FS_CardinalityType
<1>7. ASSUME NEW x \in Trials(d)
      PROVE  /\ Attempt(d, x) \in Targets \X Templates
             /\ Constructor(d, x) \in Constructors
             /\ Constructor(d, x).basin = BasinAt(d, x[1])
  <2>1. x[1] \in D /\ x[2] \in Templates  BY <1>4
  <2>2. /\ d.entries[x[1]].target \in Targets /\ d.entries[x[1]].refs \in Refs
        /\ BasinAt(d, x[1]) \in Basins
        BY <2>1, PayloadFacts
  <2> QED BY <2>1, <2>2 DEF Attempt, Constructor, Constructors
<1>8. ASSUME NEW S, S \subseteq D
      PROVE  IsFiniteSet(S) /\ Cardinality(S) \in Nat
  <2>1. IsFiniteSet(S)  BY <1>2, <1>8, FS_Subset
  <2> QED BY <2>1, FS_CardinalityType
<1> QED BY <1>5, <1>6, <1>7, <1>8

\* What a run writes is well typed.
LEMMA RowTypes ==
    ASSUME NEW d \in Payloads
    PROVE  /\ Observations(d) \subseteq [run : 1 .. MaxRuns, target : Targets, accepted : BOOLEAN]
           /\ Edges(d) \subseteq Targets \X Basins
           /\ Attempts(d) \subseteq [run : 1 .. MaxRuns, attempt : Targets \X Templates,
                                     verified : BOOLEAN]
           /\ Obstructions(d) \subseteq [run : 1 .. MaxRuns, attempt : Targets \X Templates]
           /\ \A b : Support(d, b) \in Nat /\ Verified(d, b) \in BOOLEAN
<1>1. /\ d.run \in 1 .. MaxRuns
      /\ \A i \in DOMAIN d.entries : /\ d.entries[i].target \in Targets
                                     /\ d.entries[i].accepted \in BOOLEAN
                                     /\ BasinAt(d, i) \in Basins
      BY PayloadFacts
<1>2. Observations(d) \subseteq [run : 1 .. MaxRuns, target : Targets, accepted : BOOLEAN]
      BY <1>1 DEF Observations
<1>3. Edges(d) \subseteq Targets \X Basins  BY <1>1 DEF Edges
<1>4. \A x \in Trials(d) : Attempt(d, x) \in Targets \X Templates /\ Passed(d, x) \in BOOLEAN
      BY TrialFacts DEF Passed
<1>5. Attempts(d) \subseteq [run : 1 .. MaxRuns, attempt : Targets \X Templates, verified : BOOLEAN]
  <2> HIDE DEF Attempts
  <2>1. ASSUME NEW a \in Attempts(d)
        PROVE  a \in [run : 1 .. MaxRuns, attempt : Targets \X Templates, verified : BOOLEAN]
    <3>1. PICK x \in Trials(d) :
             a = [run |-> d.run, attempt |-> Attempt(d, x), verified |-> Passed(d, x)]
          BY <2>1 DEF Attempts
    <3> QED BY <1>1, <1>4, <3>1
  <2> QED BY <2>1
<1>6. Obstructions(d) \subseteq [run : 1 .. MaxRuns, attempt : Targets \X Templates]
  <2>1. ASSUME NEW o \in Obstructions(d)
        PROVE  o \in [run : 1 .. MaxRuns, attempt : Targets \X Templates]
    <3>1. PICK x \in Trials(d) : o = [run |-> d.run, attempt |-> Attempt(d, x)]
          BY <2>1 DEF Obstructions
    <3> QED BY <1>1, <1>4, <3>1
  <2> QED BY <2>1
<1>7. \A b : Support(d, b) \in Nat  BY TrialFacts DEF Support
<1> QED BY <1>2, <1>3, <1>5, <1>6, <1>7 DEF Verified

\* What is counted of a target is finite.
LEMMA SightingsFinite ==
    ASSUME NEW S \in SUBSET Payloads, IsFiniteSet(S), NEW t
    PROVE  /\ IsFiniteSet(Sightings(S, t)) /\ Successes(S, t) \subseteq Sightings(S, t)
           /\ \A X : X \subseteq Sightings(S, t) =>
                 IsFiniteSet(X) /\ Cardinality(X) \in Nat
<1> DEFINE part(r) == {r.run} \X Naming(r, t)
           parts == {part(r) : r \in S}
<1>1. IsFiniteSet(parts)
  <2>1. [r \in S |-> part(r)] \in Surjection(S, parts)  BY DEF Surjection
  <2> HIDE DEF parts
  <2> QED BY <2>1, FS_Surjection
<1>2. \A x \in parts : IsFiniteSet(x)
  <2>1. ASSUME NEW r \in S
        PROVE  IsFiniteSet(part(r))
    <3>1. IsFiniteSet(Naming(r, t))  BY TrialFacts DEF Naming
    <3>2. IsFiniteSet({r.run})  BY FS_Singleton
    <3> QED BY <3>1, <3>2, FS_Product
  <2> QED BY <2>1
<1>3. IsFiniteSet(Sightings(S, t))
  <2>1. Sightings(S, t) = UNION parts  BY DEF Sightings
  <2> HIDE DEF parts
  <2> QED BY <1>1, <1>2, <2>1, FS_UNION
<1>4. Successes(S, t) \subseteq Sightings(S, t)
      BY DEF Successes, Sightings, Accepting
<1>5. ASSUME NEW X, X \subseteq Sightings(S, t)
      PROVE  IsFiniteSet(X) /\ Cardinality(X) \in Nat
  <2>1. IsFiniteSet(X)  BY <1>3, <1>5, FS_Subset
  <2> QED BY <2>1, FS_CardinalityType
<1> QED BY <1>3, <1>4, <1>5

-----------------------------------------------------------------------------
(* Types and places.                                                         *)

\* One step leaves the other processes where they are.
LEMMA OthersStay ==
    ASSUME TypeOK, NEW p \in Processes, Step(p), NEW q \in Processes, q # p
    PROVE  pc'[q] = pc[q] /\ todo'[q] = todo[q] /\ held'[q] = held[q] /\ payload'[q] = payload[q]
<1> USE DEF TypeOK, Goto
<1>1. CASE Digest(p) \/ append_digest_run(p) \/ ReadTarget(p) \/ WriteTarget(p)
      BY <1>1 DEF Digest, append_digest_run, ReadTarget, WriteTarget
<1>2. CASE InsertObservations(p) \/ UpsertReasons(p) \/ InsertAttempts(p) \/ UpsertConstructor(p)
      BY <1>2 DEF InsertObservations, UpsertReasons, InsertAttempts, UpsertConstructor
<1>3. CASE InsertObstructions(p) \/ Commit(p) \/ ReadBasins(p) \/ ReadPack(p)
      BY <1>3 DEF InsertObstructions, Commit, ReadBasins, ReadPack
<1>4. CASE upsert_pending_pack(p) \/ PlanEnds(p) \/ Abort(p) \/ NoEntries(p)
      BY <1>4 DEF upsert_pending_pack, PlanEnds, Abort, NoEntries
<1> QED BY <1>1, <1>2, <1>3, <1>4 DEF Step

\* Where a step takes its process.
LEMMA ActorMoves ==
    ASSUME TypeOK, PlaceInv, NEW p \in Processes, Step(p)
    PROVE  /\ pc' \in [Processes -> Places]
           /\ todo'[p] \in (SUBSET (Nat \X Templates)) \cup (SUBSET (Basins \X Nat))
           /\ held'[p] \in TargetRow \cup PackRow \cup {Nothing}
           /\ payload'[p] \in Payloads \cup {Nothing}
           /\ Running(p)' => payload'[p] \in Payloads
           /\ Writing(p)' => pc'[p][2] \in Nat \ {0}
           /\ Planning(p)' => todo'[p] \subseteq Basins \X Nat
           /\ (pc'[p][1] = "constructors") => todo'[p] \subseteq Winners(payload'[p])
           /\ pc'[p][1] = "commit" => todo'[p] = {}
           /\ Locked(p)' => payload'[p].entries # <<>>
           /\ pc'[p][1] = "target" =>
                /\ pc'[p][2] \in DOMAIN payload'[p].entries
                /\ held'[p] \in TargetRow \cup {Nothing}
           /\ pc'[p][1] = "pack" => pc'[p][2] \in Basins /\ held'[p] \in PackRow
<1> DEFINE Good(at, x) ==
        /\ pc' = [pc EXCEPT ![p] = <<at, x>>] /\ <<at, x>> \in Places
<1>0. \A at \in {"idle", "run", "reasons", "attempts", "constructors", "commit", "propose"} :
         <<at, Nothing>> \in Places
      BY DEF Places
<1>1. CASE Digest(p)
  <2>1. Good("run", Nothing)  BY <1>0, <1>1 DEF Digest, Goto
  <2>2. payload'[p] \in Payloads  BY <1>1 DEF Digest, TypeOK
  <2> QED BY <1>1, <2>1, <2>2 DEF Digest, TypeOK, Running, Writing, Locked, Planning
<1>2. CASE append_digest_run(p)
  <2>1. Good("targets", 1)  BY <1>2 DEF append_digest_run, Goto, Places
  <2>2. payload'[p] = payload[p] /\ payload[p] \in Payloads
        BY <1>2 DEF append_digest_run, PlaceInv, Running, At
  <2> QED BY <1>2, <2>1, <2>2 DEF append_digest_run, TypeOK, Running, Writing, Locked, Planning
<1>3. CASE ReadTarget(p)
  <2> DEFINE i == pc[p][2]
  <2>1. At(p, "targets", i) /\ payload[p] \in Payloads /\ i \in Nat \ {0}
        BY <1>3 DEF ReadTarget, PlaceInv, Running, Writing, At
  <2>2. /\ i \in DOMAIN payload[p].entries /\ Goto(p, "target", i)
        /\ held'[p] = targets[payload[p].entries[i].target]
        BY <1>3 DEF ReadTarget, TypeOK
  <2>3. payload[p].entries[i].target \in Targets  BY <2>1, <2>2, PayloadFacts
  <2>4. held'[p] \in TargetRow \cup {Nothing}  BY <2>2, <2>3 DEF TypeOK
  <2>5. Good("target", i)  BY <2>1, <2>2 DEF Goto, Places
  <2>6. payload' = payload /\ todo' = todo  BY <1>3 DEF ReadTarget
  <2> HIDE DEF i
  <2> QED BY <2>1, <2>2, <2>4, <2>5, <2>6 DEF TypeOK, Running, Writing, Locked, Planning
<1>4. CASE WriteTarget(p)
  <2> DEFINE i == pc[p][2]
  <2>1. At(p, "target", i) /\ payload[p] \in Payloads /\ i \in Nat \ {0}
        BY <1>4 DEF WriteTarget, PlaceInv, Running, Writing, At
  <2>2. Goto(p, "targets", i + 1) /\ payload' = payload /\ todo' = todo /\ held'[p] = Nothing
        BY <1>4 DEF WriteTarget, TypeOK
  <2> HIDE DEF i
  <2>3. i + 1 \in Nat \ {0}  BY <2>1
  <2>4. Good("targets", i + 1)  BY <2>2, <2>3 DEF Goto, Places
  <2> QED BY <2>1, <2>2, <2>3, <2>4 DEF TypeOK, Running, Writing, Locked, Planning
<1>5. CASE InsertObservations(p)
  <2>1. Good("reasons", Nothing)  BY <1>0, <1>5 DEF InsertObservations, Goto
  <2>2. payload[p] \in Payloads /\ payload[p].entries # <<>>
        BY <1>5 DEF InsertObservations, PlaceInv, Running, Writing, At
  <2> QED BY <1>5, <2>1, <2>2 DEF InsertObservations, TypeOK, Running, Writing, Locked, Planning
<1>6. CASE UpsertReasons(p)
  <2>1. Good("attempts", Nothing)  BY <1>0, <1>6 DEF UpsertReasons, Goto
  <2>2. payload[p] \in Payloads /\ payload[p].entries # <<>>
        BY <1>6 DEF UpsertReasons, PlaceInv, Running, Locked, At
  <2> QED BY <1>6, <2>1, <2>2 DEF UpsertReasons, TypeOK, Running, Writing, Locked, Planning
<1>7. CASE InsertAttempts(p)
  <2>1. Good("constructors", Nothing)  BY <1>0, <1>7 DEF InsertAttempts, Goto
  <2>2. payload[p] \in Payloads /\ payload[p].entries # <<>>
        BY <1>7 DEF InsertAttempts, PlaceInv, Running, Locked, At
  <2>3. Winners(payload[p]) \subseteq Nat \X Templates  BY <2>2, TrialFacts DEF Winners
  <2>4. todo'[p] = Winners(payload[p]) /\ payload' = payload /\ held' = held
        BY <1>7 DEF InsertAttempts, Winners, TypeOK
  <2>5. pc'[p] = <<"constructors", Nothing>> /\ pc' \in [Processes -> Places]
        BY <2>1 DEF TypeOK
  <2> QED BY <2>2, <2>3, <2>4, <2>5 DEF TypeOK, Running, Writing, Locked, Planning
<1>8. CASE UpsertConstructor(p)
  <2>1. Good("constructors", Nothing)  BY <1>0, <1>8 DEF UpsertConstructor, Goto
  <2>2. /\ payload[p] \in Payloads /\ payload[p].entries # <<>>
        /\ todo[p] \subseteq Winners(payload[p])
        BY <1>8 DEF UpsertConstructor, PlaceInv, Running, Locked, At
  <2>3. Winners(payload[p]) \subseteq Nat \X Templates  BY <2>2, TrialFacts DEF Winners
  <2>4. PICK a \in todo[p] : todo' = [todo EXCEPT ![p] = @ \ {a}]  BY <1>8 DEF UpsertConstructor
  <2>5. payload' = payload /\ held' = held  BY <1>8 DEF UpsertConstructor
  <2> QED BY <2>1, <2>2, <2>3, <2>4, <2>5 DEF TypeOK, Running, Writing, Locked, Planning
<1>9. CASE InsertObstructions(p)
  <2>1. Good("commit", Nothing)  BY <1>0, <1>9 DEF InsertObstructions, Goto
  <2>2. payload[p] \in Payloads /\ payload[p].entries # <<>> /\ todo[p] = {}
        BY <1>9 DEF InsertObstructions, PlaceInv, Running, Locked, At
  <2>3. payload' = payload /\ held' = held /\ todo' = todo  BY <1>9 DEF InsertObstructions
  <2> QED BY <2>1, <2>2, <2>3 DEF TypeOK, Running, Writing, Locked, Planning
<1>10. CASE Commit(p) \/ PlanEnds(p) \/ Abort(p) \/ NoEntries(p)
  <2>1. Good("idle", Nothing)  BY <1>0, <1>10 DEF Commit, PlanEnds, Abort, NoEntries, Goto
  <2>2. /\ todo'[p] \in {todo[p], {}} /\ held'[p] \in {held[p], Nothing}
        /\ payload'[p] \in {payload[p], Nothing}
        BY <1>10 DEF Commit, PlanEnds, Abort, NoEntries, TypeOK
  <2> QED BY <2>1, <2>2 DEF TypeOK, Running, Writing, Locked, Planning
<1>11. CASE ReadBasins(p)
  <2>1. Good("propose", Nothing)  BY <1>0, <1>11 DEF ReadBasins, Goto
  <2>2. todo'[p] \subseteq Basins \X Nat
    <3>1. todo'[p] = {<<b, details.basins[b].support>> :
                        b \in {c \in Basins : details.basins[c] # Nothing /\ ~details.basins[c].verified}}
          BY <1>11 DEF ReadBasins, TypeOK
    <3>2. details.basins \in [Basins -> BasinRow \cup {Nothing}]  BY DEF TypeOK, Details
    <3> QED BY <3>1, <3>2 DEF BasinRow
  <2>3. held' = held /\ payload' = payload  BY <1>11 DEF ReadBasins
  <2>4. pc'[p] = <<"propose", Nothing>> /\ pc' \in [Processes -> Places]
        BY <2>1 DEF TypeOK
  <2>5. /\ ~Running(p)' /\ ~Writing(p)' /\ ~Locked(p)'
        /\ pc'[p][1] \notin {"constructors", "commit", "target", "pack"}
        BY <2>4 DEF Running, Writing, Locked
  <2>6. payload'[p] \in Payloads \cup {Nothing} /\ held'[p] \in TargetRow \cup PackRow \cup {Nothing}
        BY <2>3 DEF TypeOK
  <2>7. todo'[p] \in (SUBSET (Nat \X Templates)) \cup (SUBSET (Basins \X Nat))  BY <2>2
  <2> QED BY <2>2, <2>4, <2>5, <2>6, <2>7
<1>12. CASE ReadPack(p)
  <2>1. todo[p] \subseteq Basins \X Nat
        BY <1>12 DEF ReadPack, PlaceInv, Planning, At
  <2>2. PICK x \in todo[p] :
          /\ held' = [held EXCEPT ![p] =
                         [targets  |-> {t \in Targets : /\ targets[t] # Nothing
                                                        /\ <<t, x[1]>> \in details.edges},
                          priority |-> x[2]]]
          /\ todo' = [todo EXCEPT ![p] = @ \ {x}]
          /\ Goto(p, "pack", x[1])
        BY <1>12 DEF ReadPack
  <2>3. x[1] \in Basins /\ x[2] \in Nat  BY <2>1, <2>2
  <2>4. Good("pack", x[1])  BY <2>2, <2>3 DEF Goto, Places
  <2>5. held'[p] \in PackRow  BY <2>2, <2>3 DEF TypeOK, PackRow
  <2>6. todo'[p] \subseteq Basins \X Nat  BY <2>1, <2>2 DEF TypeOK
  <2> QED BY <1>12, <2>3, <2>4, <2>5, <2>6 DEF ReadPack, TypeOK, Running, Writing, Locked, Planning
<1>13. CASE upsert_pending_pack(p)
  <2>1. Good("propose", Nothing)  BY <1>0, <1>13 DEF upsert_pending_pack, Goto
  <2>2. todo[p] \subseteq Basins \X Nat
        BY <1>13 DEF upsert_pending_pack, PlaceInv, Planning, At
  <2> QED BY <1>13, <2>1, <2>2 DEF upsert_pending_pack, TypeOK, Running, Writing, Locked, Planning
<1> QED BY <1>1, <1>2, <1>3, <1>4, <1>5, <1>6, <1>7, <1>8, <1>9, <1>10, <1>11, <1>12, <1>13 DEF Step

\* What a run's last transaction writes keeps the tables well typed.
LEMMA TxnType ==
    ASSUME TypeOK, PlaceInv, NEW p \in Processes, Step(p)
    PROVE  txn' \in Details
<1> DEFINE d == payload[p]
<1>1. d \in Payloads \/ ~Running(p)  BY DEF PlaceInv
<1>2. CASE InsertObservations(p)
  <2>1. d \in Payloads  BY <1>1, <1>2 DEF InsertObservations, Running, Writing, At
  <2>2. txn' = [details EXCEPT !.observations = @ \cup Observations(d)]
        BY <1>2 DEF InsertObservations
  <2> QED BY <2>1, <2>2, RowTypes DEF TypeOK, Details
<1>3. CASE UpsertReasons(p)
  <2>1. d \in Payloads  BY <1>1, <1>3 DEF UpsertReasons, Running, Locked, At
  <2> DEFINE B == [b \in Basins |-> IF Touches(d, b)
                                    THEN upsert_reason_basin(txn.basins[b], d, b) ELSE txn.basins[b]]
  <2>2. txn' = [txn EXCEPT !.basins = B, !.edges = @ \cup Edges(d)]
        BY <1>3 DEF UpsertReasons, TypeOK, Details
  <2>3. txn.basins \in [Basins -> BasinRow \cup {Nothing}]  BY DEF TypeOK, Details
  <2>4. ASSUME NEW b \in Basins
        PROVE  B[b] \in BasinRow \cup {Nothing}
    <3>1. Support(d, b) \in Nat /\ Verified(d, b) \in BOOLEAN  BY <2>1, RowTypes
    <3> HIDE DEF d
    <3> QED BY <2>3, <3>1 DEF upsert_reason_basin, BasinRow
  <2>5. B \in [Basins -> BasinRow \cup {Nothing}]  BY <2>4
  <2> HIDE DEF B
  <2> QED BY <2>1, <2>2, <2>5, RowTypes DEF TypeOK, Details
<1>4. CASE InsertAttempts(p)
  <2>1. d \in Payloads  BY <1>1, <1>4 DEF InsertAttempts, Running, Locked, At
  <2>2. txn' = [txn EXCEPT !.attempts = @ \cup Attempts(d)]  BY <1>4 DEF InsertAttempts
  <2> QED BY <2>1, <2>2, RowTypes DEF TypeOK, Details
<1>5. CASE UpsertConstructor(p)
  <2>1. PICK x \in todo[p] : txn' = [txn EXCEPT !.constructors[Constructor(d, x)] =
                                                  upsert_verified_constructor(@)]
        BY <1>5 DEF UpsertConstructor
  <2>2. d \in Payloads /\ x \in Trials(d)
        BY <1>1, <1>5 DEF UpsertConstructor, PlaceInv, Running, Locked, At, Winners
  <2>3. Constructor(d, x) \in Constructors  BY <2>2, TrialFacts
  <2>4. txn.constructors \in [Constructors -> Nat]  BY DEF TypeOK, Details
  <2>5. upsert_verified_constructor(txn.constructors[Constructor(d, x)]) \in Nat
        BY <2>3, <2>4 DEF upsert_verified_constructor
  <2>6. txn' = [txn EXCEPT !.constructors =
                   [txn.constructors EXCEPT ![Constructor(d, x)] =
                       upsert_verified_constructor(txn.constructors[Constructor(d, x)])]]
        BY <2>1 DEF TypeOK, Details
  <2> HIDE DEF d
  <2> QED BY <2>3, <2>4, <2>5, <2>6 DEF TypeOK, Details
<1>6. CASE InsertObstructions(p)
  <2>1. d \in Payloads  BY <1>1, <1>6 DEF InsertObstructions, Running, Locked, At
  <2>2. txn' = [txn EXCEPT !.obstructions = @ \cup Obstructions(d)]  BY <1>6 DEF InsertObstructions
  <2> QED BY <2>1, <2>2, RowTypes DEF TypeOK, Details
<1>7. ASSUME txn' \in {txn, details}
      PROVE  txn' \in Details
      BY <1>7 DEF TypeOK
<1>8. \/ InsertObservations(p) \/ UpsertReasons(p) \/ InsertAttempts(p)
      \/ UpsertConstructor(p) \/ InsertObstructions(p) \/ txn' \in {txn, details}
      BY DEF Step, Digest, append_digest_run, ReadTarget, WriteTarget, Commit, ReadBasins,
             ReadPack, upsert_pending_pack, PlanEnds, Abort, NoEntries
<1> QED BY <1>2, <1>3, <1>4, <1>5, <1>6, <1>7, <1>8

LEMMA TypeStep ==
    ASSUME TypeOK, PlaceInv, NEW p \in Processes, Step(p)
    PROVE  TypeOK'
<1>1. /\ pc' \in [Processes -> Places]
      /\ \A q \in Processes :
            /\ todo'[q] \in (SUBSET (Nat \X Templates)) \cup (SUBSET (Basins \X Nat))
            /\ held'[q] \in TargetRow \cup PackRow \cup {Nothing}
            /\ payload'[q] \in Payloads \cup {Nothing}
      BY ActorMoves, OthersStay DEF TypeOK
<1>2. /\ DOMAIN todo' = Processes /\ todo' = [q \in DOMAIN todo' |-> todo'[q]]
      /\ DOMAIN held' = Processes /\ held' = [q \in DOMAIN held' |-> held'[q]]
      /\ DOMAIN payload' = Processes /\ payload' = [q \in DOMAIN payload' |-> payload'[q]]
  <2> USE DEF TypeOK
  <2>1. CASE Digest(p) \/ append_digest_run(p) \/ ReadTarget(p) \/ WriteTarget(p)
        BY <2>1 DEF Digest, append_digest_run, ReadTarget, WriteTarget
  <2>2. CASE InsertObservations(p) \/ UpsertReasons(p) \/ InsertAttempts(p) \/ UpsertConstructor(p)
        BY <2>2 DEF InsertObservations, UpsertReasons, InsertAttempts, UpsertConstructor
  <2>3. CASE InsertObstructions(p) \/ Commit(p) \/ ReadBasins(p) \/ ReadPack(p)
        BY <2>3 DEF InsertObstructions, Commit, ReadBasins, ReadPack
  <2>4. CASE upsert_pending_pack(p) \/ PlanEnds(p) \/ Abort(p) \/ NoEntries(p)
        BY <2>4 DEF upsert_pending_pack, PlanEnds, Abort, NoEntries
  <2> QED BY <2>1, <2>2, <2>3, <2>4 DEF Step
<1>3. txn' \in Details  BY TxnType
<1>4. /\ details' \in {details, txn} /\ lock' \in {lock, p, Nothing}
      BY DEF Step, Digest, append_digest_run, ReadTarget, WriteTarget, InsertObservations,
             UpsertReasons, InsertAttempts, UpsertConstructor, InsertObstructions, Commit,
             ReadBasins, ReadPack, upsert_pending_pack, PlanEnds, Abort, NoEntries
<1>5. runs' \subseteq Payloads
  <2>1. CASE append_digest_run(p)
    <3>1. payload[p] \in Payloads  BY <2>1 DEF append_digest_run, PlaceInv, Running, At
    <3> QED BY <2>1, <3>1 DEF append_digest_run, TypeOK
  <2>2. runs' = runs \/ append_digest_run(p)
        BY DEF Step, Digest, ReadTarget, WriteTarget, InsertObservations,
             UpsertReasons, InsertAttempts, UpsertConstructor, InsertObstructions, Commit,
             ReadBasins, ReadPack, upsert_pending_pack, PlanEnds, Abort, NoEntries
  <2> QED BY <2>1, <2>2 DEF TypeOK
<1>6. targets' \in [Targets -> TargetRow \cup {Nothing}]
  <2>1. CASE WriteTarget(p)
    <3> DEFINE e == payload[p].entries[pc[p][2]]
    <3>1. /\ At(p, "target", pc[p][2])
          /\ targets' = [targets EXCEPT ![e.target] = upsert_target(held[p], payload[p], e)]
          BY <2>1 DEF WriteTarget
    <3>2. /\ payload[p] \in Payloads /\ held[p] \in TargetRow \cup {Nothing}
          /\ pc[p][2] \in DOMAIN payload[p].entries
          BY <3>1 DEF PlaceInv, Running, Writing, At
    <3>3. payload[p].run \in 1 .. MaxRuns /\ e.target \in Targets /\ e.accepted \in BOOLEAN
          BY <3>2, PayloadFacts
    <3>4. One(e.accepted) \in Nat  BY DEF One
    <3> HIDE DEF e
    <3>5. upsert_target(held[p], payload[p], e) \in TargetRow
          BY <3>2, <3>3, <3>4 DEF upsert_target, TargetRow
    <3> QED BY <3>1, <3>3, <3>5 DEF TypeOK
  <2>2. targets' = targets \/ WriteTarget(p)
        BY DEF Step, Digest, append_digest_run, ReadTarget, InsertObservations,
             UpsertReasons, InsertAttempts, UpsertConstructor, InsertObstructions, Commit,
             ReadBasins, ReadPack, upsert_pending_pack, PlanEnds, Abort, NoEntries
  <2> QED BY <2>1, <2>2 DEF TypeOK
<1>7. packs' \in [Basins -> PackRow \cup {Nothing}]
  <2>1. CASE upsert_pending_pack(p)
        BY <2>1 DEF upsert_pending_pack, PlaceInv, At, TypeOK
  <2>2. packs' = packs \/ upsert_pending_pack(p)
        BY DEF Step, Digest, append_digest_run, ReadTarget, WriteTarget, InsertObservations,
             UpsertReasons, InsertAttempts, UpsertConstructor, InsertObstructions, Commit,
             ReadBasins, ReadPack, PlanEnds, Abort, NoEntries
  <2> QED BY <2>1, <2>2 DEF TypeOK
<1>8. overlapped' \in BOOLEAN
      BY DEF TypeOK, Goto, Step, Digest, append_digest_run, ReadTarget, WriteTarget, InsertObservations,
             UpsertReasons, InsertAttempts, UpsertConstructor, InsertObstructions, Commit,
             ReadBasins, ReadPack, upsert_pending_pack, PlanEnds, Abort, NoEntries
<1>9. started' \in 0 .. MaxRuns /\ plans' \in 0 .. MaxPlans /\ aborts' \in 0 .. MaxAborts
  <2>1. CASE Digest(p)      BY <2>1, BoundsAssumption, ConfigsAssumption DEF Digest, TypeOK
  <2>2. CASE ReadBasins(p)  BY <2>2, BoundsAssumption, ConfigsAssumption DEF ReadBasins, TypeOK
  <2>3. CASE Abort(p)       BY <2>3, BoundsAssumption, ConfigsAssumption DEF Abort, TypeOK
  <2>4. \/ Digest(p) \/ ReadBasins(p) \/ Abort(p)
        \/ started' = started /\ plans' = plans /\ aborts' = aborts
        BY DEF bounds, Step, append_digest_run, ReadTarget, WriteTarget, InsertObservations,
             UpsertReasons, InsertAttempts, UpsertConstructor, InsertObstructions, Commit,
             ReadPack, upsert_pending_pack, PlanEnds, NoEntries
  <2> QED BY <2>1, <2>2, <2>3, <2>4 DEF TypeOK
<1> QED BY <1>1, <1>2, <1>3, <1>4, <1>5, <1>6, <1>7, <1>8, <1>9 DEF TypeOK

LEMMA PlaceStep ==
    ASSUME TypeOK, PlaceInv, NEW p \in Processes, Step(p)
    PROVE  PlaceInv'
<1>1. \A q \in Processes \ {p} :
         pc'[q] = pc[q] /\ todo'[q] = todo[q] /\ held'[q] = held[q] /\ payload'[q] = payload[q]
      BY OthersStay
<1>2. (lock = p <=> Locked(p)) /\ \A q \in Processes \ {p} : lock = q <=> Locked(q)
      BY DEF PlaceInv
<1>3. /\ lock' = p <=> Locked(p)'
      /\ \A q \in Processes \ {p} : lock' = q <=> lock = q
  <2>1. CASE InsertObservations(p)
        BY <2>1, NothingAssumption DEF InsertObservations, TypeOK, Unlocked, Goto, Locked
  <2>2. CASE Commit(p)
        BY <2>2, NothingAssumption DEF Commit, TypeOK, Goto, Locked
  <2>3. CASE Abort(p)
        BY <2>3, <1>2, NothingAssumption DEF Abort, TypeOK, Goto, Locked
  <2>4. CASE UpsertReasons(p) \/ InsertAttempts(p) \/ UpsertConstructor(p) \/ InsertObstructions(p)
        BY <2>4 DEF UpsertReasons, InsertAttempts, UpsertConstructor, InsertObstructions,
                    TypeOK, Goto, Locked
  <2>5. CASE Digest(p) \/ append_digest_run(p) \/ ReadTarget(p) \/ WriteTarget(p)
    <3>1. lock # p  BY <1>2, <2>5 DEF Digest, append_digest_run, ReadTarget, WriteTarget, At, Idle, Locked
    <3> QED BY <3>1, <2>5 DEF Digest, append_digest_run, ReadTarget, WriteTarget, TypeOK, Goto, Locked
  <2>6. CASE ReadBasins(p) \/ ReadPack(p) \/ upsert_pending_pack(p) \/ PlanEnds(p) \/ NoEntries(p)
    <3>1. lock # p  BY <1>2, <2>6 DEF ReadBasins, ReadPack, upsert_pending_pack, PlanEnds, NoEntries,
                                      At, Idle, Locked
    <3> QED BY <3>1, <2>6 DEF ReadBasins, ReadPack, upsert_pending_pack, PlanEnds, NoEntries,
                              TypeOK, Goto, Locked
  <2> QED BY <2>1, <2>2, <2>3, <2>4, <2>5, <2>6 DEF Step
<1>4. \A q \in Processes \ {p} :
        /\ Running(q)' = Running(q) /\ Writing(q)' = Writing(q)
        /\ Locked(q)' = Locked(q) /\ Planning(q)' = Planning(q)
      BY <1>1 DEF Running, Writing, Locked, Planning
<1> QED BY <1>1, <1>2, <1>3, <1>4, ActorMoves DEF PlaceInv

-----------------------------------------------------------------------------
(* What a step changes.                                                      *)

LEMMA WhoWrites ==
    ASSUME NEW p \in Processes, Step(p)
    PROVE  /\ append_digest_run(p) \/ runs' = runs
           /\ WriteTarget(p) \/ targets' = targets
           /\ Commit(p) \/ details' = details
           /\ upsert_pending_pack(p) \/ packs' = packs
           /\ Digest(p) \/ started' = started
           /\ \E at, x : Goto(p, at, x)
BY DEF bounds, Step, Digest, append_digest_run, ReadTarget, WriteTarget, InsertObservations,
       UpsertReasons, InsertAttempts, UpsertConstructor, InsertObstructions, Commit,
       ReadBasins, ReadPack, upsert_pending_pack, PlanEnds, Abort, NoEntries

\* Between its first step and its last a run keeps its payload.
LEMMA RunningStays ==
    ASSUME TypeOK, PlaceInv, NEW p \in Processes, Step(p),
           NEW q \in Processes, Running(q)', ~(Digest(p) /\ q = p)
    PROVE  /\ Running(q) /\ payload'[q] = payload[q] /\ payload[q] \in Payloads
           /\ pc'[q][1] = "run" => pc[q][1] = "run"
           /\ pc'[q][1] # "run" => pc[q][1] # "run" \/ (append_digest_run(p) /\ q = p)
           /\ Locked(q) => Locked(q)'
           /\ Locked(q)' => Locked(q) \/ (InsertObservations(p) /\ q = p)
<1>1. CASE q # p
  <2>1. pc'[q] = pc[q] /\ payload'[q] = payload[q]  BY <1>1, OthersStay
  <2> QED BY <2>1 DEF Running, Writing, Locked, PlaceInv
<1>2. CASE q = p
  <2> USE DEF TypeOK, Goto, At, Running, Writing, Locked
  <2>1. CASE append_digest_run(p) \/ ReadTarget(p) \/ WriteTarget(p) \/ InsertObservations(p)
        BY <1>2, <2>1 DEF append_digest_run, ReadTarget, WriteTarget, InsertObservations, PlaceInv
  <2>2. CASE UpsertReasons(p) \/ InsertAttempts(p) \/ UpsertConstructor(p) \/ InsertObstructions(p)
        BY <1>2, <2>2 DEF UpsertReasons, InsertAttempts, UpsertConstructor, InsertObstructions, PlaceInv
  <2>3. CASE Commit(p) \/ ReadBasins(p) \/ PlanEnds(p) \/ Abort(p) \/ NoEntries(p)
        BY <1>2, <2>3 DEF Commit, ReadBasins, PlanEnds, Abort, NoEntries
  <2>4. CASE ReadPack(p) \/ upsert_pending_pack(p)
        BY <1>2, <2>4 DEF ReadPack, upsert_pending_pack
  <2> QED BY <1>2, <2>1, <2>2, <2>3, <2>4 DEF Step
<1> QED BY <1>1, <1>2

LEMMA RunStep ==
    ASSUME TypeOK, PlaceInv, RunInv, NEW p \in Processes, Step(p)
    PROVE  RunInv'
<1>1. CASE Digest(p)
  <2>1. /\ runs' = runs /\ started' = started + 1 /\ started \in Nat
        /\ payload'[p].run = started + 1 /\ pc'[p][1] = "run"
        BY <1>1 DEF Digest, Goto, TypeOK
  <2>2. \A q \in Processes \ {p} : Running(q)' =>
           /\ Running(q) /\ payload'[q] = payload[q] /\ payload[q] \in Payloads
           /\ pc'[q] = pc[q]
        BY RunningStays, OthersStay
  <2>3. \A q \in Processes \ {p} : Running(q)' => payload'[q].run <= started
        BY <2>2 DEF RunInv
  <2>4. \A q \in Processes \ {p} : Running(q)' => payload'[q].run \in Nat
        BY <2>2, PayloadFacts
  <2>5. \A r \in runs : r.run \in Nat  BY PayloadFacts DEF TypeOK
  <2> QED BY <2>1, <2>2, <2>3, <2>4, <2>5 DEF RunInv
<1>2. CASE append_digest_run(p)
  <2> DEFINE r == payload[p]
  <2>1. /\ runs' = runs \cup {r} /\ pc[p][1] = "run" /\ started' = started /\ Running(p)
        /\ pc'[p][1] = "targets" /\ payload' = payload
        BY <1>2 DEF append_digest_run, bounds, At, Running, Goto, TypeOK
  <2>2. /\ \A s \in runs : s.run # r.run
        /\ r.run <= started
        BY <2>1 DEF RunInv
  <2>3. IsFiniteSet(runs')  BY <2>1, FS_AddElement DEF RunInv
  <2>4. ~Digest(p)  BY <2>1 DEF Digest, Idle, At
  <2>5. \A q \in Processes : Running(q)' =>
           /\ Running(q) /\ payload'[q] = payload[q]
           /\ pc'[q][1] = "run" => pc[q][1] = "run"
           /\ pc'[q][1] # "run" => pc[q][1] # "run" \/ q = p
        BY <2>4, RunningStays
  <2>6. ASSUME NEW q \in Processes, Running(q)', pc'[q][1] = "run", NEW s \in runs'
        PROVE  s.run # payload'[q].run
    <3>1. q # p /\ payload'[q] = payload[q] /\ Running(q) /\ pc[q][1] = "run"
          BY <2>1, <2>5, <2>6
    <3>2. payload[q].run # payload[p].run  BY <3>1, <2>1 DEF RunInv
    <3>3. \A u \in runs : u.run # payload[q].run  BY <3>1 DEF RunInv
    <3> QED BY <2>1, <2>6, <3>1, <3>2, <3>3
  <2> HIDE DEF r
  <2>7. \A s, u \in runs' : s.run = u.run => s = u  BY <2>1, <2>2 DEF RunInv
  <2>8. \A s \in runs' : s.run <= started'  BY <2>1, <2>2 DEF RunInv
  <2> QED BY <2>1, <2>3, <2>5, <2>6, <2>7, <2>8 DEF RunInv, r
<1>3. CASE ~Digest(p) /\ ~append_digest_run(p)
  <2>1. runs' = runs /\ started' = started  BY <1>3, WhoWrites
  <2>2. \A q \in Processes : Running(q)' =>
           /\ Running(q) /\ payload'[q] = payload[q]
           /\ (pc'[q][1] = "run") = (pc[q][1] = "run")
        BY <1>3, RunningStays
  <2> QED BY <2>1, <2>2 DEF RunInv
<1> QED BY <1>1, <1>2, <1>3

-----------------------------------------------------------------------------
(* The transaction.                                                          *)

LEMMA TxnStep ==
    ASSUME TypeOK, PlaceInv, TxnInv, NEW p \in Processes, Step(p)
    PROVE  TxnInv'
<1> DEFINE TxnOf(q) ==
          /\ txn.observations = details.observations \cup Observations(payload[q])
          /\ IF pc[q][1] = "reasons"
             THEN txn.basins = details.basins /\ txn.edges = details.edges
             ELSE txn.basins = NewBasins(payload[q])
                  /\ txn.edges = details.edges \cup Edges(payload[q])
          /\ IF pc[q][1] \in {"reasons", "attempts"}
             THEN txn.attempts = details.attempts /\ txn.constructors = details.constructors
             ELSE /\ txn.attempts = details.attempts \cup Attempts(payload[q])
                  /\ \A c \in Constructors :
                        txn.constructors[c] =
                            details.constructors[c] + Cardinality(Upserted(q, c))
          /\ IF pc[q][1] = "commit"
             THEN txn.obstructions = details.obstructions \cup Obstructions(payload[q])
             ELSE txn.obstructions = details.obstructions
<1> DEFINE d == payload[p]
<1>0. (lock = Nothing => txn = details) /\ \A q \in Processes : Locked(q) => TxnOf(q)
      BY DEF TxnInv
<1>1. SUFFICES (lock' = Nothing => txn' = details') /\ \A q \in Processes : Locked(q)' => TxnOf(q)'
      BY DEF TxnInv
<1>2. txn \in Details /\ details \in Details  BY DEF TypeOK
<1>3. lock' = Nothing => txn' = details'
  <2>1. CASE InsertObservations(p)
        BY <2>1, NothingAssumption DEF InsertObservations
  <2>2. CASE Commit(p)  BY <2>2 DEF Commit
  <2>3. CASE Abort(p)   BY <2>3, <1>0 DEF Abort
  <2>4. CASE UpsertReasons(p) \/ InsertAttempts(p) \/ UpsertConstructor(p) \/ InsertObstructions(p)
        BY <2>4, NothingAssumption DEF UpsertReasons, InsertAttempts, UpsertConstructor, InsertObstructions
  <2>5. CASE UNCHANGED <<txn, details, lock>>
        BY <2>5, <1>0
  <2>6. \/ InsertObservations(p) \/ Commit(p) \/ Abort(p) \/ UpsertReasons(p) \/ InsertAttempts(p)
        \/ UpsertConstructor(p) \/ InsertObstructions(p) \/ UNCHANGED <<txn, details, lock>>
        BY DEF Step, Digest, append_digest_run, ReadTarget, WriteTarget, ReadBasins,
               ReadPack, upsert_pending_pack, PlanEnds, NoEntries
  <2> QED BY <2>1, <2>2, <2>3, <2>4, <2>5, <2>6
<1>4. ASSUME NEW q \in Processes, q # p, Locked(q)'
      PROVE  TxnOf(q)'
  <2>1. /\ pc'[q] = pc[q] /\ payload'[q] = payload[q] /\ todo'[q] = todo[q]
        BY <1>4, OthersStay
  <2>2. Locked(q) /\ lock = q  BY <1>4, <2>1 DEF Locked, PlaceInv
  <2>3. txn' = txn /\ details' = details
        BY <1>4, <2>2, NothingAssumption
           DEF Unlocked, Step, Digest, append_digest_run, ReadTarget, WriteTarget, InsertObservations,
               UpsertReasons, InsertAttempts, UpsertConstructor, InsertObstructions, Commit,
               ReadBasins, ReadPack, upsert_pending_pack, PlanEnds, Abort, NoEntries
  <2>4. TxnOf(q)  BY <1>0, <2>2
  <2>5. \A c : Upserted(q, c)' = Upserted(q, c)  BY <2>1 DEF Upserted
  <2>6. NewBasins(payload[q])' = NewBasins(payload[q])  BY <2>1, <2>3 DEF NewBasins
  <2> QED BY <2>1, <2>3, <2>4, <2>5, <2>6
<1>5. ASSUME Locked(p)'
      PROVE  TxnOf(p)'
  <2>1. CASE InsertObservations(p)
    <3>1. /\ txn' = [details EXCEPT !.observations = @ \cup Observations(d)]
          /\ details' = details /\ payload' = payload /\ pc'[p][1] = "reasons"
          BY <2>1 DEF InsertObservations, Goto, TypeOK
    <3> QED BY <1>2, <3>1 DEF Details
  <2>2. CASE UpsertReasons(p)
    <3>1. pc[p][1] = "reasons" /\ Locked(p)  BY <2>2 DEF UpsertReasons, At, Locked
    <3>2. TxnOf(p)  BY <1>0, <3>1
    <3>3. /\ details' = details /\ payload' = payload /\ pc'[p][1] = "attempts"
          BY <2>2 DEF UpsertReasons, Goto, TypeOK
    <3>4. /\ txn'.basins = NewBasins(d) /\ txn'.edges = txn.edges \cup Edges(d)
          /\ txn'.observations = txn.observations /\ txn'.attempts = txn.attempts
          /\ txn'.constructors = txn.constructors /\ txn'.obstructions = txn.obstructions
          BY <2>2, <1>2, <3>1, <3>2 DEF UpsertReasons, NewBasins, Details
    <3>5. NewBasins(d)' = NewBasins(d)  BY <3>3 DEF NewBasins
    <3> QED BY <3>1, <3>2, <3>3, <3>4, <3>5
  <2>3. CASE InsertAttempts(p)
    <3>1. pc[p][1] = "attempts" /\ Locked(p)  BY <2>3 DEF InsertAttempts, At, Locked
    <3>2. TxnOf(p)  BY <1>0, <3>1
    <3>3. /\ details' = details /\ payload' = payload /\ pc'[p][1] = "constructors"
          /\ todo'[p] = Winners(d)
          BY <2>3 DEF InsertAttempts, Winners, Goto, TypeOK
    <3>4. /\ txn'.basins = txn.basins /\ txn'.edges = txn.edges
          /\ txn'.observations = txn.observations
          /\ txn'.attempts = txn.attempts \cup Attempts(d)
          /\ txn'.constructors = txn.constructors /\ txn'.obstructions = txn.obstructions
          BY <2>3, <1>2 DEF InsertAttempts, Details
    <3>5. NewBasins(d)' = NewBasins(d)  BY <3>3 DEF NewBasins
    <3>6. ASSUME NEW c \in Constructors
          PROVE  txn'.constructors[c] =
                     details'.constructors[c] + Cardinality(Upserted(p, c)')
      <4>1. Upserted(p, c)' = {}  BY <3>3 DEF Upserted
      <4>2. details.constructors[c] \in Nat  BY <1>2 DEF Details
      <4> QED BY <3>1, <3>2, <3>3, <3>4, <4>1, <4>2, FS_EmptySet
    <3> QED BY <3>1, <3>2, <3>3, <3>4, <3>5, <3>6
  <2>4. CASE UpsertConstructor(p)
    <3>1. pc[p][1] = "constructors" /\ Locked(p) /\ Running(p)
          BY <2>4 DEF UpsertConstructor, At, Locked, Running
    <3>2. TxnOf(p)  BY <1>0, <3>1
    <3>3. PICK a \in todo[p] :
            /\ txn' = [txn EXCEPT !.constructors[Constructor(d, a)] =
                                       upsert_verified_constructor(@)]
            /\ todo' = [todo EXCEPT ![p] = @ \ {a}]
          BY <2>4 DEF UpsertConstructor
    <3>4. /\ details' = details /\ payload' = payload /\ pc'[p][1] = "constructors"
          /\ todo'[p] = todo[p] \ {a}
          BY <2>4, <3>3 DEF UpsertConstructor, Goto, TypeOK
    <3>5. d \in Payloads /\ a \in Winners(d) /\ a \in Trials(d)
          BY <3>1, <3>3 DEF PlaceInv, Winners
    <3>6. Constructor(d, a) \in Constructors  BY <3>5, TrialFacts
    <3>7. /\ txn'.basins = txn.basins /\ txn'.edges = txn.edges
          /\ txn'.observations = txn.observations /\ txn'.attempts = txn.attempts
          /\ txn'.obstructions = txn.obstructions
          /\ txn'.constructors = [txn.constructors EXCEPT ![Constructor(d, a)] =
                                     upsert_verified_constructor(txn.constructors[Constructor(d, a)])]
          BY <1>2, <3>3 DEF Details
    <3>8. NewBasins(d)' = NewBasins(d)  BY <3>4 DEF NewBasins
    <3>9. ASSUME NEW c \in Constructors
          PROVE  txn'.constructors[c] =
                     details'.constructors[c] + Cardinality(Upserted(p, c)')
      <4>1. details.constructors[c] \in Nat  BY <1>2 DEF Details
      <4>2. txn.constructors[c] = details.constructors[c] + Cardinality(Upserted(p, c))
            BY <3>1, <3>2
      <4>3. IsFiniteSet(Upserted(p, c))
            BY <3>5, TrialFacts DEF Upserted, Winners
      <4>4. CASE c = Constructor(d, a)
        <5>1. Upserted(p, c)' = Upserted(p, c) \cup {a} /\ a \notin Upserted(p, c)
              BY <3>3, <3>4, <3>5, <4>4 DEF Upserted
        <5>2. Cardinality(Upserted(p, c)') = Cardinality(Upserted(p, c)) + 1
              BY <4>3, <5>1, FS_AddElement
        <5>3. txn'.constructors[c] = txn.constructors[c] + 1
              BY <1>2, <3>6, <3>7, <4>4 DEF upsert_verified_constructor, Details
        <5>4. Cardinality(Upserted(p, c)) \in Nat  BY <4>3, FS_CardinalityType
        <5> QED BY <3>4, <4>1, <4>2, <5>2, <5>3, <5>4
      <4>5. CASE c # Constructor(d, a)
        <5>1. Upserted(p, c)' = Upserted(p, c)  BY <3>4, <4>5 DEF Upserted
        <5>2. txn'.constructors[c] = txn.constructors[c]
              BY <1>2, <3>7, <4>5 DEF Details
        <5> QED BY <3>4, <4>2, <5>1, <5>2
      <4> QED BY <4>4, <4>5
    <3> QED BY <3>1, <3>2, <3>4, <3>7, <3>8, <3>9
  <2>5. CASE InsertObstructions(p)
    <3>1. pc[p][1] = "constructors" /\ Locked(p)  BY <2>5 DEF InsertObstructions, At, Locked
    <3>2. TxnOf(p)  BY <1>0, <3>1
    <3>3. /\ details' = details /\ payload' = payload /\ pc'[p][1] = "commit" /\ todo' = todo
          BY <2>5 DEF InsertObstructions, Goto, TypeOK
    <3>4. /\ txn'.basins = txn.basins /\ txn'.edges = txn.edges
          /\ txn'.observations = txn.observations /\ txn'.attempts = txn.attempts
          /\ txn'.constructors = txn.constructors
          /\ txn'.obstructions = txn.obstructions \cup Obstructions(d)
          BY <2>5, <1>2 DEF InsertObstructions, Details
    <3>5. NewBasins(d)' = NewBasins(d)  BY <3>3 DEF NewBasins
    <3>6. \A c : Upserted(p, c)' = Upserted(p, c)  BY <3>3 DEF Upserted
    <3> QED BY <3>1, <3>2, <3>3, <3>4, <3>5, <3>6
  <2>6. \/ InsertObservations(p) \/ UpsertReasons(p) \/ InsertAttempts(p)
        \/ UpsertConstructor(p) \/ InsertObstructions(p)
        BY <1>5 DEF TypeOK, Locked, Goto, Step, Digest, append_digest_run, ReadTarget, WriteTarget,
               Commit, ReadBasins, ReadPack, upsert_pending_pack, PlanEnds, Abort, NoEntries
  <2> QED BY <2>1, <2>2, <2>3, <2>4, <2>5, <2>6
<1> QED BY <1>3, <1>4, <1>5



-----------------------------------------------------------------------------
(* What a run has put on record when it commits.                             *)

LEMMA CommitIs ==
    ASSUME TypeOK, PlaceInv, RunInv, TxnInv, NEW p \in Processes, Commit(p)
    PROVE  /\ Running(p) /\ Locked(p) /\ ~Running(p)' /\ payload[p] \in Payloads
           /\ payload[p] \in runs /\ payload[p].entries # <<>>
           /\ details'.observations = details.observations \cup Observations(payload[p])
           /\ details'.basins = NewBasins(payload[p])
           /\ details'.edges = details.edges \cup Edges(payload[p])
           /\ details'.attempts = details.attempts \cup Attempts(payload[p])
           /\ details'.obstructions = details.obstructions \cup Obstructions(payload[p])
           /\ \A c \in Constructors :
                 details'.constructors[c] = details.constructors[c]
                     + Cardinality({x \in Winners(payload[p]) : Constructor(payload[p], x) = c})
           /\ targets' = targets /\ runs' = runs /\ started' = started /\ packs' = packs
<1>1. pc[p][1] = "commit"  BY DEF Commit, At
<1>2. Running(p) /\ Locked(p) /\ payload[p] \in Payloads /\ todo[p] = {} /\ payload[p].entries # <<>>
      BY <1>1 DEF Running, Locked, PlaceInv
<1>3. payload[p] \in runs  BY <1>1, <1>2 DEF RunInv
<1>4. ~Running(p)'  BY DEF Commit, Goto, TypeOK, Running, Writing, Locked
<1>5. details' = txn  BY DEF Commit
<1>6. \A c \in Constructors :
         Upserted(p, c) = {x \in Winners(payload[p]) : Constructor(payload[p], x) = c}
      BY <1>2 DEF Upserted
<1>7. /\ txn.observations = details.observations \cup Observations(payload[p])
      /\ txn.basins = NewBasins(payload[p])
      /\ txn.edges = details.edges \cup Edges(payload[p])
      /\ txn.attempts = details.attempts \cup Attempts(payload[p])
      /\ txn.obstructions = details.obstructions \cup Obstructions(payload[p])
      /\ \A c \in Constructors :
            txn.constructors[c] = details.constructors[c] + Cardinality(Upserted(p, c))
      BY <1>1, <1>2 DEF TxnInv
<1>8. targets' = targets /\ runs' = runs /\ started' = started /\ packs' = packs
      BY DEF Commit, bounds
<1> QED BY <1>2, <1>3, <1>4, <1>5, <1>6, <1>7, <1>8

\* A target is observed once in a run, as the last entry that names it says.
LEMMA ObservationIs ==
    ASSUME NEW d \in Payloads, NEW o \in Observations(d)
    PROVE  \E i \in DOMAIN d.entries :
             /\ o.run = d.run /\ o.target = d.entries[i].target
             /\ o.accepted = d.entries[i].accepted
             /\ \A k \in Naming(d, o.target) : k <= i
<1>1. PICK i \in {j \in DOMAIN d.entries : \A k \in Naming(d, d.entries[j].target) : k <= j} :
         o = [run |-> d.run, target |-> d.entries[i].target, accepted |-> d.entries[i].accepted]
      BY DEF Observations
<1> QED BY <1>1

\* A run that names a target observes one: its last entry's.
LEMMA ObservationsNotEmpty ==
    ASSUME NEW d \in Payloads, d.entries # <<>>
    PROVE  \E o \in Observations(d) : o.run = d.run
<1> DEFINE n == Len(d.entries)
           o == [run |-> d.run, target |-> d.entries[n].target, accepted |-> d.entries[n].accepted]
<1>1. n \in Nat /\ DOMAIN d.entries = 1 .. n /\ n # 0  BY PayloadFacts
<1>2. n \in DOMAIN d.entries  BY <1>1
<1>3. \A k \in Naming(d, d.entries[n].target) : k <= n  BY <1>1 DEF Naming
<1>4. o \in Observations(d)  BY <1>2, <1>3 DEF Observations
<1> QED BY <1>4

\* A run goes on record when it commits.
LEMMA OnRecordStep ==
    ASSUME TypeOK, PlaceInv, RunInv, TxnInv, RecordInv, NEW p \in Processes, Step(p)
    PROVE  IF Commit(p)
           THEN /\ OnRecord' = OnRecord \cup {payload[p]}
                /\ \A r \in OnRecord : r.run # payload[p].run
           ELSE OnRecord' = OnRecord
<1> DEFINE d == payload[p]
<1>1. CASE Commit(p)
  <2>1. /\ d \in runs /\ d \in Payloads /\ d.entries # <<>> /\ runs' = runs /\ Running(p)
        /\ details'.observations = details.observations \cup Observations(d)
        BY <1>1, CommitIs
  <2>2. \A o \in details.observations : o.run # d.run  BY <2>1 DEF RecordInv
  <2>3. \A o \in Observations(d) : o.run = d.run  BY <2>1, ObservationIs
  <2>4. \E o \in Observations(d) : o.run = d.run  BY <2>1, ObservationsNotEmpty
  <2>5. \A r \in runs : r.run = d.run <=> r = d  BY <2>1 DEF RunInv
  <2> HIDE DEF d
  <2>6. \A r \in runs : (\E o \in details'.observations : o.run = r.run) <=>
                            (r = d \/ \E o \in details.observations : o.run = r.run)
        BY <2>1, <2>3, <2>4, <2>5
  <2>7. OnRecord' = OnRecord \cup {d}  BY <2>1, <2>6 DEF OnRecord
  <2>8. \A r \in OnRecord : r.run # d.run  BY <2>2 DEF OnRecord
  <2> QED BY <1>1, <2>7, <2>8 DEF d
<1>2. CASE append_digest_run(p)
  <2>1. runs' = runs \cup {d} /\ pc[p][1] = "run" /\ Running(p) /\ ~Commit(p)
        BY <1>2 DEF append_digest_run, At, Running, Commit
  <2>2. details' = details  BY <2>1, WhoWrites
  <2>3. \A o \in details.observations : o.run # d.run  BY <2>1 DEF RecordInv
  <2> HIDE DEF d
  <2> QED BY <2>1, <2>2, <2>3 DEF OnRecord
<1>3. CASE ~Commit(p) /\ ~append_digest_run(p)
  <2>1. runs' = runs /\ details' = details  BY <1>3, WhoWrites
  <2> QED BY <1>3, <2>1 DEF OnRecord
<1> QED BY <1>1, <1>2, <1>3

LEMMA RecordStep ==
    ASSUME TypeOK, PlaceInv, RunInv, TxnInv, RecordInv, NEW p \in Processes, Step(p)
    PROVE  RecordInv'
<1>1. runs \subseteq runs'
  <2>1. CASE append_digest_run(p)  BY <2>1 DEF append_digest_run
  <2> QED BY <2>1, WhoWrites
<1>2. CASE Commit(p)
  <2> DEFINE d == payload[p]
  <2>1. /\ d \in runs /\ d \in Payloads /\ Running(p) /\ ~Running(p)' /\ ~Digest(p)
        /\ details'.observations = details.observations \cup Observations(d)
    <3>1. ~Digest(p)  BY <1>2 DEF Commit, Digest, At, Idle
    <3> QED BY <1>2, <3>1, CommitIs
  <2>2. \A q \in Processes : Running(q)' =>
           q # p /\ Running(q) /\ payload'[q] = payload[q] /\ payload[q].run # d.run
    <3>1. \A q \in Processes : Running(q)' => q # p /\ Running(q) /\ payload'[q] = payload[q]
          BY <2>1, RunningStays
    <3> QED BY <2>1, <3>1 DEF RunInv
  <2>3. \A o \in Observations(d) : o.run = d.run  BY <2>1, ObservationIs
  <2>4. \A o \in details'.observations : o \in details.observations \/ o.run = d.run
        BY <2>1, <2>3
  <2> HIDE DEF d
  <2> QED BY <1>1, <2>1, <2>2, <2>4 DEF RecordInv
<1>3. CASE Digest(p)
  <2>1. /\ details' = details /\ payload'[p].run = started + 1 /\ started \in Nat
        BY <1>3 DEF Digest, TypeOK
  <2>2. \A r \in runs : r.run <= started /\ r.run \in Nat
        BY PayloadFacts DEF RunInv, TypeOK
  <2>3. \A q \in Processes : Running(q)' => q = p \/ (Running(q) /\ payload'[q] = payload[q])
        BY RunningStays
  <2>4. \A o \in details.observations : o.run # started + 1
        BY <2>1, <2>2 DEF RecordInv
  <2> QED BY <1>1, <2>1, <2>3, <2>4 DEF RecordInv
<1>4. CASE ~Commit(p) /\ ~Digest(p)
  <2>1. details' = details  BY <1>4, WhoWrites
  <2>2. \A q \in Processes : Running(q)' => Running(q) /\ payload'[q] = payload[q]
        BY <1>4, RunningStays
  <2> QED BY <1>1, <2>1, <2>2 DEF RecordInv
<1> QED BY <1>2, <1>3, <1>4

-----------------------------------------------------------------------------
(* What is owed.                                                             *)

\* A process owes the same entries after a step of a run, but for one it writes.
LEMMA OwesNext ==
    ASSUME TypeOK, PlaceInv, NEW p \in Processes, Step(p),
           NEW q \in Processes, Running(q)', ~(Digest(p) /\ q = p), ~(append_digest_run(p) /\ q = p),
           NEW x, x[2] \in Nat
    PROVE  /\ Owes(q, x)' => Owes(q, x) /\ ~(WriteTarget(p) /\ q = p /\ x[2] = pc[p][2])
           /\ Owes(q, x) /\ x[2] \in DOMAIN payload[q].entries =>
                 Owes(q, x)' \/ (WriteTarget(p) /\ q = p /\ x[2] = pc[p][2])
<1>1. CASE q # p
  <2>1. pc'[q] = pc[q] /\ payload'[q] = payload[q]  BY <1>1, OthersStay
  <2> QED BY <1>1, <2>1 DEF Owes, Writing
<1>2. CASE q = p
  <2>0. payload'[p] = payload[p] /\ Running(p) /\ payload[p] \in Payloads
        BY <1>2, RunningStays
  <2> USE DEF TypeOK, Goto, At, Owes, Writing
  <2>1. CASE ReadTarget(p)
        BY <1>2, <2>0, <2>1 DEF ReadTarget, WriteTarget
  <2>2. CASE WriteTarget(p)
    <3>1. pc[p][1] = "target" /\ pc'[p] = <<"targets", pc[p][2] + 1>>
          BY <2>2 DEF WriteTarget
    <3>2. pc[p][2] \in Nat  BY <3>1, <2>0 DEF PlaceInv
    <3> QED BY <1>2, <2>0, <2>2, <3>1, <3>2
  <2>3. CASE InsertObservations(p)
    <3>1. /\ pc[p][1] = "targets" /\ pc'[p] = <<"reasons", Nothing>>
          /\ pc[p][2] > Len(payload[p].entries)
          BY <2>3 DEF InsertObservations
    <3>2. pc[p][2] \in Nat  BY <3>1, <2>0 DEF PlaceInv
    <3>3. DOMAIN payload[p].entries = 1 .. Len(payload[p].entries) /\ Len(payload[p].entries) \in Nat
          BY <2>0, PayloadFacts
    <3> QED BY <1>2, <3>1, <3>2, <3>3
  <2>4. CASE UpsertReasons(p) \/ InsertAttempts(p) \/ UpsertConstructor(p) \/ InsertObstructions(p)
        BY <1>2, <2>4 DEF UpsertReasons, InsertAttempts, UpsertConstructor, InsertObstructions
  <2>5. CASE Commit(p) \/ ReadBasins(p) \/ PlanEnds(p) \/ Abort(p) \/ NoEntries(p)
        BY <1>2, <2>5 DEF Commit, ReadBasins, PlanEnds, Abort, NoEntries, Running, Locked
  <2>6. CASE ReadPack(p) \/ upsert_pending_pack(p)
        BY <1>2, <2>6 DEF ReadPack, upsert_pending_pack, Running, Locked
  <2>7. ~Digest(p) /\ ~append_digest_run(p)  BY <1>2
  <2> QED BY <2>1, <2>2, <2>3, <2>4, <2>5, <2>6, <2>7 DEF Step
<1> QED BY <1>1, <1>2

\* Nobody comes to owe an entry of a run in the table.
LEMMA OwedBefore ==
    ASSUME TypeOK, PlaceInv, RunInv, NEW p \in Processes, Step(p),
           NEW r \in runs, NEW k \in Nat, NEW q \in Processes, Owes(q, <<r.run, k>>)'
    PROVE  /\ Owes(q, <<r.run, k>>) /\ ~(WriteTarget(p) /\ q = p /\ k = pc[p][2])
<1>1. Running(q)' /\ Writing(q)' /\ payload'[q].run = r.run  BY DEF Owes, Running
<1>2. ~(Digest(p) /\ q = p)
      BY <1>1 DEF Digest, Goto, TypeOK, Writing
<1>3. ~(append_digest_run(p) /\ q = p)
  <2> SUFFICES ASSUME append_digest_run(p), q = p PROVE FALSE  OBVIOUS
  <2>1. pc[p][1] = "run" /\ Running(p) /\ payload'[p] = payload[p]
        BY DEF append_digest_run, At, Running
  <2> QED BY <1>1, <2>1 DEF RunInv
<1> QED BY <1>1, <1>2, <1>3, OwesNext

\* The sightings of a target, one by one.
LEMMA SightingIs ==
    ASSUME NEW S \in SUBSET Payloads, NEW t
    PROVE  /\ \A x \in Sightings(S, t) : \E r \in S : \E k \in Naming(r, t) :
                 x = <<r.run, k>> /\ k \in Nat
           /\ \A x \in Successes(S, t) : \E r \in S : \E k \in Naming(r, t) :
                 x = <<r.run, k>> /\ k \in Nat /\ r.entries[k].accepted
           /\ \A r \in S : \A k \in Naming(r, t) :
                 /\ <<r.run, k>> \in Sightings(S, t)
                 /\ r.entries[k].accepted => <<r.run, k>> \in Successes(S, t)
<1>1. \A r \in S : \A k \in Naming(r, t) : k \in Nat  BY PayloadFacts DEF Naming
<1>2. \A x \in Sightings(S, t) : \E r \in S : \E k \in Naming(r, t) : x = <<r.run, k>>
      BY DEF Sightings
<1>3. \A x \in Successes(S, t) : \E r \in S : \E k \in Accepting(r, t) : x = <<r.run, k>>
      BY DEF Successes
<1>4. \A r \in S : \A k \in Naming(r, t) : <<r.run, k>> \in Sightings(S, t)
      BY DEF Sightings
<1>5. \A r \in S : \A k \in Accepting(r, t) : <<r.run, k>> \in Successes(S, t)
      BY DEF Successes
<1> QED BY <1>1, <1>2, <1>3, <1>4, <1>5 DEF Accepting

LEMMA RunsGrow ==
    ASSUME TypeOK, PlaceInv, RunInv, NEW p \in Processes, Step(p)
    PROVE  /\ runs \subseteq runs' /\ IsFiniteSet(runs) /\ IsFiniteSet(runs')
           /\ runs \in SUBSET Payloads /\ runs' \in SUBSET Payloads
<1>1. runs \subseteq runs'
  <2>1. CASE append_digest_run(p)  BY <2>1 DEF append_digest_run
  <2> QED BY <2>1, WhoWrites
<1>2. IsFiniteSet(runs) /\ IsFiniteSet(runs')  BY RunStep DEF RunInv
<1>3. runs \in SUBSET Payloads /\ runs' \in SUBSET Payloads  BY TypeStep DEF TypeOK
<1> QED BY <1>1, <1>2, <1>3

-----------------------------------------------------------------------------
(* Counts and sightings.                                                     *)

\* A subset that leaves an element out is smaller.
LEMMA OneMore ==
    ASSUME NEW B, IsFiniteSet(B), NEW A, A \subseteq B
    PROVE  /\ Cardinality(A) \in Nat /\ Cardinality(B) \in Nat /\ Cardinality(A) <= Cardinality(B)
           /\ \A x \in B : x \notin A => Cardinality(A) + 1 <= Cardinality(B)
<1>1. IsFiniteSet(A) /\ Cardinality(A) <= Cardinality(B)  BY FS_Subset
<1>2. Cardinality(A) \in Nat /\ Cardinality(B) \in Nat  BY <1>1, FS_CardinalityType
<1>3. ASSUME NEW x \in B, x \notin A
      PROVE  Cardinality(A) + 1 <= Cardinality(B)
  <2>1. Cardinality(A \cup {x}) = Cardinality(A) + 1  BY <1>1, <1>3, FS_AddElement
  <2>2. Cardinality(A \cup {x}) <= Cardinality(B)  BY <1>3, FS_Subset
  <2> QED BY <2>1, <2>2
<1> QED BY <1>1, <1>2, <1>3

\* What is counted of a target only grows; writing an entry pays it.
LEMMA CountsGrow ==
    ASSUME TypeOK, PlaceInv, RunInv, NEW p \in Processes, Step(p), NEW t
    PROVE  /\ Seen(t) \in Nat /\ Seen(t)' \in Nat /\ Seen(t) <= Seen(t)'
           /\ Won(t) \in Nat /\ Won(t)' \in Nat /\ Won(t) <= Won(t)'
           /\ \A k \in Nat :
                 /\ WriteTarget(p) /\ k = pc[p][2] /\ k \in Naming(payload[p], t) =>
                       /\ Seen(t) + 1 <= Seen(t)'
                       /\ payload[p].entries[k].accepted => Won(t) + 1 <= Won(t)'
<1>1. PICK S0, S1, W0, W1 :
         /\ S0 = {x \in Sightings(runs, t) : Paid(x)} /\ S1 = {x \in Sightings(runs', t) : Paid(x)'}
         /\ W0 = {x \in Successes(runs, t) : Paid(x)} /\ W1 = {x \in Successes(runs', t) : Paid(x)'}
      OBVIOUS
<1>2. /\ Seen(t) = Cardinality(S0) /\ Seen(t)' = Cardinality(S1)
      /\ Won(t) = Cardinality(W0) /\ Won(t)' = Cardinality(W1)
  <2>1. Seen(t)' = Cardinality({x \in Sightings(runs', t) : Paid(x)'})
        BY DEF Seen, Sightings
  <2>2. Won(t)' = Cardinality({x \in Successes(runs', t) : Paid(x)'})
        BY DEF Won, Successes
  <2> QED BY <1>1, <2>1, <2>2 DEF Seen, Won
<1>3. /\ runs \subseteq runs' /\ runs \in SUBSET Payloads /\ runs' \in SUBSET Payloads
      /\ IsFiniteSet(runs')
      BY RunsGrow
<1>4. Sightings(runs, t) \subseteq Sightings(runs', t) /\ Successes(runs, t) \subseteq Successes(runs', t)
      BY <1>3 DEF Sightings, Successes
<1>5. ASSUME NEW x \in Sightings(runs, t), Paid(x)
      PROVE  Paid(x)'
  <2>0. PICK r \in runs : \E j \in Naming(r, t) : x = <<r.run, j>> /\ j \in Nat
        BY <1>3, SightingIs
  <2>1. PICK k \in Nat : x = <<r.run, k>>  BY <2>0
  <2>2. \A q \in Processes : ~Owes(q, <<r.run, k>>)'
        BY <1>5, <2>1, OwedBefore DEF Paid
  <2> QED BY <2>1, <2>2 DEF Paid
<1>6. Successes(runs, t) \subseteq Sightings(runs, t)  BY DEF Successes, Sightings, Accepting
<1>7. S0 \subseteq S1 /\ W0 \subseteq W1  BY <1>1, <1>4, <1>5, <1>6
<1>8. IsFiniteSet(S1) /\ IsFiniteSet(W1)
  <2>1. S1 \subseteq Sightings(runs', t) /\ W1 \subseteq Sightings(runs', t)
        BY <1>1 DEF Successes, Sightings, Accepting
  <2> QED BY <1>3, <2>1, SightingsFinite
<1>9. ASSUME WriteTarget(p), NEW k \in Nat, k = pc[p][2], k \in Naming(payload[p], t)
      PROVE  \E x : /\ x \in S1 /\ x \notin S0
                    /\ payload[p].entries[k].accepted => x \in W1 /\ x \notin W0
  <2>1. pc[p] = <<"target", k>> /\ runs' = runs  BY <1>9 DEF WriteTarget, At
  <2>2. Writing(p) /\ Running(p) /\ payload[p] \in runs
        BY <2>1 DEF Writing, Running, RunInv
  <2>3. PICK r \in runs : r = payload[p]  BY <2>2
  <2> DEFINE x == <<r.run, k>>
  <2>4. /\ x \in Sightings(runs, t)
        /\ payload[p].entries[k].accepted => x \in Successes(runs, t)
        BY <1>3, <1>9, <2>3, SightingIs
  <2>5. ~Paid(x)  BY <2>1, <2>2, <2>3 DEF Paid, Owes
  <2>6. ASSUME NEW q \in Processes
        PROVE  ~Owes(q, x)'
    <3> SUFFICES ASSUME Owes(q, x)' PROVE FALSE  OBVIOUS
    <3>1. Owes(q, x) /\ ~(q = p)  BY <1>9, OwedBefore
    <3>2. Running(q) /\ payload[q].run = payload[p].run  BY <2>3, <3>1 DEF Owes, Running
    <3> QED BY <2>2, <3>1, <3>2 DEF RunInv
  <2>7. Paid(x)'  BY <2>6 DEF Paid
  <2> QED BY <1>1, <2>1, <2>4, <2>5, <2>7
<1>10. /\ Cardinality(S0) \in Nat /\ Cardinality(S1) \in Nat /\ Cardinality(S0) <= Cardinality(S1)
       /\ Cardinality(W0) \in Nat /\ Cardinality(W1) \in Nat /\ Cardinality(W0) <= Cardinality(W1)
       /\ \A x \in S1 : x \notin S0 => Cardinality(S0) + 1 <= Cardinality(S1)
       /\ \A x \in W1 : x \notin W0 => Cardinality(W0) + 1 <= Cardinality(W1)
       BY <1>7, <1>8, OneMore
<1> QED BY <1>2, <1>9, <1>10

LEMMA CountedStays ==
    ASSUME TypeOK, PlaceInv, RunInv, NEW p \in Processes, Step(p), NEW t,
           NEW row \in TargetRow, Counted(row, t)
    PROVE  row.seen <= Seen(t)' /\ row.success <= Won(t)'
<1>1. row.seen \in Nat /\ row.success \in Nat  BY DEF TargetRow
<1> QED BY <1>1, CountsGrow DEF Counted

\* What writing an entry leaves in the row of its target.
LEMMA WriteIs ==
    ASSUME TypeOK, PlaceInv, RunInv, NEW p \in Processes, WriteTarget(p)
    PROVE  \E i \in Nat, t \in Targets :
             /\ pc[p] = <<"target", i>> /\ pc'[p] = <<"targets", i + 1>>
             /\ i \in Naming(payload[p], t) /\ payload[p] \in runs /\ Running(p)
             /\ held[p] \in TargetRow \cup {Nothing}
             /\ targets'[t] = upsert_target(held[p], payload[p], payload[p].entries[i])
             /\ targets'[t] \in TargetRow
             /\ targets'[t].seen = IF held[p] = Nothing THEN 1 ELSE held[p].seen + 1
             /\ targets'[t].success = (IF held[p] = Nothing THEN 0 ELSE held[p].success)
                                          + One(payload[p].entries[i].accepted)
             /\ targets'[t].accepted = payload[p].entries[i].accepted
             /\ targets'[t].last = payload[p].run
             /\ \A u \in Targets \ {t} : targets'[u] = targets[u]
             /\ payload' = payload /\ runs' = runs /\ details' = details /\ started' = started
<1>1. PICK i : i = pc[p][2]  OBVIOUS
<1>2. /\ pc[p] = <<"target", i>>
      /\ targets' = [targets EXCEPT ![payload[p].entries[i].target] =
                         upsert_target(held[p], payload[p], payload[p].entries[i])]
      /\ pc'[p] = <<"targets", i + 1>>
      /\ payload' = payload /\ runs' = runs /\ details' = details /\ started' = started
      BY <1>1 DEF WriteTarget, At, Goto, TypeOK, bounds
<1>3. Writing(p) /\ Running(p) /\ payload[p] \in runs /\ payload[p] \in Payloads
      BY <1>2 DEF Writing, Running, RunInv, PlaceInv
<1>4. i \in DOMAIN payload[p].entries /\ i \in Nat /\ held[p] \in TargetRow \cup {Nothing}
      BY <1>2, <1>3 DEF PlaceInv
<1>5. PICK t \in Targets : t = payload[p].entries[i].target
      BY <1>3, <1>4, PayloadFacts
<1>6. targets'[t] = upsert_target(held[p], payload[p], payload[p].entries[i])
      /\ \A u \in Targets \ {t} : targets'[u] = targets[u]
      BY <1>2, <1>5 DEF TypeOK
<1>7. targets'[t] \in TargetRow
  <2>1. payload[p].run \in 1 .. MaxRuns /\ payload[p].entries[i].accepted \in BOOLEAN
        BY <1>3, <1>4, PayloadFacts
  <2>2. One(payload[p].entries[i].accepted) \in Nat  BY DEF One
  <2> QED BY <1>4, <1>6, <2>1, <2>2 DEF upsert_target, TargetRow
<1>8. i \in Naming(payload[p], t)  BY <1>4, <1>5 DEF Naming
<1>9. /\ targets'[t].seen = IF held[p] = Nothing THEN 1 ELSE held[p].seen + 1
      /\ targets'[t].success = (IF held[p] = Nothing THEN 0 ELSE held[p].success)
                                          + One(payload[p].entries[i].accepted)
      /\ targets'[t].last = payload[p].run
      BY <1>6 DEF upsert_target
<1>10. targets'[t].accepted = payload[p].entries[i].accepted
       BY <1>6 DEF upsert_target
<1> QED BY <1>2, <1>3, <1>4, <1>6, <1>7, <1>8, <1>9, <1>10

LEMMA RowsStay ==
    ASSUME TypeOK, PlaceInv, RunInv, NEW p \in Processes, Step(p),
           NEW t \in Targets, targets[t] # Nothing
    PROVE  targets'[t] # Nothing
<1>1. CASE WriteTarget(p)  BY <1>1, WriteIs, NothingAssumption
<1> QED BY <1>1, WhoWrites

\* The row of a target that is not written.
LEMMA RowKeeps ==
    ASSUME TypeOK, PlaceInv, RunInv, TxnInv, RecordInv, SeenInv, NEW p \in Processes, Step(p),
           NEW t \in Targets, targets'[t] # Nothing, targets'[t] = targets[t],
           WriteTarget(p) => pc[p][2] \notin Naming(payload[p], t)
    PROVE  /\ Counted(targets[t], t)'
           /\ \E r \in runs' : r.run = targets'[t].last /\ Naming(r, t) # {}
           /\ \A o \in details'.observations :
                 (o.target = t /\ o.run = targets'[t].last) => o.accepted = targets'[t].accepted
           /\ \A q \in Processes :
                 Running(q)' /\ payload'[q].run = targets'[t].last =>
                     \E i \in LastOf(q, t)' : targets'[t].accepted = payload'[q].entries[i].accepted
<1>1. PICK row \in TargetRow : row = targets[t] /\ row # Nothing  BY DEF TypeOK
<1>2. /\ Counted(row, t)
      /\ \E r \in runs : r.run = row.last /\ Naming(r, t) # {}
      /\ \A o \in details.observations :
            (o.target = t /\ o.run = row.last) => o.accepted = row.accepted
      /\ \A q \in Processes : Running(q) /\ payload[q].run = row.last =>
            \E i \in LastOf(q, t) : row.accepted = payload[q].entries[i].accepted
      BY <1>1 DEF SeenInv
<1>3. row.seen <= Seen(t)' /\ row.success <= Won(t)'  BY <1>2, CountedStays
<1>4. \E r \in runs' : r.run = row.last /\ Naming(r, t) # {}  BY <1>2, RunsGrow
<1>5. \A o \in details'.observations :
         (o.target = t /\ o.run = row.last) => o.accepted = row.accepted
  <2>1. CASE Commit(p)
    <3>1. /\ details'.observations = details.observations \cup Observations(payload[p])
          /\ Running(p) /\ Locked(p) /\ payload[p] \in Payloads
          BY <2>1, CommitIs
    <3>2. ASSUME NEW o \in Observations(payload[p]), o.target = t, o.run = row.last
          PROVE  o.accepted = row.accepted
      <4>1. PICK k \in DOMAIN payload[p].entries :
              /\ o.run = payload[p].run /\ o.target = payload[p].entries[k].target
              /\ o.accepted = payload[p].entries[k].accepted
              /\ \A j \in Naming(payload[p], o.target) : j <= k
            BY <3>1, <3>2, ObservationIs
      <4>2. PICK i \in LastOf(p, t) : row.accepted = payload[p].entries[i].accepted
            BY <1>2, <3>1, <3>2, <4>1
      <4>3. \A j : ~Owes(p, <<payload[p].run, j>>)
            BY <3>1 DEF Owes, Writing, Locked
      <4>4. k \in Naming(payload[p], t)  BY <3>2, <4>1 DEF Naming
      <4>5. i \in Naming(payload[p], t) /\ k <= i /\ i <= k
            BY <3>2, <4>1, <4>2, <4>3, <4>4 DEF LastOf
      <4>6. i \in Nat /\ k \in Nat  BY <3>1, <4>4, <4>5, PayloadFacts DEF Naming
      <4>7. i = k  BY <4>5, <4>6
      <4> QED BY <4>1, <4>2, <4>7
    <3> QED BY <1>2, <3>1, <3>2
  <2> QED BY <1>2, <2>1, WhoWrites
<1>6. ASSUME NEW q \in Processes, Running(q)', payload'[q].run = row.last
      PROVE  \E i \in LastOf(q, t)' : row.accepted = payload'[q].entries[i].accepted
  <2>1. PICK r \in runs : r.run = row.last  BY <1>2
  <2>2. ~(Digest(p) /\ q = p)
    <3>1. r.run <= started /\ r.run \in Nat /\ started \in Nat
          BY PayloadFacts DEF RunInv, TypeOK
    <3>2. Digest(p) => payload'[p].run = started + 1  BY DEF Digest, TypeOK
    <3> QED BY <1>6, <2>1, <3>1, <3>2
  <2>3. Running(q) /\ payload'[q] = payload[q] /\ payload[q] \in Payloads
        BY <1>6, <2>2, RunningStays
  <2>4. ~(append_digest_run(p) /\ q = p)
    <3> SUFFICES ASSUME append_digest_run(p), q = p PROVE FALSE  OBVIOUS
    <3>1. pc[p][1] = "run"  BY DEF append_digest_run, At
    <3> QED BY <1>6, <2>1, <2>3, <3>1 DEF RunInv
  <2>5. PICK i \in LastOf(q, t) : row.accepted = payload[q].entries[i].accepted
        BY <1>2, <1>6, <2>3
  <2>6. ASSUME NEW k \in Naming(payload[q], t)
        PROVE  Owes(q, <<payload[q].run, k>>)' <=> Owes(q, <<payload[q].run, k>>)
    <3>1. k \in DOMAIN payload[q].entries /\ k \in Nat  BY <2>3, PayloadFacts DEF Naming
    <3>2. ~(WriteTarget(p) /\ q = p /\ k = pc[p][2])  BY <2>6
    <3>3. PICK x : x = <<payload[q].run, k>>  OBVIOUS
    <3>4. x[2] = k  BY <3>3
    <3>5. Owes(q, x)' <=> Owes(q, x)
          BY <1>6, <2>2, <2>4, <3>1, <3>2, <3>4, OwesNext
    <3>6. x = <<payload'[q].run, k>>  BY <2>3, <3>3
    <3> QED BY <2>3, <3>3, <3>5, <3>6 DEF Owes
  <2>7. Naming(payload[q], t)' = Naming(payload[q], t)  BY <2>3 DEF Naming
  <2>8. i \in LastOf(q, t)'  BY <2>3, <2>5, <2>6, <2>7 DEF LastOf
  <2> QED BY <2>3, <2>5, <2>8
<1> QED BY <1>1, <1>3, <1>4, <1>5, <1>6 DEF Counted

\* The row of the target that is written.
LEMMA RowWritten ==
    ASSUME TypeOK, PlaceInv, RunInv, RecordInv, SeenInv, NEW p \in Processes, WriteTarget(p),
           NEW t \in Targets, pc[p][2] \in Naming(payload[p], t)
    PROVE  /\ Counted(targets[t], t)'
           /\ \E r \in runs' : r.run = targets'[t].last /\ Naming(r, t) # {}
           /\ \A o \in details'.observations :
                 (o.target = t /\ o.run = targets'[t].last) => o.accepted = targets'[t].accepted
           /\ \A q \in Processes :
                 Running(q)' /\ payload'[q].run = targets'[t].last =>
                     \E i \in LastOf(q, t)' : targets'[t].accepted = payload'[q].entries[i].accepted
<1> DEFINE d == payload[p]
<1>1. PICK i \in Nat :
         /\ pc[p] = <<"target", i>> /\ pc'[p] = <<"targets", i + 1>>
         /\ i \in Naming(d, t) /\ d \in runs /\ Running(p) /\ held[p] \in TargetRow \cup {Nothing}
         /\ targets'[t].seen = IF held[p] = Nothing THEN 1 ELSE held[p].seen + 1
         /\ targets'[t].success = (IF held[p] = Nothing THEN 0 ELSE held[p].success)
                                      + One(d.entries[i].accepted)
         /\ targets'[t].accepted = d.entries[i].accepted /\ targets'[t].last = d.run
         /\ payload' = payload /\ runs' = runs /\ details' = details /\ started' = started
  <2>1. PICK i \in Nat, u \in Targets :
           /\ pc[p] = <<"target", i>> /\ pc'[p] = <<"targets", i + 1>>
           /\ i \in Naming(d, u) /\ d \in runs /\ Running(p) /\ held[p] \in TargetRow \cup {Nothing}
           /\ targets'[u].seen = IF held[p] = Nothing THEN 1 ELSE held[p].seen + 1
           /\ targets'[u].success = (IF held[p] = Nothing THEN 0 ELSE held[p].success)
                                        + One(d.entries[i].accepted)
           /\ targets'[u].accepted = d.entries[i].accepted /\ targets'[u].last = d.run
           /\ payload' = payload /\ runs' = runs /\ details' = details /\ started' = started
        BY WriteIs
  <2>2. u = t  BY <2>1 DEF Naming
  <2> QED BY <2>1, <2>2
<1>2. Step(p)  BY DEF Step
<1>3. Counted(targets[t], t)'
  <2>1. /\ Seen(t) \in Nat /\ Seen(t)' \in Nat /\ Seen(t) + 1 <= Seen(t)'
        /\ Won(t) \in Nat /\ Won(t)' \in Nat /\ Won(t) <= Won(t)'
        /\ d.entries[i].accepted => Won(t) + 1 <= Won(t)'
        BY <1>1, <1>2, CountsGrow
  <2>2. CASE held[p] = Nothing
        BY <1>1, <2>1, <2>2 DEF Counted, One
  <2>3. CASE held[p] # Nothing
    <3>1. d.entries[i].target = t  BY <1>1 DEF Naming
    <3>2. held[p].seen <= Seen(t) /\ held[p].success <= Won(t)
          BY <1>1, <2>3, <3>1 DEF SeenInv, Counted
    <3>3. held[p].seen \in Nat /\ held[p].success \in Nat  BY <1>1, <2>3 DEF TargetRow
    <3> QED BY <1>1, <2>1, <2>3, <3>2, <3>3 DEF Counted, One
  <2> QED BY <2>2, <2>3
<1>4. \E r \in runs' : r.run = targets'[t].last /\ Naming(r, t) # {}  BY <1>1
<1>5. \A o \in details'.observations : o.run # targets'[t].last  BY <1>1 DEF RecordInv
<1>6. ASSUME NEW q \in Processes, Running(q)', payload'[q].run = targets'[t].last
      PROVE  \E k \in LastOf(q, t)' : targets'[t].accepted = payload'[q].entries[k].accepted
  <2>1. ~Digest(p)  BY <1>1 DEF Digest, Idle, At
  <2>2. Running(q)  BY <1>2, <1>6, <2>1, RunningStays
  <2>3. q = p  BY <1>1, <1>6, <2>2 DEF RunInv
  <2>4. \A k \in Nat : ~Owes(p, <<d.run, k>>)' <=> k <= i
        BY <1>1 DEF Owes, Writing
  <2>5. \A k \in Naming(d, t) : k \in Nat
        BY <1>1, PayloadFacts DEF Naming, TypeOK
  <2>6. i \in LastOf(p, t)'  BY <1>1, <2>4, <2>5 DEF LastOf, Naming
  <2> QED BY <1>1, <2>3, <2>6
<1> QED BY <1>3, <1>4, <1>5, <1>6

LEMMA SeenStep ==
    ASSUME TypeOK, PlaceInv, RunInv, TxnInv, RecordInv, SeenInv, NEW p \in Processes, Step(p)
    PROVE  SeenInv'
<1>1. ASSUME NEW t \in Targets, targets'[t] # Nothing
      PROVE  /\ Counted(targets[t], t)'
             /\ \E r \in runs' : r.run = targets'[t].last /\ Naming(r, t) # {}
             /\ \A o \in details'.observations :
                   (o.target = t /\ o.run = targets'[t].last) => o.accepted = targets'[t].accepted
             /\ \A q \in Processes :
                   Running(q)' /\ payload'[q].run = targets'[t].last =>
                       \E i \in LastOf(q, t)' : targets'[t].accepted = payload'[q].entries[i].accepted
  <2>1. CASE WriteTarget(p) /\ pc[p][2] \in Naming(payload[p], t)
        BY <2>1, RowWritten
  <2>2. CASE WriteTarget(p) /\ pc[p][2] \notin Naming(payload[p], t)
    <3>1. targets'[t] = targets[t]  BY <2>2, WriteIs
    <3> QED BY <1>1, <2>2, <3>1, RowKeeps
  <2>3. CASE ~WriteTarget(p)
    <3>1. targets' = targets  BY <2>3, WhoWrites
    <3> QED BY <1>1, <2>3, <3>1, RowKeeps
  <2> QED BY <2>1, <2>2, <2>3
<1>2. ASSUME NEW q \in Processes, pc'[q][1] = "target", held'[q] # Nothing
      PROVE  Counted(held[q], payload[q].entries[pc[q][2]].target)'
  <2>1. CASE ReadTarget(p) /\ q = p
    <3>1. PICK i : i = pc[p][2]  OBVIOUS
    <3>2. /\ pc[p] = <<"targets", i>> /\ i \in DOMAIN payload[p].entries
          /\ held'[p] = targets[payload[p].entries[i].target] /\ pc'[p] = <<"target", i>>
          /\ payload' = payload
          BY <2>1, <3>1 DEF ReadTarget, At, Goto, TypeOK
    <3>3. payload[p] \in Payloads  BY <3>2 DEF PlaceInv, Running, Writing
    <3>4. PICK t \in Targets : t = payload[p].entries[i].target  BY <3>2, <3>3, PayloadFacts
    <3>5. PICK row \in TargetRow : row = targets[t] /\ row = held'[p]
          BY <1>2, <2>1, <3>2, <3>4 DEF TypeOK
    <3>6. Counted(row, t)  BY <1>2, <2>1, <3>4, <3>5 DEF SeenInv
    <3>7. row.seen <= Seen(t)' /\ row.success <= Won(t)'  BY <3>6, CountedStays
    <3>8. payload'[p].entries[pc'[p][2]].target = t  BY <3>2, <3>4
    <3> QED BY <2>1, <3>5, <3>7, <3>8 DEF Counted
  <2>2. CASE pc'[q] = pc[q] /\ held'[q] = held[q] /\ payload'[q] = payload[q]
    <3>1. PICK t : t = payload[q].entries[pc[q][2]].target  OBVIOUS
    <3>2. PICK row \in TargetRow : row = held[q]  BY <1>2, <2>2 DEF PlaceInv
    <3>3. Counted(row, t)  BY <1>2, <2>2, <3>1, <3>2 DEF SeenInv
    <3>4. row.seen <= Seen(t)' /\ row.success <= Won(t)'  BY <3>3, CountedStays
    <3> QED BY <2>2, <3>1, <3>2, <3>4 DEF Counted
  <2>3. (ReadTarget(p) /\ q = p) \/ (pc'[q] = pc[q] /\ held'[q] = held[q] /\ payload'[q] = payload[q])
    <3>1. CASE q # p  BY <3>1, OthersStay
    <3>2. CASE q = p
          BY <1>2, <3>2 DEF TypeOK, Goto, Step, Digest, append_digest_run, WriteTarget,
               InsertObservations, UpsertReasons, InsertAttempts, UpsertConstructor,
               InsertObstructions, Commit, ReadBasins, ReadPack, upsert_pending_pack, PlanEnds, Abort,
               NoEntries
    <3> QED BY <3>1, <3>2
  <2> QED BY <2>1, <2>2, <2>3
<1> QED BY <1>1, <1>2 DEF SeenInv

\* An entry that is ahead was so before, or is the one that is written now.
LEMMA AheadBefore ==
    ASSUME TypeOK, PlaceInv, RunInv, TxnInv, RecordInv, NEW p \in Processes, Step(p),
           NEW r \in runs', NEW k \in DOMAIN r.entries, Ahead(<<r.run, k>>)'
    PROVE  /\ r \in runs
           /\ Ahead(<<r.run, k>>) \/ (WriteTarget(p) /\ r = payload[p] /\ k = pc[p][2])
<1> DEFINE x == <<r.run, k>>
<1>1. r \in Payloads /\ k \in Nat /\ k # 0
  <2>1. r \in Payloads  BY RunsGrow
  <2> QED BY <2>1, PayloadFacts
<1>2. CASE \E o \in details'.observations : o.run = r.run
  <2>1. CASE \E o \in details.observations : o.run = r.run
    <3>1. \E s \in runs : s.run = r.run  BY <2>1 DEF RecordInv
    <3>2. r \in runs
      <4>1. CASE append_digest_run(p)
        <5>1. runs' = runs \cup {payload[p]} /\ Running(p) /\ pc[p][1] = "run"
              BY <4>1 DEF append_digest_run, At, Running
        <5> QED BY <3>1, <5>1 DEF RunInv
      <4> QED BY <4>1, WhoWrites
    <3> QED BY <2>1, <3>2 DEF Ahead
  <2>2. CASE ~\E o \in details.observations : o.run = r.run
    <3>1. Commit(p)  BY <1>2, <2>2, WhoWrites
    <3>2. /\ details'.observations = details.observations \cup Observations(payload[p])
          /\ payload[p] \in runs /\ payload[p] \in Payloads /\ Locked(p) /\ runs' = runs
          BY <3>1, CommitIs
    <3>3. r.run = payload[p].run  BY <1>2, <2>2, <3>2, ObservationIs
    <3>4. ~Owes(p, x)  BY <3>2 DEF Owes, Writing, Locked
    <3> QED BY <3>2, <3>3, <3>4 DEF Ahead, Noted
  <2> QED BY <2>1, <2>2
<1>3. CASE \E q \in Processes : Noted(q, x)'
  <2>1. PICK q \in Processes : Noted(q, x)'  BY <1>3
  <2>2. Running(q)' /\ payload'[q].run = r.run /\ ~Owes(q, x)' /\ pc'[q][1] # "run"
        BY <2>1 DEF Noted, Running, Writing, Locked
  <2>3. ~(Digest(p) /\ q = p)  BY <2>2 DEF Digest, Goto, TypeOK
  <2>4. Running(q) /\ payload'[q] = payload[q] /\ payload[q] \in Payloads  BY <2>2, <2>3, RunningStays
  <2>5. ~(append_digest_run(p) /\ q = p)
    <3> SUFFICES ASSUME append_digest_run(p), q = p PROVE FALSE  OBVIOUS
    <3>1. pc'[p] = <<"targets", 1>>  BY DEF append_digest_run, Goto, TypeOK
    <3>2. Owes(p, x)'  BY <1>1, <2>2, <3>1 DEF Owes, Writing
    <3> QED BY <2>2, <3>2
  <2>6. pc[q][1] # "run"  BY <2>2, <2>3, <2>5, RunningStays
  <2>7. payload[q] \in runs  BY <2>4, <2>6 DEF RunInv
  <2>8. r = payload[q]
    <3>1. payload[q] \in runs'  BY <2>7, RunsGrow
    <3>2. RunInv'  BY RunStep
    <3> QED BY <2>2, <2>4, <3>1, <3>2 DEF RunInv
  <2>9. CASE Owes(q, x)
    <3>1. WriteTarget(p) /\ q = p /\ k = pc[p][2]
          BY <1>1, <2>2, <2>3, <2>5, <2>8, <2>9, OwesNext
    <3> QED BY <2>7, <2>8, <3>1
  <2>10. CASE ~Owes(q, x)
    <3>1. Noted(q, x)  BY <2>4, <2>6, <2>8, <2>10 DEF Noted, Running
    <3> QED BY <2>7, <2>8, <3>1 DEF Ahead
  <2> QED BY <2>9, <2>10
<1> QED BY <1>2, <1>3 DEF Ahead

LEMMA KnownStep ==
    ASSUME TypeOK, PlaceInv, RunInv, TxnInv, RecordInv, KnownInv, NEW p \in Processes, Step(p)
    PROVE  KnownInv'
<1>1. ASSUME NEW o \in details'.observations
      PROVE  targets'[o.target] # Nothing
  <2>1. o.target \in Targets
    <3>1. o \in [run : 1 .. MaxRuns, target : Targets, accepted : BOOLEAN]
          BY <1>1, TypeStep DEF TypeOK, Details
    <3> QED BY <3>1
  <2>2. CASE o \in details.observations  BY <2>1, <2>2, RowsStay DEF KnownInv
  <2>3. CASE o \notin details.observations
    <3>1. Commit(p)  BY <1>1, <2>3, WhoWrites
    <3>2. o \in Observations(payload[p]) /\ Locked(p) /\ payload[p] \in Payloads
          BY <1>1, <2>3, <3>1, CommitIs
    <3>3. PICK i \in DOMAIN payload[p].entries : o.target = payload[p].entries[i].target
          BY <3>2, ObservationIs
    <3>4. ~Owes(p, <<payload[p].run, i>>)  BY <3>2 DEF Owes, Writing, Locked
    <3> QED BY <2>1, <3>2, <3>3, <3>4, RowsStay DEF KnownInv
  <2> QED BY <2>2, <2>3
<1>2. ASSUME NEW q \in Processes, Writing(q)' \/ Locked(q)', NEW i \in DOMAIN payload'[q].entries,
             ~Owes(q, <<payload[q].run, i>>)'
      PROVE  targets'[payload'[q].entries[i].target] # Nothing
  <2>1. Running(q)' /\ pc'[q][1] # "run"  BY <1>2 DEF Running, Writing, Locked
  <2>2. ~(Digest(p) /\ q = p)  BY <2>1 DEF Digest, Goto, TypeOK
  <2>3. Running(q) /\ payload'[q] = payload[q] /\ payload[q] \in Payloads
        BY <2>1, <2>2, RunningStays
  <2>4. PICK t \in Targets : t = payload[q].entries[i].target /\ i \in Nat /\ i # 0
        BY <1>2, <2>3, PayloadFacts
  <2>5. ~(append_digest_run(p) /\ q = p)
    <3> SUFFICES ASSUME append_digest_run(p), q = p PROVE FALSE  OBVIOUS
    <3>1. pc'[p] = <<"targets", 1>>  BY DEF append_digest_run, Goto, TypeOK
    <3> QED BY <1>2, <2>4, <3>1 DEF Owes, Writing
  <2>6. Writing(q) \/ Locked(q)
    <3>1. pc[q][1] # "run"  BY <2>1, <2>2, <2>5, RunningStays
    <3> QED BY <2>3, <3>1 DEF Running
  <2>7. PICK x : x = <<payload[q].run, i>>  OBVIOUS
  <2>8. ~Owes(q, x)'  BY <1>2, <2>3, <2>7 DEF Owes
  <2>9. CASE Owes(q, x)
    <3>1. WriteTarget(p) /\ q = p /\ i = pc[p][2]
          BY <1>2, <2>1, <2>2, <2>3, <2>4, <2>5, <2>7, <2>8, <2>9, OwesNext
    <3>2. PICK j \in Nat, u \in Targets :
             pc[p] = <<"target", j>> /\ j \in Naming(payload[p], u) /\ targets'[u] \in TargetRow
          BY <3>1, WriteIs
    <3>3. u = t  BY <2>4, <3>1, <3>2 DEF Naming
    <3> QED BY <2>3, <2>4, <3>2, <3>3, NothingAssumption
  <2>10. CASE ~Owes(q, x)
    <3>1. targets[t] # Nothing  BY <1>2, <2>3, <2>4, <2>6, <2>7, <2>10 DEF KnownInv
    <3> QED BY <2>3, <2>4, <3>1, RowsStay
  <2> QED BY <2>9, <2>10
<1> QED BY <1>1, <1>2 DEF KnownInv

-----------------------------------------------------------------------------
(* Exact counts, as long as processes take turns.                            *)

\* What a step can add to the entries that must be counted of a target.
LEMMA MustNext ==
    ASSUME TypeOK, PlaceInv, RunInv, TxnInv, RecordInv, NEW p \in Processes, Step(p),
           NEW t, NEW x
    PROVE  /\ x \in MustSee(t)' =>
                x \in MustSee(t) \/ (/\ WriteTarget(p) /\ x = <<payload[p].run, pc[p][2]>>
                                     /\ pc[p][2] \in Naming(payload[p], t))
           /\ x \in MustWin(t)' =>
                x \in MustWin(t) \/ (/\ WriteTarget(p) /\ x = <<payload[p].run, pc[p][2]>>
                                     /\ pc[p][2] \in Naming(payload[p], t)
                                     /\ payload[p].entries[pc[p][2]].accepted)
<1>1. PICK R \in SUBSET Payloads : R = runs' /\ runs \in SUBSET Payloads  BY RunsGrow
<1>2. ASSUME x \in MustSee(t)'
      PROVE  x \in MustSee(t) \/ (/\ WriteTarget(p) /\ x = <<payload[p].run, pc[p][2]>>
                                  /\ pc[p][2] \in Naming(payload[p], t))
  <2>1. x \in Sightings(R, t) /\ Ahead(x)'  BY <1>1, <1>2 DEF MustSee, Sightings
  <2>2. PICK r \in R : \E k \in Naming(r, t) : x = <<r.run, k>>
        BY <1>1, <2>1, SightingIs
  <2>3. PICK k \in Naming(r, t) : x = <<r.run, k>>  BY <2>2
  <2>4. /\ r \in runs
        /\ Ahead(x) \/ (WriteTarget(p) /\ r = payload[p] /\ k = pc[p][2])
        BY <1>1, <2>1, <2>3, AheadBefore DEF Naming
  <2>5. x \in Sightings(runs, t)  BY <1>1, <2>3, <2>4, SightingIs
  <2> QED BY <2>3, <2>4, <2>5 DEF MustSee
<1>3. ASSUME x \in MustWin(t)'
      PROVE  x \in MustWin(t) \/ (/\ WriteTarget(p) /\ x = <<payload[p].run, pc[p][2]>>
                                  /\ pc[p][2] \in Naming(payload[p], t)
                                  /\ payload[p].entries[pc[p][2]].accepted)
  <2>1. x \in Successes(R, t) /\ Ahead(x)'  BY <1>1, <1>3 DEF MustWin, Successes
  <2>2. PICK r \in R : \E k \in Naming(r, t) :
                            x = <<r.run, k>> /\ k \in Nat /\ r.entries[k].accepted
        BY <1>1, <2>1, SightingIs
  <2>3. PICK k \in Naming(r, t) : x = <<r.run, k>> /\ r.entries[k].accepted  BY <2>2
  <2>4. /\ r \in runs
        /\ Ahead(x) \/ (WriteTarget(p) /\ r = payload[p] /\ k = pc[p][2])
        BY <1>1, <2>1, <2>3, AheadBefore DEF Naming
  <2>5. x \in Successes(runs, t)  BY <1>1, <2>3, <2>4, SightingIs
  <2> QED BY <2>3, <2>4, <2>5 DEF MustWin
<1> QED BY <1>2, <1>3

LEMMA MustFinite ==
    ASSUME TypeOK, RunInv, NEW t
    PROVE  IsFiniteSet(MustSee(t)) /\ IsFiniteSet(MustWin(t))
<1>1. runs \in SUBSET Payloads /\ IsFiniteSet(runs)  BY DEF TypeOK, RunInv
<1>2. MustSee(t) \subseteq Sightings(runs, t) /\ MustWin(t) \subseteq Sightings(runs, t)
  <2>1. Successes(runs, t) \subseteq Sightings(runs, t)  BY <1>1, SightingsFinite
  <2> QED BY <2>1 DEF MustSee, MustWin
<1> QED BY <1>1, <1>2, SightingsFinite

LEMMA ExactStep ==
    ASSUME TypeOK, PlaceInv, RunInv, TxnInv, RecordInv, ExactInv, NEW p \in Processes, Step(p)
    PROVE  ExactInv'
<1> DEFINE d == payload[p]
<1>1. SUFFICES ASSUME ~overlapped'
               PROVE  /\ \A q, r \in Processes : ~Idle(q)' /\ ~Idle(r)' => q = r
                      /\ \A q \in Processes : pc'[q][1] = "target" =>
                            held'[q] = targets'[payload'[q].entries[pc'[q][2]].target]
                      /\ \A t \in Targets :
                            IF targets'[t] = Nothing THEN MustSee(t)' = {}
                            ELSE /\ Cardinality(MustSee(t)') <= targets'[t].seen
                                 /\ Cardinality(MustWin(t)') <= targets'[t].success
      BY DEF ExactInv
<1>2. ~overlapped /\ \A q \in Processes \ {p} : Idle(q)
      BY <1>1, WhoWrites DEF Goto
<1>3. \A q \in Processes \ {p} : pc'[q] = <<"idle", Nothing>> /\ Idle(q)'
      BY <1>2, OthersStay DEF Idle, At
<1>4. ASSUME NEW q \in Processes, pc'[q][1] = "target"
      PROVE  held'[q] = targets'[payload'[q].entries[pc'[q][2]].target]
  <2>1. q = p  BY <1>3, <1>4
  <2>2. ReadTarget(p)
        BY <1>4, <2>1 DEF TypeOK, Goto, Step, Digest, append_digest_run, WriteTarget,
               InsertObservations, UpsertReasons, InsertAttempts, UpsertConstructor,
               InsertObstructions, Commit, ReadBasins, ReadPack, upsert_pending_pack, PlanEnds, Abort,
               NoEntries
  <2> QED BY <2>1, <2>2 DEF ReadTarget, Goto, TypeOK
<1>5. ASSUME NEW t \in Targets
      PROVE  IF targets'[t] = Nothing THEN MustSee(t)' = {}
             ELSE /\ Cardinality(MustSee(t)') <= targets'[t].seen
                  /\ Cardinality(MustWin(t)') <= targets'[t].success
  <2>1. IF targets[t] = Nothing THEN MustSee(t) = {}
        ELSE /\ Cardinality(MustSee(t)) <= targets[t].seen
             /\ Cardinality(MustWin(t)) <= targets[t].success
        BY <1>2 DEF ExactInv
  <2>2. PICK S0, S1, W0, W1 :
          /\ S0 = MustSee(t) /\ S1 = MustSee(t)' /\ W0 = MustWin(t) /\ W1 = MustWin(t)'
        OBVIOUS
  <2>3. /\ IsFiniteSet(S0) /\ IsFiniteSet(S1) /\ IsFiniteSet(W0) /\ IsFiniteSet(W1)
        /\ W0 \subseteq S0 /\ W1 \subseteq S1
    <3>1. IsFiniteSet(S0) /\ IsFiniteSet(W0)  BY <2>2, MustFinite
    <3>2. IsFiniteSet(S1) /\ IsFiniteSet(W1)
      <4>1. PICK R \in SUBSET Payloads : R = runs' /\ IsFiniteSet(R)  BY RunsGrow
      <4>2. S1 \subseteq Sightings(R, t) /\ W1 \subseteq Sightings(R, t)
            BY <2>2, <4>1 DEF MustSee, MustWin, Sightings, Successes, Accepting
      <4> QED BY <4>1, <4>2, SightingsFinite
    <3>3. W0 \subseteq S0 /\ W1 \subseteq S1
          BY <2>2 DEF MustSee, MustWin, Sightings, Successes, Accepting
    <3> QED BY <3>1, <3>2, <3>3
  <2>4. CASE WriteTarget(p) /\ pc[p][2] \in Naming(d, t)
    <3> DEFINE x == <<d.run, pc[p][2]>>
    <3>1. /\ \A y \in S1 : y \in S0 \/ y = x
          /\ \A y \in W1 : y \in W0 \/ (y = x /\ d.entries[pc[p][2]].accepted)
          BY <2>2, MustNext
    <3>2. PICK i \in Nat :
             /\ pc[p] = <<"target", i>> /\ held[p] \in TargetRow \cup {Nothing}
             /\ d.entries[i].target = t /\ targets'[t] \in TargetRow
             /\ targets'[t].seen = IF held[p] = Nothing THEN 1 ELSE held[p].seen + 1
             /\ targets'[t].success = (IF held[p] = Nothing THEN 0 ELSE held[p].success)
                                          + One(d.entries[i].accepted)
          BY <2>4, WriteIs DEF Naming
    <3>3. held[p] = targets[t]  BY <1>2, <3>2 DEF ExactInv
    <3>4. /\ Cardinality(S1) <= Cardinality(S0) + 1 /\ Cardinality(S0) \in Nat
          /\ Cardinality(W1) <= Cardinality(W0) + One(d.entries[i].accepted)
          /\ Cardinality(W0) \in Nat /\ Cardinality(S1) \in Nat /\ Cardinality(W1) \in Nat
      <4>1. S1 \subseteq S0 \cup {x} /\ W1 \subseteq W0 \cup {x}
            /\ (~d.entries[i].accepted => W1 \subseteq W0)
            BY <3>1, <3>2
      <4>2. /\ IsFiniteSet(S0 \cup {x}) /\ Cardinality(S0 \cup {x}) <= Cardinality(S0) + 1
            /\ IsFiniteSet(W0 \cup {x}) /\ Cardinality(W0 \cup {x}) <= Cardinality(W0) + 1
            /\ Cardinality(S0) \in Nat /\ Cardinality(W0) \in Nat
        <5>1. Cardinality(S0) \in Nat /\ Cardinality(W0) \in Nat  BY <2>3, FS_CardinalityType
        <5>2. /\ IsFiniteSet(S0 \cup {x}) /\ IsFiniteSet(W0 \cup {x})
              /\ Cardinality(S0 \cup {x}) \in {Cardinality(S0), Cardinality(S0) + 1}
              /\ Cardinality(W0 \cup {x}) \in {Cardinality(W0), Cardinality(W0) + 1}
          <6> HIDE DEF x
          <6> QED BY <2>3, FS_AddElement
        <5> QED BY <5>1, <5>2
      <4>3. Cardinality(S1) <= Cardinality(S0 \cup {x}) /\ Cardinality(W1) <= Cardinality(W0 \cup {x})
            BY <4>1, <4>2, FS_Subset
      <4>4. ~d.entries[i].accepted => Cardinality(W1) <= Cardinality(W0)
            BY <2>3, <4>1, FS_Subset
      <4>5. /\ Cardinality(S1) \in Nat /\ Cardinality(W1) \in Nat
            /\ Cardinality(S0 \cup {x}) \in Nat /\ Cardinality(W0 \cup {x}) \in Nat
            BY <2>3, <4>2, FS_CardinalityType
      <4> QED BY <4>2, <4>3, <4>4, <4>5 DEF One
    <3>5. targets'[t] # Nothing /\ targets'[t].seen \in Nat /\ targets'[t].success \in Nat
          BY <3>2, NothingAssumption DEF TargetRow
    <3>6. CASE targets[t] = Nothing
      <4>1. S0 = {} /\ W0 = {}  BY <2>1, <2>2, <2>3, <3>6
      <4>2. Cardinality(S0) = 0 /\ Cardinality(W0) = 0  BY <4>1, FS_EmptySet
      <4>3. One(d.entries[i].accepted) \in Nat  BY DEF One
      <4> QED BY <2>2, <3>2, <3>3, <3>4, <3>5, <3>6, <4>2, <4>3
    <3>7. CASE targets[t] # Nothing
      <4>1. targets[t].seen \in Nat /\ targets[t].success \in Nat
            BY <3>7 DEF TypeOK, TargetRow
      <4>2. One(d.entries[i].accepted) \in Nat  BY DEF One
      <4> QED BY <2>1, <2>2, <3>2, <3>3, <3>4, <3>5, <3>7, <4>1, <4>2
    <3> QED BY <3>6, <3>7
  <2>5. CASE ~(WriteTarget(p) /\ pc[p][2] \in Naming(d, t))
    <3>1. S1 \subseteq S0 /\ W1 \subseteq W0  BY <2>2, <2>5, MustNext
    <3>2. targets'[t] = targets[t]
      <4>1. CASE WriteTarget(p)
        <5>1. PICK i \in Nat, u \in Targets :
                 /\ pc[p] = <<"target", i>> /\ i \in Naming(d, u)
                 /\ \A v \in Targets \ {u} : targets'[v] = targets[v]
              BY <4>1, WriteIs
        <5> QED BY <2>5, <4>1, <5>1
      <4> QED BY <4>1, WhoWrites
    <3>3. /\ Cardinality(S1) <= Cardinality(S0) /\ Cardinality(W1) <= Cardinality(W0)
          /\ Cardinality(S0) \in Nat /\ Cardinality(W0) \in Nat
          /\ Cardinality(S1) \in Nat /\ Cardinality(W1) \in Nat
          BY <2>3, <3>1, FS_Subset, FS_CardinalityType
    <3>4. targets[t] # Nothing => targets[t].seen \in Nat /\ targets[t].success \in Nat
          BY DEF TypeOK, TargetRow
    <3> QED BY <2>1, <2>2, <3>1, <3>2, <3>3, <3>4
  <2> QED BY <2>4, <2>5
<1> QED BY <1>3, <1>4, <1>5

-----------------------------------------------------------------------------
(* Basins.                                                                   *)

LEMMA BasinStep ==
    ASSUME TypeOK, PlaceInv, RunInv, TxnInv, RecordInv, BasinsAreEarned,
           NEW p \in Processes, Step(p)
    PROVE  BasinsAreEarned'
<1> DEFINE d == payload[p]
<1>1. CASE ~Commit(p)
  <2>1. OnRecord' = OnRecord /\ details' = details  BY <1>1, OnRecordStep, WhoWrites
  <2> QED BY <2>1 DEF BasinsAreEarned
<1>2. CASE Commit(p)
  <2>1. /\ d \in Payloads /\ details'.basins = NewBasins(d)
        /\ \A c \in Constructors : details'.constructors[c] =
              details.constructors[c] + Cardinality({x \in Winners(d) : Constructor(d, x) = c})
        BY <1>2, CommitIs
  <2>2. OnRecord' = OnRecord \cup {d}  BY <1>2, OnRecordStep
  <2>3. \A r \in OnRecord \cup {d} : r \in Payloads  BY <2>1 DEF OnRecord, TypeOK
  <2>4. ASSUME NEW c \in Constructors
        PROVE  /\ details.constructors[c] > 0 => details'.constructors[c] > 0
               /\ (\E x \in Winners(d) : Constructor(d, x) = c) => details'.constructors[c] > 0
    <3> DEFINE Y == {x \in Winners(d) : Constructor(d, x) = c}
    <3>1. (\E x \in Winners(d) : Constructor(d, x) = c) => Y # {}  OBVIOUS
    <3>2. IsFiniteSet(Y)  BY <2>1, TrialFacts DEF Winners
    <3>3. details'.constructors[c] = details.constructors[c] + Cardinality(Y)  BY <2>1
    <3>4. details.constructors[c] \in Nat  BY DEF TypeOK, Details
    <3> HIDE DEF Y
    <3>5. Cardinality(Y) \in Nat /\ (Y # {} => Cardinality(Y) # 0)
          BY <3>2, FS_CardinalityType, FS_EmptySet
    <3> QED BY <3>1, <3>3, <3>4, <3>5
  <2>5. SUFFICES ASSUME NEW b \in Basins
                 PROVE  LET row == details'.basins[b]
                            touching == {r \in OnRecord' : Touches(r, b)} IN
                        IF row = Nothing THEN touching = {}
                        ELSE /\ \A r \in touching : Support(r, b) <= row.support
                             /\ \E r \in touching : Support(r, b) = row.support
                             /\ row.verified => \E c \in Constructors :
                                                   c.basin = b /\ details'.constructors[c] > 0
        BY DEF BasinsAreEarned, Touches, Support
  <2> DEFINE row == details.basins[b]
             touching == {r \in OnRecord : Touches(r, b)}
  <2>6. row \in BasinRow \cup {Nothing}  BY DEF TypeOK, Details
  <2>7. IF row = Nothing THEN touching = {}
        ELSE /\ \A r \in touching : Support(r, b) <= row.support
             /\ \E r \in touching : Support(r, b) = row.support
             /\ row.verified => \E c \in Constructors : c.basin = b /\ details.constructors[c] > 0
        BY DEF BasinsAreEarned
  <2>8. \A r \in OnRecord \cup {d} : Support(r, b) \in Nat  BY <2>3, RowTypes
  <2>9. CASE Touches(d, b)
    <3>1. {r \in OnRecord' : Touches(r, b)} = touching \cup {d}  BY <2>2, <2>9
    <3>2. details'.basins[b] = upsert_reason_basin(row, d, b)  BY <2>1, <2>9 DEF NewBasins
    <3>3. /\ details'.basins[b].support = IF row # Nothing /\ row.support > Support(d, b)
                                          THEN row.support ELSE Support(d, b)
          /\ details'.basins[b].verified = Verified(d, b)
          BY <3>2 DEF upsert_reason_basin
    <3>4. details'.basins[b] # Nothing
      <4>1. Verified(d, b) \in BOOLEAN  BY <2>1, RowTypes
      <4>2. upsert_reason_basin(row, d, b) \in BasinRow
            BY <2>6, <2>8, <4>1 DEF upsert_reason_basin, BasinRow
      <4> QED BY <3>2, <4>2, NothingAssumption
    <3>5. ASSUME NEW r \in touching \cup {d}
          PROVE  Support(r, b) <= details'.basins[b].support
      <4>1. r \in OnRecord \cup {d} /\ Support(r, b) \in Nat /\ Support(d, b) \in Nat  BY <2>8
      <4>2. CASE r = d
            BY <2>6, <3>3, <4>1, <4>2 DEF BasinRow
      <4>3. CASE r \in touching
        <5>1. row # Nothing /\ Support(r, b) <= row.support  BY <2>7, <4>3
        <5> QED BY <2>6, <3>3, <4>1, <5>1 DEF BasinRow
      <4> QED BY <4>2, <4>3
    <3>6. \E r \in touching \cup {d} : Support(r, b) = details'.basins[b].support
          BY <2>7, <3>3
    <3>7. ASSUME details'.basins[b].verified
          PROVE  \E c \in Constructors : c.basin = b /\ details'.constructors[c] > 0
      <4>1. PICK x \in Trials(d) : Passed(d, x) /\ BasinAt(d, x[1]) = b
            BY <3>3, <3>7 DEF Verified
      <4>2. Constructor(d, x) \in Constructors /\ Constructor(d, x).basin = b
            BY <2>1, <4>1, TrialFacts
      <4>3. x \in Winners(d)  BY <4>1 DEF Winners
      <4> QED BY <2>4, <4>2, <4>3
    <3> HIDE DEF touching
    <3> QED BY <3>1, <3>4, <3>5, <3>6, <3>7
  <2>10. CASE ~Touches(d, b)
    <3>1. {r \in OnRecord' : Touches(r, b)} = touching  BY <2>2, <2>10
    <3>2. details'.basins[b] = row  BY <2>1, <2>10 DEF NewBasins
    <3> HIDE DEF touching
    <3> QED BY <2>4, <2>7, <3>1, <3>2
  <2> QED BY <2>9, <2>10
<1> QED BY <1>1, <1>2

-----------------------------------------------------------------------------
(* Packs.                                                                    *)

\* What was read of a basin stays true.
LEMMA GroundStays ==
    ASSUME TypeOK, PlaceInv, RunInv, TxnInv, NEW p \in Processes, Step(p), NEW b \in Basins
    PROVE  /\ details.basins[b] # Nothing =>
                 details'.basins[b] # Nothing /\ details.basins[b].support <= details'.basins[b].support
           /\ details.edges \subseteq details'.edges
           /\ details.basins[b] # Nothing => details.basins[b].support \in Nat
           /\ details'.basins[b] # Nothing => details'.basins[b].support \in Nat
<1>1. details.basins[b] \in BasinRow \cup {Nothing} /\ details'.basins[b] \in BasinRow \cup {Nothing}
      BY TypeStep DEF TypeOK, Details
<1>2. CASE Commit(p)
  <2> DEFINE d == payload[p] row == details.basins[b]
  <2>1. /\ details'.basins = NewBasins(d) /\ d \in Payloads
        /\ details'.edges = details.edges \cup Edges(d)
        BY <1>2, CommitIs
  <2>2. Support(d, b) \in Nat /\ Verified(d, b) \in BOOLEAN
        BY <2>1, RowTypes
  <2>3. details'.basins[b] \in {row, upsert_reason_basin(row, d, b)}  BY <2>1 DEF NewBasins
  <2>4. upsert_reason_basin(row, d, b) \in BasinRow
        BY <1>1, <2>2 DEF upsert_reason_basin, BasinRow
  <2>5. row # Nothing => row.support <= upsert_reason_basin(row, d, b).support
        BY <1>1, <2>2 DEF upsert_reason_basin, BasinRow
  <2> QED BY <1>1, <2>1, <2>3, <2>4, <2>5, NothingAssumption DEF BasinRow
<1>3. CASE details' = details  BY <1>1, <1>3 DEF BasinRow
<1> QED BY <1>2, <1>3, WhoWrites

LEMMA GroundedStays ==
    ASSUME TypeOK, PlaceInv, RunInv, TxnInv, NEW p \in Processes, Step(p), NEW b \in Basins
    PROVE  /\ \A n \in Nat : Ranked(b, n) => Ranked(b, n)'
           /\ \A pack \in PackRow : Grounded(b, pack) => Grounded(b, pack)'
<1>1. \A n \in Nat : Ranked(b, n) => Ranked(b, n)'
      BY GroundStays DEF Ranked
<1>2. ASSUME NEW pack \in PackRow, Grounded(b, pack)
      PROVE  Grounded(b, pack)'
  <2>1. Ranked(b, pack.priority)'  BY <1>1, <1>2 DEF Grounded, PackRow
  <2>2. \A t \in pack.targets : targets'[t] # Nothing /\ <<t, b>> \in details'.edges
        BY <1>2, RowsStay, GroundStays DEF Grounded, PackRow
  <2> QED BY <2>1, <2>2 DEF Grounded
<1> QED BY <1>1, <1>2

LEMMA PackStep ==
    ASSUME TypeOK, PlaceInv, RunInv, TxnInv, PackInv, NEW p \in Processes, Step(p)
    PROVE  PackInv'
<1>1. ASSUME NEW b \in Basins, packs'[b] # Nothing
      PROVE  Grounded(b, packs[b])'
  <2>1. CASE packs'[b] = packs[b]
    <3>1. packs[b] \in PackRow /\ Grounded(b, packs[b])  BY <1>1, <2>1 DEF TypeOK, PackInv
    <3>2. \A pack \in PackRow : Grounded(b, pack) => Grounded(b, pack)'  BY GroundedStays
    <3> QED BY <2>1, <3>1, <3>2 DEF Grounded, Ranked
  <2>2. CASE packs'[b] # packs[b]
    <3>1. upsert_pending_pack(p)  BY <2>2, WhoWrites
    <3>2. At(p, "pack", b) /\ packs'[b] = held[p]  BY <2>2, <3>1 DEF upsert_pending_pack, TypeOK
    <3>3. held[p] \in PackRow /\ Grounded(b, held[p])  BY <3>2 DEF At, PlaceInv, PackInv
    <3>4. \A pack \in PackRow : Grounded(b, pack) => Grounded(b, pack)'  BY GroundedStays
    <3> QED BY <3>2, <3>3, <3>4 DEF Grounded, Ranked
  <2> QED BY <2>1, <2>2
<1>2. ASSUME NEW q \in Processes, Planning(q)', NEW x \in todo'[q]
      PROVE  details'.basins[x[1]] # Nothing /\ x[2] <= details'.basins[x[1]].support
  <2>1. ASSUME Planning(q), x \in todo[q]
        PROVE  details'.basins[x[1]] # Nothing /\ x[2] <= details'.basins[x[1]].support
    <3>1. x[1] \in Basins /\ x[2] \in Nat /\ Ranked(x[1], x[2])
          BY <2>1 DEF PlaceInv, PackInv
    <3>2. \A b \in Basins : \A n \in Nat : Ranked(b, n) =>
             details'.basins[b] # Nothing /\ n <= details'.basins[b].support
          BY GroundedStays DEF Ranked
    <3> QED BY <3>1, <3>2
  <2>2. CASE ReadBasins(p) /\ q = p
    <3>1. /\ todo'[p] = {<<b, details.basins[b].support>> :
                           b \in {c \in Basins : details.basins[c] # Nothing /\ ~details.basins[c].verified}}
          /\ details' = details
          BY <2>2 DEF ReadBasins, TypeOK
    <3>2. PICK b \in Basins : details.basins[b] # Nothing /\ x = <<b, details.basins[b].support>>
          BY <1>2, <2>2, <3>1
    <3>3. details.basins[b].support \in Nat  BY <3>2, GroundStays
    <3> QED BY <3>1, <3>2, <3>3
  <2>3. (ReadBasins(p) /\ q = p) \/ (Planning(q) /\ x \in todo[q])
    <3>1. CASE q # p
          BY <1>2, <3>1, OthersStay DEF Planning
    <3>2. CASE q = p
      <4>1. CASE ReadPack(p) \/ upsert_pending_pack(p)
            BY <1>2, <3>2, <4>1 DEF ReadPack, upsert_pending_pack, At, Planning, TypeOK
      <4>2. \/ ReadPack(p) \/ upsert_pending_pack(p) \/ ReadBasins(p)
            BY <1>2, <3>2 DEF Planning, TypeOK, Goto, Step, Digest, append_digest_run, ReadTarget,
               WriteTarget, InsertObservations, UpsertReasons, InsertAttempts, UpsertConstructor,
               InsertObstructions, Commit, PlanEnds, Abort, NoEntries
      <4> QED BY <3>2, <4>1, <4>2
    <3> QED BY <3>1, <3>2
  <2> QED BY <2>1, <2>2, <2>3
<1>3. ASSUME NEW q \in Processes, pc'[q][1] = "pack"
      PROVE  Grounded(pc[q][2], held[q])'
  <2>1. CASE pc'[q] = pc[q] /\ held'[q] = held[q]
    <3>1. pc[q][2] \in Basins /\ held[q] \in PackRow /\ Grounded(pc[q][2], held[q])
          BY <1>3, <2>1 DEF PlaceInv, PackInv
    <3>2. \A b \in Basins : \A pack \in PackRow : Grounded(b, pack) => Grounded(b, pack)'
          BY GroundedStays
    <3> QED BY <2>1, <3>1, <3>2 DEF Grounded, Ranked
  <2>2. CASE ReadPack(p) /\ q = p
    <3>1. PICK x \in todo[p] :
          /\ held' = [held EXCEPT ![p] =
                         [targets  |-> {t \in Targets : /\ targets[t] # Nothing
                                                        /\ <<t, x[1]>> \in details.edges},
                          priority |-> x[2]]]
          /\ Goto(p, "pack", x[1])
          BY <2>2 DEF ReadPack
    <3>2. /\ pc'[p][2] = x[1]
          /\ held'[p] = [targets  |-> {t \in Targets : /\ targets[t] # Nothing
                                                       /\ <<t, x[1]>> \in details.edges},
                         priority |-> x[2]]
          BY <3>1 DEF Goto, TypeOK
    <3>3. Ranked(x[1], x[2])  BY <2>2 DEF ReadPack, At, Planning, PackInv
    <3>4. targets' = targets /\ details' = details  BY <2>2 DEF ReadPack
    <3> QED BY <2>2, <3>2, <3>3, <3>4 DEF Grounded, Ranked
  <2>3. (ReadPack(p) /\ q = p) \/ (pc'[q] = pc[q] /\ held'[q] = held[q])
    <3>1. CASE q # p  BY <3>1, OthersStay
    <3>2. CASE q = p
          BY <1>3, <3>2 DEF TypeOK, Goto, Step, Digest, append_digest_run, ReadTarget, WriteTarget,
               InsertObservations, UpsertReasons, InsertAttempts, UpsertConstructor,
               InsertObstructions, Commit, ReadBasins, upsert_pending_pack, PlanEnds, Abort, NoEntries
    <3> QED BY <3>1, <3>2
  <2> QED BY <2>1, <2>2, <2>3
<1> QED BY <1>1, <1>2, <1>3 DEF PackInv, Ranked

-----------------------------------------------------------------------------
(* The theorems.                                                             *)

LEMMA InitHolds == Init => IInv
<1> SUFFICES ASSUME Init PROVE IInv  OBVIOUS
<1> USE DEF Init
<1>0. /\ \A p \in Processes : pc[p] = <<"idle", Nothing>> /\ Idle(p)
      /\ details.observations = {}
      BY DEF Idle, At
<1>1. \A p \in Processes : ~Running(p) /\ ~Writing(p) /\ ~Locked(p) /\ ~Planning(p)
      BY <1>0 DEF Running, Writing, Locked, Planning
<1>2. TypeOK
  <2>1. details \in Details  BY DEF Details
  <2>2. pc \in [Processes -> Places]  BY DEF Places
  <2>3. todo \in [Processes -> (SUBSET (Nat \X Templates)) \cup (SUBSET (Basins \X Nat))]
        OBVIOUS
  <2>4. started \in 0 .. MaxRuns /\ plans \in 0 .. MaxPlans /\ aborts \in 0 .. MaxAborts
        BY ConfigsAssumption, BoundsAssumption
  <2>5. /\ runs \subseteq Payloads /\ txn \in Details
        /\ targets \in [Targets -> TargetRow \cup {Nothing}]
        /\ packs \in [Basins -> PackRow \cup {Nothing}] /\ lock \in Processes \cup {Nothing}
        BY <2>1
  <2>6. /\ held \in [Processes -> TargetRow \cup PackRow \cup {Nothing}]
        /\ payload \in [Processes -> Payloads \cup {Nothing}] /\ overlapped \in BOOLEAN
        OBVIOUS
  <2> QED BY <2>1, <2>2, <2>3, <2>4, <2>5, <2>6 DEF TypeOK
<1>3. PlaceInv  BY <1>0, <1>1, NothingAssumption DEF PlaceInv
<1>4. RunInv  BY <1>1, FS_EmptySet DEF RunInv
<1>5. RecordInv  BY <1>0 DEF RecordInv
<1>6. TxnInv  BY <1>1 DEF TxnInv
<1>7. SeenInv  BY <1>0 DEF SeenInv
<1>8. KnownInv  BY <1>0, <1>1 DEF KnownInv
<1>9. ExactInv
  <2>1. \A t : MustSee(t) = {}
        BY <1>0, <1>1 DEF MustSee, Ahead, Noted
  <2> QED BY <1>0, <2>1 DEF ExactInv
<1>10. BasinsAreEarned
  <2>1. OnRecord = {}  BY DEF OnRecord
  <2> QED BY <2>1 DEF BasinsAreEarned
<1>11. PackInv  BY <1>0, <1>1 DEF PackInv
<1> QED BY <1>2, <1>3, <1>4, <1>5, <1>6, <1>7, <1>8, <1>9, <1>10, <1>11 DEF IInv

LEMMA StepHolds == IInv /\ [Next]_vars => IInv'
<1> SUFFICES ASSUME IInv, [Next]_vars PROVE IInv'  OBVIOUS
<1>1. ASSUME NEW p \in Processes, Step(p)
      PROVE  IInv'
      BY <1>1, TypeStep, PlaceStep, RunStep, RecordStep, TxnStep, SeenStep, KnownStep, ExactStep,
         BasinStep, PackStep DEF IInv
<1>2. CASE UNCHANGED vars
  <2> USE <1>2 DEF vars, bounds
  <2>1. TypeOK' /\ PlaceInv'
        BY DEF IInv, TypeOK, PlaceInv, Running, Writing, Locked, Planning
  <2>2. RunInv' /\ RecordInv'  BY DEF IInv, RunInv, RecordInv, Running, Writing, Locked
  <2>3. TxnInv'
        BY DEF IInv, TxnInv, Locked, NewBasins, Upserted
  <2>4. /\ \A t : Seen(t)' = Seen(t) /\ Won(t)' = Won(t)
        /\ \A t : MustSee(t)' = MustSee(t) /\ MustWin(t)' = MustWin(t)
        /\ \A p, t : LastOf(p, t)' = LastOf(p, t)
        BY DEF Seen, Won, MustSee, MustWin, LastOf, Paid, Ahead, Noted, Owes, Writing, Locked,
               Sightings, Successes, Accepting, Naming
  <2>5. SeenInv'  BY <2>4 DEF IInv, SeenInv, Counted, Running, Writing, Locked
  <2>6. KnownInv'  BY DEF IInv, KnownInv, Owes, Writing, Locked
  <2>7. ExactInv'  BY <2>4 DEF IInv, ExactInv, Idle, At
  <2>8. BasinsAreEarned'  BY DEF IInv, BasinsAreEarned, OnRecord
  <2>9. PackInv'  BY DEF IInv, PackInv, Grounded, Ranked, Planning
  <2> QED BY <2>1, <2>2, <2>3, <2>5, <2>6, <2>7, <2>8, <2>9 DEF IInv
<1> QED BY <1>1, <1>2 DEF Next

\* The strengthened invariant holds throughout.
THEOREM Invariance == Spec => []IInv
<1>1. Init => IInv  BY InitHolds
<1>2. IInv /\ [Next]_vars => IInv'  BY StepHolds
<1> QED BY <1>1, <1>2, PTL DEF Spec

\* Every variable stays in its domain.
THEOREM TypeCorrect == Spec => []TypeOK
<1>1. IInv => TypeOK  BY DEF IInv
<1> QED BY <1>1, Invariance, PTL

\* The counts of a target (upsert_target, which reads in one transaction and
\* writes in another) claim no more than the entries of the runs that name it,
\* and without overlap have every entry of a run on record.
THEOREM TargetsBacked == Spec => []TargetsAreBacked
<1>1. IInv => TargetsAreBacked
  <2> SUFFICES ASSUME IInv PROVE TargetsAreBacked  OBVIOUS
  <2>1. \A o \in details.observations : targets[o.target] # Nothing  BY DEF IInv, KnownInv
  <2>2. ASSUME NEW t \in Targets, targets[t] # Nothing
        PROVE  LET row == targets[t] IN
               /\ row.seen <= Cardinality(Sightings(runs, t))
               /\ row.success <= Cardinality(Successes(runs, t))
               /\ \E r \in runs : r.run = row.last /\ Naming(r, t) # {}
               /\ \A o \in details.observations :
                     (o.target = t /\ o.run = row.last) => o.accepted = row.accepted
               /\ ~overlapped => /\ Cardinality(Sightings(OnRecord, t)) <= row.seen
                                 /\ Cardinality(Successes(OnRecord, t)) <= row.success
    <3>1. /\ targets[t].seen <= Seen(t) /\ targets[t].success <= Won(t)
          /\ \E r \in runs : r.run = targets[t].last /\ Naming(r, t) # {}
          /\ \A o \in details.observations :
                (o.target = t /\ o.run = targets[t].last) => o.accepted = targets[t].accepted
          BY <2>2 DEF IInv, SeenInv, Counted
    <3>2. ~overlapped => /\ Cardinality(MustSee(t)) <= targets[t].seen
                         /\ Cardinality(MustWin(t)) <= targets[t].success
          BY <2>2 DEF IInv, ExactInv
    <3>3. runs \in SUBSET Payloads /\ IsFiniteSet(runs)  BY DEF IInv, TypeOK, RunInv
    <3>4. /\ IsFiniteSet(Sightings(runs, t)) /\ IsFiniteSet(Successes(runs, t))
          /\ IsFiniteSet(MustSee(t)) /\ IsFiniteSet(MustWin(t))
      <4>1. IsFiniteSet(Sightings(runs, t)) /\ IsFiniteSet(Successes(runs, t))
            BY <3>3, SightingsFinite
      <4> QED BY <4>1, MustFinite DEF IInv
    <3>5. /\ Seen(t) <= Cardinality(Sightings(runs, t)) /\ Seen(t) \in Nat
          /\ Cardinality(Sightings(runs, t)) \in Nat
          BY <3>4, OneMore DEF Seen
    <3>6. /\ Won(t) <= Cardinality(Successes(runs, t)) /\ Won(t) \in Nat
          /\ Cardinality(Successes(runs, t)) \in Nat
          BY <3>4, OneMore DEF Won
    <3>7. Sightings(OnRecord, t) \subseteq MustSee(t) /\ Successes(OnRecord, t) \subseteq MustWin(t)
      <4>1. OnRecord \in SUBSET Payloads /\ OnRecord \subseteq runs  BY <3>3 DEF OnRecord
      <4>2. \A r \in OnRecord, k \in Nat : Ahead(<<r.run, k>>)  BY DEF OnRecord, Ahead
      <4>3. /\ Sightings(OnRecord, t) \subseteq Sightings(runs, t)
            /\ Successes(OnRecord, t) \subseteq Successes(runs, t)
            BY <4>1 DEF Sightings, Successes
      <4>4. ASSUME NEW x \in Sightings(OnRecord, t)
            PROVE  Ahead(x)
        <5>1. PICK r \in OnRecord : \E k \in Naming(r, t) : x = <<r.run, k>> /\ k \in Nat
              BY <4>1, SightingIs
        <5> QED BY <4>2, <5>1
      <4>5. Successes(OnRecord, t) \subseteq Sightings(OnRecord, t)
            BY DEF Successes, Sightings, Accepting
      <4> QED BY <4>3, <4>4, <4>5 DEF MustSee, MustWin
    <3>8. /\ Cardinality(Sightings(OnRecord, t)) <= Cardinality(MustSee(t))
          /\ Cardinality(Sightings(OnRecord, t)) \in Nat /\ Cardinality(MustSee(t)) \in Nat
          /\ Cardinality(Successes(OnRecord, t)) <= Cardinality(MustWin(t))
          /\ Cardinality(Successes(OnRecord, t)) \in Nat /\ Cardinality(MustWin(t)) \in Nat
          BY <3>4, <3>7, OneMore
    <3>9. targets[t].seen \in Nat /\ targets[t].success \in Nat
          BY <2>2 DEF IInv, TypeOK, TargetRow
    <3> QED BY <3>1, <3>2, <3>5, <3>6, <3>8, <3>9
  <2> QED BY <2>1, <2>2 DEF TargetsAreBacked
<1> QED BY <1>1, Invariance, PTL

\* A basin's support is that of the run on record that found most there, and it
\* is only trusted as verified (upsert_reason_basin) with a constructor on record.
THEOREM BasinsEarned == Spec => []BasinsAreEarned
<1>1. IInv => BasinsAreEarned  BY DEF IInv
<1> QED BY <1>1, Invariance, PTL

\* What the scheduler proposes (propose_next_packs) is known to the Lawbook.
THEOREM PacksBacked == Spec => []PacksAreBacked
<1>1. IInv => PacksAreBacked  BY DEF IInv, PackInv, Grounded, Ranked, PacksAreBacked
<1> QED BY <1>1, Invariance, PTL

-----------------------------------------------------------------------------
(* The refinement: a commit records a run, and nothing else is seen.         *)

LEMMA InitRecords == Init => Log!Init
<1> SUFFICES ASSUME Init PROVE Log!Init  OBVIOUS
<1>1. OnRecord = {}  BY DEF Init, OnRecord
<1>2. Constructors = Log!Constructors  BY DEF Constructors, Log!Constructors
<1> QED BY <1>1, <1>2 DEF Init, Log!Init

\* The log means by the rows of a run what the tables do.
LEMMA LogReads ==
    /\ Payloads = Log!Payloads /\ Constructors = Log!Constructors
    /\ \A d : /\ Observations(d) = Log!Observations(d) /\ Edges(d) = Log!Edges(d)
              /\ Attempts(d) = Log!Attempts(d) /\ Obstructions(d) = Log!Obstructions(d)
              /\ \A c : Log!Yield(d, c) = Cardinality({x \in Winners(d) : Constructor(d, x) = c})
<1>1. Payloads = Log!Payloads
      BY DEF Payloads, Findings, Entries, Log!Payloads, Log!Findings, Log!Entries
<1>2. Constructors = Log!Constructors  BY DEF Constructors, Log!Constructors
<1>3. /\ \A d, t : Naming(d, t) = Log!Naming(d, t)
      /\ \A d, i : BasinAt(d, i) = Log!BasinAt(d, i)
      /\ \A d, x : /\ Attempt(d, x) = Log!Attempt(d, x) /\ Constructor(d, x) = Log!Constructor(d, x)
                   /\ Passed(d, x) = Log!Passed(d, x)
      BY DEF Naming, Log!Naming, BasinAt, Log!BasinAt, Attempt, Log!Attempt, Constructor,
             Log!Constructor, Passed, Log!Passed
<1>4. \A d : Trials(d) = Log!Trials(d)  BY <1>3 DEF Trials, Log!Trials
<1>5. \A d : Observations(d) = Log!Observations(d)  BY <1>3 DEF Observations, Log!Observations
<1>6. \A d : Edges(d) = Log!Edges(d)  BY <1>3 DEF Edges, Log!Edges
<1>7. \A d : Attempts(d) = Log!Attempts(d)  BY <1>3, <1>4 DEF Attempts, Log!Attempts
<1>8. \A d : Obstructions(d) = Log!Obstructions(d)  BY <1>3, <1>4 DEF Obstructions, Log!Obstructions
<1>9. \A d, c : Log!Yield(d, c) = Cardinality({x \in Winners(d) : Constructor(d, x) = c})
  <2>1. \A S : Log!Cardinality(S) = Cardinality(S)  BY DEF Log!Cardinality, Cardinality
  <2>2. \A d, c : {x \in Log!Trials(d) : Log!Passed(d, x) /\ Log!Constructor(d, x) = c}
                      = {x \in Winners(d) : Constructor(d, x) = c}
        BY <1>3, <1>4 DEF Winners
  <2> QED BY <2>1, <2>2 DEF Log!Yield
<1> QED BY <1>1, <1>2, <1>5, <1>6, <1>7, <1>8, <1>9

LEMMA StepRecords ==
    ASSUME IInv, [Next]_vars
    PROVE  [Log!Next]_(<<OnRecord, details.observations, details.edges, details.attempts,
                         details.obstructions, details.constructors>>)
<1>1. CASE UNCHANGED vars
      BY <1>1 DEF vars, OnRecord
<1>2. ASSUME NEW p \in Processes, Step(p), ~Commit(p)
      PROVE  OnRecord' = OnRecord /\ details' = details
      BY <1>2, OnRecordStep, WhoWrites DEF IInv
<1>3. ASSUME NEW p \in Processes, Commit(p)
      PROVE  Log!Next
  <2>1. PICK d \in Payloads : d = payload[p]  BY <1>3, CommitIs DEF IInv
  <2>2. /\ details'.observations = details.observations \cup Observations(d)
        /\ details'.edges = details.edges \cup Edges(d)
        /\ details'.attempts = details.attempts \cup Attempts(d)
        /\ details'.obstructions = details.obstructions \cup Obstructions(d)
        /\ \A c \in Constructors : details'.constructors[c] = details.constructors[c]
               + Cardinality({x \in Winners(d) : Constructor(d, x) = c})
        BY <1>3, <2>1, CommitIs DEF IInv
  <2>3. OnRecord' = OnRecord \cup {d} /\ \A r \in OnRecord : r.run # d.run
    <3>1. Step(p)  BY <1>3 DEF Step
    <3> QED BY <1>3, <2>1, <3>1, OnRecordStep DEF IInv
  <2>4. details'.constructors = [c \in Constructors |-> details'.constructors[c]]
    <3>1. TypeOK'
      <4>1. Step(p)  BY <1>3 DEF Step
      <4> QED BY <4>1, TypeStep DEF IInv
    <3> QED BY <3>1 DEF TypeOK, Details
  <2>5. details'.constructors = [c \in Log!Constructors |-> details.constructors[c] + Log!Yield(d, c)]
        BY <2>2, <2>4, LogReads
  <2>6. d \in OnRecord' /\ d \in Log!Payloads  BY <2>1, <2>3, LogReads
  <2>7. Log!Record(d)  BY <2>2, <2>3, <2>5, LogReads DEF Log!Record
  <2> QED BY <2>6, <2>7 DEF Log!Next
<1>4. CASE Next
  <2>1. PICK p \in Processes : Step(p)  BY <1>4 DEF Next
  <2>2. CASE Commit(p)  BY <1>3, <2>2
  <2>3. CASE ~Commit(p)  BY <1>2, <2>1, <2>3
  <2> QED BY <2>2, <2>3
<1> QED BY <1>1, <1>4

\* The tables of the last transaction (write_digest_payload after its targets)
\* are a log which runs enter whole and at most once.
THEOREM ImplementsLog == Spec => KeepsLog
<1>1. Init => Log!Init  BY InitRecords
<1>2. IInv /\ [Next]_vars =>
          [Log!Next]_(<<OnRecord, details.observations, details.edges, details.attempts,
                        details.obstructions, details.constructors>>)
      BY StepRecords
<1> QED BY <1>1, <1>2, Invariance, PTL DEF Spec, KeepsLog, Log!Spec, Log!vars
=============================================================================
