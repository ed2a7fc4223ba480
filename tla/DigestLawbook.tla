---------------------------- MODULE DigestLawbook ----------------------------
(* The digest Lawbook (mathgraph/lawbook_accumulator.py): the SQLite file    *)
(* that runs of the Mathlib digest (mathgraph/mathlib_digest.py) write, and  *)
(* from which the scheduler (mathgraph/digest_scheduler.py) proposes packs.  *)
(* A run commits its row, then each of its targets, which it reads before,   *)
(* and then all its details in one transaction, begun by the first insert.   *)
EXTENDS DigestRun

CONSTANTS
    Processes,   \* processes with a connection to the one database file
    Nothing,     \* a row that is not there, a process that is not there
    MaxPlans,    \* bound on calls of the scheduler
    MaxAborts    \* bound on processes killed and calls that raise

ASSUME BoundsAssumption == MaxPlans \in Nat /\ MaxAborts \in Nat

VARIABLES
    runs,        \* table runs: each row stands for what its run found
    targets,     \* table targets
    details,     \* the tables that a run's last transaction writes
    packs,       \* table pending_packs, by basin: residual_first
    txn, lock,   \* the open transaction's details, and who holds the write lock
    pc, todo, held,  \* of each process: place and subject, what is left, what it read
    payload,     \* of each process: what its run found
    overlapped,  \* history: whether two processes have been busy at once
    started, plans, aborts

vars == <<runs, targets, details, packs, txn, lock, pc, todo, held, payload,
          overlapped, started, plans, aborts>>
bounds == <<started, plans, aborts>>

BasinRow == [support : Nat, verified : BOOLEAN]
Details == [observations : SUBSET [run : 1 .. MaxRuns, target : Targets, accepted : BOOLEAN],
            edges        : SUBSET (Targets \X Basins),
            basins       : [Basins -> BasinRow \cup {Nothing}],
            attempts     : SUBSET [run : 1 .. MaxRuns, attempt : Targets \X Templates,
                                   verified : BOOLEAN],
            constructors : [Constructors -> Nat],
            obstructions : SUBSET [run : 1 .. MaxRuns, attempt : Targets \X Templates]]
TargetRow == [seen : Nat, success : Nat, accepted : BOOLEAN, last : 1 .. MaxRuns]
PackRow == [targets : SUBSET Targets, priority : Nat]

\* A row that is not there is no row, and nobody is no process.
ASSUME NothingAssumption ==
    /\ Nothing \notin Processes /\ Nothing \notin TargetRow /\ Nothing \notin PackRow
    /\ Nothing \notin Payloads /\ Nothing \notin BasinRow

At(p, at, x) == pc[p] = <<at, x>>
Idle(p) == At(p, "idle", Nothing)
\* Every step moves one process, and notices whether another is busy.
Goto(p, to, x) ==
    /\ pc' = [pc EXCEPT ![p] = <<to, x>>]
    /\ overlapped' = (overlapped \/ \E q \in Processes \ {p} : ~Idle(q))
Unlocked == lock = Nothing

Init ==
    /\ runs = {} /\ targets = [t \in Targets |-> Nothing]
    /\ details = [observations |-> {}, edges |-> {}, basins |-> [b \in Basins |-> Nothing],
                  attempts |-> {}, obstructions |-> {},
                  constructors |-> [c \in Constructors |-> 0]]
    /\ packs = [b \in Basins |-> Nothing]
    /\ txn = details /\ lock = Nothing
    /\ pc = [p \in Processes |-> <<"idle", Nothing>>]
    /\ todo = [p \in Processes |-> {}]
    /\ held = [p \in Processes |-> Nothing]
    /\ payload = [p \in Processes |-> Nothing]
    /\ overlapped = FALSE
    /\ started = 0 /\ plans = 0 /\ aborts = 0

-----------------------------------------------------------------------------
(* run_mathlib_digest_accumulator: Lean is asked about every entry of the    *)
(* pack config and, of those accepted whose statement could be parsed, about *)
(* every template. Nothing is shared until the payload is written.           *)

Digest(p) ==
    /\ Idle(p) /\ started < MaxRuns /\ started' = started + 1
    /\ \E d \in Payloads :
          /\ d.run = started + 1
          /\ payload' = [payload EXCEPT ![p] = d]
    /\ Goto(p, "run", Nothing)
    /\ UNCHANGED <<runs, targets, details, packs, txn, lock, todo, held, plans, aborts>>

append_digest_run(p) ==
    /\ At(p, "run", Nothing) /\ Unlocked
    /\ runs' = runs \cup {payload[p]}
    /\ Goto(p, "targets", 1)
    /\ UNCHANGED <<targets, details, packs, txn, lock, todo, held, payload, bounds>>

\* upsert_target, entry by entry: a read, and then a write that is committed
\* at once.
ReadTarget(p) ==
    /\ LET i == pc[p][2] IN
          /\ At(p, "targets", i) /\ i \in DOMAIN payload[p].entries
          /\ held' = [held EXCEPT ![p] = targets[payload[p].entries[i].target]]
          /\ Goto(p, "target", i)
    /\ UNCHANGED <<runs, targets, details, packs, txn, lock, todo, payload, bounds>>

One(b) == IF b THEN 1 ELSE 0

\* Mutant: the counts of the row that is there are not carried over.
upsert_target_Forgets(row, d, e) ==
    [seen |-> 1, success |-> One(e.accepted), accepted |-> e.accepted, last |-> d.run]

\* Mutant: the run that saw the target is not written.
upsert_target_NoRun(row, d, e) ==
    [seen     |-> IF row = Nothing THEN 1 ELSE row.seen + 1,
     success  |-> (IF row = Nothing THEN 0 ELSE row.success) + One(e.accepted),
     accepted |-> e.accepted]

upsert_target(row, d, e) ==
    [seen     |-> IF row = Nothing THEN 1 ELSE row.seen + 1,
     success  |-> (IF row = Nothing THEN 0 ELSE row.success) + One(e.accepted),
     accepted |-> e.accepted, last |-> d.run]

WriteTarget(p) ==
    /\ Unlocked
    /\ LET i == pc[p][2]
           e == payload[p].entries[i] IN
          /\ At(p, "target", i)
          /\ targets' = [targets EXCEPT ![e.target] = upsert_target(held[p], payload[p], e)]
          /\ Goto(p, "targets", i + 1)
    /\ held' = [held EXCEPT ![p] = Nothing]
    /\ UNCHANGED <<runs, details, packs, txn, lock, todo, payload, bounds>>

\* A config that names no target leaves nothing more to write.
NoEntries(p) ==
    /\ At(p, "targets", 1) /\ payload[p].entries = <<>>
    /\ Goto(p, "idle", Nothing) /\ payload' = [payload EXCEPT ![p] = Nothing]
    /\ UNCHANGED <<runs, targets, details, packs, txn, lock, todo, held, bounds>>

-----------------------------------------------------------------------------
(* The rest of write_digest_payload is one transaction: the first insert     *)
(* takes the write lock, and its reads see what it has written.              *)

InsertObservations(p) ==
    /\ LET i == pc[p][2] IN At(p, "targets", i) /\ i > Len(payload[p].entries)
    /\ payload[p].entries # <<>>
    /\ Unlocked /\ lock' = p
    /\ txn' = [details EXCEPT !.observations = @ \cup Observations(payload[p])]
    /\ Goto(p, "reasons", Nothing)
    /\ UNCHANGED <<runs, targets, details, packs, todo, held, payload, bounds>>

\* Mutant: the support of the run replaces the widest so far.
upsert_reason_basin_Last(row, d, b) ==
    [support |-> Support(d, b), verified |-> Verified(d, b)]

\* The wider support is kept; the trust level is the last run's.
upsert_reason_basin(row, d, b) ==
    [support  |-> IF row # Nothing /\ row.support > Support(d, b)
                  THEN row.support ELSE Support(d, b),
     verified |-> Verified(d, b)]

UpsertReasons(p) ==
    /\ At(p, "reasons", Nothing) /\ lock = p
    /\ LET d == payload[p] IN
       txn' = [txn EXCEPT
                  !.basins = [b \in Basins |-> IF Touches(d, b)
                                               THEN upsert_reason_basin(@[b], d, b) ELSE @[b]],
                  !.edges = @ \cup Edges(d)]
    /\ Goto(p, "attempts", Nothing)
    /\ UNCHANGED <<runs, targets, details, packs, lock, todo, held, payload, bounds>>

InsertAttempts(p) ==
    /\ At(p, "attempts", Nothing) /\ lock = p
    /\ LET d == payload[p] IN
       /\ txn' = [txn EXCEPT !.attempts = @ \cup Attempts(d)]
       /\ todo' = [todo EXCEPT ![p] = {x \in Trials(d) : Passed(d, x)}]
    /\ Goto(p, "constructors", Nothing)
    /\ UNCHANGED <<runs, targets, details, packs, lock, held, payload, bounds>>

\* Mutant: a constructor that is there is written over as a new one.
upsert_verified_constructor_AsNew(count) == 1

upsert_verified_constructor(count) == count + 1

UpsertConstructor(p) ==
    /\ At(p, "constructors", Nothing) /\ lock = p
    /\ \E x \in todo[p] :
          /\ txn' = [txn EXCEPT !.constructors[Constructor(payload[p], x)] =
                                    upsert_verified_constructor(@)]
          /\ todo' = [todo EXCEPT ![p] = @ \ {x}]
    /\ Goto(p, "constructors", Nothing)
    /\ UNCHANGED <<runs, targets, details, packs, lock, held, payload, bounds>>

InsertObstructions(p) ==
    /\ At(p, "constructors", Nothing) /\ lock = p /\ todo[p] = {}
    /\ txn' = [txn EXCEPT !.obstructions = @ \cup Obstructions(payload[p])]
    /\ Goto(p, "commit", Nothing)
    /\ UNCHANGED <<runs, targets, details, packs, lock, todo, held, payload, bounds>>

Commit(p) ==
    /\ At(p, "commit", Nothing) /\ lock = p
    /\ details' = txn /\ lock' = Nothing
    /\ Goto(p, "idle", Nothing) /\ payload' = [payload EXCEPT ![p] = Nothing]
    /\ UNCHANGED <<runs, targets, packs, txn, todo, held, bounds>>

-----------------------------------------------------------------------------
(* propose_next_packs, residual_first: one read lists the basins whose last  *)
(* run did not verify a constructor, one more read per basin lists targets,  *)
(* and each pack is committed on its own.                                    *)

ReadBasins(p) ==
    /\ Idle(p) /\ plans < MaxPlans /\ plans' = plans + 1
    /\ LET row == details.basins IN
       todo' = [todo EXCEPT ![p] =
                   {<<b, row[b].support>> : b \in {c \in Basins : row[c] # Nothing /\ ~row[c].verified}}]
    /\ Goto(p, "propose", Nothing)
    /\ UNCHANGED <<runs, targets, details, packs, txn, lock, held, payload, started, aborts>>

\* Mutant: the targets are not joined with the edges of the basin.
ReadPack_AnyTarget(p) ==
    /\ At(p, "propose", Nothing)
    /\ \E x \in todo[p] :
          /\ held' = [held EXCEPT ![p] =
                         [targets |-> {t \in Targets : targets[t] # Nothing}, priority |-> x[2]]]
          /\ todo' = [todo EXCEPT ![p] = @ \ {x}]
          /\ Goto(p, "pack", x[1])
    /\ UNCHANGED <<runs, targets, details, packs, txn, lock, payload, bounds>>

ReadPack(p) ==
    /\ At(p, "propose", Nothing)
    /\ \E x \in todo[p] :
          /\ held' = [held EXCEPT ![p] =
                         [targets  |-> {t \in Targets : /\ targets[t] # Nothing
                                                        /\ <<t, x[1]>> \in details.edges},
                          priority |-> x[2]]]
          /\ todo' = [todo EXCEPT ![p] = @ \ {x}]
          /\ Goto(p, "pack", x[1])
    /\ UNCHANGED <<runs, targets, details, packs, txn, lock, payload, bounds>>

upsert_pending_pack(p) ==
    /\ Unlocked
    /\ \E b \in Basins :
          /\ At(p, "pack", b)
          /\ packs' = [packs EXCEPT ![b] = held[p]]
    /\ Goto(p, "propose", Nothing) /\ held' = [held EXCEPT ![p] = Nothing]
    /\ UNCHANGED <<runs, targets, details, txn, lock, todo, payload, bounds>>

PlanEnds(p) ==
    /\ At(p, "propose", Nothing) /\ todo[p] = {} /\ Goto(p, "idle", Nothing)
    /\ UNCHANGED <<runs, targets, details, packs, txn, lock, todo, held, payload, bounds>>

-----------------------------------------------------------------------------

\* The process is killed, or a write raises that waited too long for the lock:
\* its connection closes, which rolls an open transaction back.
Abort(p) ==
    /\ ~Idle(p) /\ aborts < MaxAborts /\ aborts' = aborts + 1
    /\ IF lock = p THEN lock' = Nothing /\ txn' = details ELSE UNCHANGED <<lock, txn>>
    /\ Goto(p, "idle", Nothing) /\ todo' = [todo EXCEPT ![p] = {}]
    /\ held' = [held EXCEPT ![p] = Nothing] /\ payload' = [payload EXCEPT ![p] = Nothing]
    /\ UNCHANGED <<runs, targets, details, packs, started, plans>>

Step(p) ==
    \/ Digest(p) \/ append_digest_run(p) \/ ReadTarget(p) \/ WriteTarget(p) \/ NoEntries(p)
    \/ InsertObservations(p) \/ UpsertReasons(p) \/ InsertAttempts(p) \/ UpsertConstructor(p)
    \/ InsertObstructions(p) \/ Commit(p)
    \/ ReadBasins(p) \/ ReadPack(p) \/ upsert_pending_pack(p) \/ PlanEnds(p) \/ Abort(p)

Next == \E p \in Processes : Step(p)

Spec == Init /\ [][Next]_vars

-----------------------------------------------------------------------------
(* Properties.                                                               *)

Places ==
    {<<at, Nothing>> : at \in {"idle", "run", "reasons", "attempts", "constructors", "commit",
                               "propose"}}
    \cup ({"targets", "target"} \X Nat) \cup ({"pack"} \X Basins)

\* Every variable stays in its domain.
TypeOK ==
    /\ runs \subseteq Payloads
    /\ targets \in [Targets -> TargetRow \cup {Nothing}]
    /\ details \in Details /\ txn \in Details
    /\ packs \in [Basins -> PackRow \cup {Nothing}]
    /\ lock \in Processes \cup {Nothing}
    /\ pc \in [Processes -> Places]
    /\ todo \in [Processes -> (SUBSET (Nat \X Templates)) \cup (SUBSET (Basins \X Nat))]
    /\ held \in [Processes -> TargetRow \cup PackRow \cup {Nothing}]
    /\ payload \in [Processes -> Payloads \cup {Nothing}]
    /\ overlapped \in BOOLEAN
    /\ started \in 0 .. MaxRuns /\ plans \in 0 .. MaxPlans /\ aborts \in 0 .. MaxAborts

\* The runs whose details are in the Lawbook.
OnRecord == {r \in runs : \E o \in details.observations : o.run = r.run}

\* The entries of some runs that name a target, and those Lean accepted.
Sightings(S, t) == UNION {{r.run} \X Naming(r, t) : r \in S}
Successes(S, t) == UNION {{r.run} \X Accepting(r, t) : r \in S}

\* The counts of a target claim no more than the entries of the runs that name
\* it, whatever runs race, die or wait: no success that Lean did not report, no
\* sighting without an entry. Whoever is observed has its row, and the status of
\* the row is the one observed in the run it names as the last. As long as
\* processes use the file one after the other, no entry of a run on record is
\* lost either, not even when a run names a target twice.
TargetsAreBacked ==
    /\ \A o \in details.observations : targets[o.target] # Nothing
    /\ \A t \in Targets : targets[t] # Nothing =>
          LET row == targets[t] IN
          /\ row.seen <= Cardinality(Sightings(runs, t))
          /\ row.success <= Cardinality(Successes(runs, t))
          /\ \E r \in runs : r.run = row.last /\ Naming(r, t) # {}
          /\ \A o \in details.observations :
                (o.target = t /\ o.run = row.last) => o.accepted = row.accepted
          /\ ~overlapped => /\ Cardinality(Sightings(OnRecord, t)) <= row.seen
                            /\ Cardinality(Successes(OnRecord, t)) <= row.success

\* A basin is there when a run on record has an entry in it, and its support is
\* that of the run on record that found most there. It is only trusted as
\* verified when a constructor of it is on record.
BasinsAreEarned ==
    \A b \in Basins :
        LET row == details.basins[b]
            touching == {r \in OnRecord : Touches(r, b)} IN
        IF row = Nothing THEN touching = {}
        ELSE /\ \A r \in touching : Support(r, b) <= row.support
             /\ \E r \in touching : Support(r, b) = row.support
             /\ row.verified => \E c \in Constructors :
                                   c.basin = b /\ details.constructors[c] > 0

\* A proposed pack, put together by reads that other processes come between,
\* names only targets the Lawbook knows in that basin, and ranks no higher
\* than the basin's support.
PacksAreBacked ==
    \A b \in Basins : packs[b] # Nothing =>
        /\ details.basins[b] # Nothing /\ packs[b].priority <= details.basins[b].support
        /\ \A t \in packs[b].targets : targets[t] # Nothing /\ <<t, b>> \in details.edges

Log == INSTANCE DigestLog WITH
          log <- OnRecord,
          observations <- details.observations, edges <- details.edges,
          attempts <- details.attempts, obstructions <- details.obstructions,
          counts <- details.constructors

\* The tables of the last transaction are the log of DigestLog: the rows of a
\* run enter them whole and at most once or not at all, through crashes and
\* races, and verified_constructors counts every trial that verified, also those
\* of a target named twice, which come to one row among the attempts.
KeepsLog == Log!Spec
=============================================================================
