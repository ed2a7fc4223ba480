------------------------- MODULE WarrantResolution -------------------------
(***************************************************************************)
(* resolve_graph as it runs: validate the input, then repeat rounds that   *)
(* add the conclusions of every firing route until a round adds nothing;   *)
(* and the caller that keeps an earlier snapshot, withdraws receipts and   *)
(* compares the two closures (reclose, compare_snapshots, build_snapshot). *)
(***************************************************************************)
EXTENDS WarrantGraph

CONSTANTS
  NoGraph,      \* no request is outstanding
  NoSnapshot    \* the caller holds no earlier snapshot

ASSUME NoGraphAssumption == NoGraph \notin Graphs
ASSUME NoSnapshotAssumption == \A w \in SUBSET Receipt : NoSnapshot # w

VARIABLES
  phase,        \* "idle", "submitted", "closing", "done" or "rejected"
  graph,        \* the graph being resolved
  withdrawn,    \* the receipts withdrawn from it
  active,       \* the claims found to be supported so far
  before,       \* the caller's earlier snapshot: a status for each claim
  baseline,     \* what was withdrawn when it was taken, while the graph is the same
  report        \* what compare_snapshots returned, or NoSnapshot

vars == <<phase, graph, withdrawn, active, before, baseline, report>>
-----------------------------------------------------------------------------
Supported(g, c) ==
  IF g.claims[c].kind = "formal" THEN "WARRANTED_BOUNDED" ELSE "SOURCE_DOCUMENTED"

States(g, S) ==
  [c \in DOMAIN g.claims |-> IF c \in S THEN Supported(g, c) ELSE "UNKNOWN"]

active_routes == Firing(graph, withdrawn, active)

\* Mutant: every UNKNOWN is reported as lost support.
After_AlwaysStale(old, new) == IF new = "UNKNOWN" THEN "STALE" ELSE new

After(old, new) == IF old # "UNKNOWN" /\ new = "UNKNOWN" THEN "STALE" ELSE new

\* A ValueError, modelled as the empty report, when the claims differ.
compare_snapshots(old, new) ==
  IF DOMAIN old # DOMAIN new THEN << >>
  ELSE [c \in DOMAIN old |->
          [before |-> old[c], after |-> After(old[c], new[c]),
           changed |-> old[c] # After(old[c], new[c])]]
-----------------------------------------------------------------------------
Init ==
  /\ phase = "idle"
  /\ graph = NoGraph
  /\ withdrawn = {}
  /\ active = {}
  /\ before = NoSnapshot
  /\ baseline = NoSnapshot
  /\ report = NoSnapshot

Submit(g, w) ==
  /\ phase = "idle"
  /\ phase' = "submitted"
  /\ graph' = g
  /\ withdrawn' = w
  /\ UNCHANGED <<active, before, baseline, report>>

\* Mutant: the loop is entered without validating the input.
Accept_Unchecked ==
  /\ phase = "submitted"
  /\ phase' = "closing"
  /\ UNCHANGED <<graph, withdrawn, active, before, baseline, report>>

Accept ==
  /\ phase = "submitted"
  /\ InputOK(graph, withdrawn)
  /\ phase' = "closing"
  /\ UNCHANGED <<graph, withdrawn, active, before, baseline, report>>

Reject ==
  /\ phase = "submitted"
  /\ ~InputOK(graph, withdrawn)
  /\ phase' = "rejected"
  /\ UNCHANGED <<graph, withdrawn, active, before, baseline, report>>

\* One iteration of the while loop: the round's additions are computed from
\* the set as it stood when the round began.
added == Concluded(graph, withdrawn, active) \ active

Round ==
  /\ phase = "closing"
  /\ added # {}
  /\ active' = active \cup added
  /\ UNCHANGED <<phase, graph, withdrawn, before, baseline, report>>

\* Mutant: the loop may stop before a round has added nothing.
Finish_Early ==
  /\ phase = "closing"
  /\ phase' = "done"
  /\ UNCHANGED <<graph, withdrawn, active, before, baseline, report>>

Finish ==
  /\ phase = "closing"
  /\ added = {}
  /\ phase' = "done"
  /\ UNCHANGED <<graph, withdrawn, active, before, baseline, report>>

\* Mutant: the closure is continued from the earlier one instead of restarted.
Withdraw_Resumes(w) ==
  /\ phase = "done"
  /\ before' = States(graph, active)
  /\ baseline' = withdrawn
  /\ phase' = "submitted"
  /\ withdrawn' = w
  /\ report' = NoSnapshot
  /\ UNCHANGED <<graph, active>>

\* The caller keeps the snapshot and closes the same graph again, with a
\* different set of receipts withdrawn.
Withdraw(w) ==
  /\ phase = "done"
  /\ before' = States(graph, active)
  /\ baseline' = withdrawn
  /\ phase' = "submitted"
  /\ withdrawn' = w
  /\ active' = {}
  /\ report' = NoSnapshot
  /\ UNCHANGED graph

\* The caller keeps the snapshot and turns to another graph.
NewEdition ==
  /\ phase = "done"
  /\ before' = States(graph, active)
  /\ baseline' = NoSnapshot
  /\ phase' = "idle"
  /\ graph' = NoGraph
  /\ withdrawn' = {}
  /\ active' = {}
  /\ report' = NoSnapshot

\* Mutant: the refused graph is kept.
Abandon_KeepsGraph ==
  /\ phase = "rejected"
  /\ phase' = "idle"
  /\ UNCHANGED <<graph, withdrawn, active, before, baseline, report>>

\* The ValueError reaches the caller, who still holds the earlier snapshot.
Abandon ==
  /\ phase = "rejected"
  /\ phase' = "idle"
  /\ graph' = NoGraph
  /\ withdrawn' = {}
  /\ baseline' = NoSnapshot
  /\ UNCHANGED <<active, before, report>>

Compare ==
  /\ phase = "done"
  /\ before # NoSnapshot
  /\ report = NoSnapshot
  /\ report' = compare_snapshots(before, States(graph, active))
  /\ UNCHANGED <<phase, graph, withdrawn, active, before, baseline>>

Next ==
  \/ \E g \in Graphs, w \in SUBSET Receipt : Submit(g, w)
  \/ Accept \/ Reject \/ Round \/ Finish
  \/ \E w \in SUBSET Receipt : Withdraw(w)
  \/ NewEdition \/ Abandon \/ Compare

Safe == Init /\ [][Next]_vars

\* resolve_graph is one sequential call: once entered it keeps running. The
\* caller is free to stop.
Spec == Safe /\ WF_vars(Accept \/ Reject \/ Round \/ Finish)
-----------------------------------------------------------------------------
Status == {"WARRANTED_BOUNDED", "SOURCE_DOCUMENTED", "UNKNOWN"}

\* The variables keep their types; the claims found active belong to the graph.
TypeOK ==
  /\ phase \in {"idle", "submitted", "closing", "done", "rejected"}
  /\ IF phase = "idle" THEN graph = NoGraph ELSE graph # NoGraph /\ IsGraph(graph)
  /\ withdrawn \in SUBSET Receipt
  /\ active \in SUBSET Claim
  /\ baseline \in (SUBSET Receipt) \cup {NoSnapshot}

\* The strengthening that makes the properties below inductive: the loop runs
\* on a valid graph and never leaves the least closed set, the set is closed
\* when it stops, and an earlier snapshot of the same graph is its least closed
\* set under the earlier withdrawals.
IInv ==
  /\ phase \in {"closing", "done"} =>
       InputOK(graph, withdrawn) /\ active \subseteq Least(graph, withdrawn)
  /\ phase \notin {"closing", "done"} => active = {}
  /\ phase = "idle" => withdrawn = {}
  /\ phase = "rejected" => ~InputOK(graph, withdrawn)
  /\ phase = "done" => Closed(graph, withdrawn, active)
  /\ baseline # NoSnapshot =>
       phase # "idle" /\ before = States(graph, Least(graph, baseline))
  /\ report # NoSnapshot =>
       phase = "done" /\ report = compare_snapshots(before, States(graph, active))

\* resolve_graph, "Least fixed point of conjunctive routes": what it returns
\* is in every closed set, and is closed.
LeastFixedPoint == phase = "done" => active = Least(graph, withdrawn)

\* resolve_graph, "Unrooted cycles remain UNKNOWN": no group of claims holds
\* itself up. Every group has a member with a firing route from outside.
NoUnrootedCycle ==
  phase = "done" =>
    \A X \in (SUBSET active) \ {{}} :
      \E r \in active_routes : r.conclusion \in X /\ r.premises \cap X = {}

\* living_warrants, "Formal and documentary evidence never cross their type
\* boundary without a separately verified adapter": each supported claim rests
\* on a live receipt of exactly its own kind and scope, adapters included.
OwnBoundaryReceipt ==
  phase = "done" =>
    \A c \in active :
      \E r \in active_routes : \E e \in Required(graph, r) \ withdrawn :
        /\ r.conclusion = c
        /\ graph.receipts[e] = graph.claims[c]

\* "Withdrawal removes support, never infers a refutation": closing the same
\* graph with more receipts withdrawn keeps each status or makes it UNKNOWN.
WithdrawalOnlyRemoves ==
  phase = "done" /\ baseline # NoSnapshot =>
    (baseline \subseteq withdrawn =>
       \A c \in DOMAIN graph.claims :
         States(graph, active)[c] \in {before[c], "UNKNOWN"})

\* compare_snapshots marks STALE exactly the claims whose support was lost,
\* as build_snapshot asserts for the withdrawn publications and their theorems.
StaleMeansLost ==
  report # NoSnapshot /\ baseline # NoSnapshot =>
    \A c \in DOMAIN graph.claims :
      (report[c].after = "STALE")
        <=> c \in Least(graph, baseline) \ Least(graph, withdrawn)

-----------------------------------------------------------------------------
(***************************************************************************)
(* The resolver implements WarrantClosure: the rounds are invisible to the *)
(* caller, and the answer appears when the loop has ended.                 *)
(***************************************************************************)
Promise == INSTANCE WarrantClosure WITH
  requested <- graph,
  removed   <- withdrawn,
  verdict   <- CASE phase = "done" -> "answered"
                 [] phase = "rejected" -> "refused"
                 [] OTHER -> "none",
  warranted <- IF phase = "done" THEN active ELSE {}

\* Every run of the resolver is a run of the abstract specification, its
\* promise to answer included.
KeepsPromise == Promise!ASpec
=============================================================================
