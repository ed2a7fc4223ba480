---------------------- MODULE WarrantResolutionProofs ----------------------
(***************************************************************************)
(* Theorems of WarrantResolution, for every set of claims, receipts and    *)
(* graphs. First the algebra of closure (no state), then the inductive     *)
(* invariant, then the properties of the runs and the refinement.          *)
(***************************************************************************)
EXTENDS WarrantResolution, FiniteSetTheorems, TLAPS

(***************************************************************************)
(* Closure.                                                                *)
(***************************************************************************)

\* More active claims let more routes fire.
LEMMA FiringGrows ==
  ASSUME NEW g, NEW w, NEW S, NEW T, S \subseteq T
  PROVE  Firing(g, w, S) \subseteq Firing(g, w, T)
  BY DEF Firing

\* Withdrawing more receipts lets fewer routes fire.
LEMMA WithdrawalStopsRoutes ==
  ASSUME NEW g, NEW w1, NEW w2, w1 \subseteq w2, NEW S
  PROVE  Firing(g, w2, S) \subseteq Firing(g, w1, S)
  BY DEF Firing, evidence_is_live

\* In a valid graph every conclusion is one of the graph's claims.
LEMMA ConclusionsAreClaims ==
  ASSUME NEW g, NEW v, InputOK(g, v), NEW w, NEW S
  PROVE  Concluded(g, w, S) \subseteq DOMAIN g.claims
  BY DEF Concluded, Firing, InputOK, RouteOK, KnownParts

\* A round adds nothing that some closed set lacks.
LEMMA RoundStaysLeast ==
  ASSUME NEW g, NEW v, InputOK(g, v), NEW w, NEW S, S \subseteq Least(g, w)
  PROVE  Concluded(g, w, S) \subseteq Least(g, w)
<1> SUFFICES ASSUME NEW c \in Concluded(g, w, S),
                    NEW T \in SUBSET DOMAIN g.claims, Closed(g, w, T)
             PROVE  c \in T
  BY ConclusionsAreClaims DEF Least
<1>1. S \subseteq T
  BY DEF Least
<1>2. Firing(g, w, S) \subseteq Firing(g, w, T)
  BY <1>1, FiringGrows
<1>3. c \in Concluded(g, w, T)
  BY <1>2 DEF Concluded
<1>. QED
  BY <1>3 DEF Closed

\* When the loop stops, what it found is the least closed set.
LEMMA StoppedIsLeast ==
  ASSUME NEW g, NEW w, NEW S, S \subseteq Least(g, w), Closed(g, w, S)
  PROVE  S = Least(g, w)
<1>1. S \in SUBSET DOMAIN g.claims
  BY DEF Least
<1>2. Least(g, w) \subseteq S
  BY <1>1 DEF Least
<1>. QED
  BY <1>2

\* Withdrawing more receipts can only shrink the answer.
LEMMA WithdrawalShrinks ==
  ASSUME NEW g, NEW w1, NEW w2, w1 \subseteq w2
  PROVE  Least(g, w2) \subseteq Least(g, w1)
<1> SUFFICES ASSUME NEW T \in SUBSET DOMAIN g.claims, Closed(g, w1, T)
             PROVE  Closed(g, w2, T)
  BY DEF Least
<1>1. Firing(g, w2, T) \subseteq Firing(g, w1, T)
  BY WithdrawalStopsRoutes
<1>. QED
  BY <1>1 DEF Closed, Concluded

\* What depends on a receipt of X: the claims of D, when every route of the graph
\* that needs one of X, or a premise in D, concludes in D.
Dependents(g, X, D) ==
  \A r \in g.routes : Required(g, r) \cap X # {} \/ r.premises \cap D # {} => r.conclusion \in D

\* Outside of what depends on a receipt whose withdrawal differs, the answers
\* agree.
LEMMA LeastIsLocal ==
  ASSUME NEW g, NEW v, InputOK(g, v), NEW w1, NEW w2, NEW D \in SUBSET DOMAIN g.claims,
         Dependents(g, (w1 \ w2) \cup (w2 \ w1), D)
  PROVE  Least(g, w2) \subseteq Least(g, w1) \cup D
<1> DEFINE T == Least(g, w1) \cup D
<1>1. T \in SUBSET DOMAIN g.claims
  BY DEF Least
<1>2. ASSUME NEW r \in Firing(g, w2, T), r.conclusion \notin D
      PROVE  r.conclusion \in Least(g, w1)
  <2>1. r \in g.routes /\ Required(g, r) \cap w2 = {} /\ r.premises \subseteq T
    BY DEF Firing, evidence_is_live
  <2>2. r.premises \cap D = {} /\ Required(g, r) \cap ((w1 \ w2) \cup (w2 \ w1)) = {}
    BY <1>2, <2>1 DEF Dependents
  <2>3. r \in Firing(g, w1, Least(g, w1))
    BY <2>1, <2>2 DEF Firing, evidence_is_live
  <2>. QED
    BY <2>3, RoundStaysLeast DEF Concluded
<1>3. Closed(g, w2, T)
  BY <1>2 DEF Closed, Concluded
<1>. QED
  BY <1>1, <1>3 DEF Least

\* In the least closed set no group of claims rests on itself alone.
LEMMA LeastIsRooted ==
  ASSUME NEW g, NEW w, Closed(g, w, Least(g, w)),
         NEW X \in SUBSET Least(g, w), X # {}
  PROVE  \E r \in Firing(g, w, Least(g, w)) :
            r.conclusion \in X /\ r.premises \cap X = {}
<1> DEFINE Rest == Least(g, w) \ X
<1> SUFFICES ASSUME \A r \in Firing(g, w, Least(g, w)) :
                       r.conclusion \in X => r.premises \cap X # {}
             PROVE  FALSE
  OBVIOUS
<1>1. Firing(g, w, Rest) \subseteq Firing(g, w, Least(g, w))
  BY FiringGrows
<1>2. ASSUME NEW r \in Firing(g, w, Rest)
      PROVE  r.conclusion \in Rest
  <2>1. r.conclusion \in Least(g, w)
    BY <1>1 DEF Closed, Concluded
  <2>2. r.premises \cap X = {}
    BY DEF Firing
  <2>. QED
    BY <1>1, <2>1, <2>2
<1>3. Closed(g, w, Rest)
  BY <1>2 DEF Closed, Concluded
<1>4. Rest \in SUBSET DOMAIN g.claims
  BY DEF Least
<1>5. Least(g, w) \subseteq Rest
  BY <1>3, <1>4 DEF Least
<1>. QED
  BY <1>5

\* A live route of a valid graph needs a live receipt at its conclusion's
\* boundary: its own evidence, or what qualifies the relation it uses.
LEMMA RouteNeedsOwnReceipt ==
  ASSUME NEW g, NEW w, IsGraph(g), InputOK(g, w),
         NEW r \in g.routes, evidence_is_live(g, w, r)
  PROVE  \E e \in Required(g, r) \ w : g.receipts[e] = g.claims[r.conclusion]
<1>1. RouteOK(g, r)
  BY DEF InputOK
<1>2. Required(g, r) \cap w = {}
  BY DEF evidence_is_live
<1>3. CASE r.relation = NoRelation
  <2>1. PICK e \in r.evidence : TRUE
    BY <1>1 DEF RouteOK, KnownParts
  <2>2. g.receipts[e] = g.claims[r.conclusion]
    BY <1>1, <1>3 DEF RouteOK, WithinBoundary, Allowed
  <2>. QED
    BY <1>2, <2>2 DEF Required
<1>4. CASE r.relation # NoRelation
  <2> DEFINE b == g.relations[r.relation]
  <2>1. r.relation \in DOMAIN g.relations /\ b.target = g.claims[r.conclusion]
    BY <1>1, <1>4 DEF RouteOK, BridgeFits
  <2>2. b \in QualifiedRelation
    BY <2>1 DEF IsGraph
  <2>3. b.evidence # {}
    BY <2>2 DEF QualifiedRelation
  <2>4. RelationOK(g, b)
    BY <2>1 DEF InputOK
  <2>5. PICK e \in b.evidence : TRUE
    BY <2>3
  <2>6. g.receipts[e] = g.claims[r.conclusion]
    BY <2>1, <2>4, <2>5 DEF RelationOK
  <2>7. e \in Required(g, r)
    BY <1>4, <2>5 DEF Required
  <2>. QED
    BY <1>2, <2>6, <2>7
<1>. QED
  BY <1>3, <1>4
-----------------------------------------------------------------------------
(***************************************************************************)
(* Type correctness.                                                       *)
(***************************************************************************)

\* The variables of the resolver keep their types in every run.
THEOREM TypeCorrect == Safe => []TypeOK
<1>1. Init => TypeOK
  BY DEF Init, TypeOK
<1>2. TypeOK /\ [Next]_vars => TypeOK'
  <2> SUFFICES ASSUME TypeOK, [Next]_vars
               PROVE  TypeOK'
    OBVIOUS
  <2> USE DEF TypeOK
  <2>1. ASSUME NEW g \in Graphs, NEW w \in SUBSET Receipt, Submit(g, w)
        PROVE  TypeOK'
    BY <2>1, GraphsAssumption, NoGraphAssumption DEF Submit
  <2>2. CASE Accept
    BY <2>2 DEF Accept
  <2>3. CASE Reject
    BY <2>3 DEF Reject
  <2>4. CASE Round
    <3>1. added \subseteq Claim
      BY <2>4 DEF Round, added, Concluded, Firing, IsGraph, Route
    <3>. QED
      BY <2>4, <3>1 DEF Round
  <2>5. CASE Finish
    BY <2>5 DEF Finish
  <2>6. ASSUME NEW w \in SUBSET Receipt, Withdraw(w)
        PROVE  TypeOK'
    BY <2>6 DEF Withdraw
  <2>7. CASE NewEdition
    BY <2>7 DEF NewEdition
  <2>8. CASE Abandon
    BY <2>8 DEF Abandon
  <2>9. CASE Compare
    BY <2>9 DEF Compare
  <2>10. CASE UNCHANGED vars
    BY <2>10 DEF vars
  <2>. QED
    BY <2>1, <2>2, <2>3, <2>4, <2>5, <2>6, <2>7, <2>8, <2>9, <2>10 DEF Next
<1>. QED
  BY <1>1, <1>2, PTL DEF Safe
-----------------------------------------------------------------------------
(***************************************************************************)
(* The inductive invariant.                                                *)
(***************************************************************************)

\* A resolver that has stopped holds the least closed set.
LEMMA DoneIsLeast ==
  ASSUME IInv, phase = "done"
  PROVE  active = Least(graph, withdrawn) /\ Closed(graph, withdrawn, active)
  BY StoppedIsLeast DEF IInv

LEMMA InvariantStep ==
  ASSUME TypeOK, IInv, [Next]_vars
  PROVE  IInv'
<1>1. ASSUME NEW g \in Graphs, NEW w \in SUBSET Receipt, Submit(g, w)
      PROVE  IInv'
  BY <1>1 DEF Submit, IInv
<1>2. CASE Accept
  BY <1>2 DEF Accept, IInv
<1>3. CASE Reject
  BY <1>3 DEF Reject, IInv
<1>4. CASE Round
  <2>1. added \subseteq Least(graph, withdrawn)
    BY <1>4, RoundStaysLeast DEF Round, added, IInv
  <2>. QED
    BY <1>4, <2>1 DEF Round, IInv
<1>5. CASE Finish
  <2>1. Closed(graph, withdrawn, active)
    BY <1>5 DEF Finish, added, Closed
  <2>. QED
    BY <1>5, <2>1 DEF Finish, IInv
<1>6. ASSUME NEW w \in SUBSET Receipt, Withdraw(w)
      PROVE  IInv'
  <2>1. active = Least(graph, withdrawn)
    BY <1>6, DoneIsLeast DEF Withdraw
  <2>. QED
    BY <1>6, <2>1 DEF Withdraw, IInv
<1>7. CASE NewEdition
  BY <1>7 DEF NewEdition, IInv
<1>8. CASE Abandon
  BY <1>8 DEF Abandon, IInv
<1>9. CASE Compare
  BY <1>9 DEF Compare, IInv
<1>10. CASE UNCHANGED vars
  BY <1>10 DEF vars, IInv
<1>. QED
  BY <1>1, <1>2, <1>3, <1>4, <1>5, <1>6, <1>7, <1>8, <1>9, <1>10 DEF Next

THEOREM Invariant == Safe => []IInv
<1>1. Init => IInv
  BY DEF Init, IInv
<1>. QED
  BY <1>1, InvariantStep, TypeCorrect, PTL DEF Safe
-----------------------------------------------------------------------------
(***************************************************************************)
(* What the invariant yields.                                              *)
(***************************************************************************)

\* resolve_graph returns the least fixed point, whatever the graph.
THEOREM ReturnsLeastFixedPoint == Safe => []LeastFixedPoint
<1>1. IInv => LeastFixedPoint
  BY DoneIsLeast DEF LeastFixedPoint
<1>. QED
  BY <1>1, Invariant, PTL

LEMMA DoneIsRooted == IInv => NoUnrootedCycle
<1> SUFFICES ASSUME IInv, phase = "done", NEW X \in (SUBSET active) \ {{}}
             PROVE  \E r \in active_routes : r.conclusion \in X /\ r.premises \cap X = {}
  BY DEF NoUnrootedCycle
<1>. QED
  BY DoneIsLeast, LeastIsRooted DEF active_routes

\* Unrooted cycles remain UNKNOWN, whatever the graph.
THEOREM NoCycleSupportsItself == Safe => []NoUnrootedCycle
  BY DoneIsRooted, Invariant, PTL

LEMMA DoneIsBounded == TypeOK /\ IInv => OwnBoundaryReceipt
<1> SUFFICES ASSUME TypeOK, IInv, phase = "done", NEW c \in active
             PROVE  \E r \in active_routes : \E e \in Required(graph, r) \ withdrawn :
                       r.conclusion = c /\ graph.receipts[e] = graph.claims[c]
  BY DEF OwnBoundaryReceipt
<1>1. PICK r \in active_routes : r.conclusion \in {c}
  BY DoneIsRooted DEF NoUnrootedCycle
<1>2. r \in graph.routes /\ evidence_is_live(graph, withdrawn, r)
  BY DEF active_routes, Firing
<1>3. IsGraph(graph) /\ InputOK(graph, withdrawn)
  BY DEF TypeOK, IInv
<1>. QED
  BY <1>1, <1>2, <1>3, RouteNeedsOwnReceipt

\* Support never crosses a type boundary on foreign evidence alone.
THEOREM SupportStaysInBoundary == Safe => []OwnBoundaryReceipt
  BY DoneIsBounded, TypeCorrect, Invariant, PTL

\* Withdrawal only ever removes support.
THEOREM WithdrawalIsMonotone == Safe => []WithdrawalOnlyRemoves
<1>1. IInv => WithdrawalOnlyRemoves
  <2> SUFFICES ASSUME IInv, phase = "done", baseline # NoSnapshot,
                      baseline \subseteq withdrawn, NEW c \in DOMAIN graph.claims
               PROVE  States(graph, active)[c] \in {before[c], "UNKNOWN"}
    BY DEF WithdrawalOnlyRemoves
  <2>1. active \subseteq Least(graph, baseline)
    BY DoneIsLeast, WithdrawalShrinks
  <2>2. before = States(graph, Least(graph, baseline))
    BY DEF IInv
  <2>. QED
    BY <2>1, <2>2 DEF States
<1>. QED
  BY <1>1, Invariant, PTL

\* STALE marks lost support, and nothing else.
THEOREM StaleIsExact == Safe => []StaleMeansLost
<1>1. IInv => StaleMeansLost
  <2> SUFFICES ASSUME IInv, report # NoSnapshot, baseline # NoSnapshot,
                      NEW c \in DOMAIN graph.claims
               PROVE  (report[c].after = "STALE")
                        <=> c \in Least(graph, baseline) \ Least(graph, withdrawn)
    BY DEF StaleMeansLost
  <2> DEFINE old == States(graph, Least(graph, baseline))
             new == States(graph, Least(graph, withdrawn))
  <2>1. report = compare_snapshots(old, new)
    BY DoneIsLeast DEF IInv
  <2>2. DOMAIN old = DOMAIN graph.claims /\ DOMAIN new = DOMAIN graph.claims
    BY DEF States
  <2>3. report[c].after = After(old[c], new[c])
    BY <2>1, <2>2 DEF compare_snapshots
  <2>. QED
    BY <2>3 DEF After, States, Supported
<1>. QED
  BY <1>1, Invariant, PTL
\* living_warrants, "survives without new verification": between two closures of
\* one graph a claim's status differs only if the claim depends, over any number
\* of routes and relations, on a receipt whose withdrawal differs.
UnaffectedKeepStatus ==
  phase = "done" /\ baseline # NoSnapshot =>
    \A D \in SUBSET DOMAIN graph.claims :
      Dependents(graph, (baseline \ withdrawn) \cup (withdrawn \ baseline), D) =>
        \A c \in DOMAIN graph.claims \ D : States(graph, active)[c] = before[c]

\* Closing again leaves alone what does not depend on the change.
THEOREM UnaffectedIsKept == Safe => []UnaffectedKeepStatus
<1>1. IInv => UnaffectedKeepStatus
  <2> SUFFICES ASSUME IInv, phase = "done", baseline # NoSnapshot,
                      NEW D \in SUBSET DOMAIN graph.claims,
                      Dependents(graph, (baseline \ withdrawn) \cup (withdrawn \ baseline), D),
                      NEW c \in DOMAIN graph.claims \ D
               PROVE  States(graph, active)[c] = before[c]
    BY DEF UnaffectedKeepStatus
  <2>1. InputOK(graph, withdrawn) /\ active = Least(graph, withdrawn)
    BY DoneIsLeast DEF IInv
  <2>2. Least(graph, withdrawn) \subseteq Least(graph, baseline) \cup D
    BY <2>1, LeastIsLocal
  <2>3. Dependents(graph, (withdrawn \ baseline) \cup (baseline \ withdrawn), D)
    BY DEF Dependents
  <2>4. Least(graph, baseline) \subseteq Least(graph, withdrawn) \cup D
    BY <2>1, <2>3, LeastIsLocal
  <2>5. before = States(graph, Least(graph, baseline))
    BY DEF IInv
  <2>. QED
    BY <2>1, <2>2, <2>4, <2>5 DEF States
<1>. QED
  BY <1>1, Invariant, PTL
-----------------------------------------------------------------------------
(***************************************************************************)
(* The loop of resolve_graph has no bound of its own. Its steps do: each   *)
(* round adds a claim.                                                     *)
(***************************************************************************)

\* How many steps a call may still take: its rounds, the one that adds
\* nothing, and the validation.
StepsLeft ==
  CASE phase = "submitted" -> Cardinality(DOMAIN graph.claims) + 2
    [] phase = "closing"   -> Cardinality(DOMAIN graph.claims \ active) + 1
    [] OTHER               -> 0

\* Until a call has returned or raised, every step lowers what it has left.
CallIsBounded == [][StepsLeft > 0 => StepsLeft' < StepsLeft]_vars

LEMMA RoundAddsClaims ==
  ASSUME TypeOK, IInv, IsFiniteSet(Claim), Round
  PROVE  /\ StepsLeft \in Nat /\ StepsLeft' \in Nat
         /\ StepsLeft' < StepsLeft
<1> DEFINE Left == DOMAIN graph.claims \ active
<1>1. graph' = graph /\ phase = "closing" /\ phase' = "closing" /\ active' = active \cup added
  BY DEF Round
<1>2. IsFiniteSet(Left)
  BY <1>1, FS_Subset DEF TypeOK, IsGraph
<1>3. PICK c \in added : TRUE
  BY DEF Round
<1>4. c \in Left
  BY <1>1, <1>3, ConclusionsAreClaims DEF added, IInv
<1>5. Left' \subseteq Left \ {c}
  BY <1>1, <1>3
<1>6. Cardinality(Left \ {c}) = Cardinality(Left) - 1 /\ IsFiniteSet(Left \ {c})
  BY <1>2, <1>4, FS_RemoveElement
<1>7. Cardinality(Left') <= Cardinality(Left \ {c}) /\ IsFiniteSet(Left')
  BY <1>5, <1>6, FS_Subset
<1>8. Cardinality(Left) \in Nat /\ Cardinality(Left') \in Nat
  BY <1>2, <1>7, FS_CardinalityType
<1>9. StepsLeft = Cardinality(Left) + 1 /\ StepsLeft' = Cardinality(Left') + 1
  BY <1>1 DEF StepsLeft
<1>. QED
  BY <1>6, <1>7, <1>8, <1>9

\* Once submitted, a call of resolve_graph takes at most two steps more than the
\* graph has claims, whatever the routes.
THEOREM CallsEnd ==
  ASSUME IsFiniteSet(Claim)
  PROVE  Safe => CallIsBounded
<1>1. ASSUME TypeOK, IInv, [Next]_vars, StepsLeft > 0
      PROVE  StepsLeft' < StepsLeft \/ UNCHANGED vars
  <2>1. CASE phase \notin {"submitted", "closing"}
    BY <1>1, <2>1 DEF StepsLeft
  <2>2. CASE phase \in {"submitted", "closing"}
    <3>1. \/ Accept \/ Reject \/ Round \/ Finish \/ UNCHANGED vars
      BY <1>1, <2>2 DEF Next, Submit, Withdraw, NewEdition, Abandon, Compare
    <3>2. /\ IsFiniteSet(DOMAIN graph.claims) /\ Cardinality(DOMAIN graph.claims) \in Nat
          /\ Cardinality(DOMAIN graph.claims \ active) \in Nat
          /\ Cardinality(DOMAIN graph.claims \ active) <= Cardinality(DOMAIN graph.claims)
      <4>1. DOMAIN graph.claims \subseteq Claim
        BY <1>1, <2>2 DEF TypeOK, IsGraph
      <4>. QED
        BY <4>1, FS_Subset, FS_CardinalityType
    <3>3. CASE Accept
      BY <3>2, <3>3 DEF Accept, StepsLeft
    <3>4. CASE Reject
      BY <3>2, <3>4 DEF Reject, StepsLeft
    <3>5. CASE Round
      BY <1>1, <3>5, RoundAddsClaims
    <3>6. CASE Finish
      BY <3>2, <3>6 DEF Finish, StepsLeft
    <3>. QED
      BY <3>1, <3>3, <3>4, <3>5, <3>6
  <2>. QED
    BY <2>1, <2>2
<1>2. TypeOK /\ IInv /\ [Next]_vars => [StepsLeft > 0 => StepsLeft' < StepsLeft]_vars
  BY <1>1
<1>. QED
  BY <1>2, TypeCorrect, Invariant, PTL DEF Safe, CallIsBounded
-----------------------------------------------------------------------------
(***************************************************************************)
(* Refinement: the rounds stutter, Finish is Answer, Reject is Refuse, and *)
(* the caller's steps are Ask and Forget.                                  *)
(***************************************************************************)

\* Both modules read the inputs with the same definitions.
LEMMA SameInputs ==
  ASSUME NEW g, NEW w
  PROVE  /\ Promise!IsGraph(g) <=> IsGraph(g)
         /\ Promise!InputOK(g, w) <=> InputOK(g, w)
         /\ Promise!Least(g, w) = Least(g, w)
<1>1. Promise!IsGraph(g) <=> IsGraph(g)
  BY DEF IsGraph, Boundary, Kind, Route, QualifiedRelation,
         Promise!IsGraph, Promise!Boundary, Promise!Kind, Promise!Route,
         Promise!QualifiedRelation
<1>2. Promise!InputOK(g, w) <=> InputOK(g, w)
  BY DEF InputOK, RouteOK, KnownParts, BridgeFits, WithinBoundary, Allowed, RelationOK,
         Promise!InputOK, Promise!RouteOK, Promise!KnownParts, Promise!BridgeFits,
         Promise!WithinBoundary, Promise!Allowed, Promise!RelationOK
<1>3. Promise!Least(g, w) = Least(g, w)
  BY DEF Least, Closed, Concluded, Firing, evidence_is_live, Required,
         Promise!Least, Promise!Closed, Promise!Concluded, Promise!Firing,
         Promise!evidence_is_live, Promise!Required
<1>. QED
  BY <1>1, <1>2, <1>3

LEMMA PromiseStep ==
  ASSUME TypeOK, TypeOK', IInv, IInv', [Next]_vars
  PROVE  [Promise!ANext]_Promise!avars
<1> USE DEF Promise!ANext, Promise!avars
<1>1. ASSUME NEW g \in Graphs, NEW w \in SUBSET Receipt, Submit(g, w)
      PROVE  Promise!Ask
  BY <1>1, SameInputs DEF Submit, TypeOK, Promise!Ask
<1>2. CASE Accept
  BY <1>2 DEF Accept
<1>3. CASE Reject
  <2>1. Promise!Refuse
    BY <1>3, SameInputs DEF Reject, TypeOK, Promise!Refuse
  <2>. QED
    BY <2>1
<1>4. CASE Round
  BY <1>4 DEF Round
<1>5. CASE Finish
  <2>1. Closed(graph, withdrawn, active)
    BY <1>5 DEF Finish, added, Closed
  <2>2. active = Least(graph, withdrawn)
    BY <1>5, <2>1, StoppedIsLeast DEF Finish, IInv
  <2>3. Promise!Answer
    BY <1>5, <2>2, SameInputs DEF Finish, TypeOK, IInv, Promise!Answer
  <2>. QED
    BY <2>3
<1>6. ASSUME NEW w \in SUBSET Receipt, Withdraw(w)
      PROVE  Promise!Ask
  BY <1>6, SameInputs DEF Withdraw, TypeOK, Promise!Ask
<1>7. CASE NewEdition
  <2>1. Promise!Forget
    BY <1>7 DEF NewEdition, Promise!Forget
  <2>. QED
    BY <2>1
<1>8. CASE Abandon
  <2>1. Promise!Forget
    BY <1>8 DEF Abandon, Promise!Forget
  <2>. QED
    BY <2>1
<1>9. CASE Compare
  BY <1>9 DEF Compare
<1>10. CASE UNCHANGED vars
  BY <1>10 DEF vars
<1>. QED
  BY <1>1, <1>2, <1>3, <1>4, <1>5, <1>6, <1>7, <1>8, <1>9, <1>10 DEF Next

\* The resolver implements the abstract promise, its fairness apart.
THEOREM ImplementsPromise == Safe => Promise!ASafe
<1>1. Init => Promise!AInit
  BY DEF Init, Promise!AInit
<1>. QED
  BY <1>1, PromiseStep, TypeCorrect, Invariant, PTL DEF Safe, Promise!ASafe
=============================================================================
