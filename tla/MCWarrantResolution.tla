------------------------ MODULE MCWarrantResolution ------------------------
(***************************************************************************)
(* Instances of WarrantResolution: every graph of at most MaxRoutes routes *)
(* drawn from a pool that holds cycles, alternative justifications, an     *)
(* adapter from documents to a formal claim, and each kind of invalid      *)
(* route, over one admitted and one unqualified adapter.                   *)
(***************************************************************************)
EXTENDS WarrantResolution, Integers, FiniteSets, TLC

CONSTANTS
  a, b, d,              \* two formal claims and a documentary one
  f1, f2, e1, x,        \* two formal receipts, a documentary one, one out of scope
  bridge,               \* the relation
  s, t,                 \* two scopes
  MaxRoutes             \* how many routes a graph may have

MCClaim == {a, b, d}
MCReceipt == {f1, f2, e1, x}
MCRelation == {bridge}
MCScope == {s, t}

Formal(sc) == [kind |-> "formal", scope |-> sc]
Documentary(sc) == [kind |-> "documentary", scope |-> sc]

MkRoute(c, ev, pr, rel) ==
  [conclusion |-> c, evidence |-> ev, premises |-> pr, relation |-> rel]

Adapted == MkRoute(a, {e1}, {d}, bridge)

ValidRoutes ==
  { MkRoute(a, {f1}, {}, NoRelation),      \* a rooted justification
    MkRoute(a, {f2}, {b}, NoRelation),     \* a and b justify each other
    MkRoute(b, {f2}, {a}, NoRelation),
    MkRoute(b, {f1, f2}, {}, NoRelation),  \* an alternative for b
    MkRoute(b, {f1}, {b}, NoRelation),     \* b justifies itself
    MkRoute(d, {e1}, {}, NoRelation),
    Adapted }

InvalidRoutes ==
  { MkRoute(a, {e1}, {}, NoRelation),      \* a document for a formal claim
    MkRoute(d, {x}, {}, NoRelation),       \* a receipt of another scope
    MkRoute(b, {}, {}, NoRelation),        \* no evidence
    MkRoute(b, {f1}, {d}, NoRelation),     \* a premise across the boundary
    MkRoute(b, {f2}, {d}, bridge) }        \* not the route the relation checked

RouteSets ==
  {R \in SUBSET (ValidRoutes \cup InvalidRoutes) :
     /\ Cardinality(R) <= MaxRoutes
     /\ R \cap InvalidRoutes # {} => Cardinality(R) <= 2}

\* The admitted adapter, and one whose verifier is not formal at its target.
Adapter(verifier) ==
  [source |-> Documentary(s), target |-> Formal(s), verifier |-> verifier,
   evidence |-> {f2}, checked_route |-> Adapted]

Claims == a :> Formal(s) @@ b :> Formal(s) @@ d :> Documentary(s)
Receipts(R) ==
  [r \in R |-> CASE r = e1 -> Documentary(s) [] r = x -> Formal(t) [] OTHER -> Formal(s)]

Graph(R, relations) ==
  [claims |-> Claims, receipts |-> Receipts({f1, f2, e1, x}),
   relations |-> relations, routes |-> R]

\* A later edition of the catalogue in which one claim is gone.
SmallGraph ==
  [claims |-> [c \in {a, b} |-> Formal(s)], receipts |-> Receipts({f1, f2}),
   relations |-> << >>,
   routes |-> {MkRoute(a, {f1}, {}, NoRelation), MkRoute(b, {f2}, {a}, NoRelation)}]

MCGraphs ==
  {Graph(R, bridge :> Adapter(f1)) : R \in RouteSets}
    \cup {Graph({Adapted}, bridge :> Adapter(x)), SmallGraph}
=============================================================================
