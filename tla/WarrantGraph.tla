---------------------------- MODULE WarrantGraph ----------------------------
(***************************************************************************)
(* The inputs of resolve_graph (mathgraph_check/warrant_resolution.py):    *)
(* claims and receipts inside a typed boundary, routes that justify a      *)
(* claim, and qualified relations that admit one route across a boundary;  *)
(* the checks the function makes before it computes anything, and what it  *)
(* means for a set of claims to be closed under the live routes.           *)
(*                                                                         *)
(* The code's sequences are sets and functions here: the order of evidence *)
(* and premises inside a route, and the duplicate-identifier errors that a *)
(* set cannot express, are abstracted away.                                *)
(***************************************************************************)
CONSTANTS
  Claim,        \* identifiers of claims
  Receipt,      \* identifiers of receipts
  Relation,     \* identifiers of qualified relations
  Scope,        \* scopes claims and receipts are bounded to
  NoRelation,   \* Route.relation = None
  Graphs        \* the graphs callers may submit

Kind == {"formal", "documentary"}
Boundary == [kind : Kind, scope : Scope]

Route == [conclusion : Claim, evidence : SUBSET Receipt,
          premises : SUBSET Claim, relation : Relation \cup {NoRelation}]

QualifiedRelation ==
  [source : Boundary, target : Boundary, verifier : Receipt,
   evidence : (SUBSET Receipt) \ {{}}, checked_route : Route]

\* What the constructors of Claim, Receipt, Route and QualifiedRelation admit.
IsGraph(g) ==
  /\ DOMAIN g.claims \subseteq Claim
  /\ \A c \in DOMAIN g.claims : g.claims[c] \in Boundary
  /\ DOMAIN g.receipts \subseteq Receipt
  /\ \A e \in DOMAIN g.receipts : g.receipts[e] \in Boundary
  /\ DOMAIN g.relations \subseteq Relation
  /\ \A b \in DOMAIN g.relations : g.relations[b] \in QualifiedRelation
  /\ g.routes \subseteq Route

ASSUME GraphsAssumption == \A g \in Graphs : IsGraph(g)
ASSUME NoRelationAssumption == NoRelation \notin Relation
-----------------------------------------------------------------------------
(***************************************************************************)
(* Validation. Inactive routes are validated too, so that an invalid graph *)
(* fails closed.                                                           *)
(***************************************************************************)
KnownParts(g, r) ==
  /\ r.conclusion \in DOMAIN g.claims
  /\ r.evidence # {}
  /\ r.evidence \subseteq DOMAIN g.receipts
  /\ r.premises \subseteq DOMAIN g.claims

\* A relation serves exactly the route it was checked for, at its own target.
BridgeFits(g, r) ==
  r.relation # NoRelation =>
    /\ r.relation \in DOMAIN g.relations
    /\ g.relations[r.relation].target = g.claims[r.conclusion]
    /\ g.relations[r.relation].checked_route = r

Allowed(g, r) ==
  {g.claims[r.conclusion]}
    \cup (IF r.relation = NoRelation THEN {} ELSE {g.relations[r.relation].source})

\* Mutant: only premises are held to the boundary, receipts are not.
WithinBoundary_PremisesOnly(g, r) ==
  \A p \in r.premises : g.claims[p] \in Allowed(g, r)

WithinBoundary(g, r) ==
  /\ \A e \in r.evidence : g.receipts[e] \in Allowed(g, r)
  /\ \A p \in r.premises : g.claims[p] \in Allowed(g, r)

RouteOK(g, r) == KnownParts(g, r) /\ BridgeFits(g, r) /\ WithinBoundary(g, r)

RelationOK(g, b) ==
  /\ b.verifier \in DOMAIN g.receipts
  /\ b.evidence \subseteq DOMAIN g.receipts
  /\ g.receipts[b.verifier] = [kind |-> "formal", scope |-> b.target.scope]
  /\ \A e \in b.evidence : g.receipts[e] = b.target

InputOK(g, w) ==
  /\ w \subseteq DOMAIN g.receipts
  /\ \A r \in g.routes : RouteOK(g, r)
  /\ \A b \in DOMAIN g.relations : RelationOK(g, g.relations[b])
-----------------------------------------------------------------------------
(***************************************************************************)
(* Routes that carry support. Withdrawing the verifier or any evidence of  *)
(* a relation disables every route that uses it.                           *)
(***************************************************************************)
Required(g, r) ==
  r.evidence
    \cup (IF r.relation = NoRelation THEN {}
          ELSE {g.relations[r.relation].verifier} \cup g.relations[r.relation].evidence)

evidence_is_live(g, w, r) == Required(g, r) \cap w = {}

\* The routes that justify their conclusion once the claims of S are active.
Firing(g, w, S) ==
  {r \in g.routes : evidence_is_live(g, w, r) /\ r.premises \subseteq S}

Concluded(g, w, S) == {r.conclusion : r \in Firing(g, w, S)}
-----------------------------------------------------------------------------
(***************************************************************************)
(* The reference definition of the answer: what lies in every closed set.  *)
(***************************************************************************)
Closed(g, w, S) == Concluded(g, w, S) \subseteq S

Least(g, w) ==
  {c \in DOMAIN g.claims :
     \A S \in SUBSET DOMAIN g.claims : Closed(g, w, S) => c \in S}
=============================================================================
