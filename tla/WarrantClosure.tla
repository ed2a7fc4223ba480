--------------------------- MODULE WarrantClosure ---------------------------
(***************************************************************************)
(* What warrant resolution promises its caller, with no algorithm: a       *)
(* request names a graph and the receipts withdrawn from it, and is either *)
(* refused because the graph is invalid or answered with the least set of  *)
(* claims closed under the live routes.                                    *)
(***************************************************************************)
EXTENDS WarrantGraph

CONSTANT NoGraph        \* no request is outstanding

VARIABLES
  requested,            \* the graph asked about, or NoGraph
  removed,              \* the receipts withdrawn in the request
  verdict               \* "none", "refused" or "answered"
VARIABLE warranted      \* the claims the answer supports

avars == <<requested, removed, verdict, warranted>>

AInit ==
  /\ requested = NoGraph
  /\ removed = {}
  /\ verdict = "none"
  /\ warranted = {}

Ask ==
  /\ requested = NoGraph \/ verdict # "none"
  /\ requested' # NoGraph
  /\ IsGraph(requested')
  /\ removed' \in SUBSET Receipt
  /\ verdict' = "none"
  /\ warranted' = {}

Answer ==
  /\ requested # NoGraph
  /\ verdict = "none"
  /\ InputOK(requested, removed)
  /\ verdict' = "answered"
  /\ warranted' = Least(requested, removed)
  /\ UNCHANGED <<requested, removed>>

Refuse ==
  /\ requested # NoGraph
  /\ verdict = "none"
  /\ ~InputOK(requested, removed)
  /\ verdict' = "refused"
  /\ UNCHANGED <<requested, removed, warranted>>

Forget ==
  /\ verdict # "none"
  /\ requested' = NoGraph
  /\ removed' = {}
  /\ verdict' = "none"
  /\ warranted' = {}

ANext == Ask \/ Answer \/ Refuse \/ Forget

ASafe == AInit /\ [][ANext]_avars
ASpec == ASafe /\ WF_avars(Answer \/ Refuse)
=============================================================================
