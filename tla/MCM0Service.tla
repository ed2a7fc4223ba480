---------------------------- MODULE MCM0Service ----------------------------
(***************************************************************************)
(* Instances of M0Service: two callers on two refutable pairs, with and    *)
(* without a pair the warehouse already certifies, and episodes that repeat*)
(* a pair. A search that is bounded too low finds nothing for either pair. *)
(***************************************************************************)
EXTENDS M0Service

CONSTANTS
  c1, c2,       \* callers
  p, q,         \* refutable pairs
  w             \* a pair the warehouse certifies

MCCaller == {c1, c2}
TwoPairs == {p, q}
ThreePairs == {p, q, w}
CertifiedPairs == {w}
OneEach == {<<p, q>>}
KnownAndRepeats == {<<p, p>>, <<p, q>>, <<w, p>>}
=============================================================================
