--------------------------- MODULE MCReasonAtlas ---------------------------
(* ReasonAtlas for TLC. Processes are alike and entries are alike, so their  *)
(* permutations are a symmetry of the runs that check invariants only.       *)
EXTENDS ReasonAtlas, TLC

CONSTANTS l1, l2, e1, e2

OneLoop == {l1}
TwoLoops == {l1, l2}
OneEntry == {e1}
TwoEntries == {e1, e2}
Symmetry == Permutations(Loops) \cup Permutations(Entries)
=============================================================================
