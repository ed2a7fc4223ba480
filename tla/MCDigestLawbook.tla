-------------------------- MODULE MCDigestLawbook --------------------------
(* DigestLawbook for TLC. The seed config names one target and its basin; a  *)
(* scheduled one, whose packs name no basin, comes to that target twice and  *)
(* to another basin for it; a third names the other target in that basin,    *)
(* where they share a constructor; and a scheduled one may be empty.         *)
EXTENDS DigestLawbook, TLC

CONSTANTS p1, p2, t1, t2, simp, seeded, inferred, refs

TwoProcesses == {p1, p2}
TwoTargets == {t1, t2}
OneTemplate == {simp}
TwoBasins == {seeded, inferred}
OneRefs == {refs}
InEachBasin == [b \in TwoBasins |-> OneTemplate]
OneBody(m, t, r) == m
Seed == [names |-> <<t1>>, basin |-> [t \in TwoTargets |-> seeded]]
Scheduled == [names |-> <<t1, t1>>, basin |-> [t \in TwoTargets |-> inferred]]
Other == [names |-> <<t2>>, basin |-> [t \in TwoTargets |-> inferred]]
Empty == [names |-> <<>>, basin |-> [t \in TwoTargets |-> seeded]]
FourConfigs == {Seed, Scheduled, Other, Empty}
Symmetry == Permutations(Processes)
=============================================================================
