------------------------ MODULE MCCataloguePublish ------------------------
(* CataloguePublish for TLC. All publishers are alike, so their permutations *)
(* are a symmetry of the runs, which check safety only.                      *)
EXTENDS CataloguePublish, TLC

CONSTANTS a, b, c, P, Q

OnePublisher == {a}
TwoPublishers == {a, b}
ThreePublishers == {a, b, c}
OnePublication == {P}
TwoPublications == {P, Q}
Symmetry == Permutations(Publishers) \cup Permutations(Publications)
=============================================================================
