--------------------------- MODULE MCLawbookMemory ---------------------------
(* Small instances of LawbookMemory.                                         *)
EXTENDS LawbookMemory

CONSTANTS r1, r2, t1, t2, m

\* Two episodes of one task, and one of both tasks.
TwoThenOne == [r \in {r1, r2} |-> IF r = r1 THEN 2 ELSE 1]
OneTaskAndBoth ==
    [r \in {r1, r2} |-> IF r = r1 THEN {<<<<m, t1>>>>}
                                  ELSE {<<<<m, t1>>, <<m, t2>>>>}]

\* One episode of one task.
OneEpisode == [r \in {r1} |-> 1]
OneTask == [r \in {r1} |-> {<<<<m, t1>>>>}]
=============================================================================
