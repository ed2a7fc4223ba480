------------------------------ MODULE DigestLog ------------------------------
(* What the digest Lawbook promises of the details of its runs: a run enters *)
(* them whole, in one step and at most once, nothing leaves them, and a      *)
(* constructor counts the trials at which it verified.                       *)
EXTENDS DigestRun

VARIABLES
    log,            \* the runs that are on record
    observations, edges, attempts, obstructions,   \* their rows
    counts          \* how often each constructor has been verified

vars == <<log, observations, edges, attempts, obstructions, counts>>

Init ==
    /\ log = {} /\ observations = {} /\ edges = {} /\ attempts = {} /\ obstructions = {}
    /\ counts = [c \in Constructors |-> 0]

Record(d) ==
    /\ \A e \in log : e.run # d.run
    /\ log' = log \cup {d}
    /\ observations' = observations \cup Observations(d)
    /\ edges' = edges \cup Edges(d)
    /\ attempts' = attempts \cup Attempts(d)
    /\ obstructions' = obstructions \cup Obstructions(d)
    /\ counts' = [c \in Constructors |-> counts[c] + Yield(d, c)]

Next == \E d \in log' : d \in Payloads /\ Record(d)

Spec == Init /\ [][Next]_vars
=============================================================================
