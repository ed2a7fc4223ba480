---------------------------- MODULE StreamedStage ----------------------------
(* One stage of the pipeline validator: a child process, whose own stage     *)
(* timer (StageTimer in mathgraph/progress.py) runs a heartbeat thread, and  *)
(* the loop that streams its output (stream_subprocess). The children that   *)
(* report (scripts/discover_mathgraph_assets.py and                          *)
(* scripts/run_real_chewing_smoke.py) write their file in place.             *)
EXTENDS Naturals, Sequences

CONSTANTS
    Absent,      \* no file, no result
    Torn,        \* a file that was opened for writing and not written
    HasTimeout,  \* whether --timeout-sec is given
    MaxLines,    \* bound on the lines a child prints
    MaxBeats     \* bound on the heartbeats of a child's stage

ASSUME StageAssumption ==
    HasTimeout \in BOOLEAN /\ MaxLines \in Nat /\ MaxBeats \in Nat

VARIABLES
    stage,    \* the stage that is running
    child,    \* its process: where it is, return code, lines printed
    thread,   \* the heartbeat thread of the child's stage timer
    gaveUp,   \* whether the timer's join gave up waiting for that thread
    events,   \* the progress log of the child
    stream,   \* the streaming loop: where it is, lines passed on, its clock
    late,     \* whether the time given to the stage has passed
    reports   \* the report file of each stage that writes one

stageVars == <<stage, child, thread, gaveUp, events, stream, late, reports>>

Reporting == {"asset_discovery", "real_chewing_smoke", "fallback_chewing_smoke"}
Stages == {"git_status", "pip_install_editable", "pytest"} \cup Reporting
NoStage == "none"

Report == [run : Nat, missing : BOOLEAN, ok : BOOLEAN, synthetic : BOOLEAN]

ChildPlaces == {"staged", "leaving", "failing", "working", "writing", "printing",
                "closed", "exited"}
Nobody == [place |-> "exited", rc |-> 0, sent |-> 0]
Quiet == [place |-> "over", got |-> 0, overdue |-> FALSE, timed_out |-> FALSE]

StageInit ==
    /\ stage = NoStage /\ child = Nobody /\ stream = Quiet
    /\ thread = "none" /\ gaveUp = FALSE /\ events = <<>> /\ late = FALSE
    /\ reports = [s \in Reporting |-> Absent]

\* Popen. A reporting child begins with a stage of its own, and its timer
\* starts the heartbeat thread, unless --heartbeat-sec is zero.
Spawn(s, heartbeats) ==
    /\ stage = NoStage /\ stage' = s
    /\ child' = [place |-> IF s \in Reporting THEN "staged" ELSE "working", rc |-> 0, sent |-> 0]
    /\ thread' = IF s \in Reporting /\ heartbeats THEN "waiting" ELSE "none"
    /\ events' = IF s \in Reporting THEN <<"stage_start">> ELSE <<>>
    /\ stream' = [place |-> "read", got |-> 0, overdue |-> FALSE, timed_out |-> FALSE]
    /\ late' = FALSE /\ gaveUp' = FALSE /\ UNCHANGED reports

-----------------------------------------------------------------------------
(* The child.                                                                *)

In(places) == stage # NoStage /\ child.place \in places
Closed == stage # NoStage /\ child.place \in {"closed", "exited"}
\* The heartbeat thread is a daemon, which ends with its process.
Move(to, rc) ==
    /\ child' = [child EXCEPT !.place = to, !.rc = rc]
    /\ thread' = IF to = "exited" THEN "none" ELSE thread

Prints ==
    /\ In({"staged", "working", "printing"}) /\ child.sent < MaxLines
    /\ child' = [child EXCEPT !.sent = @ + 1]
    /\ UNCHANGED <<stage, thread, gaveUp, events, stream, late, reports>>

\* __exit__, with or without an exception, tells the thread to stop, ...
LeaveStage ==
    /\ In({"staged"})
    /\ \E to \in {"leaving", "failing"} : Move(to, 0)
    /\ UNCHANGED <<stage, gaveUp, events, stream, late, reports>>

Outcome == IF child.place = "leaving" THEN <<"stage_end", "stage_done">>
                                      ELSE <<"stage_error", "stage_failed">>

\* ... joins it for a second, and logs the outcome. An exception goes on up.
StageDone ==
    /\ In({"leaving", "failing"})
    /\ gaveUp' = (thread \in {"waiting", "writing"})
    /\ events' = events \o Outcome
    /\ IF child.place = "leaving" THEN Move("working", 0) ELSE Move("closed", 1)
    /\ UNCHANGED <<stage, stream, late, reports>>

\* _heartbeat_loop: the wait either times out, or finds the stop flag set.
Beats == Len(SelectSeq(events, LAMBDA e : e = "heartbeat"))
HeartbeatLoop ==
    /\ \/ /\ thread = "waiting" /\ child.place = "staged" /\ Beats < MaxBeats
          /\ thread' = "writing" /\ UNCHANGED events
       \/ /\ thread = "writing" /\ thread' = "waiting"
          /\ events' = Append(events, "heartbeat")
       \/ /\ thread = "waiting" /\ child.place # "staged"
          /\ thread' = "stopped" /\ UNCHANGED events
    /\ UNCHANGED <<stage, child, gaveUp, stream, late, reports>>

OpensReport ==
    /\ In({"working"}) /\ stage \in Reporting /\ Move("writing", 0)
    /\ reports' = [reports EXCEPT ![stage] = Torn]
    /\ UNCHANGED <<stage, gaveUp, events, stream, late>>

\* What a stage may report. Without the assets the real smoke writes the empty
\* report; the fallback may replace them, but for lack of tasks only.
MayReport(s, r) ==
    CASE s = "asset_discovery"        -> r.ok /\ ~r.missing /\ ~r.synthetic
      [] s = "real_chewing_smoke"     -> ~r.synthetic /\ (r.missing => ~r.ok)
      [] s = "fallback_chewing_smoke" -> r.ok => (~r.missing \/ r.synthetic)

WritesReport(run) ==
    /\ In({"writing"})
    /\ \E missing, ok, synthetic \in BOOLEAN :
          LET r == [run |-> run, missing |-> missing, ok |-> ok, synthetic |-> synthetic] IN
          /\ MayReport(stage, r)
          /\ reports' = [reports EXCEPT ![stage] = r]
          /\ Move("printing", IF stage = "real_chewing_smoke" /\ ~ok THEN 1 ELSE 0)
    /\ UNCHANGED <<stage, gaveUp, events, stream, late>>

\* Its stdout is closed some time before the process is gone, and not at all
\* if it hangs.
Closes ==
    /\ \/ In({"printing"}) /\ Move("closed", child.rc)
       \/ In({"working"}) /\ stage \notin Reporting /\ (\E rc \in {0, 1} : Move("closed", rc))
    /\ UNCHANGED <<stage, gaveUp, events, stream, late, reports>>

Exits ==
    /\ In({"closed"}) /\ Move("exited", child.rc)
    /\ UNCHANGED <<stage, gaveUp, events, stream, late, reports>>

\* It raises outside of its stages, or is killed by a signal.
Dies ==
    /\ In(ChildPlaces \ {"exited"}) /\ Move("exited", 1)
    /\ UNCHANGED <<stage, gaveUp, events, stream, late, reports>>

Clock ==
    /\ stage # NoStage /\ ~late /\ late' = TRUE
    /\ UNCHANGED <<stage, child, thread, gaveUp, events, stream, reports>>

Child(run) ==
    \/ Prints \/ LeaveStage \/ StageDone \/ HeartbeatLoop
    \/ OpensReport \/ WritesReport(run) \/ Closes \/ Exits \/ Dies

-----------------------------------------------------------------------------
(* stream_subprocess.                                                        *)

\* Mutant: the deadline is looked at without waiting for the end of the output.
ReadLine_Deadline ==
    /\ stage # NoStage /\ stream.place = "read"
    /\ \/ /\ stream.got < child.sent
          /\ stream' = [stream EXCEPT !.got = @ + 1]
       \/ /\ Closed \/ late
          /\ stream' = [stream EXCEPT !.place = "poll", !.overdue = late]
    /\ UNCHANGED <<stage, child, thread, gaveUp, events, late, reports>>

\* readline blocks until there is a line, which is passed on, or the output
\* has ended; then the clock is read.
ReadLine ==
    /\ stage # NoStage /\ stream.place = "read"
    /\ \/ /\ stream.got < child.sent
          /\ stream' = [stream EXCEPT !.got = @ + 1]
       \/ /\ stream.got = child.sent /\ Closed
          /\ stream' = [stream EXCEPT !.place = "poll", !.overdue = late]
    /\ UNCHANGED <<stage, child, thread, gaveUp, events, late, reports>>

Poll ==
    /\ stage # NoStage /\ stream.place = "poll"
    /\ stream' = [stream EXCEPT !.place = IF child.place = "exited" THEN "wait" ELSE "check"]
    /\ UNCHANGED <<stage, child, thread, gaveUp, events, late, reports>>

\* Mutant: a child that is late is left alone.
CheckTime_Never ==
    /\ stage # NoStage /\ stream.place = "check"
    /\ stream' = [stream EXCEPT !.place = "read"]
    /\ UNCHANGED <<stage, child, thread, gaveUp, events, late, reports>>

CheckTime ==
    /\ stage # NoStage /\ stream.place = "check"
    /\ stream' = IF HasTimeout /\ stream.overdue
                 THEN [stream EXCEPT !.place = "kill", !.timed_out = TRUE]
                 ELSE [stream EXCEPT !.place = "read"]
    /\ UNCHANGED <<stage, child, thread, gaveUp, events, late, reports>>

\* The child may have exited since it was polled: its return code stands.
Kill ==
    /\ stage # NoStage /\ stream.place = "kill"
    /\ IF child.place = "exited" THEN UNCHANGED <<child, thread>> ELSE Move("exited", 1)
    /\ stream' = [stream EXCEPT !.place = "wait"]
    /\ UNCHANGED <<stage, gaveUp, events, late, reports>>

Wait ==
    /\ stage # NoStage /\ stream.place = "wait" /\ child.place = "exited"
    /\ stream' = [stream EXCEPT !.place = "over"]
    /\ UNCHANGED <<stage, child, thread, gaveUp, events, late, reports>>

Loop == ReadLine \/ Poll \/ CheckTime \/ Kill \/ Wait

\* The stage is over, or the run is: nothing of it is left but its files.
Forget ==
    /\ stage' = NoStage /\ child' = Nobody /\ stream' = Quiet
    /\ thread' = "none" /\ gaveUp' = FALSE /\ events' = <<>> /\ late' = FALSE
    /\ UNCHANGED reports
=============================================================================
