---------------------- MODULE PipelineValidationProofs ----------------------
(* The pipeline validator, for any command lines, numbers of runs, lines and *)
(* heartbeats. IInv says what the streaming loop, the child's log and the    *)
(* validator's results have in common at each place, and is inductive.       *)
EXTENDS PipelineValidation, SequenceTheorems, TLAPS

\* The loop leaves off reading when it has read everything and no more comes.
StreamInv ==
    stream.place # "read" => stream.got = child.sent /\ child.place \in {"closed", "exited"}

\* The log: no outcome before the stage timer has come to its end, and a
\* heartbeat that is being written after that is the first one to come late.
InStage == child.place \in {"staged", "leaving", "failing"}
EndedAt(i) == i \in 1 .. Len(events) /\ events[i] \in {"stage_end", "stage_error"}
LateAt(j) == j \in 1 .. Len(events) /\ events[j] = "heartbeat" /\ \E i \in 1 .. j - 1 : EndedAt(i)
LogInv ==
    /\ InStage => \A i \in 1 .. Len(events) : ~EndedAt(i)
    /\ (~InStage /\ thread = "writing") => gaveUp /\ \A j \in 1 .. Len(events) : ~LateAt(j)
    /\ \A j \in 1 .. Len(events) : LateAt(j) => gaveUp /\ j = Len(events)

\* A stage that runs is the last in the order that was begun, and has no result.
PlaceInv ==
    /\ stage # NoStage => /\ verdict = "none" /\ done \in 1 .. 6
                          /\ stage = Order[done] /\ results[stage] = Absent
    /\ \A i \in 1 .. 6 : i > done => results[Order[i]] = Absent

\* A child has written its report when it goes on to its last output, and when
\* it ends with a return code of zero.
WroteInv ==
    /\ stage \in Reporting
    /\ child.place = "printing" \/ (child.place \in {"closed", "exited"} /\ child.rc = 0)
    => reports[stage] \in Report /\ reports[stage].run = run

\* As long as the validator runs, what was begun has its result, what must not
\* fail and did is on the list, and what was read is what was written.
ResultInv ==
    verdict = "none" =>
        /\ \A i \in 1 .. 6 : i <= done /\ Wanted(Order[i]) =>
              results[Order[i]] # Absent \/ stage = Order[i]
        /\ \A s \in Stages : results[s] # Absent /\ Fails(s, results[s]) => s \in failed
        /\ \A s \in Reporting :
              /\ found[s] # Absent => results[s] # Absent
              /\ results[s] # Absent =>
                    /\ found[s] = reports[s]
                    /\ results[s].rc = 0 => reports[s] \in Report /\ reports[s].run = run

IInv == TypeOK /\ StreamInv /\ LogInv /\ PlaceInv /\ WroteInv /\ ResultInv /\ OkIsEarned

-----------------------------------------------------------------------------
(* Types.                                                                    *)

LEMMA OrderIs ==
    /\ Len(Order) = 6
    /\ \A i \in 1 .. 6 : Order[i] \in Stages
    /\ \A i, j \in 1 .. 6 : Order[i] = Order[j] => i = j
    /\ \A s \in Stages : s # NoStage /\ \E i \in 1 .. 6 : Order[i] = s
    /\ Reporting \subseteq Stages
<1>1. /\ Len(Order) = 6 /\ Order[1] = "git_status" /\ Order[2] = "pip_install_editable"
      /\ Order[3] = "pytest" /\ Order[4] = "asset_discovery"
      /\ Order[5] = "real_chewing_smoke" /\ Order[6] = "fallback_chewing_smoke"
      BY DEF Order
<1>2. \A i \in 1 .. 6 : i \in {1, 2, 3, 4, 5, 6}  OBVIOUS
<1>3. \A i \in 1 .. 6 : Order[i] \in Stages  BY <1>1, <1>2 DEF Stages, Reporting
<1>4. \A i, j \in 1 .. 6 : Order[i] = Order[j] => i = j  BY <1>1, <1>2
<1>5. \A s \in Stages : s # NoStage /\ \E i \in 1 .. 6 : Order[i] = s
      BY <1>1 DEF Stages, Reporting, NoStage
<1> QED BY <1>1, <1>3, <1>4, <1>5 DEF Stages

\* The child's actions, by what they change.
LEMMA MoveType ==
    ASSUME TypeOK, NEW to \in ChildPlaces, NEW rc \in {0, 1}, Move(to, rc)
    PROVE  /\ child' \in [place : ChildPlaces, rc : {0, 1}, sent : 0 .. MaxLines]
           /\ child'.place = to /\ child'.rc = rc /\ child'.sent = child.sent
           /\ thread' \in {"none", "waiting", "writing", "stopped"}
           /\ thread' \in {thread, "none"} /\ to # "exited" => thread' = thread
BY DEF TypeOK, Move

LEMMA ChildType ==
    ASSUME TypeOK, Child(run), UNCHANGED mainVars
    PROVE  TypeOK'
<1> USE DEF mainVars
<1>1. CASE Prints
  <2>1. child'.sent \in 0 .. MaxLines /\ child' = [child EXCEPT !.sent = child'.sent]
        BY <1>1, StageAssumption DEF Prints, TypeOK
  <2> QED BY <1>1, <2>1 DEF Prints, TypeOK
<1>2. CASE LeaveStage
  <2>1. PICK to \in {"leaving", "failing"} : Move(to, 0)  BY <1>2 DEF LeaveStage
  <2>2. to \in ChildPlaces  BY DEF ChildPlaces
  <2> QED BY <1>2, <2>1, <2>2, MoveType DEF LeaveStage, TypeOK
<1>3. CASE StageDone
  <2>1. PICK to \in {"working", "closed"}, rc \in {0, 1} : Move(to, rc)  BY <1>3 DEF StageDone
  <2>2. to \in ChildPlaces  BY DEF ChildPlaces
  <2>3. Outcome \in Seq(Events)
    <3>1. /\ <<"stage_end", "stage_done">> \in Seq(Events)
          /\ <<"stage_error", "stage_failed">> \in Seq(Events)
          BY DEF Events
    <3> QED BY <3>1 DEF Outcome
  <2>4. events \o Outcome \in Seq(Events)  BY <2>3, ConcatProperties DEF TypeOK
  <2> QED BY <1>3, <2>1, <2>2, <2>4, MoveType DEF StageDone, TypeOK
<1>4. CASE HeartbeatLoop
  <2>1. Append(events, "heartbeat") \in Seq(Events)  BY DEF TypeOK, Events
  <2> QED BY <1>4, <2>1 DEF HeartbeatLoop, TypeOK
<1>5. CASE OpensReport
  <2>1. "writing" \in ChildPlaces /\ Move("writing", 0)  BY <1>5 DEF OpensReport, ChildPlaces
  <2>2. reports' \in [Reporting -> Report \cup {Absent, Torn}]  BY <1>5 DEF OpensReport, TypeOK
  <2> QED BY <1>5, <2>1, <2>2, MoveType DEF OpensReport, TypeOK
<1>6. CASE WritesReport(run)
  <2>1. PICK missing, ok, synthetic \in BOOLEAN, rc \in {0, 1} :
          /\ Move("printing", rc)
          /\ reports' = [reports EXCEPT ![stage] =
                [run |-> run, missing |-> missing, ok |-> ok, synthetic |-> synthetic]]
        BY <1>6 DEF WritesReport
  <2>2. "printing" \in ChildPlaces  BY DEF ChildPlaces
  <2>3. run \in Nat  BY ArgumentsAssumption DEF TypeOK
  <2>4. reports' \in [Reporting -> Report \cup {Absent, Torn}]
        BY <2>1, <2>3 DEF TypeOK, Report
  <2> QED BY <1>6, <2>1, <2>2, <2>4, MoveType DEF WritesReport, TypeOK
<1>7. CASE Closes \/ Exits \/ Dies
  <2>1. PICK to \in {"closed", "exited"}, rc \in {0, 1} : Move(to, rc)
        BY <1>7 DEF Closes, Exits, Dies, TypeOK
  <2>2. to \in ChildPlaces  BY DEF ChildPlaces
  <2> QED BY <1>7, <2>1, <2>2, MoveType DEF Closes, Exits, Dies, TypeOK
<1> QED BY <1>1, <1>2, <1>3, <1>4, <1>5, <1>6, <1>7 DEF Child

LEMMA LoopType ==
    ASSUME TypeOK, StreamInv, Loop, UNCHANGED mainVars
    PROVE  TypeOK'
<1> USE DEF mainVars
<1>1. CASE ReadLine
  <2>1. CASE stream.got < child.sent /\ stream' = [stream EXCEPT !.got = @ + 1]
    <3>1. stream.got + 1 \in 0 .. MaxLines  BY <2>1, StageAssumption DEF TypeOK
    <3> QED BY <1>1, <2>1, <3>1 DEF ReadLine, TypeOK
  <2>2. CASE stream' = [stream EXCEPT !.place = "poll", !.overdue = late]
        BY <1>1, <2>2 DEF ReadLine, TypeOK
  <2> QED BY <1>1, <2>1, <2>2 DEF ReadLine
<1>2. CASE Poll \/ CheckTime \/ Wait  BY <1>2 DEF Poll, CheckTime, Wait, TypeOK
<1>3. CASE Kill
  <2>1. "exited" \in ChildPlaces  BY DEF ChildPlaces
  <2>2. /\ child' \in [place : ChildPlaces, rc : {0, 1}, sent : 0 .. MaxLines]
        /\ thread' \in {"none", "waiting", "writing", "stopped"}
        BY <1>3, <2>1, MoveType DEF Kill, TypeOK
  <2> QED BY <1>3, <2>2 DEF Kill, TypeOK
<1> QED BY <1>1, <1>2, <1>3 DEF Loop

\* What is left of a stage that is forgotten.
LEMMA ForgetType ==
    ASSUME Forget
    PROVE  /\ stage' \in Stages \cup {NoStage}
           /\ child' \in [place : ChildPlaces, rc : {0, 1}, sent : 0 .. MaxLines]
           /\ thread' \in {"none", "waiting", "writing", "stopped"} /\ gaveUp' \in BOOLEAN
           /\ events' \in Seq(Events) /\ late' \in BOOLEAN
           /\ stream' \in [place : {"read", "poll", "check", "kill", "wait", "over"},
                           got : 0 .. MaxLines, overdue : BOOLEAN, timed_out : BOOLEAN]
<1>1. 0 \in 0 .. MaxLines  BY StageAssumption
<1>2. Nobody.place \in ChildPlaces  BY DEF Nobody, ChildPlaces
<1>3. << >> \in Seq(Events)  BY EmptySeq
<1> QED BY <1>1, <1>2, <1>3 DEF Forget, Nobody, Quiet

LEMMA MainType ==
    ASSUME TypeOK, Start \/ BeginStage \/ EndStage \/ Judge \/ Interrupt
    PROVE  TypeOK'
<1>1. CASE Start
  <2>1. run' \in 0 .. MaxRuns /\ done' \in 0 .. Len(Order)
        BY <1>1, ArgumentsAssumption, OrderIs DEF Start, TypeOK
  <2> QED BY <1>1, <2>1 DEF Start, TypeOK, stageVars, Unread, Verdicts
<1>2. CASE BeginStage
  <2>1. PICK i \in Upcoming : Spawn(Order[i], args.heartbeats) /\ done' = i
        BY <1>2 DEF BeginStage
  <2>2. i \in 1 .. 6 /\ done' \in 0 .. Len(Order)
        BY <2>1, OrderIs DEF Upcoming, TypeOK
  <2>3. Order[i] \in Stages  BY <2>2, OrderIs
  <2>4. 0 \in 0 .. MaxLines  BY StageAssumption
  <2>5. child' \in [place : ChildPlaces, rc : {0, 1}, sent : 0 .. MaxLines]
        BY <2>1, <2>4 DEF Spawn, ChildPlaces
  <2>6. events' \in Seq(Events)
    <3>1. << >> \in Seq(Events) /\ <<"stage_start">> \in Seq(Events)  BY DEF Events
    <3> QED BY <2>1, <3>1 DEF Spawn
  <2>7. stream' \in [place : {"read", "poll", "check", "kill", "wait", "over"},
                     got : 0 .. MaxLines, overdue : BOOLEAN, timed_out : BOOLEAN]
        BY <2>1, <2>4 DEF Spawn
  <2> QED BY <1>2, <2>1, <2>2, <2>3, <2>5, <2>6, <2>7 DEF BeginStage, Spawn, TypeOK
<1>3. CASE EndStage
  <2>1. stage \in Stages  BY <1>3 DEF EndStage, TypeOK
  <2>2. [rc |-> child.rc, timed_out |-> stream.timed_out] \in Result  BY DEF TypeOK, Result
  <2>3. results' \in [Stages -> Result \cup {Absent}]
        BY <1>3, <2>1, <2>2 DEF EndStage, TypeOK
  <2>4. failed' \subseteq Stages  BY <1>3, <2>1 DEF EndStage, TypeOK
  <2>5. found' \in [Reporting -> Report \cup {Absent}] /\ verdict' \in Verdicts
    <3>1. CASE stage \in Reporting /\ reports[stage] = Torn
          BY <1>3, <3>1 DEF EndStage, TypeOK, Verdicts
    <3>2. CASE ~(stage \in Reporting /\ reports[stage] = Torn)
      <4>1. \A s \in Reporting : s = stage => reports[s] \in Report \cup {Absent}
            BY <3>2 DEF TypeOK
      <4> QED BY <1>3, <3>2, <4>1 DEF EndStage, TypeOK
    <3> QED BY <3>1, <3>2
  <2>6. Forget /\ UNCHANGED <<reports, run, args, done>>  BY <1>3 DEF EndStage, Forget
  <2> QED BY <2>3, <2>4, <2>5, <2>6, ForgetType DEF TypeOK
<1>4. CASE Judge  BY <1>4 DEF Judge, TypeOK, stageVars, Verdicts
<1>5. CASE Interrupt
  <2>1. Forget /\ UNCHANGED reports /\ verdict' \in Verdicts
        BY <1>5 DEF Interrupt, Forget, Verdicts
  <2> QED BY <1>5, <2>1, ForgetType DEF Interrupt, TypeOK
<1> QED BY <1>1, <1>2, <1>3, <1>4, <1>5

-----------------------------------------------------------------------------
(* The streaming loop and the log.                                           *)

\* The stage, and what the validator knows, while a stage goes on.
GoesOn == (Loop \/ Child(run) \/ Clock) /\ UNCHANGED mainVars

LEMMA StageStays ==
    ASSUME TypeOK, GoesOn
    PROVE  /\ stage' = stage
           /\ \A s \in Reporting : s # stage => reports'[s] = reports[s]
           /\ stage = NoStage => reports' = reports
<1>1. CASE Loop
      BY <1>1 DEF Loop, ReadLine, Poll, CheckTime, Kill, Wait
<1>2. CASE Clock
      BY <1>2 DEF Clock
<1>3. CASE Child(run)
      BY <1>3 DEF Child, Prints, LeaveStage, StageDone, HeartbeatLoop, OpensReport, WritesReport,
                  Closes, Exits, Dies, In, TypeOK
<1> QED BY <1>1, <1>2, <1>3 DEF GoesOn

LEMMA NextIs ==
    ASSUME Next
    PROVE  GoesOn \/ Start \/ BeginStage \/ EndStage \/ Judge \/ Interrupt
BY DEF Next, Validator, GoesOn

LEMMA TypeStep ==
    ASSUME TypeOK, StreamInv, Next
    PROVE  TypeOK'
<1>1. CASE Clock /\ UNCHANGED mainVars
      BY <1>1 DEF Clock, mainVars, TypeOK
<1> QED BY <1>1, NextIs, ChildType, LoopType, MainType DEF GoesOn

LEMMA StreamStep ==
    ASSUME TypeOK, StreamInv, Next
    PROVE  StreamInv'
<1>1. CASE Child(run)
  <2>1. CASE stream.place = "read"
        BY <1>1, <2>1 DEF StreamInv, Child, Prints, LeaveStage, StageDone, HeartbeatLoop,
                          OpensReport, WritesReport, Closes, Exits, Dies
  <2>2. CASE child.place \in {"closed", "exited"} /\ stream.got = child.sent
    <3>1. HeartbeatLoop \/ Exits \/ Dies
          BY <1>1, <2>2 DEF Child, Prints, LeaveStage, StageDone, OpensReport, WritesReport,
                            Closes, In
    <3>2. child'.sent = child.sent /\ child'.place \in {"closed", "exited"} /\ stream' = stream
          BY <3>1, <2>2 DEF HeartbeatLoop, Exits, Dies, Move, TypeOK
    <3> QED BY <2>2, <3>2 DEF StreamInv
  <2> QED BY <2>1, <2>2 DEF StreamInv
<1>2. CASE Loop
  <2>1. CASE ReadLine
        BY <2>1 DEF ReadLine, Closed, StreamInv, TypeOK
  <2>2. CASE Poll \/ CheckTime \/ Wait
        BY <2>2 DEF Poll, CheckTime, Wait, StreamInv, TypeOK
  <2>3. CASE Kill
        BY <2>3 DEF Kill, Move, StreamInv, TypeOK
  <2> QED BY <1>2, <2>1, <2>2, <2>3 DEF Loop
<1>3. CASE Clock \/ Start \/ Judge
      BY <1>3 DEF Clock, Start, Judge, stageVars, StreamInv
<1>4. CASE BeginStage
      BY <1>4 DEF BeginStage, Spawn, StreamInv
<1>5. CASE EndStage \/ Interrupt
      BY <1>5 DEF EndStage, Interrupt, Forget, Nobody, Quiet, StreamInv
<1> QED BY <1>1, <1>2, <1>3, <1>4, <1>5, NextIs DEF GoesOn

\* Steps that log nothing.
LEMMA LogKept ==
    ASSUME LogInv, UNCHANGED <<events, gaveUp>>, InStage' => InStage,
           ~InStage' /\ thread' = "writing" => ~InStage /\ thread = "writing"
    PROVE  LogInv'
BY DEF LogInv, EndedAt, LateAt

LEMMA LogStep ==
    ASSUME TypeOK, LogInv, Next
    PROVE  LogInv'
<1>1. CASE Child(run)
  <2>1. CASE Prints
        BY <2>1, LogKept DEF Prints, InStage, TypeOK
  <2>2. CASE LeaveStage
        BY <2>2, LogKept DEF LeaveStage, In, Move, InStage, TypeOK
  <2>3. CASE OpensReport \/ WritesReport(run) \/ Closes \/ Exits \/ Dies
    <3>1. /\ child'.place \in {"writing", "printing", "closed", "exited"}
          /\ thread' = thread \/ thread' = "none"
          /\ UNCHANGED <<events, gaveUp>>
          /\ thread' = thread => child'.place # "exited" \/ thread = "none"
          BY <2>3, MoveType DEF OpensReport, WritesReport, Closes, Exits, Dies, Move, TypeOK
    <3>2. child'.place # "exited" => ~InStage
          BY <2>3, <3>1 DEF OpensReport, WritesReport, Closes, Exits, Dies, In, Move, InStage, TypeOK
    <3> QED BY <3>1, <3>2, LogKept DEF InStage
  <2>4. CASE StageDone
    <3> DEFINE n == Len(events)
    <3>1. events \in Seq(Events) /\ n \in Nat  BY DEF TypeOK
    <3>2. /\ Len(events') = n + 2
          /\ \A i \in 1 .. n : events'[i] = events[i]
          /\ events'[n + 1] # "heartbeat" /\ events'[n + 2] # "heartbeat"
      <4>1. CASE child.place = "leaving"
            BY <2>4, <3>1, <4>1 DEF StageDone, Outcome
      <4>2. CASE child.place # "leaving"
            BY <2>4, <3>1, <4>2 DEF StageDone, Outcome
      <4> QED BY <4>1, <4>2
    <3>3. \A i \in 1 .. n : ~EndedAt(i)
          BY <2>4 DEF StageDone, In, LogInv, InStage
    <3>4. \A j \in 1 .. n + 2 : j \in 1 .. n \/ j = n + 1 \/ j = n + 2
          BY <3>1
    <3>5. \A j \in 1 .. Len(events') : ~LateAt(j)'
      <4> SUFFICES ASSUME NEW j \in 1 .. n + 2, NEW i \in 1 .. j - 1,
                          events'[j] = "heartbeat", events'[i] \in {"stage_end", "stage_error"}
                   PROVE  FALSE
          BY <3>2 DEF LateAt, EndedAt
      <4>1. j \in 1 .. n /\ i \in 1 .. n  BY <3>1, <3>2, <3>4
      <4> QED BY <3>2, <3>3, <4>1 DEF EndedAt
    <3>6. child'.place \in {"working", "closed"} /\ thread' = thread
          BY <2>4 DEF StageDone, Move, TypeOK
    <3>7. thread' = "writing" => gaveUp'
          BY <2>4, <3>6 DEF StageDone
    <3> QED BY <3>5, <3>6, <3>7 DEF LogInv, InStage
  <2>5. CASE HeartbeatLoop
    <3>1. CASE thread = "writing" /\ thread' = "waiting" /\ events' = Append(events, "heartbeat")
      <4> DEFINE n == Len(events)
      <4>1. events \in Seq(Events) /\ n \in Nat  BY DEF TypeOK
      <4>2. /\ Len(events') = n + 1 /\ events'[n + 1] = "heartbeat"
            /\ \A i \in 1 .. n : events'[i] = events[i]
            BY <3>1, <4>1
      <4>3. \A j \in 1 .. n + 1 : j \in 1 .. n \/ j = n + 1  BY <4>1
      <4>4. UNCHANGED <<child, gaveUp>>  BY <2>5 DEF HeartbeatLoop
      <4>5. \A i \in 1 .. n + 1 : EndedAt(i)' => i \in 1 .. n /\ EndedAt(i)
            BY <4>2, <4>3 DEF EndedAt
      <4>6. CASE InStage
        <5>1. \A i \in 1 .. n + 1 : ~EndedAt(i)'
              BY <4>5, <4>6 DEF LogInv
        <5>2. \A j \in 1 .. n + 1 : ~LateAt(j)'
              BY <4>1, <4>2, <5>1 DEF LateAt
        <5> QED BY <3>1, <4>2, <5>1, <5>2 DEF LogInv
      <4>7. CASE ~InStage
        <5>1. gaveUp /\ \A j \in 1 .. n : ~LateAt(j)
              BY <3>1, <4>7 DEF LogInv
        <5>2. \A j \in 1 .. n : ~LateAt(j)'
          <6> SUFFICES ASSUME NEW j \in 1 .. n, NEW i \in 1 .. j - 1,
                              events'[j] = "heartbeat", EndedAt(i)'
                       PROVE  FALSE
              BY DEF LateAt
          <6>1. i \in 1 .. n + 1  BY <4>1
          <6>2. EndedAt(i) /\ events[j] = "heartbeat"  BY <4>2, <4>5, <6>1
          <6> QED BY <5>1, <6>2 DEF LateAt
        <5>3. ~InStage' /\ gaveUp' /\ thread' # "writing"
              BY <3>1, <4>4, <4>7, <5>1 DEF InStage
        <5> QED BY <4>2, <4>3, <5>2, <5>3 DEF LogInv
      <4> QED BY <4>6, <4>7
    <3>2. CASE events' = events /\ (thread' = "writing" => child.place = "staged")
          BY <2>5, <3>2, LogKept DEF HeartbeatLoop, InStage
    <3> QED BY <2>5, <3>1, <3>2 DEF HeartbeatLoop
  <2> QED BY <1>1, <2>1, <2>2, <2>3, <2>4, <2>5 DEF Child
<1>2. CASE Loop
  <2>1. CASE ReadLine \/ Poll \/ CheckTime \/ Wait
        BY <2>1, LogKept DEF ReadLine, Poll, CheckTime, Wait, InStage
  <2>2. CASE Kill
        BY <2>2, LogKept DEF Kill, Move, InStage, TypeOK
  <2> QED BY <1>2, <2>1, <2>2 DEF Loop
<1>3. CASE Clock \/ Start \/ Judge
      BY <1>3, LogKept DEF Clock, Start, Judge, stageVars, InStage
<1>4. CASE BeginStage
  <2>1. /\ events' = <<>> \/ events' = <<"stage_start">>
        /\ thread' # "writing"
        BY <1>4 DEF BeginStage, Spawn
  <2>2. \A i : ~EndedAt(i)'  BY <2>1 DEF EndedAt
  <2> QED BY <2>1, <2>2 DEF LogInv, LateAt
<1>5. CASE EndStage \/ Interrupt
  <2>1. events' = <<>> /\ thread' = "none"  BY <1>5 DEF EndStage, Interrupt, Forget
  <2> QED BY <2>1 DEF LogInv, EndedAt, LateAt
<1> QED BY <1>1, <1>2, <1>3, <1>4, <1>5, NextIs DEF GoesOn

-----------------------------------------------------------------------------
(* The reports and the results.                                              *)

LEMMA PlaceStep ==
    ASSUME TypeOK, PlaceInv, Next
    PROVE  PlaceInv'
<1>1. CASE GoesOn \/ Judge
  <2>1. stage' = stage /\ UNCHANGED <<done, results>>
        BY <1>1, StageStays DEF GoesOn, Judge, stageVars, mainVars
  <2>2. verdict' = verdict \/ stage = NoStage
        BY <1>1 DEF GoesOn, Judge, mainVars
  <2> QED BY <2>1, <2>2 DEF PlaceInv
<1>2. CASE Start
  <2>1. stage' = NoStage /\ \A s \in Stages : results'[s] = Absent
        BY <1>2 DEF Start, PlaceInv, stageVars
  <2> QED BY <2>1, OrderIs DEF PlaceInv
<1>3. CASE BeginStage
  <2>1. PICK i \in Upcoming : stage' = Order[i] /\ done' = i
        BY <1>3 DEF BeginStage, Spawn
  <2>2. i \in 1 .. 6 /\ i > done /\ done \in 0 .. 6
        BY <2>1, OrderIs DEF Upcoming, TypeOK
  <2>3. results' = results /\ verdict' = "none"  BY <1>3 DEF BeginStage
  <2>4. \A j \in 1 .. 6 : j > i => j > done  BY <2>2
  <2> QED BY <2>1, <2>2, <2>3, <2>4 DEF PlaceInv
<1>4. CASE EndStage
  <2>1. stage' = NoStage /\ done' = done  BY <1>4 DEF EndStage, Forget
  <2>2. stage = Order[done] /\ done \in 1 .. 6  BY <1>4 DEF EndStage, PlaceInv
  <2>3. \A i \in 1 .. 6 : i > done => Order[i] # stage  BY <2>2, OrderIs
  <2>4. \A s \in Stages : s # stage => results'[s] = results[s]  BY <1>4 DEF EndStage, TypeOK
  <2> QED BY <2>1, <2>3, <2>4, OrderIs DEF PlaceInv
<1>5. CASE Interrupt
      BY <1>5 DEF Interrupt, Forget, PlaceInv
<1> QED BY <1>1, <1>2, <1>3, <1>4, <1>5, NextIs

LEMMA WroteStep ==
    ASSUME TypeOK, PlaceInv, WroteInv, Next
    PROVE  WroteInv'
<1>1. CASE GoesOn
  <2>1. stage' = stage /\ run' = run  BY <1>1, StageStays DEF GoesOn, mainVars
  <2> SUFFICES ASSUME stage \in Reporting,
                      \/ child'.place = "printing"
                      \/ child'.place \in {"closed", "exited"} /\ child'.rc = 0
               PROVE  reports'[stage] \in Report /\ reports'[stage].run = run
      BY <2>1 DEF WroteInv
  <2>2. CASE WritesReport(run)
    <3>1. run \in Nat  BY ArgumentsAssumption DEF TypeOK
    <3> QED BY <2>2, <3>1 DEF WritesReport, TypeOK, Report
  <2>3. CASE OpensReport
        BY <2>3 DEF OpensReport, Move, TypeOK
  <2>4. CASE Prints
        BY <2>4 DEF Prints, WroteInv, In, TypeOK
  <2>5. CASE LeaveStage \/ Dies
    <3>1. PICK to \in {"leaving", "failing", "exited"}, rc \in {0, 1} :
             Move(to, rc) /\ (to = "exited" => rc = 1)
          BY <2>5 DEF LeaveStage, Dies
    <3>2. child'.place = to /\ child'.rc = rc  BY <3>1, MoveType DEF ChildPlaces
    <3> QED BY <3>1, <3>2
  <2>6. CASE StageDone
    <3>1. Move("working", 0) \/ Move("closed", 1)  BY <2>6 DEF StageDone
    <3>2. child'.place = "working" \/ child'.rc = 1  BY <3>1, MoveType DEF ChildPlaces
    <3>3. child'.place \in {"working", "closed"}  BY <3>1, MoveType DEF ChildPlaces
    <3> QED BY <3>2, <3>3
  <2>7. CASE HeartbeatLoop \/ Clock
        BY <2>7 DEF HeartbeatLoop, Clock, WroteInv
  <2>8. CASE Closes \/ Exits
        BY <2>8 DEF Closes, Exits, In, Move, WroteInv, TypeOK
  <2>9. CASE Loop
    <3>1. CASE ReadLine \/ Poll \/ CheckTime \/ Wait
          BY <3>1 DEF ReadLine, Poll, CheckTime, Wait, WroteInv
    <3>2. CASE Kill
      <4>1. CASE child.place = "exited"  BY <3>2, <4>1 DEF Kill, WroteInv
      <4>2. CASE child.place # "exited"
        <5>1. Move("exited", 1)  BY <3>2, <4>2 DEF Kill
        <5>2. child'.place = "exited" /\ child'.rc = 1  BY <5>1, MoveType DEF ChildPlaces
        <5> QED BY <5>2
      <4> QED BY <4>1, <4>2
    <3> QED BY <2>9, <3>1, <3>2 DEF Loop
  <2> QED BY <1>1, <2>2, <2>3, <2>4, <2>5, <2>6, <2>7, <2>8, <2>9 DEF GoesOn, Child
<1>2. CASE Start
  <2>1. stage' = NoStage  BY <1>2 DEF Start, PlaceInv, stageVars
  <2> QED BY <2>1, OrderIs DEF WroteInv
<1>3. CASE BeginStage
      BY <1>3 DEF BeginStage, Spawn, WroteInv
<1>4. CASE EndStage \/ Interrupt
  <2>1. stage' = NoStage  BY <1>4 DEF EndStage, Interrupt, Forget
  <2> QED BY <2>1, OrderIs DEF WroteInv
<1>5. CASE Judge
      BY <1>5 DEF Judge, stageVars, WroteInv
<1> QED BY <1>1, <1>2, <1>3, <1>4, <1>5, NextIs

\* Whether a stage is wanted is only known of the fallback when the smoke is over.
LEMMA WantedStays ==
    ASSUME args' = args, NEW s \in Stages,
           s = "fallback_chewing_smoke" =>
               found'["real_chewing_smoke"] = found["real_chewing_smoke"]
    PROVE  Wanted(s)' = Wanted(s)
BY DEF Wanted, Missing

LEMMA ResultStep ==
    ASSUME TypeOK, StreamInv, PlaceInv, WroteInv, ResultInv, Next
    PROVE  ResultInv'
<1>1. CASE GoesOn
  <2>1. /\ stage' = stage /\ UNCHANGED <<run, args, done, results, found, failed, verdict>>
        /\ \A s \in Reporting : s # stage => reports'[s] = reports[s]
        BY <1>1, StageStays DEF GoesOn, mainVars
  <2>2. \A s \in Stages : Wanted(s)' = Wanted(s)  BY <2>1, WantedStays
  <2>3. \A s \in Reporting : results[s] # Absent => s # stage
        BY OrderIs DEF PlaceInv
  <2>4. \A s \in Reporting : results[s] # Absent => reports'[s] = reports[s]
        BY <2>1, <2>3
  <2>5. \A s \in Stages : \A r : Fails(s, r)' = Fails(s, r)  BY DEF Fails
  <2> QED BY <2>1, <2>2, <2>4, <2>5, OrderIs DEF ResultInv
<1>2. CASE Start
  <2>1. /\ done' = 0 /\ \A s \in Stages : results'[s] = Absent
        /\ \A s \in Reporting : found'[s] = Absent
        BY <1>2 DEF Start, Unread
  <2>2. \A i \in 1 .. 6 : ~(i <= 0)  OBVIOUS
  <2> QED BY <2>1, <2>2, OrderIs DEF ResultInv
<1>3. CASE BeginStage
  <2>1. PICK i \in Upcoming : /\ \A j \in Upcoming : i <= j
                              /\ stage' = Order[i] /\ done' = i
        BY <1>3 DEF BeginStage, Spawn
  <2>2. UNCHANGED <<run, args, results, found, failed, verdict, reports>> /\ verdict = "none"
        BY <1>3 DEF BeginStage, Spawn
  <2>3. \A s \in Stages : Wanted(s)' = Wanted(s)  BY <2>2, WantedStays
  <2>4. ASSUME NEW j \in 1 .. 6, j <= i, Wanted(Order[j]), j # i
        PROVE  results[Order[j]] # Absent
    <3>1. j <= done
      <4>1. i \in 1 .. 6 /\ done \in 0 .. 6  BY <2>1, OrderIs DEF Upcoming, TypeOK
      <4>2. j > done => j \in Upcoming  BY <2>4, <4>1, OrderIs DEF Upcoming
      <4>3. j \notin Upcoming  BY <2>1, <2>4, <4>1
      <4> QED BY <4>1, <4>2, <4>3
    <3>2. results[Order[j]] # Absent \/ stage = Order[j]
          BY <2>2, <2>4, <3>1 DEF ResultInv
    <3>3. stage = NoStage  BY <1>3 DEF BeginStage, Spawn
    <3> QED BY <3>2, <3>3, OrderIs
  <2>5. \A s \in Stages : \A r : Fails(s, r)' = Fails(s, r)  BY DEF Fails
  <2>6. \A j \in 1 .. 6 : j <= done' /\ Wanted(Order[j])' =>
            results'[Order[j]] # Absent \/ stage' = Order[j]
        BY <2>1, <2>2, <2>3, <2>4, OrderIs
  <2> QED BY <2>2, <2>5, <2>6 DEF ResultInv
<1>4. CASE EndStage
  <2> SUFFICES ASSUME verdict' = "none" PROVE ResultInv'  BY DEF ResultInv
  <2> DEFINE r == [rc |-> child.rc, timed_out |-> stream.timed_out]
  <2>1. /\ UNCHANGED <<reports, run, args, done>> /\ stage' = NoStage
        /\ stage \in Stages /\ stage = Order[done] /\ done \in 1 .. 6 /\ verdict = "none"
        BY <1>4 DEF EndStage, Forget, PlaceInv, TypeOK
  <2>2. r \in Result /\ r # Absent
        BY AbsentAssumption DEF Result, TypeOK
  <2>3. results'[stage] = r /\ \A s \in Stages : s # stage => results'[s] = results[s]
        BY <1>4, <2>1 DEF EndStage, TypeOK
  <2>4. failed' = failed \cup {s \in {stage} : Fails(s, r)}
        BY <1>4 DEF EndStage
  <2>5. /\ stage \in Reporting => found'[stage] = reports[stage]
        /\ \A s \in Reporting : s # stage => found'[s] = found[s]
    <3>1. ~(stage \in Reporting /\ reports[stage] = Torn)
          BY <1>4, <2>1 DEF EndStage
    <3> QED BY <1>4, <3>1 DEF EndStage
  <2>6. ASSUME NEW i \in 1 .. 6, i <= done', Wanted(Order[i])'
        PROVE  results'[Order[i]] # Absent
    <3>1. CASE Order[i] = stage  BY <2>2, <2>3, <3>1
    <3>2. CASE Order[i] # stage
      <4>1. Order[i] = "fallback_chewing_smoke" =>
                found'["real_chewing_smoke"] = found["real_chewing_smoke"]
        <5>1. Order[5] = "real_chewing_smoke" /\ Order[6] = "fallback_chewing_smoke"
              BY DEF Order
        <5>2. ASSUME Order[i] = "fallback_chewing_smoke" PROVE stage # "real_chewing_smoke"
          <6>1. i = 6  BY <5>1, <5>2, OrderIs
          <6>2. done = 6  BY <2>1, <2>6, <6>1
          <6> QED BY <2>1, <5>1, <6>2
        <5> QED BY <2>5, <5>2 DEF Reporting
      <4>2. Wanted(Order[i])  BY <2>1, <2>6, <4>1, WantedStays, OrderIs
      <4> QED BY <2>1, <2>3, <2>6, <3>2, <4>2, OrderIs DEF ResultInv
    <3> QED BY <3>1, <3>2
  <2>7. ASSUME NEW s \in Stages, results'[s] # Absent, Fails(s, results'[s])
        PROVE  s \in failed'
        BY <2>1, <2>3, <2>4, <2>7 DEF ResultInv
  <2>8. ASSUME NEW s \in Reporting
        PROVE  /\ found'[s] # Absent => results'[s] # Absent
               /\ results'[s] # Absent =>
                     /\ found'[s] = reports'[s]
                     /\ results'[s].rc = 0 => reports'[s] \in Report /\ reports'[s].run = run'
    <3>1. CASE s # stage
          BY <2>1, <2>3, <2>5, <3>1, OrderIs DEF ResultInv
    <3>2. CASE s = stage
      <4>1. child.place \in {"closed", "exited"}
            BY <1>4 DEF EndStage, StreamInv
      <4>2. r.rc = 0 => reports[stage] \in Report /\ reports[stage].run = run
            BY <3>2, <4>1 DEF WroteInv
      <4> QED BY <2>1, <2>2, <2>3, <2>5, <3>2, <4>2
    <3> QED BY <3>1, <3>2
  <2>9. \A s \in Stages : \A x : Fails(s, x)' = Fails(s, x)  BY DEF Fails
  <2> QED BY <2>6, <2>7, <2>8, <2>9 DEF ResultInv
<1>5. CASE Judge \/ Interrupt
      BY <1>5 DEF Judge, Interrupt, ResultInv
<1> QED BY <1>1, <1>2, <1>3, <1>4, <1>5, NextIs

-----------------------------------------------------------------------------
(* The verdict.                                                              *)

\* A stage of the command line that must not fail has passed when nothing is
\* on the list.
LEMMA StagesPassed ==
    ASSUME TypeOK, PlaceInv, ResultInv, Judge, failed = {}
    PROVE  /\ \A s \in Stages : Wanted(s) => results[s] # Absent
           /\ \A s \in Stages : results[s] # Absent =>
                 /\ results[s] \in Result /\ ~results[s].timed_out
                 /\ s \in {"pip_install_editable", "pytest"} => results[s].rc = 0
<1>1. verdict = "none" /\ stage = NoStage /\ Upcoming = {}  BY DEF Judge
<1>2. ASSUME NEW s \in Stages, Wanted(s) PROVE results[s] # Absent
  <2>1. PICK i \in 1 .. 6 : Order[i] = s  BY OrderIs
  <2>2. i <= done
    <3>1. done \in 0 .. 6  BY OrderIs DEF TypeOK
    <3>2. i > done => i \in Upcoming  BY <1>2, <2>1, <3>1, OrderIs DEF Upcoming
    <3> QED BY <1>1, <3>1, <3>2
  <2>3. results[s] # Absent \/ stage = s  BY <1>1, <1>2, <2>1, <2>2 DEF ResultInv
  <2> QED BY <1>1, <2>3, OrderIs
<1>3. ASSUME NEW s \in Stages, results[s] # Absent
      PROVE  /\ results[s] \in Result /\ ~results[s].timed_out
             /\ s \in {"pip_install_editable", "pytest"} => results[s].rc = 0
  <2>1. results[s] \in Result  BY <1>3 DEF TypeOK
  <2>2. ~Fails(s, results[s])  BY <1>1, <1>3 DEF ResultInv
  <2> QED BY <2>1, <2>2 DEF Fails, Result
<1> QED BY <1>2, <1>3

LEMMA JudgeIsRight ==
    ASSUME TypeOK, PlaceInv, ResultInv, Judge, verdict' = "ok"
    PROVE  OkIsEarned'
<1> DEFINE r == reports["real_chewing_smoke"]
           f == reports["fallback_chewing_smoke"]
<1>1. /\ UNCHANGED <<reports, run, args, results, found>>
      /\ failed = {} /\ ~checks_failed /\ verdict = "none"
      BY DEF Judge, stageVars
<1>2. \A s \in Stages : results[s] # Absent => ~results[s].timed_out
      BY <1>1, StagesPassed
<1>3. args.install => results["pip_install_editable"].rc = 0
  <2>1. "pip_install_editable" \in Stages  BY DEF Stages
  <2>2. args.install => Wanted("pip_install_editable")  BY DEF Wanted
  <2> QED BY <1>1, <2>1, <2>2, StagesPassed
<1>4. args.pytest => results["pytest"].rc = 0
  <2>1. "pytest" \in Stages  BY DEF Stages
  <2>2. args.pytest => Wanted("pytest")  BY DEF Wanted
  <2> QED BY <1>1, <2>1, <2>2, StagesPassed
<1>5. results["asset_discovery"].rc = 0 /\ reports["asset_discovery"].run = run
  <2>1. "asset_discovery" \in Stages /\ "asset_discovery" \in Reporting
        BY DEF Stages, Reporting
  <2>2. Wanted("asset_discovery")  BY DEF Wanted
  <2>3. results["asset_discovery"] # Absent  BY <1>1, <2>1, <2>2, StagesPassed
  <2>4. results["asset_discovery"].rc = 0
        BY <1>1, <2>3 DEF checks_failed, asset_discovery_ok, Passed
  <2> QED BY <1>1, <2>1, <2>3, <2>4 DEF ResultInv
<1>6. "real_chewing_smoke" \in Reporting /\ "fallback_chewing_smoke" \in Reporting
      BY DEF Reporting
<1>7. /\ real_report = r /\ r # Absent /\ r \in Report
      /\ r.run = run \/ results["real_chewing_smoke"].rc # 0
  <2>1. real_report # Absent  BY <1>1 DEF checks_failed, real_smoke_ok
  <2>2. results["real_chewing_smoke"] # Absent
        BY <1>1, <1>6, <2>1 DEF ResultInv, real_report
  <2>3. /\ real_report = r
        /\ results["real_chewing_smoke"].rc = 0 => r.run = run
        BY <1>1, <1>6, <2>2 DEF ResultInv, real_report
  <2>4. real_report \in Report  BY <1>6, <2>1 DEF TypeOK, real_report
  <2> QED BY <2>1, <2>3, <2>4
<1>8. IF r.missing THEN args.allow_missing_assets ELSE r.ok
      BY <1>1, <1>7 DEF checks_failed, Missing
<1>9. ASSUME r.missing, args.allow_synthetic_fallback
      PROVE  results["fallback_chewing_smoke"].rc = 0 /\ f.run = run /\ f.synthetic
  <2>1. "fallback_chewing_smoke" \in Stages  BY <1>6, OrderIs
  <2>2. Wanted("fallback_chewing_smoke")
        BY <1>7, <1>9 DEF Wanted, Missing, real_report
  <2>3. results["fallback_chewing_smoke"] # Absent  BY <1>1, <2>1, <2>2, StagesPassed
  <2>4. fallback_smoke_ok  BY <1>1, <2>3 DEF checks_failed
  <2>5. /\ results["fallback_chewing_smoke"].rc = 0
        /\ found["fallback_chewing_smoke"].synthetic
        BY <2>3, <2>4 DEF fallback_smoke_ok, Passed
  <2> QED BY <1>1, <1>6, <2>3, <2>5 DEF ResultInv
<1> QED BY <1>1, <1>2, <1>3, <1>4, <1>5, <1>7, <1>8, <1>9 DEF OkIsEarned

LEMMA OkStep ==
    ASSUME IInv, Next
    PROVE  OkIsEarned'
<1> SUFFICES ASSUME verdict' = "ok" PROVE OkIsEarned'  BY DEF OkIsEarned
<1>1. CASE GoesOn
  <2>1. UNCHANGED <<run, args, results, verdict>>  BY <1>1 DEF GoesOn, mainVars
  <2>2. stage = NoStage  BY <2>1 DEF IInv, PlaceInv
  <2>3. reports' = reports  BY <1>1, <2>2, StageStays DEF IInv
  <2> QED BY <2>1, <2>3 DEF IInv, OkIsEarned
<1>2. CASE Judge
      BY <1>2, JudgeIsRight DEF IInv
<1>3. CASE Start \/ BeginStage \/ EndStage \/ Interrupt
      BY <1>3 DEF Start, BeginStage, EndStage, Interrupt, IInv, PlaceInv
<1> QED BY <1>1, <1>2, <1>3, NextIs

-----------------------------------------------------------------------------
(* The theorems.                                                             *)

LEMMA InitHolds == Init => IInv
<1> SUFFICES ASSUME Init PROVE IInv  OBVIOUS
<1>1. stage = NoStage /\ events = <<>> /\ thread = "none" /\ child = Nobody /\ stream = Quiet
      BY DEF Init, StageInit
<1>2. TypeOK
  <2>1. << >> \in Seq(Events)  BY EmptySeq
  <2>2. 0 \in 0 .. MaxLines /\ 0 \in 0 .. MaxRuns /\ 0 \in 0 .. Len(Order)
        BY StageAssumption, ArgumentsAssumption, OrderIs
  <2>3. child \in [place : ChildPlaces, rc : {0, 1}, sent : 0 .. MaxLines]
        BY <1>1, <2>2 DEF Nobody, ChildPlaces
  <2>4. stream \in [place : {"read", "poll", "check", "kill", "wait", "over"},
                    got : 0 .. MaxLines, overdue : BOOLEAN, timed_out : BOOLEAN]
        BY <1>1, <2>2 DEF Quiet
  <2> QED BY <2>1, <2>2, <2>3, <2>4 DEF Init, StageInit, TypeOK, Verdicts, Unread
<1>3. StreamInv  BY <1>1 DEF StreamInv, Nobody, Quiet
<1>4. LogInv  BY <1>1 DEF LogInv, EndedAt, LateAt
<1>5. PlaceInv  BY <1>1, OrderIs DEF Init, PlaceInv
<1>6. WroteInv  BY <1>1, OrderIs DEF WroteInv
<1>7. ResultInv /\ OkIsEarned  BY DEF Init, ResultInv, OkIsEarned
<1> QED BY <1>2, <1>3, <1>4, <1>5, <1>6, <1>7 DEF IInv

LEMMA StepHolds ==
    ASSUME IInv, [Next]_vars
    PROVE  IInv'
<1>1. CASE Next
      BY <1>1, TypeStep, StreamStep, LogStep, PlaceStep, WroteStep, ResultStep, OkStep DEF IInv
<1>2. CASE UNCHANGED vars
  <2> USE <1>2 DEF vars, stageVars, mainVars
  <2>1. TypeOK' /\ StreamInv' /\ PlaceInv' /\ WroteInv' /\ OkIsEarned'
        BY DEF IInv, TypeOK, StreamInv, PlaceInv, WroteInv, OkIsEarned
  <2>2. LogInv'  BY DEF IInv, LogInv, InStage, EndedAt, LateAt
  <2>3. ResultInv'  BY DEF IInv, ResultInv, Wanted, Missing, Fails
  <2> QED BY <2>1, <2>2, <2>3 DEF IInv
<1> QED BY <1>1, <1>2

\* The strengthened invariant holds throughout.
THEOREM Invariance == Spec => []IInv
<1>1. Init => IInv  BY InitHolds
<1>2. IInv /\ [Next]_vars => IInv'  BY StepHolds
<1> QED BY <1>1, <1>2, PTL DEF Spec

\* Every variable stays in its domain.
THEOREM TypeCorrect == Spec => []TypeOK
<1>1. IInv => TypeOK  BY DEF IInv
<1> QED BY <1>1, Invariance, PTL

\* A run that says ok (overall_ok of validate_real_asset_pipeline) had every
\* stage earn it, but for the smoke's report that an earlier run may have left.
THEOREM OkEarned == Spec => []OkIsEarned
<1>1. IInv => OkIsEarned  BY DEF IInv
<1> QED BY <1>1, Invariance, PTL

\* No line of a child is lost by stream_subprocess, and its log has at most one
\* heartbeat after its stage's end, when the timer's join gave up.
THEOREM LogsTrue == Spec => []LogsAreTrue
<1>1. IInv => LogsAreTrue
  <2> SUFFICES ASSUME IInv PROVE LogsAreTrue  OBVIOUS
  <2>1. stream.place = "over" => stream.got = child.sent  BY DEF IInv, StreamInv
  <2>2. ASSUME NEW i \in 1 .. Len(events), NEW j \in 1 .. Len(events), i < j,
               events[i] \in {"stage_end", "stage_error"}, events[j] = "heartbeat"
        PROVE  gaveUp /\ j = Len(events)
    <3>1. EndedAt(i) /\ i \in 1 .. j - 1  BY <2>2 DEF EndedAt
    <3>2. LateAt(j)  BY <2>2, <3>1 DEF LateAt
    <3> QED BY <3>2 DEF IInv, LogInv
  <2> QED BY <2>1, <2>2 DEF LogsAreTrue
<1> QED BY <1>1, Invariance, PTL

-----------------------------------------------------------------------------
(* How a run comes to its end: the half of RunEnds that is not fairness.     *)

\* What the streaming loop has left to do for its stage once time has passed. A
\* check that has not seen the time to be over goes back to reading first.
PlaceRank ==
    CASE stream.place = "over" -> 1
      [] stream.place = "wait" -> 2
      [] stream.place = "kill" -> 3
      [] stream.place = "check" -> IF stream.overdue THEN 4 ELSE 7
      [] stream.place = "poll" -> IF stream.overdue THEN 5 ELSE 8
      [] OTHER -> 6
StageLeft == IF stage = NoStage THEN 0 ELSE (MaxLines - stream.got) + PlaceRank

\* Every step of the validator ends the run, begins a later stage, or leaves
\* less to do in the stage it is in, but for a look at the clock before the
\* stage's time has passed; and no child, whatever it does, makes it more.
RunAdvances ==
    [][verdict = "none" =>
          /\ done' \in 0 .. Len(Order) /\ StageLeft' \in Nat
          /\ Validator =>
                \/ verdict' # "none" \/ done' > done
                \/ done' = done /\ StageLeft' < StageLeft
                \/ ~late /\ stream.place = "read" /\ stream'.place = "poll"
          /\ (Child(run) \/ Clock) /\ UNCHANGED mainVars =>
                done' = done /\ StageLeft' <= StageLeft]_vars

LEMMA StageLeftType ==
    ASSUME TypeOK
    PROVE  PlaceRank \in 1 .. 8 /\ StageLeft \in Nat /\ MaxLines - stream.got \in Nat
<1>1. stream.got \in 0 .. MaxLines /\ stream.overdue \in BOOLEAN  BY DEF TypeOK
<1>2. MaxLines - stream.got \in Nat  BY <1>1, StageAssumption
<1>3. PlaceRank \in 1 .. 8  BY <1>1 DEF PlaceRank
<1> QED BY <1>2, <1>3 DEF StageLeft

\* The loop, of a stage that has a time limit.
LEMMA LoopAdvances ==
    ASSUME TypeOK, TypeOK', HasTimeout, Loop
    PROVE  \/ StageLeft' < StageLeft
           \/ ~late /\ stream.place = "read" /\ stream'.place = "poll"
<1>0. /\ stage # NoStage /\ stage' = stage /\ MaxLines \in Nat
      /\ stream.got \in 0 .. MaxLines /\ stream'.got \in 0 .. MaxLines
      BY StageAssumption DEF Loop, ReadLine, Poll, CheckTime, Kill, Wait, TypeOK
<1>1. CASE stream.place = "read" /\ stream' = [stream EXCEPT !.got = @ + 1]
  <2>1. stream'.got = stream.got + 1 /\ stream'.place = "read"  BY <1>1 DEF TypeOK
  <2>2. PlaceRank = 6 /\ PlaceRank' = 6  BY <1>1, <2>1 DEF PlaceRank
  <2> QED BY <1>0, <2>1, <2>2 DEF StageLeft
<1>2. CASE /\ stream.place = "read"
           /\ stream' = [stream EXCEPT !.place = "poll", !.overdue = late]
  <2>1. stream'.got = stream.got /\ stream'.place = "poll" /\ stream'.overdue = late
        BY <1>2 DEF TypeOK
  <2>2. PlaceRank = 6 /\ (late => PlaceRank' = 5)  BY <1>2, <2>1 DEF PlaceRank
  <2> QED BY <1>0, <1>2, <2>1, <2>2 DEF StageLeft, TypeOK
<1>3. CASE Poll \/ CheckTime \/ Kill \/ Wait
  <2>1. /\ stream'.got = stream.got /\ stream'.overdue = stream.overdue
        /\ \/ stream.place = "poll" /\ stream'.place \in {"wait", "check"}
           \/ stream.place = "check" /\ stream.overdue /\ stream'.place = "kill"
           \/ stream.place = "check" /\ ~stream.overdue /\ stream'.place = "read"
           \/ stream.place = "kill" /\ stream'.place = "wait"
           \/ stream.place = "wait" /\ stream'.place = "over"
        BY <1>3 DEF Poll, CheckTime, Kill, Wait, TypeOK
  <2>2. PlaceRank' < PlaceRank  BY <2>1 DEF PlaceRank
  <2>3. PlaceRank \in 1 .. 8  BY StageLeftType
  <2>4. PlaceRank' \in 1 .. 8  BY DEF TypeOK, PlaceRank
  <2> QED BY <1>0, <2>1, <2>2, <2>3, <2>4 DEF StageLeft
<1> QED BY <1>1, <1>2, <1>3 DEF Loop, ReadLine

\* A stage that has ended leaves nothing, and a new one is a later one.
LEMMA MainAdvances ==
    ASSUME TypeOK, TypeOK', BeginStage \/ EndStage \/ Judge
    PROVE  verdict' # "none" \/ done' > done \/ (done' = done /\ StageLeft' < StageLeft)
<1>0. done \in 0 .. 6  BY OrderIs DEF TypeOK
<1>1. CASE BeginStage
  <2>1. PICK i \in Upcoming : done' = i  BY <1>1 DEF BeginStage
  <2>2. i \in done + 1 .. Len(Order) /\ Len(Order) = 6  BY <2>1, OrderIs DEF Upcoming
  <2>3. done' > done  BY <1>0, <2>1, <2>2
  <2> QED BY <2>3
<1>2. CASE EndStage
  <2>1. stage # NoStage /\ stage' = NoStage /\ done' = done  BY <1>2 DEF EndStage, Forget
  <2>2. PlaceRank \in 1 .. 8 /\ MaxLines - stream.got \in Nat  BY StageLeftType
  <2>3. StageLeft > 0 /\ StageLeft' = 0  BY <2>1, <2>2 DEF StageLeft
  <2> QED BY <2>1, <2>3
<1>3. CASE Judge
  <2>1. verdict' = "ok" \/ verdict' = "not ok"  BY <1>3 DEF Judge
  <2> QED BY <2>1
<1> QED BY <1>1, <1>2, <1>3

\* Under a time limit every run advances, whatever its children do.
THEOREM RunGoesDown ==
    ASSUME HasTimeout
    PROVE  Spec => RunAdvances
<1> DEFINE Advances ==
       verdict = "none" =>
          /\ done' \in 0 .. Len(Order) /\ StageLeft' \in Nat
          /\ Validator =>
                \/ verdict' # "none" \/ done' > done
                \/ done' = done /\ StageLeft' < StageLeft
                \/ ~late /\ stream.place = "read" /\ stream'.place = "poll"
          /\ (Child(run) \/ Clock) /\ UNCHANGED mainVars =>
                done' = done /\ StageLeft' <= StageLeft
<1>1. ASSUME IInv, IInv', Next PROVE Advances
  <2>1. TypeOK /\ TypeOK'  BY <1>1 DEF IInv
  <2>2. done' \in 0 .. Len(Order) /\ StageLeft' \in Nat
    <3>1. stream'.got \in 0 .. MaxLines /\ PlaceRank' \in 1 .. 8  BY <2>1 DEF TypeOK, PlaceRank
    <3>2. MaxLines - stream'.got \in Nat  BY <3>1, StageAssumption
    <3>3. StageLeft' \in Nat  BY <3>1, <3>2 DEF StageLeft
    <3> QED BY <2>1, <3>3 DEF TypeOK
  <2>3. ASSUME Validator
        PROVE  \/ verdict' # "none" \/ done' > done
               \/ done' = done /\ StageLeft' < StageLeft
               \/ ~late /\ stream.place = "read" /\ stream'.place = "poll"
    <3>1. CASE Loop /\ UNCHANGED mainVars
          BY <2>1, <3>1, LoopAdvances DEF mainVars
    <3> QED BY <2>1, <2>3, <3>1, MainAdvances DEF Validator
  <2>4. ASSUME Child(run) \/ Clock, UNCHANGED mainVars
        PROVE  done' = done /\ StageLeft' <= StageLeft
    <3>1. stage' = stage  BY <2>1, <2>4, StageStays DEF GoesOn
    <3>2. stream' = stream
          BY <2>4 DEF Child, Prints, LeaveStage, StageDone, HeartbeatLoop, OpensReport,
                      WritesReport, Closes, Exits, Dies, Clock
    <3>3. StageLeft' = StageLeft  BY <3>1, <3>2 DEF StageLeft, PlaceRank
    <3>4. StageLeft \in Nat /\ done' = done  BY <2>1, <2>4, StageLeftType DEF mainVars
    <3> QED BY <3>3, <3>4
  <2> QED BY <2>2, <2>3, <2>4
<1>2. ASSUME IInv, IInv', [Next]_vars PROVE [Advances]_vars
      BY <1>1, <1>2
<1>3. Spec => [][Advances]_vars  BY <1>2, Invariance, PTL DEF Spec
<1> QED BY <1>3, PTL DEF RunAdvances
=============================================================================
