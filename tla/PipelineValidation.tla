------------------------- MODULE PipelineValidation -------------------------
(* scripts/validate_real_asset_pipeline.py: the stages one after the other,  *)
(* each a streamed child process, the reports the children left in the       *)
(* output directory, and the verdict. The documented commands name a fixed   *)
(* directory, so a run may find the reports of an earlier one.               *)
EXTENDS StreamedStage

CONSTANTS
    Arguments,   \* the command lines
    MaxRuns      \* bound on runs of the validator in one output directory

Argument == [git : BOOLEAN, install : BOOLEAN, pytest : BOOLEAN, heartbeats : BOOLEAN,
             allow_missing_assets : BOOLEAN, allow_synthetic_fallback : BOOLEAN]
ASSUME ArgumentsAssumption == Arguments \subseteq Argument /\ MaxRuns \in Nat

VARIABLES
    run,      \* the run of the validator, counted
    args,     \* the command line, the same every time
    done,     \* the stages it has behind it
    results,  \* per stage: return code and whether it timed out
    found,    \* per report: what the validator read
    failed,   \* the stages and checks in failed_stages
    verdict   \* overall_ok, or how the run ended without one

mainVars == <<run, args, done, results, found, failed, verdict>>
vars == <<stageVars, mainVars>>

Order == <<"git_status", "pip_install_editable", "pytest", "asset_discovery",
           "real_chewing_smoke", "fallback_chewing_smoke">>
Verdicts == {"idle", "none", "ok", "not ok", "raised", "interrupted"}
Result == [rc : {0, 1}, timed_out : BOOLEAN]
Unread == [s \in Reporting |-> Absent]
ASSUME AbsentAssumption == Absent \notin Result /\ Absent \notin Report

Init ==
    /\ StageInit
    /\ run = 0 /\ args \in Arguments /\ done = 0 /\ failed = {} /\ verdict = "idle"
    /\ results = [s \in Stages |-> Absent] /\ found = Unread

Start ==
    /\ verdict # "none" /\ run < MaxRuns /\ run' = run + 1
    /\ done' = 0 /\ failed' = {} /\ verdict' = "none"
    /\ results' = [s \in Stages |-> Absent] /\ found' = Unread
    /\ UNCHANGED <<stageVars, args>>

-----------------------------------------------------------------------------

Missing(r) == r # Absent /\ r.missing
Wanted(s) ==
    CASE s = "git_status"             -> args.git
      [] s = "pip_install_editable"   -> args.install
      [] s = "pytest"                 -> args.pytest
      [] s = "fallback_chewing_smoke" -> /\ args.allow_synthetic_fallback
                                         /\ Missing(found["real_chewing_smoke"])
      [] OTHER                        -> TRUE
Upcoming == {i \in done + 1 .. Len(Order) : Wanted(Order[i])}

BeginStage ==
    /\ verdict = "none" /\ stage = NoStage
    /\ \E i \in Upcoming :
          /\ \A j \in Upcoming : i <= j
          /\ Spawn(Order[i], args.heartbeats) /\ done' = i
    /\ UNCHANGED <<run, args, results, found, failed, verdict>>

\* Mutant: a timeout is not put on the list.
Fails_RcOnly(s, r) == r.rc # 0 /\ s \in {"pip_install_editable", "pytest"}

\* _run_stage, and the report that is read after it. Only the installation may
\* not fail; pytest is put on the list by its caller.
Fails(s, r) == r.timed_out \/ (r.rc # 0 /\ s \in {"pip_install_editable", "pytest"})

\* Mutant: the result does not say whether the stage timed out.
EndStage_RcOnly ==
    /\ stage # NoStage /\ stream.place = "over"
    /\ LET r == [rc |-> child.rc, timed_out |-> stream.timed_out] IN
       /\ results' = [results EXCEPT ![stage] = [rc |-> child.rc]]
       /\ failed' = failed \cup {s \in {stage} : Fails(s, r)}
    /\ Forget
    /\ UNCHANGED <<run, args, done, found, verdict>>

EndStage ==
    /\ stage # NoStage /\ stream.place = "over"
    /\ LET r == [rc |-> child.rc, timed_out |-> stream.timed_out] IN
       /\ results' = [results EXCEPT ![stage] = r]
       /\ failed' = failed \cup {s \in {stage} : Fails(s, r)}
    /\ IF stage \in Reporting /\ reports[stage] = Torn
       THEN verdict' = "raised" /\ UNCHANGED found
       ELSE /\ UNCHANGED verdict
            /\ found' = [s \in Reporting |-> IF s = stage THEN reports[s] ELSE found[s]]
    /\ Forget
    /\ UNCHANGED <<run, args, done>>

Passed(s) == results[s] = Absent \/ results[s].rc = 0
asset_discovery_ok == Passed("asset_discovery") /\ found["asset_discovery"] # Absent
real_report == found["real_chewing_smoke"]
real_smoke_ok == real_report # Absent
fallback_smoke_ok ==
    LET r == found["fallback_chewing_smoke"] IN
    /\ Passed("fallback_chewing_smoke") /\ r # Absent /\ r.synthetic /\ r.missing

\* The checks that put a failure on the list when no stage has.
checks_failed ==
    \/ ~asset_discovery_ok \/ ~real_smoke_ok
    \/ results["fallback_chewing_smoke"] # Absent /\ ~fallback_smoke_ok
    \/ IF Missing(real_report) THEN ~args.allow_missing_assets
       ELSE real_report = Absent \/ ~real_report.ok

Judge ==
    /\ verdict = "none" /\ stage = NoStage /\ Upcoming = {}
    /\ verdict' = IF failed = {} /\ ~checks_failed THEN "ok" ELSE "not ok"
    /\ UNCHANGED <<stageVars, run, args, done, results, found, failed>>

\* The interrupt of a terminal ends the validator and the child it runs.
Interrupt ==
    /\ verdict = "none" /\ verdict' = "interrupted"
    /\ Forget
    /\ UNCHANGED <<run, args, done, results, found, failed>>

Validator == (Loop /\ UNCHANGED mainVars) \/ BeginStage \/ EndStage \/ Judge
Next ==
    \/ Start \/ Validator \/ Interrupt
    \/ (Child(run) \/ Clock) /\ UNCHANGED mainVars

\* The validator is scheduled and time passes; nothing is asked of a child.
Fairness == WF_vars(Validator) /\ WF_vars(Clock /\ UNCHANGED mainVars)

Spec == Init /\ [][Next]_vars /\ Fairness

-----------------------------------------------------------------------------
(* Properties.                                                               *)

Events == {"stage_start", "heartbeat", "stage_end", "stage_done", "stage_error", "stage_failed"}

\* Every variable stays in its domain.
TypeOK ==
    /\ stage \in Stages \cup {NoStage}
    /\ child \in [place : ChildPlaces, rc : {0, 1}, sent : 0 .. MaxLines]
    /\ thread \in {"none", "waiting", "writing", "stopped"} /\ gaveUp \in BOOLEAN
    /\ events \in Seq(Events) /\ late \in BOOLEAN
    /\ stream \in [place : {"read", "poll", "check", "kill", "wait", "over"},
                   got : 0 .. MaxLines, overdue : BOOLEAN, timed_out : BOOLEAN]
    /\ reports \in [Reporting -> Report \cup {Absent, Torn}]
    /\ run \in 0 .. MaxRuns /\ args \in Arguments /\ done \in 0 .. Len(Order)
    /\ results \in [Stages -> Result \cup {Absent}]
    /\ found \in [Reporting -> Report \cup {Absent}]
    /\ failed \subseteq Stages /\ verdict \in Verdicts

\* A run that says ok had no stage that timed out, its installation and tests
\* passed, its discovery wrote a report, and so did the smoke and, where the
\* assets are missing and a fallback was asked for, the fallback. There is one
\* case in which the smoke's report is not of this run: an earlier run left it
\* in the directory, and the smoke of this one died before it opened it.
OkIsEarned ==
    verdict = "ok" =>
        LET r == reports["real_chewing_smoke"] f == reports["fallback_chewing_smoke"] IN
        /\ \A s \in Stages : results[s] # Absent => ~results[s].timed_out
        /\ args.install => results["pip_install_editable"].rc = 0
        /\ args.pytest => results["pytest"].rc = 0
        /\ results["asset_discovery"].rc = 0 /\ reports["asset_discovery"].run = run
        /\ r \in Report /\ (r.run = run \/ results["real_chewing_smoke"].rc # 0)
        /\ IF r.missing THEN args.allow_missing_assets ELSE r.ok
        /\ (r.missing /\ args.allow_synthetic_fallback) =>
              results["fallback_chewing_smoke"].rc = 0 /\ f.run = run /\ f.synthetic

\* Nothing the child printed is lost when its stage is over, whether it ended,
\* died or was killed for its time; and its log has a heartbeat after the end
\* of its stage only when the timer gave up waiting, and then one.
LogsAreTrue ==
    /\ stream.place = "over" => stream.got = child.sent
    /\ \A i, j \in 1 .. Len(events) :
          (i < j /\ events[i] \in {"stage_end", "stage_error"} /\ events[j] = "heartbeat") =>
              gaveUp /\ j = Len(events)

\* As long as no child keeps its output open for ever, a run of the validator
\* comes to its end: a child that has closed its output and hangs is killed.
RunEnds == []<>(stage = NoStage \/ Closed) => (verdict = "none" ~> verdict # "none")
=============================================================================
