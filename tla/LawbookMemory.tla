---------------------------- MODULE LawbookMemory ----------------------------
(***************************************************************************)
(* Episodes that learn from one Lawbook file                               *)
(* (mathgraph/multi_episode_compounding.py).                               *)
(*                                                                         *)
(* An episode runs the benchmark (sair_real_compounding_benchmark.py): for *)
(* each attempt it admits an artifact or files an obstruction, and then    *)
(* files the attempt; afterwards come the reasons coagulated from them     *)
(* (reason_coagulation.py). It then promotes the attempts once more        *)
(* (lawbook_promotion.py), notes which durable artifacts attention finds   *)
(* for its tasks (lawbook_attention.py), and counts what is durable. After *)
(* its episodes a runner says whether fallback artifacts became durable.   *)
(* Without the corpus an episode is a fallback smoke run.                  *)
(*                                                                         *)
(* Each insert is a transaction of its own. Runners share the file, and    *)
(* may be killed, or lose patience with its lock, between any two. They    *)
(* are started alike: an episode's number stands for its seed, and the     *)
(* tasks are of one family.                                                *)
(***************************************************************************)
EXTENDS LawbookAdmission, Sequences, FiniteSets

CONSTANTS
    Runners,       \* processes, each with an output directory of its own
    Tasks, Modes,  \* the tasks, and the modes in which they are attempted
    Slices,        \* the <<mode, task>> sequences an episode of each runner may attempt
    NumEpisodes,   \* num_episodes of each runner
    Strict,        \* the runners with strict_admission
    MaxArtifacts   \* how many artifacts attention returns

ASSUME RunnersAssumption == NumEpisodes \in [Runners -> Nat \ {0}] /\ Strict \subseteq Runners
ASSUME SlicesAssumption ==
    \A r \in Runners : \A s \in Slices[r] :
        /\ s \in Seq(Modes \X Tasks) /\ s # << >>
        /\ \A i, j \in 1 .. Len(s) : s[i] = s[j] => i = j
ASSUME MaxArtifactsAssumption == MaxArtifacts \in Nat

\* An attempt as the evaluator reports it, and whether it is a fallback.
Episodes == UNION {1 .. NumEpisodes[r] : r \in Runners}
Contact == [mode : Modes, task : Tasks, episode : Episodes, solved : BOOLEAN, fallback : BOOLEAN]

\* Mutant: the name does not tell a fallback.
BenchmarkId_Shared(c) == <<"benchmark", c.mode, c.task>>

\* Artifacts are named by hashes: of the task, the mode and the fallback flag
\* by the benchmark, of the whole attempt and the flag by a promotion.
BenchmarkId(c) == <<"benchmark", c.mode, c.task, c.fallback>>
PromotionId(c) == <<"promotion", c>>
ArtifactIds == {BenchmarkId(c) : c \in Contact} \cup {PromotionId(c) : c \in Contact}

\* The policies: the benchmark's, and that of a promotion.
BenchmarkPolicy == [require_replayable_for_durable |-> TRUE, strict_provenance |-> TRUE,
                    allow_bounded_obstruction_without_replay |-> TRUE]
PromotionPolicy(r) == [BenchmarkPolicy EXCEPT !.strict_provenance = r \in Strict]

\* What both say for an attempt. A fallback, or an attempt that failed, has
\* no evidence to show; the provenance is the mode.
KindOf(c) ==
    IF c.fallback THEN "fallback_smoke_artifact"
    ELSE IF c.solved THEN "finite_countermodel_verified" ELSE "failed_finite_search"
EvidenceOf(c) ==
    LET verified == c.solved /\ ~c.fallback IN
    [verifier_passed |-> verified, source_satisfied |-> verified, target_violated |-> verified,
     concrete_witness |-> verified, carrier_size |-> verified, lean_verified |-> FALSE,
     proof_artifact |-> FALSE, replayable |-> verified, bounded |-> FALSE, provenance |-> TRUE,
     fallback_only |-> c.fallback, decode_success |-> FALSE,
     linked_verified_artifact |-> FALSE, obstruction_name |-> FALSE, failure_trace |-> FALSE,
     scope |-> TRUE, supporting_failed_routes |-> FALSE, verifier_backed_negative |-> FALSE,
     failed_finite_search |-> ~c.solved, claims_true |-> FALSE]

\* Mutant: the fallback flag only reaches the payload.
Judge_FallbackIgnored(c, pol) ==
    LET real == [c EXCEPT !.fallback = FALSE] IN
    evaluate_artifact(KindOf(real), EvidenceOf(real), pol)

Judge(c, pol) == evaluate_artifact(KindOf(c), EvidenceOf(c), pol)

\* A row of table artifacts knows whether its payload speaks of fallback_mode,
\* which that of the benchmark does and that of a promotion does not.
ArtifactRow == [terminal_form : {"FINITE_COUNTERMODEL", "ADVISORY"},
                boundary_type : {"finite_model_checker", "empty"}, trust_level : {0, 100},
                durable : BOOLEAN, fallback_mode : {"true", "false", "absent"}]
ASSUME AbsentAssumption == Absent \notin ArtifactRow \cup ArtifactIds \cup BOOLEAN

RowOf(c, pol, fallback_mode) ==
    LET admitted == admit_to_store("ADVISORY", Judge(c, pol)) IN
    [terminal_form |-> admitted.terminal_form, boundary_type |-> admitted.boundary_type,
     trust_level |-> admitted.trust_level, durable |-> admitted.durable,
     fallback_mode |-> fallback_mode]

\* The other rows. An attempt's and an obstruction's do not tell the seed.
AttemptOf(c) == [artifact |-> IF c.solved THEN BenchmarkId(c) ELSE Absent,
                 route |-> c.mode, claim |-> c.task, run |-> c.episode, success |-> c.solved]
ObstructionOf(c) == [route_killed |-> c.mode, claim |-> c.task, run |-> c.episode]
AttemptRow == [artifact : ArtifactIds \cup {Absent}, route : Modes, claim : Tasks,
               run : Episodes, success : BOOLEAN]
ObstructionRow == [route_killed : Modes, claim : Tasks, run : Episodes]

\* A reason groups the attempts in a mode that ended alike, or the obstructions
\* to a mode. It names what it was made from, and counts it and the successes.
ReasonRow == [attempts : SUBSET AttemptRow, obstructions : SUBSET ObstructionRow,
              support_count : Nat, verified_support_count : Nat]
coagulate_attempts(rows) ==
    {[attempts |-> g, obstructions |-> {}, support_count |-> Cardinality(g),
      verified_support_count |-> Cardinality({a \in g : a.success})] :
        g \in {{a \in rows : a.route = b.route /\ a.success = b.success} : b \in rows}}
coagulate_obstructions(rows) ==
    {[attempts |-> {}, obstructions |-> g, support_count |-> Cardinality(g),
      verified_support_count |-> 0] :
        g \in {{o \in rows : o.route_killed = b.route_killed} : b \in rows}}
coagulate_reasons(cs) ==
    coagulate_attempts({AttemptOf(c) : c \in cs})
      \cup coagulate_obstructions({ObstructionOf(c) : c \in {x \in cs : ~x.solved}})

VARIABLES
    artifacts,     \* table artifacts, by name
    attempts,      \* table attempts
    obstructions,  \* table compounding_obstructions
    reasons,       \* table compounding_reasons
    events,        \* table events, of which the notes of reuse: [artifact, task, episode]
    pc,            \* where each runner is
    episode,       \* its episode
    batch,         \* the attempts of the episode
    row,           \* the one it is at
    todo,          \* the reasons, or the notes of reuse, it has yet to write
    waiting,       \* the tasks it has yet to look up
    growth,        \* durable_artifact_growth, one count for each episode
    report,        \* no_fallback_artifacts_entered_durable_memory
    contact        \* history: what the evaluators have reported

tables == <<artifacts, attempts, obstructions, reasons, events>>
notes == <<growth, report, contact>>
vars == <<tables, pc, episode, batch, row, todo, waiting, notes>>

Stored == {id \in ArtifactIds : artifacts[id] # Absent}
Durable == {id \in Stored : artifacts[id].durable}
-----------------------------------------------------------------------------
Init ==
    /\ artifacts = [id \in ArtifactIds |-> Absent]
    /\ attempts = {} /\ obstructions = {} /\ reasons = {} /\ events = {} /\ contact = {}
    /\ pc = [r \in Runners |-> "start"] /\ episode = [r \in Runners |-> 1]
    /\ batch = [r \in Runners |-> << >>] /\ row = [r \in Runners |-> 1]
    /\ todo = [r \in Runners |-> {}] /\ waiting = [r \in Runners |-> {}]
    /\ growth = [r \in Runners |-> << >>] /\ report = [r \in Runners |-> Absent]

At(r, place) == pc[r] = place
Goto(r, place) == pc' = [pc EXCEPT ![r] = place]
Current(r) == batch[r][row[r]]
Reported(r) == {batch[r][i] : i \in 1 .. Len(batch[r])}

\* The next attempt, or the place after the last one.
NextRow(r, same, after) ==
    IF row[r] < Len(batch[r])
    THEN Goto(r, same) /\ row' = [row EXCEPT ![r] = @ + 1]
    ELSE Goto(r, after) /\ row' = [row EXCEPT ![r] = 1]

\* evaluate_v_operators_multi_seed, which decides by what it finds on the disk
\* whether this is a fallback.
evaluate(r) ==
    /\ At(r, "start")
    /\ \E slice \in Slices[r], fallback \in BOOLEAN : \E solved \in [1 .. Len(slice) -> BOOLEAN] :
          batch' = [batch EXCEPT ![r] =
                      [i \in 1 .. Len(slice) |->
                         [mode |-> slice[i][1], task |-> slice[i][2], episode |-> episode[r],
                          solved |-> solved[i], fallback |-> fallback]]]
    /\ contact' = contact \cup {batch'[r][i] : i \in 1 .. Len(batch'[r])}
    /\ Goto(r, "store")
    /\ UNCHANGED <<tables, episode, row, todo, waiting, growth, report>>

\* insert_artifact, which raises when the form's boundary is not that of the row.
insert_artifact(id, new) ==
    /\ validate_terminal_boundary(new)
    /\ artifacts' = [artifacts EXCEPT ![id] = new]

\* Mutant: the attempt is written before the artifact it names.
store_artifact_AfterAttempt(r) ==
    LET c == Current(r) IN
    /\ At(r, "store") /\ c.solved
    /\ \/ /\ AttemptOf(c) \notin attempts
          /\ attempts' = attempts \cup {AttemptOf(c)} /\ UNCHANGED <<artifacts, pc>>
       \/ /\ AttemptOf(c) \in attempts
          /\ insert_artifact(BenchmarkId(c),
                             RowOf(c, BenchmarkPolicy, IF c.fallback THEN "true" ELSE "false"))
          /\ Goto(r, "attempt") /\ UNCHANGED attempts
    /\ UNCHANGED <<obstructions, reasons, events, episode, batch, row, todo, waiting, notes>>

store_artifact(r) ==
    LET c == Current(r) IN
    /\ At(r, "store") /\ c.solved
    /\ insert_artifact(BenchmarkId(c),
                       RowOf(c, BenchmarkPolicy, IF c.fallback THEN "true" ELSE "false"))
    /\ Goto(r, "attempt")
    /\ UNCHANGED <<attempts, obstructions, reasons, events,
                   episode, batch, row, todo, waiting, notes>>

insert_obstruction(r) ==
    /\ At(r, "store") /\ ~Current(r).solved
    /\ obstructions' = obstructions \cup {ObstructionOf(Current(r))}
    /\ Goto(r, "attempt")
    /\ UNCHANGED <<artifacts, attempts, reasons, events,
                   episode, batch, row, todo, waiting, notes>>

insert_attempt(r) ==
    /\ At(r, "attempt")
    /\ attempts' = attempts \cup {AttemptOf(Current(r))}
    /\ NextRow(r, "store", "reasons")
    /\ todo' = [todo EXCEPT ![r] = IF row[r] < Len(batch[r]) THEN {}
                                   ELSE coagulate_reasons(Reported(r))]
    /\ UNCHANGED <<artifacts, obstructions, reasons, events, episode, batch, waiting, notes>>

\* Those of the attempts are written first. After the last one the benchmark
\* writes its files, which only this runner reads.
insert_reason(r) ==
    /\ At(r, "reasons")
    /\ \E reason \in todo[r] :
          /\ reason.obstructions # {} => \A other \in todo[r] : other.obstructions # {}
          /\ reasons' = reasons \cup {reason}
          /\ todo' = [todo EXCEPT ![r] = @ \ {reason}]
    /\ IF todo'[r] = {} THEN Goto(r, "promote") ELSE UNCHANGED pc
    /\ UNCHANGED <<artifacts, attempts, obstructions, events,
                   episode, batch, row, waiting, notes>>

\* promote_benchmark_outputs; what is accepted but not durable is only stored
\* when the admission is not strict.
promote(r) ==
    LET c == Current(r)
        pol == PromotionPolicy(r)
    IN
    /\ At(r, "promote")
    /\ IF durable(Judge(c, pol)) \/ (accepted(Judge(c, pol)) /\ r \notin Strict)
       THEN insert_artifact(PromotionId(c), RowOf(c, pol, "absent"))
       ELSE UNCHANGED artifacts
    /\ NextRow(r, "promote", "reuse")
    /\ waiting' = [waiting EXCEPT ![r] = IF row[r] < Len(batch[r]) THEN {}
                                         ELSE {c2.task : c2 \in Reported(r)}]
    /\ UNCHANGED <<attempts, obstructions, reasons, events, episode, batch, todo, notes>>

durable_only(S) == {id \in S : artifacts[id].durable}

\* retrieve_lawbook_attention with durable_only, for one of the tasks: the
\* artifacts that rank highest, of which the model does not say which they are.
retrieve_lawbook_attention(r) ==
    LET candidates == durable_only(Stored) IN
    /\ At(r, "reuse") /\ todo[r] = {}
    /\ \E task \in waiting[r], found \in SUBSET candidates :
          /\ Cardinality(found) <= MaxArtifacts
          /\ Cardinality(found) < MaxArtifacts => found = candidates
          /\ todo' = [todo EXCEPT ![r] =
                        {[artifact |-> id, task |-> task, episode |-> episode[r]] : id \in found}]
          /\ waiting' = [waiting EXCEPT ![r] = @ \ {task}]
    /\ UNCHANGED <<tables, pc, episode, batch, row, notes>>

record_artifact_reuse(r) ==
    /\ At(r, "reuse")
    /\ \E note \in todo[r] :
          /\ events' = events \cup {note}
          /\ todo' = [todo EXCEPT ![r] = @ \ {note}]
    /\ UNCHANGED <<artifacts, attempts, obstructions, reasons, pc,
                   episode, batch, row, waiting, notes>>

\* Mutant: one episode too many.
count_durable_OneMore(r) ==
    /\ At(r, "reuse") /\ todo[r] = {} /\ waiting[r] = {}
    /\ growth' = [growth EXCEPT ![r] = Append(@, Cardinality(Durable))]
    /\ IF episode[r] <= NumEpisodes[r]
       THEN Goto(r, "start") /\ episode' = [episode EXCEPT ![r] = @ + 1]
       ELSE Goto(r, "report") /\ UNCHANGED episode
    /\ UNCHANGED <<tables, batch, row, todo, waiting, report, contact>>

\* durable_artifacts_after, and the next episode.
count_durable(r) ==
    /\ At(r, "reuse") /\ todo[r] = {} /\ waiting[r] = {}
    /\ growth' = [growth EXCEPT ![r] = Append(@, Cardinality(Durable))]
    /\ IF episode[r] < NumEpisodes[r]
       THEN Goto(r, "start") /\ episode' = [episode EXCEPT ![r] = @ + 1]
       ELSE Goto(r, "report") /\ UNCHANGED episode
    /\ UNCHANGED <<tables, batch, row, todo, waiting, report, contact>>

\* no_fallback_durable: no durable row's payload is LIKE '%fallback_mode%true%'.
\* The keys of a payload are sorted, and replayable comes after fallback_mode.
LikeFallbackModeTrue(id) ==
    \/ artifacts[id].fallback_mode = "true"
    \/ artifacts[id].fallback_mode = "false" /\ artifacts[id].durable
compute_cross_episode_metrics(r) ==
    /\ At(r, "report")
    /\ report' = [report EXCEPT ![r] = ~\E id \in Durable : LikeFallbackModeTrue(id)]
    /\ Goto(r, "done")
    /\ UNCHANGED <<tables, episode, batch, row, todo, waiting, growth, contact>>

\* The runner is killed, or an insert raises; what it held is lost.
Die(r) ==
    /\ ~At(r, "done") /\ ~At(r, "dead")
    /\ Goto(r, "dead")
    /\ episode' = [episode EXCEPT ![r] = 1]
    /\ batch' = [batch EXCEPT ![r] = << >>] /\ row' = [row EXCEPT ![r] = 1]
    /\ todo' = [todo EXCEPT ![r] = {}] /\ waiting' = [waiting EXCEPT ![r] = {}]
    /\ growth' = [growth EXCEPT ![r] = << >>]
    /\ UNCHANGED <<tables, report, contact>>

Step(r) ==
    \/ evaluate(r) \/ store_artifact(r) \/ insert_obstruction(r) \/ insert_attempt(r)
    \/ insert_reason(r) \/ promote(r)
    \/ retrieve_lawbook_attention(r) \/ record_artifact_reuse(r) \/ count_durable(r)
    \/ compute_cross_episode_metrics(r) \/ Die(r)
Next == \E r \in Runners : Step(r)
Spec == Init /\ [][Next]_vars
-----------------------------------------------------------------------------
(* Properties.                                                               *)

ReuseNote == [artifact : ArtifactIds, task : Tasks, episode : Episodes]
Places == {"start", "store", "attempt", "reasons", "promote", "reuse", "report", "done", "dead"}

\* Every variable stays in its domain.
TypeOK ==
    /\ artifacts \in [ArtifactIds -> ArtifactRow \cup {Absent}]
    /\ attempts \subseteq AttemptRow /\ obstructions \subseteq ObstructionRow
    /\ reasons \subseteq ReasonRow /\ events \subseteq ReuseNote
    /\ contact \subseteq Contact
    /\ pc \in [Runners -> Places]
    /\ episode \in [Runners -> Nat] /\ \A r \in Runners : episode[r] \in 1 .. NumEpisodes[r]
    /\ batch \in [Runners -> Seq(Contact)] /\ \A r \in Runners : Reported(r) \subseteq contact
    /\ row \in [Runners -> Nat] /\ waiting \in [Runners -> SUBSET Tasks]
    /\ todo \in [Runners -> (SUBSET ReasonRow) \cup (SUBSET ReuseNote)]
    /\ growth \in [Runners -> Seq(Nat)] /\ report \in [Runners -> BOOLEAN \cup {Absent}]

\* An artifact is durable, has full trust, or claims a countermodel, only if an
\* evaluator found one with the corpus at hand, in the mode and for the task it
\* is named after: no fallback and no failed search gets there, by the benchmark
\* or by the promotion, under either policy, whoever replaces the row. What is
\* not durable says so.
EarnedBy(id, c) ==
    /\ c.solved /\ ~c.fallback
    /\ id = BenchmarkId(c) \/ id = PromotionId(c)
DurableIsEarned ==
    \A id \in Stored :
        LET a == artifacts[id] IN
        \/ /\ a.durable /\ a.trust_level = 100 /\ a.terminal_form = "FINITE_COUNTERMODEL"
           /\ a.boundary_type = "finite_model_checker"
           /\ \E c \in contact : EarnedBy(id, c)
        \/ /\ ~a.durable /\ a.trust_level = 0 /\ a.terminal_form = "ADVISORY"
           /\ \A c \in Contact : ~EarnedBy(id, c)

\* Whatever a row refers to is there, wherever a runner was killed between the
\* transactions: a success has its artifact, a residual its obstruction, a
\* reason the rows it was made from, and counts as verified no more than the
\* successes among them; what was noted as reused is durable.
RecordsAreBacked ==
    LET there == Stored IN
    /\ \A a \in attempts :
          IF a.success THEN a.artifact \in there
          ELSE [route_killed |-> a.route, claim |-> a.claim, run |-> a.run] \in obstructions
    /\ \A reason \in reasons :
          /\ reason.attempts \subseteq attempts /\ reason.obstructions \subseteq obstructions
          /\ reason.verified_support_count =
                Cardinality({a \in reason.attempts : a.artifact \in there})
    /\ \A note \in events : note.artifact \in there /\ artifacts[note.artifact].durable

\* durable_artifact_growth is growth: no count of it is below the one before,
\* or above what is durable now, though rows are replaced and runners race.
GrowthNeverShrinks ==
    \A r \in Runners : \A i \in 1 .. Len(growth[r]) :
        /\ growth[r][i] <= Cardinality(Durable)
        /\ \A j \in 1 .. i : growth[r][j] <= growth[r][i]

\* A runner's summary denies that no fallback artifact became durable only if
\* one did.
BoundaryReportIsTrue ==
    \A r \in Runners : report[r] = FALSE =>
        \E id \in Durable : artifacts[id].fallback_mode = "true"
=============================================================================
