# MathGraph verification development

TLA+ models of MathGraph's core, the TLC runs that check them on small
instances, and theorems about them that the TLA+ proof system checks for every
value of the constants. Paths below are relative to the repository.

## 1. The system

MathGraph is a "verification-routing kernel". A claim is routed to a
constructor; what the constructor makes is checked by a verifier or a finite
checker; what survives is imported with its certificate into a store, the
Lawbook; and what was learned about routes on the way goes into the Reason
Atlas, an advisory memory that never counts as truth. A separate package
(`mathgraph_check`) computes which published claims are still warranted when
receipts are withdrawn, and a publisher writes the public source catalogue.

### Components

| Component | State it keeps | Operations | Talks to |
| --- | --- | --- | --- |
| Warrant resolution: `mathgraph_check/warrant_resolution.py`, `living_warrants.py` | none between calls; the caller keeps snapshots | validate a graph, close it under its live routes, withdraw receipts and close again, compare two snapshots | called by the snapshot builder |
| M0 service: `mathgraph/local_service.py`, `client.py`, `m0_certificate_factory.py`, `finite_countermodel_executor.py`, `countermodel_importer.py`, `kernel_oracle.py`, `m0_audit.py` | one SQLite connection per call; result, ledger and metrics files | query a pair, submit a pair, run an episode on a batch of pairs, audit the store | the Lawbook store; a thread per HTTP request |
| Lawbook store: `mathgraph/lawbook_store.py` | SQLite tables `traces` and the certificate tables | import, look up by pair, count | every process that opens its file |
| Source catalogue publisher: `mathgraph/source_catalogue_publisher_v1.py` | the output directory, staging and backup directories beside it | publish, check, validate; offline extraction in containers | the file system, other publishers, readers of the output |
| Reason Atlas: `mathgraph/reason_atlas_store.py`, `schema_feedback.py`, `reason_atlas_feedback_loop.py` | SQLite tables of entries and feedback | upsert, feedback, rescore, retire, supersede, next queue | the two loops below, evaluation scripts |
| Closed verification loop: `mathgraph/closed_verification_loop.py` | one run's events and candidates | run over queue rows | verifier callback, promotion gate, Lawbook adapter, Reason Atlas |
| Breakthrough loop: `mathgraph/breakthrough_loop.py` | solved tasks, attempts of its episodes | seed the atlas, run episodes | finite checker, promotion gate, Reason Atlas |
| Promotion gate: `mathgraph/promotion_gate.py`, `external_certificates.py` | none | decide on a certificate or on boundary evidence | both loops |
| Lawbook accumulator: `mathgraph/lawbook_accumulator.py`, `mathlib_digest.py`, `digest_scheduler.py` | SQLite tables of digest runs, targets, basins, attempts, constructors, obstructions, pending packs | digest a pack and write the run, propose packs | digest scripts, Lean |
| Residual Lawbook: `mathgraph/residual_lawbook.py` | SQLite tables of residual rows | write a report's rows | one report script |
| Progress: `mathgraph/progress.py` | a log, a heartbeat thread per stage | stage, heartbeat, stream a subprocess | every pipeline |
| Pipeline validator: `scripts/validate_real_asset_pipeline.py` | stage results, a verdict, the reports in its output directory | run the stages, read the reports, judge | its child processes, through `stream_subprocess` |
| Integrity spine: `evidence_manifest.py`, `replay.py`, `ledger.py`, `hashing.py` | append-only records | hash, record, replay | acceptance |
| Acceptance, admission and ingest: `lawbook_acceptance.py`, `lawbook_admission.py`, `lawbook_boundary.py`, `lawbook_ingest.py` | none | decide, make a row, ingest | promotion gate, Lawbook store |
| Compounding episodes: `multi_episode_compounding.py`, `sair_real_compounding_benchmark.py`, `reason_coagulation.py`, `lawbook_promotion.py`, `lawbook_attention.py` | store tables `artifacts`, `attempts`, `events`, and those of obstructions and reasons; a runner's counts and reports | run an episode, promote its attempts, note reuse, count what is durable, report | admission, Lawbook store, other runners |
| Website workbench: `website/src/scripts/import-workbench.ts` | the page | recognize a local file, show a stage | the browser |
| Protocol parsers, schedulers, synthesis, competitions, experiments | none | pure functions and scripts | |

### Which behaviour is hard

- *Concurrency.* Threads of the HTTP service and scripts share the M0 store's
  file, each on a connection of its own; the check that a pair is new and its
  insertion are separate statements. Publishers share an output path; processes
  share the atlas.
- *Failure.* A SQLite commit may time out and leave its row in the
  connection's open transaction; a rename may fail after the old directory was
  moved away; a process may be killed between any two steps.
  A digest run, or an episode that fills the Lawbook, is many commits, and may
  die between any two. A child process
  may die, hang, close its output and hang, or hold it open for ever.
- *Stale state.* Rows are triaged long before they are imported; an output is
  validated long before it is replaced; an entry is read in one transaction and
  written back whole in another; a snapshot is compared with a later closure; a
  target's counts are read and then written; a report is read from a directory
  that an earlier run used.
- *Fixed points.* Warrants may justify each other in a cycle, and a withdrawal
  must leave no group of claims holding itself up.

### What makes each component correct

- Warrant resolution: the answer is the least set closed under the live
  routes, nothing is supported by a cycle or across a boundary, a withdrawal
  only removes support, and STALE is exactly lost support.
- M0 service: a certified answer, once given, stands; what is certified is not
  searched again; what is reported as imported is committed; locks are released.
- Publisher: no part of a publication is ever at the output path, the last one
  is never lost, a failed call puts it back and tidies up, a check writes nothing.
- Reason Atlas and its loops: it never counts more than was recorded, every
  emission is recorded once, no effect without its cause, what is promoted is
  backed by evidence, retired entries stay retired.
- Promotion gate: it accepts exactly the certificates with valid evidence of the
  form they claim.
- Admission and episodes: nothing is durable without evidence of its kind,
  whichever path brought it; a fallback never is; what a row refers to is there.
- Digest: a run's details are in the tables whole or not at all, counts are
  backed by runs, packs name what is known.
- Pipeline validator: ok means that every stage earned it; output is not lost;
  a run ends even if a child hangs.

## 2. The modules

| Module | Models | Role |
| --- | --- | --- |
| `WarrantGraph` | inputs, validation, live routes, the reference definition `Least` | operators |
| `WarrantClosure` | what a caller is promised: refuse, or answer with `Least` | abstract specification |
| `WarrantResolution` | the closure loop, withdrawal, comparison | detailed specification; `KeepsPromise` refines `WarrantClosure` |
| `WarrantResolutionProofs` | | theorems |
| `CertificateMemory` | one certificate per pair, answers repeat it | abstract specification |
| `M0Service` | queries, submissions, episodes, import, SQLite's locks | detailed specification; `RemembersOnce` refines `CertificateMemory` |
| `M0ServiceProofs` | | theorems |
| `CataloguePublish` | `publish_catalogue`, step by step, with failures and kills | specification |
| `CataloguePublishProofs` | | theorems |
| `PromotionGate` | the gate's decision and what may be promoted (`Backed`) | operators |
| `PromotionGateProofs` | | theorems |
| `ReasonAtlas` | the atlas under both loops, the gate in them (it extends `PromotionGate`), seeding, retiring | specification |
| `ReasonAtlasProofs` | | theorems |
| `LawbookAdmission` | the admission gate, the rows that admission and ingest make, what table `artifacts` takes (it extends `PromotionGate`) | operators |
| `LawbookMemory` | episodes that fill one Lawbook file, insert by insert | specification |
| `LawbookMemoryProofs` | | theorems |
| `DigestRun` | what one digest run finds, entry by entry of its list of targets, and the rows it comes to | operators |
| `DigestLog` | runs enter a log whole and once; constructors count the trials that verified them | abstract specification |
| `DigestLawbook` | digest runs and the scheduler on one SQLite file | detailed specification; `KeepsLog` refines `DigestLog` |
| `DigestLawbookProofs` | | theorems |
| `StreamedStage` | one child process, its stage timer's thread, and `stream_subprocess` | a part, used by the next |
| `PipelineValidation` | the validator over `StreamedStage`, run after run | specification |
| `PipelineValidationProofs` | | theorems |
| `MC...` | | small instances for TLC |

### Warrant resolution and the code

`InputOK` is the validation at the head of `resolve_graph`; `Accept` and
`Reject` are its two outcomes, and the `ValueError` reaches the caller in
`Abandon`. `Round` is one iteration of the `while` loop, whose additions
(`added`) are computed against the set as it stood when the round began;
`Finish` is the iteration that adds nothing. `Withdraw` is `reclose`: the closure
starts again from the empty set. `Compare` is `compare_snapshots`; `baseline`
records what was withdrawn when the caller's snapshot was taken, so that the
properties can relate the two closures. `Least` is defined without the loop, as
what lies in every closed set.

### M0 service and the code

One `Caller` is a request thread or a script. `Query` is `query_claim`;
`Submit` is `submit_claim` after its query found nothing; `RunEpisode` a batch.
The episode's places are `triage` (the loop of `_run_with_workdir` over the
rows), `import`, `insert` and `stats` (the importer's duplicate check, the insert
of `import_lawbook` with its commit, and the statistics it reads before it
returns), and `after` (the second look at the oracle that decides the
answers). SQLite is part of the model as far as answers depend on it:
`uncommitted[c]` is what a connection wrote and did not commit, `CommitBusy` is a
commit that times out, `SchemaBusy` the same inside `executescript`, `InitSchema`
the implicit commit of `executescript`, `InsertLocked` and `StatsLocked` are
waits for another connection's lock that are given up, and `CloseImport` is the
rollback of closing. `critical` stands for an older row that fails the audit, so that
`submit_claim` may raise after its write. A certificate is the episode and the
row that made it: two imports of one pair differ, which is what makes "the same
answer" mean something. `given` and `sure` are history.

### Publisher and the code

Each place of `pc` is a point between two system calls of `publish_catalogue`:
reading what is at the path (`read`, file by file, because another publisher may
rename it meanwhile), `judge`, `mkdtemp`, `write`, the second `exists` (`look`),
the rename aside, the rename into place (`swap`), the rollback, the removal of
the backup (`drop`) and of the staging directory (`cleanup`). A call that ends
with parts of a directory left is `untidy` when it had published, and `littered`
when it raises because its staging directory could not be removed. `Fails` holds
the system calls that may fail and a kill between any two steps. A directory is
whose content it holds and how many files of it. `shown` is history.

### Promotion gate and the code

The gate keeps no state, so `PromotionGate` has operators only.
`evaluate_external_certificate` tries the refusals in the code's order on a
certificate whose fields are put in the classes the code tells apart (three of
verifiers, five of statuses, six of evidence kinds and artifacts as Booleans).
`boundary_valid` is the attribute as `__post_init__` leaves it.
`evaluate_boundary_evidence` wraps bare evidence in an envelope, as the code
does. `Backed` says without the gate what may go to the Lawbook. Two facts a
reader may not expect: the code compares only the terminal form of the evidence
with the certificate's, neither its certificate id nor its verifier; and it
files every refutation as a finite countermodel, whatever its evidence.

### Reason Atlas and the code

`add_feedback` is one transaction: the row, and the entry's counts when there is
an entry. A process that has judged an attempt holds a `script`, the outcomes it
still has to record, and `record` is one of them, a transaction of its own: a
success, a failure, a failure and its obstruction, or a success, its transfer
and the residual it compressed. `run`, `VerifyRow` and `EmitCandidate` follow
`ClosedVerificationLoop.run` row by row, over every certificate a verifier may
return (`Verdicts`, the gate's decisions on `Certificate`); `run_episode` and
`Attempt` follow `BreakthroughLoop.run_episode`, over the two certificates the
loop builds. `Rescore`, `ReadEntry` and `WriteEntry` are
`recompute_all_scores`, whose read and write are different transactions, and end
both; `ReadToRetire` and `WriteRetired` are `retire_entry` and
`supersede_entry`; `SeedEntries` and `UpsertSeed` are the constructor of
`BreakthroughLoop`. `Abort` is a kill or an exception out of the call.
`unrecorded`, `misjudged`, `forgot` and `overlapped` are history. The support
counter, which moves with the transfer's, and the size of a compressed residual,
which the breakthrough loop always gives as one, are left out.

### Lawbook memory and the code

`LawbookAdmission` is functions of one artifact: `evaluate_artifact` with a
decision for each kind, `admit_to_store`, `ingest_external_certificate` behind
the promotion gate, and `validate_terminal_boundary`, by which `insert_artifact`
raises. Of the evidence it keeps whether each part is there.

`LawbookMemory` runs them. `evaluate` chooses what the evaluator reports for the
tasks of an episode, and whether it found the corpus. The benchmark then stores,
attempt by attempt, an artifact (`store_artifact`) or an obstruction, and the
attempt; then the reasons (`coagulate_reasons`), those made from attempts first.
`promote` is `promote_benchmark_outputs`, which judges the same attempts again
under its own policy and stores under its own names. `retrieve_lawbook_attention`
and `record_artifact_reuse` are what the driver does for each task,
`count_durable` ends the episode, and `compute_cross_episode_metrics` is the
query that looks for fallbacks. Each insert is one transaction, so each is an
action. Names are hashes of a few fields, here those fields: two episodes of one
mode and task replace each other's benchmark artifact. The row remembers whether
its payload speaks of `fallback_mode`, because the last query reads the text.
`Die` is a kill or an exception, which a lock timeout is too. What ranks an
artifact is left open: attention may return any that qualify. `contact` is
history.

### Digest Lawbook and the code

`DigestRun` is one run of `run_mathlib_digest_accumulator` up to its write. A
config's `names` are the concatenated lists of its packs, in which a target may
come twice; its `basin` is what `infer_reason_basin` makes of the pack that names
a target last, or of the name. So all entries of a target are in one basin within
a run, and may be in another in the next: `examples/mathlib_digest_nat_small`
gives every pack a basin, and the config that `export_next_pack_config` writes
gives none, and may name in two packs what has edges to two basins. Each entry is
put to Lean and counted (`Support`, `Trials`, `Yield`); rows with one key replace
each other (`Observations`, `Attempts`), so a target named twice has one
observation, and one attempt for each template, but counts twice. A constructor's
identity is a hash of basin, template and proof body; `ProofBody` is a parameter,
because the references that Lean prints enter some bodies and the target's name
one.

`DigestLawbook` runs them. `Digest` chooses the config and what Lean said
(`Payloads`): Lean is asked first, and all is written last. Then come the commits
of `write_digest_payload`: the run's row (`append_digest_run`), each entry
(`ReadTarget`, `WriteTarget`: `upsert_target` reads and then writes and
commits), and one transaction for all that is left, which the first insert
begins (`InsertObservations` takes `lock`) and `Commit` ends. `txn` is what that
transaction has written. `ReadBasins`, `ReadPack` and `upsert_pending_pack` are
`propose_next_packs` with the default strategy, which reads the basins once, the
targets of each in another query, and commits each pack. `Abort` is a kill or a
lock timeout. `overlapped` is history. `DigestLog` is what a reader of the tables
would like to believe of them.

### Pipeline validation and the code

`StreamedStage` is one stage: the child (its own stage with the heartbeat thread
of `StageTimer`, the report it opens and writes in place, how it closes its
output and exits, or dies), and `stream_subprocess`, which blocks in `readline`
and looks at the clock only when that returns nothing. `StageDone` is
`__exit__`, whose join waits one second: it may be over while the thread is
still writing. One stage timer stands for those a reporting child uses one
after the other. `PipelineValidation` runs the stages in order (`Wanted` is what
the command line and the smoke's report ask for), reads what the children left
(`EndStage`; a torn report raises out of the validator), and judges. Each run of
the validator uses the same directory and the same command line, as the
documented commands do. `Interrupt` is the terminal's, which reaches the child
too; the orphan that a kill of the validator alone leaves behind is not modelled.

## 3. The runs

| Run | Instance | Shows |
| --- | --- | --- |
| `warrant_resolution` | three claims, four receipts, an adapter; every graph of up to three routes from a pool of twelve, every withdrawal | the answer is the least closed set; no unrooted cycle; every support within its boundary; withdrawal only removes; STALE is exact; the loop ends; `WarrantClosure` is implemented with its promise to answer |
| `m0_races` | two callers, two refutable pairs and one of the warehouse, queries, submissions, two episodes of two rows, two commits that time out | answers stand, pending results agree with the store, what was certified is not retried, imported rows are committed, `CertificateMemory` is implemented |
| `m0_lock` | two callers, two refutable pairs, queries, submissions, two episodes of both pairs, two commits that time out | the lock of a timed-out commit is released |
| `m0_duplicate_rows` (violated) | two callers, no failure | two rows for one pair |
| `m0_error_row_stored` (violated) | one failing commit | a row reported as an error is stored |
| `publish_races` | three publishers or checkers, two publications, two files, one fault, one foreign directory | no part of a publication at the path, none lost, a failed call restores and tidies, unrelated output stays when it is refused |
| `publish_foreign` (violated) | one publisher, one foreign directory | an unvalidated directory is erased |
| `atlas_races` | two processes, one entry, three runs and episodes, one seeding, an attempt, a retirement, an abort | counts are backed, emissions recorded once, causes come before effects, what is promoted is backed; used in turn without seeding over a past, counts are exact and retirements final |
| `digest_runs` | two processes, two targets, two basins, two runs, each of a config with one target in one basin, with that target twice or with the other target in the other basin, or with none; one plan, one abort | targets never count more than the entries that name them, basins and packs are backed, and the details of a run enter whole and once: `DigestLog` is implemented |
| `pipeline_validation` | four command lines, two runs in one directory, a timeout | ok is earned, with the one exception the property names; no line is lost and no heartbeat comes late but one the timer gave up on; the validator ends |
| `lawbook_memory` | two runners, one with two strict episodes of one task, one with a lenient episode of both | what is durable was earned, rows have what they refer to, growth never shrinks, wherever a runner dies |
| `lawbook_false_alarm` (violated) | one runner, one task | a runner denies that no fallback became durable, and none did |

### Bounds

- *Warrants.* Cycles need two claims, an adapter a third of another kind; three
  routes are enough for a cycle with an alternative root, and for an adapter over
  a supported premise. The pool has one route for each way to be invalid. The
  theorems have no bound.
- *M0.* Two callers suffice for a race on a pair. A batch of two rows is the
  smallest in which one row's failed commit is committed by the next, or which
  repeats a pair within itself. `MaxBusy` of two lets a second commit fail on a
  connection that already holds a row, or one on each of two connections. Two
  episodes race, or come after each other; queries and submissions come before,
  between and after. The liveness run leaves out the warehouse's pair and the
  repeated one, which no lock depends on. The proofs have no bound.
- *Publisher.* The rollback that meets an occupied or freed path needs three
  publishers; two files make a directory that can be partly written and partly
  removed. The proofs have no bound, and cover any number of faults.
- *Atlas.* The properties speak of one entry at a time, so the races need one;
  a second run and a seeding come after counts exist, the third run after both.
  An attempt is the longest script, three outcomes, and a process may die at
  each. The verdicts range over all 780 000 certificates. The proofs have no
  bound, except that the processes are finitely many.
- *Digest.* Two runs race on the target they share, and one dies anywhere,
  including inside its last transaction; the plan reads between them. The config
  that names one target twice, in another basin than the first config, is the
  smallest in which entries share their rows and a target changes its basin; the
  other target shares a constructor with it. 1.1 million states.
- *Lawbook memory.* The runner with two episodes replaces its own artifact and
  counts twice; the other meets it on the shared task, and has a second task, so
  that one episode makes several attempts and a reason groups two of them. Every
  combination of solved, failed, fallback and real occurs. Attention returns one
  artifact, so that it must choose. 1.2 million states; the proofs have no bound.
- *Pipeline.* The second run finds the reports of the first. One line tells
  output passed on from output lost; the second heartbeat is the one that can
  come after the timer gave up on the first. The command lines differ in one
  thing each, and the documented one in two that belong together. Half a million
  states.

Deadlock is checked for warrant resolution. The other runs switch it off because
the number of episodes, calls and runs is bounded, and the system stops when they
are used up.

### Fairness

`WarrantResolution!Spec` is weakly fair to the steps of `resolve_graph`: it is a
sequential call that does not wait for anything. The caller need not do
anything. `M0Service!Spec` is weakly fair to each caller's episode: a thread that
began one is scheduled until the call returns or raises. No fairness is assumed
of requests. `PipelineValidation!Spec` is weakly fair to the validator, which is
scheduled when it can go on, and to the clock; nothing is asked of a child.
`RunEnds` therefore has a premise: again and again either no stage runs or the
child's output is closed. A child that keeps it open and silent is never timed
out, because `readline` does not return; so much the code cannot promise. With
the output closed, a child that hangs is killed at its deadline. It speaks of runs
with a time limit (`HasTimeout`): without `--timeout-sec`, which is the default,
no deadline exists and a child that hangs hangs the validator. The publisher,
the atlas, the digest and the Lawbook's episodes are specified for safety only: a process may be killed
at any point.

### Disagreements found

1. *Two rows for a pair* (`m0_duplicate_rows`). The importer refuses a pair it
   finds, `countermodel_importer.py:176`, but two episodes may both look before
   either inserts. `AnswersStand` and `RemembersOnce` show that no answer
   changes, because the oldest row answers.
2. *An error row in the store* (`m0_error_row_stored`). A row whose commit timed
   out is reported as not imported, and the next row's `executescript` commits it.
   A second way, which needs another connection's lock: `import_lawbook` reads
   statistics after its commit (`lawbook_store.py:1053`), and an exception there
   is reported as a failed import too.
3. *Unrelated output can be erased* (`publish_foreign`), against the comment at
   `source_catalogue_publisher_v1.py:601`, when it arrives after the validation.
4. *A false alarm* (`lawbook_false_alarm`). Fallback artifacts are blocked from
   durable memory, as `docs/multi_episode_compounding.md:35` says, and
   `DurableIsEarned` shows it. The runner's own check says otherwise as soon as a
   real countermodel is stored: it looks for `fallback_mode`, then `true`
   anywhere after it in the payload's text
   (`multi_episode_compounding.py:268`), and finds `"fallback_mode": false` and
   the `true` of `replayable`. The tests run the fallback path only.

## 4. The theorems

Assumptions are those named in the modules: the sets of constants are what they
are called, the bounds are naturals, and the placeholders for "absent" are not
members of the sets beside them. TLC evaluates them in every run.
Where a theorem needs more than that, its `ASSUME` says so and so does the
paragraph here.

Three kinds of statement follow. Most are the invariants and action properties
of the runs. Four say when a promise that a run refutes does hold, one for each
disagreement above: `AloneNoDuplicates`, `AloneErrorsAreCarried`,
`UnrelatedIsSafe` and `OnlyFalseAlarms`. Three are variants
(`CallsEnd`, `HolderGoesOn`, `RunGoesDown`): a natural number that every step of
a call lowers, which is what a termination property says apart from fairness.

*`WarrantResolutionProofs`.* `LeastFixedPoint` is not inductive: it says nothing
while the loop runs. `IInv` adds that during the loop the active claims lie
within `Least`, because a closed set that contains the active claims also
contains what fires from them, and that a finished loop's set is closed; the two
inclusions give equality. An earlier snapshot is remembered as the least set of
its own withdrawals, so that `WithdrawalOnlyRemoves` and `StaleMeansLost` follow
from the monotonicity of `Least`. `NoUnrootedCycle` follows by removing the
would-be cycle from the least set: what remains is closed, against leastness.
`OwnBoundaryReceipt` follows from validation. `ImplementsPromise` maps each step
to a step of `WarrantClosure` or a stutter. `UnaffectedIsKept`: closing again
changes no claim outside a set that is closed under dependence on the receipts
whose withdrawal differs, because the least set can be put together from the old
one outside and the new one inside. `CallsEnd`: with finitely many claims, each
round takes a claim away from those not yet active or is the last, so that once
submitted a call takes at most two steps more than there are claims, whatever
the routes.

*`CataloguePublishProofs`.* `ShownSurvives` needs to know what staging and backup
directories hold at each place of a call: `StagingByPlace` (complete from `look`
until the swap), `BackupByPlace` (empty before the rename aside, whole until the
removal begins) and `CheckStops` (a check never gets past its judgement). With
`TypeOK` and `OutputIsWhole` they are inductive, for any number of publishers,
publications, files and faults. `EndedIsTidy` and `CheckWritesNothing` follow:
the first allows parts of a directory only where its removal failed.
`EndedIsRestored` is about several publishers at once: with at most one fault,
an emptied path has a publisher whose backup is what was last shown, and which
is at its swap, at its rollback after that fault, or killed (`RestoredInv`).
`RefusedIsKept` rests on a dichotomy: until somebody else puts content at the
path, either unrelated content was there from the start and no call has got past
its judgement (`Refusing`), or there is none anywhere (`OnlyPublications`). The same
dichotomy gives `UnrelatedIsSafe`: as long as no other program puts anything at
the path, unrelated output is not moved. `TwoRollBackRightly` supposes that the
publishers are two (`Publishers \subseteq {a, b}`) and that no other program
puts anything at the path: then a rollback leaves the path as it is or puts back
what was there last, whatever fails or is killed, because what a call between
its renames holds is what was there last, or else the other call has filled the
path and takes nothing from it any more (`LatestInv`). With three it is false, as TLC finds
at once.

*`M0ServiceProofs`.* Everything rests on one lemma, `OracleStable`: rows are only
appended (`TracesGrow`) and the oldest row of a pair answers, so an answer that
is not empty does not change; and no row is ever made for a pair of the
warehouse, which is answered without the table (`PlaceInv`). `SearchInv` says
what a row that is being searched or imported was found to be, and `KnownInv`
that what was certain when an episode began is not among what it searched. With
these, `AnswersStand`, `ResultsStand`, `RememberedIsNotRetried` and
`ImportedIsCommitted` are inductive, for any number of callers and any batches,
with any failures of commits. `ImplementsMemory` maps an append to `Learn` of
its pair or a stutter, and a step that leaves the table alone to `Tell`. Both
theorems speak of `Safe`, the specification without its fairness, which is what
`RemembersOnce` asks for.

About the lock of a commit that timed out: `LockHasOneHolder` (`LockInv`), and
`HolderGoesOn`, the variant of `LockIsReleased`: the holder's rows go down with
each step of its episode until it lets go. About duplicate rows: with finitely
many callers, a pair has at most one row for each of them, because the rows
together with the callers that may still insert one never outnumber the callers
(`DuplicatesStayBounded`); and none is ever doubled in a behaviour where no two
callers import at once (`AloneNoDuplicates`, with `ImportsAlone` as a premise).
About error rows: where no two callers import at once, a row reported as an
error is in the store only if its connection went on to a later row of the batch
that had a countermodel (`AloneErrorsAreCarried`). The report about the last
such row of a batch, and about the only row of a claim, is then true. Without the
premise it need not be: a lock met at the statistics reports a committed row as
an error.

*`PromotionGateProofs`.* `GateAcceptsBacked`: six refusals in order come to the
same as `Backed`, for every certificate. `CandidateIsOfEvidence`: what is filed
as a proof has evidence of a proof. `BareEvidenceIsRefused`: evidence handed to
the gate without a certificate is never accepted, whatever its class: of the
three, one has no boundary kind that promotes, and the other two have a terminal
form whose text is not the name of a form.

*`ReasonAtlasProofs`.* `CausesComeFirst` and `EmissionsAreRecorded` are not
inductive as they stand, because between two transactions of an attempt a
process owes what it will record. `CauseInv` counts with each effect the
processes that owe it (`Owing`), `EmissionsAreRecorded` those whose success is
pending; one step changes each of these sets by at most one process, and sets of
processes are finite (`LoopsAssumption`). `CountsAreBacked` needs the same of
what processes hold to write back (`HeldInv`), and `CountsAreExact` and
`RetiredStaysRetired` that a process which has been alone holds the entry as it
is (`AloneInv`). `PromotedIsBacked` follows from `GateAcceptsBacked`.
`AloneRemembers`: while no two processes have been busy at once and no entry
with a past was seeded, no step lowers a count or removes an entry. Seeding over
a past would put zero counts there; no script of the repository does it, because
those that build a breakthrough loop delete their atlas file first.

*`PipelineValidationProofs`.* `LogsAreTrue` needs to know that the streaming loop
leaves off reading only when it has read what the child sent and the output is
closed (`StreamInv`), and that the log has no outcome before the timer's end,
after which a heartbeat still being written is the first late one (`LogInv`).
`OkIsEarned` is a statement about the verdict; before it, `PlaceInv` says which
stages were begun, `WroteInv` that a child which ends with a return code of zero
has written its report, and `ResultInv` that what was begun has its result, what
failed is on the list, and what was read is what is in the directory.
`RunGoesDown` supposes a time limit (`HasTimeout`). The pair of the stages done
and of what is left of the current one (its place, and the lines its child may
still send, `StageLeft`) goes on with every step of the validator but a look at the
clock before the stage's time has passed, and nothing a child does sets it back:
it is the variant of `RunEnds`.

*`DigestLawbookProofs`.* `TargetsAreBacked` compares a count with the number of
entries that name a target, in all runs (`Sightings`, pairs of run and place in
its list), and both change in different transactions. The invariant says who is
behind (`SeenInv`): a process owes the entries of its list that it has not
written yet, and the counts of a target, those in the table and those a process
has read and not written back, stay within the entries that are not owed; each
write goes one entry further, whether or not the target was there before. Where
processes take turns nothing is lost (`ExactInv`). The open transaction holds the
details as they were and what its own run has written so far (`TxnInv`), so that
a commit adds one whole run; what a run is worth to a basin or a pack
(`BasinsAreEarned`, `PacksAreBacked`) follows from the table it was read from,
which only grows. `ImplementsLog` maps `Commit` to `Record` and every other step
to a stutter. All of it for any number of processes, runs and targets, and any
configs: nothing is assumed about lists being free of repetitions, or about
basins.

*`LawbookMemoryProofs`.* First the pure facts. `DurableIsEvidenced`: whatever an
artifact calls itself and whatever the policy, it is durable only with the
evidence of the kind it is taken for. `AdmittedIsTaken`: the store takes each
durable row, and only those claim a verified form. `IngestedIsBacked`: a
certificate whose row the store takes with such a form is one the promotion gate
backs, checked by Lean for a proof and by the finite checker for a countermodel.
`EvidenceNeverHurts`: more evidence or a more lenient policy never takes from an
artifact that it is durable, and never lowers its level either unless it makes a
fallback of it, which a strict policy takes as advice without asking for the
provenance it demands of others.
Then the episodes. `DurableIsEarned` is not inductive alone: that a row is
replaced only by one as good depends on its name, which tells a fallback from a
real attempt, and on `JudgeDecides`, that both policies agree about every
attempt. `RecordsAreBacked` needs to know where each runner is: the artifact or
obstruction of its current row is written before the attempt (`RowOK`), and the
reasons and notes it has yet to write already have their rows (`TodoOK`). The
tables only grow, and so does what is durable (`Grows`), so nobody's part is
disturbed by another runner (`OthersStand`), and finite sets that grow have
growing counts (`GrowthOK`). `OnlyFalseAlarms`: whenever a runner reports a
fallback among what is durable, there is none, so that the report is right
exactly as long as it reports nothing. The theorems hold for any runners, episodes, tasks,
modes and kills, and any of the two policies.

Only model-checked: liveness and the fair half of the refinement
(`KeepsPromise` as a whole, `LockIsReleased`, `RunEnds`), which are beyond the
prover; their variants are proved. Only proved, and part of no run:
`CheckWritesNothing`, the four boundaries of the disagreements, `AloneRemembers`,
the three variants, `UnaffectedIsKept`, `LockHasOneHolder`, `DuplicatesStayBounded`,
`TwoRollBackRightly` and `EvidenceNeverHurts`. Their statements are defined
beside their proofs.

## 5. What is not modelled

Hashing, canonical encodings, HTML and JSON are data: identifiers are model
values. `PROJECT.json` gives the reason beside each component:

- *No state of their own:* the integrity spine, `lawbook_acceptance.py`, protocol
  parsers, public receipts, the task runner.
- *State outside the program:* verifier adapters (an external process), the
  container stages of the offline extraction (file modes and mounts), the
  website's workbench (the browser's events). A model would consist of
  assumptions about the environment.
- *One sequential writer:* the residual Lawbook. A run repeated under the same
  id with fewer rows would leave the earlier run's last rows in place, but its
  script names each run anew. Other importers of the Lawbook store are of this
  kind too.
- *Arithmetic:* schedulers, spectral scores, synthesis. Floating-point, advisory.
- *Scripts:* pipelines, competitions and experiments, by far the most lines of
  the repository: each calls parts named above once, in sequence, and keeps
  nothing another reads. The models therefore stand for a small share of all
  lines, and for most of the code where processes, threads or crashes meet.

Within the modelled parts: the M0 ledger and metrics files, which no answer is
read from; deletion and human feedback of the atlas, which no loop records; the
scheduler's other two strategies and its limits of five basins and ten targets; the progress
log of the validator itself; derived closure artifacts and advisory dictionaries of
the Lawbook's ingest, decode reports and the report files of an episode.

Seen on the way, and the subject of no run:

- `docs/sair_stage2_testbed.md` says that timeouts are reported as `stage_error`,
  which for a child that keeps its output open and silent does not happen: the
  loop never gets to its clock (see Fairness), and `RunEnds` has its premise for
  that reason.
- The publisher replaces by two renames, with nothing at the path between them,
  where the plan in `docs/superpowers/plans/` asks for atomic replacement; its
  late rollback may put an older publication back when a third publisher is
  between its renames, which two alone cannot bring about
  (`TwoRollBackRightly`). No lock is promised.
- `ingest_named_obstruction` makes a row that the store refuses, so with a store
  it always raises, though without one it reports the obstruction as accepted.
- `obstruction_decision` does not ask for provenance, which a lenient promotion
  policy then does not either; `docs/lawbook_admission.md:26` lists it as
  required. No caller of the promotion names obstructions.
- An episode's notes of reuse include artifacts it has just promoted itself.
- The first call on a new file adds columns to its tables without a lock
  (`init_compounding_schema`); two first calls at once may both try, and the
  second raises, which the model counts as `Die`.

## 6. Plan

Done: everything above, with proofs about every module that has states or
decisions. Left, the most consequential first:

1. The M0 ledger and metrics files, rewritten and appended to without a lock,
   and the comparison of an episode with a history read when it began.
2. `ContainerOutput`: prepare, run, revoke and seal against a container that
   keeps writing, once the host's file modes are stated as assumptions.
3. A durable memory as the abstract specification of the Lawbook's episodes,
   with `DurableIsEarned` and the growth of the tables as its steps.
4. The other importers of the Lawbook store, and its closure of derived
   certificates, as operators with a reference definition.
