# OpenStoryline in TLA+

OpenStoryline turns an uploaded video and a prompt into an edited video. One web container
(FastAPI, asyncio) serves browsers, keeps its state in PostgreSQL and on a volume, and runs the
render worker as a task of the same process; a second container may run beside it during a
deployment. This directory holds TLA+ models of the parts where processes, transactions, files and
failures meet, TLC runs that check them on small instances, and TLAPS proofs of the most important
facts for instances of every size.

Paths below are relative to `src/open_storyline/mvp/` of the repository unless they start with
another directory.

Contents: 1 the system · 2 the modules and the code · 3 the runs · 4 fairness · 5 the proofs ·
6 what the work found · 7 what is left out · 8 plan.

## 1. The system

### Inventory

| Component (sources) | State | Operations | Modelled in |
|---|---|---|---|
| Render queue and workers (`jobs.py`: `JobStore`, `JobManager`) | `video_jobs.state`, two advisory locks, the coordinator task and its `_process` task | `enqueue`, coordinate, recover, claim, process, `update`, `fail`, start, stop | JobQueue, ExclusiveQueue |
| Session source uploads (`session_media.py`) | one `session_input_videos` row per session, `source.part` and `source.<suffix>`, the session's advisory lock | `initialize`, `append_chunk`, `complete`, `cancel`, `status`, `purge`, reconciliation | SessionSource, ResumableSource |
| Retention and deletion (`retention.py`, the sweep of `jobs.py`) | deadlines of sessions and runs, holds, artifact rows, directories, the cleanup lock | `run`, `delete_session`, `set_audit_hold`, `clear_audit_hold`, `cleanup_terminal_job` | Retention |
| Prompt versions and reruns (`prompt_versions.py`) | `prompt_versions`, attempts, the favorite | `create_version`, `rerun`, `select_favorite`, `clear_favorite` | PromptRuns, AtomicRuns, with SessionSource, JobQueue, Retention |
| Activity feed (`activity.py`, `web/static/mvp/activity.js`) | `job_events`, the progress column, the client's cursor | record, `stage`, page, SSE stream, replay, reconnect, poll | ActivityStream |
| Checkpoints (`checkpoints.py`) | `analysis_cache_entries`, `job_checkpoints`, their files | save, load by fingerprint, quarantine, purge | look-up and save in Analysis, the stages of repair in PlanRepair and PostRenderRepair, rows and files in Retention |
| Job pipeline (`pipeline.py`, `generated_media.py`, `prompts.py`) | a run's working directory, stage results, candidates | stages, gates, repair rounds, promotion | Analysis, PlanRepair, FinishingEffects and PostRenderRepair, in the order of the code; one step of JobQueue |
| Edit planning (`edit_plan.py`, `creative_intent.py`, `catalog.py`) | none: documents | validate, normalise | when the editor is asked and refused, in Analysis |
| Plan repair (`repair.py`, `defects.py`) | rounds used, lane, evidence | authorise and record a round | PlanRepair |
| Post-render repair and promotion (`post_render_repair.py`, `promotion.py`, `candidate_comparison.py`) | lane used, original and candidate, their files | review, repair, verify, compare, move, promote | PostRenderRepair |
| Outcomes and creative QA (`outcomes.py`, `creative_qa.py`, `render_critic.py`, `render_evidence.py`) | none: verdicts from evidence | decide | the calls and what follows when they fail, in PostRenderRepair |
| Fallbacks and preflight (`fallbacks.py`, `preflight.py`, `visual_coverage.py`) | the fallback ledger | compile a baseline, gates before the render | PlanRepair |
| Login and access sessions (`auth.py`, `security.py`) | attempt counters, `access_sessions` | login, resolve, rotate, revoke | not modelled |
| Operator administration (`admin.py`) | users, sessions | create, disable, revoke | not modelled |
| Audit (`audit.py`, `observability.py`) | reads only, bundles | inspect, export, hold | the hold in Retention |
| Remote speech to text (`remote_stt.py`) | key ring: cooldown, disabled keys, attempts | transcribe | one paid step of Analysis |
| Model gateway (`ninerouter.py`, `structured_outputs.py`) | attempts of a call | call, validate | one step of each caller |
| Stock and image assets (`assets.py`, `stock.py`, `remote_image.py`) | downloaded files | search, download | the fallback that follows, in PlanRepair |
| Vision and sampling (`visual_understanding.py`, `frame_sampling.py`, `frame_quality.py`, `scene_boundaries.py`) | none | looks at the video, pure computations | the looks, their refusals and repairs, in Analysis |
| Short selection (`shorts.py`) | none | rank without overlap | one step of Analysis that may fail |
| Rendering (`render.py`, `compositor.py`, `ffmpeg_filters.py`, `subtitles.py`) | files | build filters, run FFmpeg | not modelled |
| FFmpeg sidecar (`ffmpega.py`, `ffmpega_service.py`, `ffmpega_contracts.py`) | bounded queue, history | submit, work, poll | FinishingEffects |
| Quality sidecar (`scripts/quality_metrics.py`, `bin/quality-mvp`) | none | compute metrics | not modelled |
| Configuration and database access (`settings.py`, `database.py`, `models.py`) | pool, constraints | open, transact | constraints used throughout |
| HTTP interface (`api.py`, `src/mvp_fastapi.py`) | none of its own | routes, startup, scheduler | requests of each module |
| Browser client (`web/static/mvp/upload.js`, `app.js`, `api.js`, `views.js`, `messages.js`) | upload offset, pause flag, views | upload, resume, cancel | the server's side in SessionSource |
| Operations scripts (`bin/kamal-mvp`) | deployment | deploy, back up | not modelled |

### How they interact

Nothing is shared in memory between containers; components meet at five places.

* **Rows.** The queue is the `state` column of `video_jobs`. The request that makes a run inserts
  it queued; the worker claims the oldest with `FOR UPDATE SKIP LOCKED`; deletion counts active
  runs; retention reads and clears the deadlines that `update` and `fail` set.
* **Advisory locks.** `WORKER_ADVISORY_LOCK` (who leads), `WORKER_EXECUTION_ADVISORY_LOCK` (the
  fence that outlives leadership while an attempt drains), one lock per session's source, one for
  cleanup, and one, transaction-scoped, for the queue's capacity. Session-scoped ones vanish with
  the connection that took them, and the holder only finds out when it next uses it.
* **Files.** The volume has no transactions: uploads, the worker's outputs, the sweep and the
  purges work on the same directories and are kept apart by locks, states and deadlines only.
* **Calls.** A request commits a run and then calls `enqueue`; the worker calls the pipeline with
  the claimed run; deletion calls the source's and the runs' purges.
* **Streams.** The client follows a run by SSE over `job_events` and falls back to polling.

### What is hard, and what makes each part correct

*Queue.* Leadership can be lost at any instant, and at a crash a row stays running. Correct: one
worker processes at a time, whoever crashes or loses which connection; a run ends only under the
fence; recovery finds every interrupted row; every run ends; a worker goes on after an error (but see section 6).

*Source.* Each request is a chain of short transactions and file operations under a try-lock; any
of them may be the last, and hashing a source for a run happens between two holds of the lock.
Correct: what is ready is the declared file, byte for byte, and stays there while a run uses it; a
purged source leaves nothing; an upload fails only for a reason; a deleted session's files go.

*Retention.* Files go before rows say so, a hard delete removes the tree before it looks again at
the deadline, and the worker sweeps without the cleanup lock. Correct: evidence is removed only
when due and not held; whatever failed half-way is still due; expired data does go.

*Prompt runs.* `max() + 1`, a count before an insert and a favorite that moves are each several
statements. Correct: no duplicate number and no gap, the limit holds, one favorite that has
completed, a deleted session stays quiet, transactions do not wait for each other in a circle.

*Activity.* Replays started by timers, by the user and by the poll loop overlap with each other and
with a stream; replies are late, streams break, and the notice of the end comes after the end, if it
comes. Correct: the page shows the public feed without a gap, a repetition or a swap, says that the
run has ended only when it has, and does learn it.

*Analysis.* Six stages before the edit plan reuse what an earlier attempt, an earlier run of the
session or a prior prompt version found; a crash, a deployment or a failed save may come between any
two writes. Correct: what is reused was made from what holds now; what was paid for is not paid for
twice; a second look replaces the first everywhere; one repair of each look.

*Plan repair.* Two rounds, their checkpoints, fallbacks that change the plan after the round that
judged it and may bring defects along, and a ledger that is written several times. Correct: no
fallback for a defect the model was not asked about, nothing rendered that escaped the rounds, a
ledger on disk that explains the plan on disk, no run given up that could be saved.

*Finishing effects.* The client gives up while the sidecar goes on, and an attempt is repeated under
the same file names. Correct: a delivered file is the one its own call made and stays so; the answer
waited for is not forgotten; every accepted call is answered.

*Post-render repair.* Checks and evidence that may be missing, two rounds of which the second repairs
the candidate of the first, clips that one round delivers and the other does not, files that replace
the original one by one, reports kept apart from the files, and a crash anywhere, after which the job
starts over with the checkpoints it kept. Correct: repair never makes the published run worse than the
original; what is shown is what was verified and reviewed; an answer already paid for is not asked for again; whatever fails in
repair leaves the original candidate.

*Login, providers, upload client (not modelled).* The attempt limiter reads, then verifies, then
records; a key ring cools keys down and disables them; pause and cancel race the answer to a chunk.
Each of these is the private state of one component; section 7 says why they come last.

## 2. The modules and the code

| Module | What it is about |
|---|---|
| ExclusiveQueue | what the queue promises: one run executed at a time |
| JobQueue | requests, workers, locks and rows; implements ExclusiveQueue |
| ResumableSource | what an upload promises: acknowledged bytes stay, one chunk at a time, sealed as they were |
| SessionSource | the source of one session: row, files, requests, the lock's connection; implements ResumableSource |
| Retention | runs and sessions after they end: deadlines, holds, files, rows |
| AtomicRuns | what the transactions around runs promise: each takes effect at once |
| PromptRuns | these transactions statement by statement, with row locks; implements AtomicRuns |
| Analysis | a run from its claim to the first edit plan, with what it reuses from other runs |
| PlanRepair | a run from its edit plan to its rendering: two rounds, fallbacks, gates |
| FinishingEffects | pipeline and FFmpeg sidecar around the files with effects |
| PostRenderRepair | a run after the rendering: checks, review, two rounds, move, promotion |
| ActivityStream | a run's event log and a page that follows it |
| MC*X* | the small instances of module *X* |
| *X*Proofs | theorems about module *X*; those of JobQueue, SessionSource and PromptRuns have the refinements too |
| EffectsAndActivityProofs | theorems about FinishingEffects and ActivityStream |

Analysis, PlanRepair and PostRenderRepair are one attempt of one run in the order of
`MVPJobProcessor.__call__`: each begins where the one before ends (`handed`, `done`), and in each a
crash sends the attempt back to the beginning of the module, since what lies before is repeated with
what its checkpoints kept. FinishingEffects is the inside of one of their steps, seen with the
sidecar. JobQueue has the whole attempt as one abstract step, and that there is only one attempt at a
time is what JobQueue promises to them.

The modules overlap on purpose where the code of two components meets at a row: PromptRuns has the
worker as one actor that ends one run at a time (what ExclusiveQueue promises of it), SessionSource
has creation and end of a run as far as they touch the source, Retention takes `session_media.purge`
as one step (what SessionSource shows of it). `PROJECT.json` maps every definition to its lines.

### JobQueue

State: `jobState` is `video_jobs.state`; `coordLock` and `execLock` are the advisory locks;
`pc[m]` is where the coordinator task of container *m* stands (`_coordinate`, `_leader_loop`,
`_release_lock`) and `phase[m]` where its `_process` task stands; `lost[m]` is `leadership_lost` of
`_process_with_lock_monitor`; `held` are rows other transactions have locked. A step is a
transaction, a lock call or the code between two awaits.

| Code | Actions |
|---|---|
| `prompt_versions._new_job`, then `JobManager.enqueue` | CreateRun, EnqueueLoad, EnqueueUpdate; RequestLost when the process ends between |
| `_coordinate`: the two try-locks | TryCoordinator, TryExecution |
| `recover_pending` | RecoverPending (skips locked rows, batch of `RecoverLimit`), RecoverFails |
| `_leader_loop`, `claim_next_job` | LoopHead (stop flag and connection probes), ClaimNextJob, ClaimNone, ClaimFails |
| `_process_with_lock_monitor` | MonitorLoss (a lost lock lets the attempt drain), TaskEnds |
| `_process`, `update`, `fail` | ProcessorReturns, ProcessorRaises, LoadResult, Complete, CompleteFails, Fail, FailFails, WriteFailure |
| `finally` blocks, `_release_lock`, `stop`, `start` | ReleaseExecution, ReleaseCoordinator, ExitLoop, Stop, Start |
| container, PostgreSQL, other transactions | Crash, LoseCoordinator, LoseExecution, LockRow, UnlockRow |

An exception keeps its reach: what `_leader_loop` and `_coordinate` catch (`SQLAlchemyError`,
`JobStoreError`) ends in phase `escaped` and a new round, anything else in phase `broken` and a
worker that is `dead`. The processor is a choice between returning and raising. A transaction that
fails may have committed (`CompleteFails`, `FailFails`): `update` and `fail` load the row again
after their commit.

### SessionSource

State: `row` (state, declared metadata, received bytes, purge mark, expiry, hash, path), `owner`
(the session, active or deleted), `activeRun`, `disk` (the content of `source.part` and of each
`source.<suffix>`), and for every request its next step, what it knows, its connection and its open
file. A byte is the client file it came from, so a file is correct exactly if it is a sequence of
equal bytes of the declared length; a digest is the content it was computed from. Requests are
anonymous and repeat: one `Requests` element is any sequence of uploads, appends, completions,
cancellations, purges, status calls and run creations.

`Reconciled` is `_reconcile_locked`, which every client transaction runs first. `append_chunk` is AppendLoad, Open,
Write per byte, then EndOfChunk, RejectChunk (truncate back to where it began) or ChunkTimeout, and
RecordChunk. `complete` is CompleteLoad, Candidate, SetValidating, ProbeAndHash (or ProbeRefuses),
Replace, MarkReady; an error goes to FailUnlink and FailValidation. `cancel` is CancelLoad,
CancelUnlink, MarkCancelled; `purge` is PurgeLoad, PurgeUnlink, MarkPurged. A run is RunResolve,
RunHash (no lock held), RunLock, RunCreate. A lost connection (LoseLock) frees the lock while the
request goes on with files until its next statement fails; only `_fail_validation` then writes on a
fresh connection. Abort is the end of the process at any step.

ResumableSource has a phase, what was declared, and the bytes that were acknowledged; a chunk is taken, an upload
fails, is sealed or is gone in one step. `Resumable` says that SessionSource does nothing else, if the bytes
acknowledged are the first `received` of what is on disk (`Acknowledged`; the hash once the source is ready). An
upload that goes on is "open" as long as they are there; when a cancellation, purge or failed validation has taken the
files it has "failed", though the row says so only later, if at all. What is on disk behind the acknowledged bytes
is not visible: reconciliation accepts it (the step `Accept`), or RejectChunk cuts it off.

### Retention

State: per session the deletion mark, whether its audit deadline is due, the hold, the source, the
analysis cache; per run its state and its media and audit deadlines (`later` or `due`); per run and
kind of file the row that registers it and the file itself; per worker where it is between writing,
registering, ending and sweeping; `lock` is the cleanup lock; `op[a]` what service *a* carries
between two transactions. Web processes and operator commands run the same `RetentionService`.

`run` is StartPass, PassSource/PassCache, PurgeRead/PurgeFiles/PurgeMark, HardTree/HardRow and
DeleteEmpty with NextLoop between the loops: candidates are read once per loop, so they may be stale
when used. Each item's failure (`…Fails`) drops the item as the handlers in the loops do;
PassAborts is an error outside of them. `delete_session` is DeleteSession, the purge actions with
reason `session_deleted`, and DeleteSource. The worker is Write, Register, Finish, or WriteFailure
and RegisterFailure, then Reload, SweepRead and SweepFiles (`cleanup_terminal_job`), without the
lock, and in the order of the code.

### PromptRuns

State: the row of each run and the version its request made, the set of deleted sessions, the
holder of every lock, and the transaction each actor is in. `Statements` lists for every kind of
transaction the statements that lock or read, in the order of the source. A statement selects its
rows when it is issued (`Issued`), waits for the ones that others hold, one by one (`Acquire`), and with
the last returns what is committed by then (`Pass`, `Refuse`), which is PostgreSQL's READ COMMITTED.
`Conclude` is the commit, or a unique index that refuses it; `Abort` is the deadlock detector, which
ends any member of a circle of waiting transactions. When the worker's `complete` is aborted, or
the load after its commit fails, only `fail` follows, as in `_process`. `Claim` and `Recover` pass
over rows that are held, including the session's row on the other side of the join.

AtomicRuns has the same rows and neither statements nor locks, snapshots or aborts: a version or an attempt is
made, claimed, ended or marked in one step, under conditions on the rows at that instant, and no row of a
deleted session is touched. `Atomic` says that PromptRuns does nothing else.

### Analysis

`MVPJobProcessor.__call__` up to the coverage of the edit plan, for the runs of one session and a
single worker. State: the runs' states and claims, what the attempt has in hand (`mem`), the looks still
to take (`todo`, 0 is the whole video), repairs used per clip, the checkpoint files and rows, two of
the files of the run, and, for the properties, what was `bought` and what of it is `gone`. A result
is a record of what it was made from (settings of the deployment, prompt version, where the clips are
cut) and of the attempt that made it. A fingerprint is the record of what the code hashes.

| Code | Actions |
|---|---|
| `claim_next_job`, the input gates | Claim, Gate |
| stages between `load_session_checkpoint` and `save_session_checkpoint` | Transcript, Scenes, Global, Select |
| `VisualUnderstandingPlanner.plan`, `registry_visual_repair_handler`, repair off | Look, Mend, Remembered, Exhausted, LegacyMend |
| clip analysis of the prior attempt or anew, the artifacts | LoadClips, Merge, Artifacts |
| `AgenticEditPlanner.plan`, its one more call or its deferral | Plan |
| `build_clip_visual_coverage`, the second look | Cover, Again, Recover |
| `save_session`, `save_job`: file, then row, file removed if the row fails | WriteFile, WriteRow |
| a load that finds no file, or another digest, takes the row out of use | Miss (`Quarantined`) |
| end, sweep, crash, deployment, lost file | End, Crash, Deploy, Spoil |

The content of transcripts, looks and plans is abstract: a look is accepted, refused or given up, a choice
of clips is one of two cuts. Checkpoints are enabled, which is not the default. A cancellation inside a
stage is left to JobQueue.

### PlanRepair

From `edit_plan` to the rendering. A plan is the answer it comes from with what the compiler has cut, what
these cuts brought along (`bad`), and whether its assets were dropped or it was replaced by the minimal one.
The checks of a plan are the set of defects they find (`Findings`); a defect stands for a code at a clip. Which
check finds it, whether the model may repair it, whether the compiler can and what that exposes are constants.

| Code | Actions |
|---|---|
| the editor's plan, its deferrals, `plan_objective_findings`, `bounded_repair_findings` | Plan |
| `build_repair_batch`, `load_job_checkpoint` and what is read back | Request, TakeUp |
| the call of the repair provider, report mode | AskRepaired, AskInVain, ReportOnly |
| `PlanRepairState.record_round`, `save_job_checkpoint` | Save (Record, Resolved, Unresolved) |
| `_authorize_fallbacks`, `compile_baseline_plan`, the late findings | Baseline, Contingency |
| after the contingency: the same, `next_round`, composition blockers | Settle |
| intent, coverage, preflight, dry run | Check |
| assets and their fallback, plan and ledger on disk | Assets, AssetsFail |
| FFmpeg preflight, the minimal plan | FFmpegAccepts, Minimal |
| the render, the effects, the last ledger | Render, Effects |
| recovered job, spoilt checkpoint | Crash, Spoil |

The pictures are looked at again after a restart, so a plan already judged may be found to be otherwise
(`Reseen`); everything else about it is the same as before.

### FinishingEffects

State: on the pipeline's side the attempt, the last call of `apply()` and what it waits for, the file
delivered for each clip; on the sidecar's side the queue, the worker thread's step, the history; between
them the destination files. Apply, Submit, SubmitReplyLost, SubmitFails, Answer and GiveUp are `apply()`
with its two callers; Repeat is an attempt that starts over; Take, Render, Replace, Break and Record are
`_work`, `render_with_upstream` and `_record`; Restart loses what the sidecar had in memory. That two
attempts do not run at once is an assumption here and the theorem ExclusiveExecution of JobQueue.

### PostRenderRepair

The rest of `MVPJobProcessor.__call__` from the QA of the rendered clips on, with `render_critic` and
promotion both at `enforce`, as one sequential process that may stop anywhere and start over. Plans, effects
and videos are named by the number of the provider's answer they come from (0 is the original), so a
*rendition* says for every clip whose plan and whose video it has. `first` and `answers[v].blockers`
are the blocker codes verification finds in a video: the same video has the same codes again, because
rendering and verification are deterministic. `critic` is `render_critic_report`, `cand` the candidate
of the round, `judged` the rendition whose reports the gate reads, `shown` plan and effects on record
with the videos in the output directory; `seen` and `kept` are the checkpoints. `checked` and `examined`
say whether the QA reports of the original and of the candidate could be made; without them the codes
only QA finds are replaced by the one that they are missing (`Reported`). `shots` is the checkpoint
of the evidence, `frames` whether its images are on disk, which no checkpoint keeps.

| Code in `pipeline.py` | Actions |
|---|---|
| `generate_creative_qa_artifacts` and what follows when it raises | Inspect |
| evidence, `render_evidence` checkpoint, the critic that does without | Gather |
| critic stage, `render_critic` checkpoint | Review, ReviewAgain |
| `post_render_repair_fingerprint`, `load_job_checkpoint`, `post_render_repair_from_checkpoint` | Resume |
| images of the evidence, `request_post_render_repair`, `save_job_checkpoint` | Ask, Unseen, Save |
| render, effects, QA, gate of the candidate; any exception in them | Render, CandidateFails |
| candidate review, `compare_critic_improvement`, comparison, contingency | Verdict |
| `_move_repaired_rendered_to_output` and the reports written beside | Move, MoveFails |
| `build_render_promotion_report`, `enforce_render_promotion` | Promote |
| worker gone and job recovered; a checkpoint file that fails its hash | Crash, Spoil |

`Withholds` is the promotion decision under both delivery policies. An answer is any set of decisions
the response contract admits; one that the contract refuses is `unavailable`, which is saved and found
again like the others. Abstracted: the weight of findings is a small number, improvement is a smaller
number, codes are three model values, and the comparison's own answer is a choice.

### ActivityStream

State: the run's state, how many events it has recorded (`count`), the sequences of the public ones (`feed`),
which of those say that it has ended (`ends`), and everything `ActivityFeed` keeps:
the last sequence, what was shown, the reconnect counter, the stream with what is on its wire, the
timers, and several `#replay` calls under way, each between its two requests or its replies.

| Code | Actions |
|---|---|
| `_append_event` by `update`, `stage`, the notices, `_process` | Note, News, End, Emit, Refuse |
| `start`, `retryNow`, `stop`, the two timers | Start, RetryNow, Leave, ReconnectTimer, PollTimer |
| `#replay`: page, accept, job, `#finish` or stream or next poll | ReadPage, AcceptPage, ReadJob, AcceptJob, ReplayFails |
| `stream()` of `activity.py`: state, then page, until ended and empty | StreamState, StreamEvents |
| the `activity` and `error` listeners, `#scheduleReconnect` | StreamMessage, StreamOver, StreamBreaks |

The progress number an event carries is left out; that a notice is refused because of it is a choice (Refuse).

## 3. The runs

All bounds are constants in the `.cfg` files and MC modules. The runs of JobQueue, SessionSource,
Retention and PromptRuns also check deadlock; the others switch that check off, because their process
ends.

| Run | Instance | Shows |
|---|---|---|
| `queue_safety` | 2 workers, 2 runs; one crash, one lost coordinator connection, one database error, one disk error, one row lock | CommitUnderFence, EndsStay, the refinement `Exclusive` |
| `queue_live` | 2 workers, 2 runs; one crash, stop, lost execution connection, database error, lost request | NoOrphan, EventuallyTerminal |
| `source_uploads` | 3 requests, one file of 3 bytes, chunks of at most 2; two aborts, refusals, expiries | ReadyIntact, RunKeepsSource, PurgedLeavesNothing, FailsOnPurpose, DeletedIsPurged, the refinement `Resumable` |
| `source_lock_loss` | 2 requests, 2 files of different type; one lost lock, one database error | SourceImmutable |
| `retention_safety` | one session and run, a web process and a command; one crash, error, lost lock | RowsFollowFiles, EvidenceKept |
| `retention_live` | the same without the lost lock, with fairness | DueIsErased |
| `prompt_runs` | 2 sessions; a completed first run, 2 requests, 2 editors, the worker; queue limit 1, 3 operations started | NeverConflict, CapacityHeld, FavoriteCompleted, DeletedIsQuiet, DeadlocksNeedAnEnding, the refinement `Atomic` |
| `analysis` | a run of 2 clips and its rerun, or a run of another version; all repair modes; 2 refused responses; one crash, deployment or lost checkpoint | Fits, PaidOnce, Aligned, OneRepairEach |
| `plan_repair` | 5 defects of different kinds, all modes; 2 findings per round, 3 plans, 2 calls, 1 restart, 1 lost checkpoint | FallbackWasAsked, RenderedWasAsked, LedgerExplains, BaselineHolds |
| `effects` | 2 file names, 4 calls, 3 attempts; queue of 2, history of 1; 1 restart of the sidecar | DeliveredIsOwn, NotForgotten, EveryCallIsAnswered |
| `post_repair` | 2 clips; a technical code that only QA finds, one of captions, that of missing reports; policy `technical_pass_guaranteed`; 2 answers, 1 restart, 1 check that fails or checkpoint lost or not saved | AskedOnce, NoRegression, ShownAsJudged, PublishedIsSound, FailsForCause |
| `activity` | 2 replays at once, pages of 1 event, 2 events, 1 reconnect, 2 network failures, 1 retry | ShownIsTheFeed, EndIsTrue, EventuallyTold |

Each module has its type invariant. Where it is a theorem (section 5) the run does not repeat it.

Why the bounds are enough. *Queue:* the fence is about two workers, one that drains and one that
leads; a second run is what the next leader would start. One fault of a kind suffices for each
window between two steps, because the protocol keeps no memory of earlier faults; the proofs
(section 5) remove the bound for the fence. *Source:* three requests are an upload, something that
interferes and a run or purge; three bytes with chunks of two give a first, a middle and a short
last chunk, and a stalled chunk can leave one byte too many. *Retention:* the conflicts are between
a pass, a command, a deletion, a hold and a worker at one run. *PromptRuns:* a circle of two
transactions, or a rerun that races a creation, needs two requests and two editors at most at one
session; the second session shows that numbers and limits are kept per session and globally.
*Analysis:* reuse is between two runs; a second clip is what a partial second look leaves alone, and
clip 1 is the one whose repair the look at the whole video shares; two refusals are one in each round, or
one before a restart and the same again after it. Two cuts make a clip move. *PlanRepair:* the five
defects are one of each way the code treats them: a crop without evidence that the compiler removes at
the price of an intent, an overlap it removes unasked, a layout it cannot mend, a policy nobody can
mend, an intent. Two findings per round are one that fits and one that overflows; two calls are both
rounds, or one asked again after a restart. *FinishingEffects:* four calls are two clips in two
attempts; the history of one is exceeded by the first abandoned call, as the real one of 100 is by
a hundred. *PostRenderRepair:* a contingency that redelivers one clip and leaves another needs two clips;
two answers are one for each round, or one asked again after its checkpoint was lost; one restart
suffices because everything but the checkpoints starts over. One blocker code per rendering
(`MaxBlockers`) and one weight of findings make improvement, no improvement and a new blocker
happen; two findings are one for each clip. The proofs cover both policies. *Activity:* a page of one
event makes every backlog longer than a page; two replays are what can overlap; one reconnect and two
failures reach the poll loop.

Clips, cuts, requests and editors are interchangeable where the runs use symmetry; no liveness
property is checked under it, and no property names one of them.

Each property of a run has been seen to fail under a changed definition (named
`Definition_Change`, beside the original): a missing fence, a leaked lock, an offset from one, a
copy instead of a rename, a hold without the lock, a number read before the lock, a fingerprint
without the cuts, a ledger not rewritten, an eviction of the newest, an error that is not counted,
and so on.

Conditions inside properties. `EndsStay` names the two ways in which the code does move an ended run
(section 6). `ReadyIntact` is about sources in time of live sessions. `EvidenceKept`
speaks of passes whose lock connection lives (`Fenced`): when it dies, a hold may come between the
candidates and the deletion. `CapacityHeld` and `FavoriteCompleted` except runs
brought back after they had ended (`revived`). `NoOrphan` is checked without foreign row locks.
`PaidOnce` counts what was lost with a crash before its save as gone, and `Aligned` allows for a save
that fails. `RenderedWasAsked` excepts what the last fallback of a run with a single round brings along
(`LastFallback`), which the code lets pass. `BaselineHolds` lists the causes that may end a run all the same.
`ShownAsJudged` and `PublishedIsSound` suppose that an accepted contingency delivers every clip the
primary repaired (`Covers`); section 6 says what happens when it does not.

## 4. Fairness

* JobQueue: weak fairness of each coordinator and each `_process` task (asyncio runs a ready task),
  of Start (the platform restarts a container), of UnlockRow (transactions end). The processor ends
  because every provider call and FFmpeg run has a timeout. Requests need none.
* SessionSource: weak fairness of each request's steps; strong fairness of a purge beginning, since the
  retention pass comes back for a deleted session's source for ever but only *tries* the lock, which
  requests hold for moments. Clients need not arrive.
* Retention: weak fairness of the steps of an operation that began, and of the worker; strong
  fairness of StartPass, because commands and deletions hold the lock for seconds while the
  scheduler comes back again and again.
* FinishingEffects: weak fairness of the worker thread, which waits in `queue.get()` as long as the
  process lives. Neither the pipeline nor a restart has to come.
* ActivityStream: weak fairness of each replay's next step (a request is answered or fails), of the
  timers, and of the stream, whose generator looks again every half second. Nothing obliges the
  writer: in particular the notice of the end may never come.
* Analysis, PlanRepair, PostRenderRepair: safety only; they are sequential and have no loop but the
  restarts of the queue.
* PromptRuns: safety only. A circle of waiting transactions is a state (`Cycles`) and
  `DeadlocksNeedAnEnding` speaks about it directly.

## 5. The proofs

Everything stated as THEOREM or LEMMA is checked by tlapm; constants are arbitrary apart from the
named ASSUMEs of the modules, which every run evaluates for its values.

**JobQueueProofs.** `TypeCorrect`: `[]TypeOK`. With no execution connection lost
(`MaxFaults["execLoss"] = 0`), `FenceHolds` proves the inductive `FenceInv`: TypeOK, *a worker that recovers,
leads or runs holds the execution lock* (`Fenced`), and *a task exists exactly while its worker is
at run* (`TaskWhileRunning`). NoOverlap alone is not inductive: two workers at `exec` could both
start if nothing tied their `pc` to the one lock. `ExclusiveExecution` ([]NoOverlap) and
`FencedCommit` (CommitUnderFence) follow. `EndedRunsStay` (EndsStay) adds `AttemptOpen`: until an
attempt has recorded its outcome its run has not ended, so no second attempt can overwrite an end.
`NoOrphanedRun` adds, without row locks and with a batch
that covers the queue, `RunningIsOurs`: while a worker runs, a running row is its own. The
assumption on execLoss is the protocol's own limit, not the proof's: with both connections of a
draining worker dead another may lead (section 6).

`ImplementsExclusiveQueue`: under the same assumption every step of JobQueue is a step of
ExclusiveQueue or a stutter, with `executing` mapped to the run of the worker whose attempt has not
recorded its outcome. The mapping contains a CHOOSE; FenceInv makes the worker unique.

**SessionSourceProofs.** `SourceTypeCorrect` from `Inv`: TypeOK, a request past its arrival finds a
row, and an open, not unlinked file exists at its path. `Immutable` (SourceImmutable, any number of
requests, files and faults of every kind): `LockInv` adds that one connection is locked, that a fresh
connection only ever fails a validation, and that *a holder in an upload step knows the source is
not ready* (`UploadsAlone`). The property needs the last, because the second transaction of append,
complete and cancel writes without looking at the state it replaces.

What the files hold is proved for as long as no connection with the lock was lost (`LocksHeld`); after that
the code promises less, and section 6 says what goes wrong. `SafeIInv` then has one part for the
files of a row at rest (`RowFiles`: a state between two transactions is one the next reconciliation
repairs) and one for each request (`AtWork`: what it read of the row and of the files stays true until
it answers, since it has the lock). From it:

* `RunsKeepTheirSource` ([]RunKeepsSource): any number of crashes, stalls, timeouts and refused statements.
* `UploadsFailOnPurpose` (FailsOnPurpose, a property of steps).
* `PurgesAreThorough` ([]PurgedLeavesNothing), also while every statement is answered (`DatabaseAnswers`):
  a name lookup that fails in `_fail_validation` leaves the file behind. `Cleaned` adds that whoever is
  about to mark a row has unlinked its files.
* `ReadyIsTheDeclaredFile` ([]ReadyIntact), for files that differ in what is declared of them
  (`ToldApart`) and chunks that come from a file declared as the session's source is (`SameSource`), because
  the code compares only what is declared. `OwnBytes` says of every byte on disk and of the hash that they are
  such a file's; with ToldApart that file is one.
* `UploadsResume` (Spec => Resumable, as long as LocksHeld) is the refinement. That it holds rests on `ChunkInv`:
  the files hold whole bytes of clients' files, at most one chunk of them is not recorded and none once the file has
  its final name, a validation works on a row that has every byte, and what is gone is not purged again. `ChunkResult`
  says what the steps of a chunk leave of the file, `PrefixStays` that the recorded bytes go with the
  whole file or not at all; each transaction is then one step of ResumableSource, or none.

`LocksHeld` stays within the theorem for invariants (`[](LocksHeld => P)`), so they speak about every state
before the first lost lock of every behaviour.

**RetentionProofs.** `RetentionTypeCorrect`; `DeletedSessionIsIdle` ([]DeletedHasNoActive, inductive
with TypeOK); `HeldEvidenceKept` (EvidenceKept) from `HoldInv`: only the holder of the cleanup lock
is not idle while no lock was lost, what its audit loop has yet to delete stays due, and the
worker's sweep spares registered evidence.
`RowsAndFilesAgree` ([]RowsFollowFiles) needs no lock, not even the cleanup lock: `FilesIInv` says that what a
service read of a run in one transaction is still so in the next, because runs that have ended
only move on (`Onward`: media files only go, no video is registered, a deadline that fell due stays due);
the worker's last steps are the one place where something is added, and they come after the
run's end and add only evidence.

**PromptRunsProofs.** `PromptRunsTypeCorrect`, and `NumbersNeverCollide` ([]NeverConflict) from
`IInv`: a transaction past the session's statement holds the session's row (`HasSession`), a maker
about to commit has a number not given yet, and select_favorite has found every favorite of the
session. That the number *stays* free until the commit is the content: whoever could take it needs
the row.
The rest is proved from `LInv`, which adds for every transaction who makes it (`Roles`), what its
statement may wait for (`Waiting`), what it must hold and the most it can hold (`Holding`), and what it has found
and is still so when it acts on it (`Found`: the queue has room, the session is not deleted, none
of its runs is active, the favorite has completed). `QueueKeepsToCapacity` ([]CapacityHeld), `DeletedSessionsAreQuiet`
([]DeletedIsQuiet) and `OneCompletedFavorite` ([]FavoriteCompleted) hold with the runs that a late
enqueue has revived left out, as the properties say. `DeadlocksAreEndings` ([]DeadlocksNeedAnEnding)
follows from the first three: nobody waits for a request that makes or queues a run while it waits itself, and
editors alone take session and runs in one order, so any circle, of any length, has the worker in it, ending a run.
`TransactionsAreAtomic` (Spec => Atomic) is the refinement, with the identity as its mapping. What a
transaction writes at its commit it has read in statements before, so `SInv` adds to LInv what each still
knows when it commits (`Keeps`): that the attempts it counted are all there are, that the run it
claims, recovers, completes or fails is of a session that is not deleted, that the favorites it clears are all
of the session's. Claim, Recover and the commits are its steps, everything else stutters. It does not follow
from the invariants above, which speak of states: that no commit writes a row of a session deleted since its
statement is one of the things it says beyond them.

**PlanRepairProofs.** `PlanRepairTypeCorrect` from `TypeInv`, which counts rounds along the steps and knows
that what is about to be saved is this round's call. `FallbacksWereAsked` ([]FallbackWasAsked) from
`AskInv`: a defect of the plan that the model could repair is in the round's batch, in its overflow, or
was asked about, at every step between a plan and its fallbacks (`Accounted`); without it a change the
compiler makes on its own account could stand in the ledger unasked. `LedgersExplain`
([]LedgerExplains) and `NothingSlipsPast` ([]RenderedWasAsked) from `FileInv`: files and state agree from the first
writing on, and what left Baseline or Settle for Check was looked at. They hold for every set of
defects, every way the compiler's changes expose others, and any number of calls and restarts.
`BaselinesHold` ([]BaselineHolds) from `HoldInv`, with enforced repair: until something disturbs it (a finding too many, a
restart, a call that did not go out) the plan of the primary round is the editor's own
(`Proposed`), calls stand only for this attempt's rounds (`Unused`), what is left unresolved was
asked about (`Supported`), and crops without evidence that the compiler can cut are in the round and are
gone once it was told (`Covered`). Without `Unused` the round could take up an answer about another plan.

**AnalysisProofs.** One inductive invariant, `IInv`, for any number of runs, clips, deployments, crashes and
lost checkpoints. `AnalysisTypeCorrect` ([]TypeOK) and `ReuseFits` ([]Fits) rest on
`Kept`: every content in a file, in a row or on its way there is of the kind its fingerprint names
and was made from what the fingerprint says (`Faithful`). Fits alone is not inductive, since it looks only at
what is in hand; the induction goes through what earlier runs, under other settings, have left on disk.
`Watched` ties the cut to the views: none before the choice, none changed after it.
`NothingIsPaidTwice` ([]PaidOnce) adds `Accounted`: what was bought and not lost is in a checkpoint,
or in hand until a save that is certain to be tried, or was a repair of a run that is over. The look at
the whole video is in hand for many steps, and its repairs are saved in between.
`OneRepairPerClip` ([]OneRepairEach) adds `Asked`: a repair bought in this attempt is in
`visual_repair_attempts_used_by_clip`, and later attempts carry other numbers. `HandedOnInStep` ([]Aligned)
adds `InStep`, which follows visual file, shorts plan, edit plan and checkpoint through both looks.
The choice of the next clip is a set with the least one in it (`First`); no step needs that it is not empty.

**EffectsAndActivityProofs, of FinishingEffects.** `EffectsTypeCorrect`; `DeliveredFilesAreOwn` ([]DeliveredIsOwn) from
`FileInv`: calls are answered, worked on and queued in the order they were made (`Ordered`), so that
when a call is answered nobody is left in the sidecar who would write its file again (`Kept`), and what it
wrote was made from this attempt's render (`Own`). `AnswersAreKept` ([]NotForgotten) from the same order
and `NewestStays`: what is evicted is never the newest of several records. Both for queues and histories of
any size.

**EffectsAndActivityProofs, of ActivityStream.** `ActivityTypeCorrect` ([]FeedTypeOK), `PagesShowTheFeed`
([]ShownIsTheFeed) and `EndsAreTrue` ([]EndIsTrue), for pages of any length and any number of events, replays,
reconnects and failures. ShownIsTheFeed alone is not inductive: a reply under way may leave a gap. `PageInv` adds that
the public sequences ascend (`Numbered`), that every cursor is 0 or one of them (`Reads`), and that each
reply and what is on the stream's wire *joins* what is shown: it is a piece of the feed that begins at or before
the next event to show (`Joins`). Since the page only ever shows more, a reply still joins when it is late, and what
`#accept` keeps of it begins exactly where the page stops. A stream's cursor is the end of its wire. `EndInv`
adds that an event that says the run has ended is recorded only after the end.

**PostRenderRepairProofs.** `PostRenderTypeCorrect` from `TypeInv`: TypeOK, *a step that works with an
answer has one*, and *the answer to be saved is the last*. The last is what `NothingAskedTwice`
([]AskedOnce) needs: a save marks no earlier answer, and Ask adds a request that no kept answer has.
`RepairNeverRegresses` ([]NoRegression), `ReportsMatchOutput` ([]ShownAsJudged) and
`PublishedRunsAreSound` ([]PublishedIsSound) rest on `ShownInv`: until the move the output and the
reports are the original's, afterwards the reports are the accepted candidate's and every video shown is
its or the original's; and an accepted candidate has no code the original lacks. The lemma `Examined` is
what missing QA reports would break: a candidate that no technical code withholds *was* examined,
because the missing reports are a technical code themselves.
`RepairDegrades` ([]FailsForCause) adds that before the first restart evidence comes with its images and no
kept answer belongs to the round that is about to ask (`NothingToResume`), which is what confines two of
the three causes to recovered jobs.

Every invariant, every property of steps and every refinement that the runs check is a theorem. Only
model-checked is liveness (EventuallyTerminal, DeletedIsPurged, DueIsErased, EveryCallIsAnswered,
EventuallyTold): fairness and ENABLED are out of this prover's reach. Nothing in the modules is RECURSIVE, and no
theorem needs induction over data: what sequences hold is said by position (`Numbered`, `Piece`), not by a fold.

The strengthened invariants (`SafeIInv`, `ChunkInv`, `FilesIInv`, `LInv`, `SInv`, `HoldInv`, `PageInv`, `IInv` of Analysis) were
checked on the instances of the runs before they were proved.

## 6. What the work found

What follows is behaviour of the code, met while it was modelled. The models contain it, unless it says
otherwise, and the properties are stated so that they hold with it.

Queue, sources, retention, runs:

* **A late enqueue queues an ended run again** (`jobs.py:1797`). `enqueue` acts on a state read in
  an earlier transaction. The run is executed twice; a completed video may become a failed run, and the
  queue's limit is passed. `EndsStay` names it as one of two ways back.
* The load after the commit of `completed` can fail and the handler then records `failed`, also for
  a run that was made the favorite in between: the other way back. A sweep that cannot load the row is
  skipped.
* **The worker's sweep deletes the checkpoints it means to keep** (`retention.py:1102`).
  `cleanup_terminal_job` spares the paths of available checkpoints, but `save_job` stores them relative to the
  store's root (`<job>/output/...`, `tests/test_mvp_checkpoints.py:322`) while the sweep compares paths below
  the run's directory. Analysis therefore lets End take the files.
* **A session with a source cannot be hard-deleted**, and takes its batch with it
  (`retention.py:947`): `_delete_empty_sessions` deletes whole sessions, foreign keys of
  `session_input_videos` and `prompt_versions` restrict it, no code removes those rows, and every later
  pass ends in DATABASE_UNAVAILABLE (`docs/mvp/audit-and-database.md:269` speaks of a deadline of 30 days).
* A full disk ends the worker (`jobs.py:858`). `failure.json` is written inside the error handler; the
  `OSError` leaves `_process`, `_leader_loop` and `_coordinate`, and nobody starts the coordinator task
  again before the container is restarted: phase `broken`, `pc = "dead"` in JobQueue. The test
  `test_missing_job_directory_records_failure_without_crashing_worker` covers a missing directory only.
* The fence holds while the execution connection lives. With both connections of a draining worker
  lost, another leads and recovers the run it still renders.
* `recover_pending` passes over a row held at that moment and is called once per leadership; such a
  row stays running until the next leader.
* A run exists although its request was answered with an error, when the load after the commit fails or
  the run has already ended.
* `update` locks the run and then writes the session; deletion, holds and favorites lock the session
  and then its runs. PostgreSQL may choose the worker as the victim: a finished video is recorded as
  failed. `DeadlocksNeedAnEnding` shows that this is the only circle.
* A source can be marked purged with its file in place (`session_media.py:784`): when the name lookup in
  `_fail_validation` fails, only `source.part` is unlinked, and nobody looks for the rest again. It needs a
  database error, which `source_uploads` leaves out.
* Two clients that upload different files of the same name, size and type to one session are not
  told apart (`_metadata_matches`); the chunks mix. ReadyIntact is checked for clients that
  send the same file.
* A chunk whose lock connection died can still truncate or extend `source.part` under another
  request.
* When the lock connection of a pass dies, a hold can be set between the candidates and the removal:
  the tree goes before the row is looked at again, so held evidence is lost.
* A crash or an error between the removal of a file and its mark makes the next pass record the
  video as `missing`, not `deleted`.
* `delete_session` purges the source but not the session's analysis cache, and later passes visit
  only the caches of sources they purge themselves. A hard delete whose row step failed, followed by a
  deletion of the session, moves the deadline of a run whose evidence is already gone. Operator
  commands build the service without `session_media`: their passes always leave sources.

Analysis:

* The look at the whole video spends the repair of clip 1, though the comment at `pipeline.py:973` gives
  each clip its own (`pipeline.py:1040`).
* The clips' analysis is looked up under the *prior* attempt's job only: a recovered job computes it
  again although its own checkpoint exists.
* The global analysis is saved after the choice of clips, so a choice that fails loses a paid look.
* In report mode an invalid visual response fails the run, where `off` would ask once more.
* With repair enabled the edit plan is not made anew after the second look; plan repair takes it from there.
* The fingerprint of a visual repair does not contain the model, and the global one contains the
  transcript's fingerprint instead of its content.

Plan repair:

* After an accepted primary repair `unresolved_repair_findings` still holds the findings of the *old* plan
  that did not fit the round (`pipeline.py:2518`); if they call for a fallback, the run fails with
  REPAIR_ATTEMPT_REQUIRED. `BaselineHolds` lists it as a cause (`over`).
* An asset fallback changes the plan after its dry run, and no second one follows, though
  `docs/mvp/defect-repair.md:49` has the final plan pass it before any render.
* `creative_intent_conformance` in the manifest describes the plan before the asset and minimal fallbacks.
* With one round used, what the last fallback exposes passes unasked (`LastFallback`).
* Not in the model: the compiler drops overlays and assets beyond their budgets without an entry in the
  ledger, and a later compilation without entries resets `degraded`.

Finishing effects:

* A request that was given up is rendered all the same, and leaves an `-effects.mp4` that no row registers in the
  output directory. After a restart of the sidecar the client waits for its whole timeout.

After the rendering:

* **A contingency can publish a mixture** (`pipeline.py:5534`, `final_delivery_indexes`). It starts from the
  primary's rejected candidate, but only the clips that it delivers itself are moved. A clip that the
  primary repaired and the contingency left alone keeps its original video, under a plan, effects
  and reports that describe the repaired one (`docs/mvp/structured-outputs.md:58`). By NoRegression it is still
  never worse than the original; `Covers` keeps it out of ShownAsJudged and PublishedIsSound.
* A repair of the effects alone cannot be resumed. Its checkpoint holds no plan,
  `post_render_repair_from_checkpoint` validates one, and the `EditPlanError` is not the error the round
  catches: the recovered job fails although its original candidate is whole, and fails again as long as
  the checkpoint is there. It is the second cause of FailsForCause.
* After a restart evidence and review come from their checkpoints, without images. When a repair is to be
  asked they must be made again, and the `RenderEvidenceError` of that (`pipeline.py:4872`) is caught by nobody:
  a run that could be promoted fails. It is the third cause.
* Candidate QA that fails counts as a new blocker and starts a contingency, a paid call about a fault of the checker.

Activity:

* The notice of the end is refused when it would lower the feed's progress. The renderer reports progress
  (`pipeline.py:3768`) that the row does not have, and `emit_safely` tries again with the row's: the
  `activity.system.failed` of a run that fails after that is refused twice and never recorded, and after a
  crash the next attempt's notices stay silent until they pass the old mark. The page learns the end from the row.
* A client that returns to an ended run takes one page of at most 100 events and stops, and an event
  between its page and its look at the run is not shown: the feed is then a correct beginning of the log, not all of it.
* After "retry now" a poll loop may run beside a stream, and two poll loops beside each other; the
  cursor keeps them harmless.

## 7. What is left out, and why

* Inside modelled components: the legacy import, artifact downloads and bundles of `JobStore`; path
  and symlink checks; ffprobe's output; preview and status calls; batch limits of retention (an item
  that fails each time stays first in the ordered batch, which the models cannot show);
  bundles written during a purge; `renew_ready_expiry`, which has no caller; the bound of the
  connection pool, of which the advisory locks of queue and cleanup keep two; the lineage in a
  checkpoint's envelope; the progress carried by events, and with it the
  promise that it never falls; the non-enforcing modes of review and promotion.
* Documents: what a plan, a transcript, a look or a report says. Their validators are pure functions of
  one document and are covered by the repository's tests; the models have that they accept or
  refuse, and what is then done.
* Rendering, quality metrics, configuration, HTTP serialisation, views, administration and
  operations scripts: formatting and I/O without protocol state. The routes' calls are in the
  modules.
* Login, the key ring of remote speech to text and the model gateway's retries: each is the private
  state of one request or of rows of its own that no other component reads. They come last in the plan.
* The upload client's pauses and retries: SessionSource lets its requests come in every order, which
  is more than the client sends.
* Clocks are not modelled: a deadline falls due at any moment between operations.

## 8. Plan

Order: the queue first, since everything depends on one worker at a time; then what users cannot get back
(sources, evidence, numbers); then what is decided inside a run; then what they see.

Done: **JobQueue** with **ExclusiveQueue**, **SessionSource** with **ResumableSource**, **Retention**,
**PromptRuns** with **AtomicRuns**, **Analysis**, **PlanRepair**, **FinishingEffects**, **PostRenderRepair**, **ActivityStream**.

Next proofs, in this order:

1. Retention: EvidenceKept needs the cleanup lock; which of its parts hold after a lock was lost.
2. SessionSource: what a request whose lock was lost can still do to a row (a theorem that names the damage,
   in place of the hypothesis LocksHeld).
3. PostRenderRepair against *Delivery*, below.

Next models:

1. An abstract specification *Delivery* (the output directory and the outcome describe one candidate), shown to
   be implemented by PostRenderRepair under `Covers`; effects omitted by the sidecar in its candidate, and the
   checkpoints of the candidate's review.
2. **LoginAuth**: limiter, login, resolve, rotate, revoke, prune; theorem: accepted attempts per
   window bounded in the number of parallel requests.
3. **KeyRing**: `remote_stt.py` and the retry loops of `ninerouter.py`; theorem: disabled keys are never
   used again.
4. **UploadClient** composed with SessionSource: pause, resume, cancel and retry.
5. Pure algorithms as operators against reference definitions: scene boundaries, overlap-free
   selection of shorts, sampling budgets, outcome tables.

One safety run per module with two of each actor and one fault of each kind, and liveness only where
something must eventually happen. All modules are written for proof: constants with
assumptions, one action per operation, recursive functions or folds instead of RECURSIVE operators.
