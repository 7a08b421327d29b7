# A formal model of novel-ai's generation system

novel-ai writes a novel chapter by chapter: a FastAPI process takes the user's
requests, worker processes take *generation jobs* from a PostgreSQL table and run a
pipeline of model calls (writer, critic, memory) for one chapter per job. Nothing but
the rows of the database connects the two sides, and a browser page follows the writing
through a polled stream of events. This directory models that system in TLA+, checks it
with TLC and proves parts of it with TLAPS.

Sections: 1 inventory · 2 modules · 3 how the model corresponds to the code · 4 bounds ·
5 runs · 6 fairness · 7 proofs · 8 findings · 9 what is not modelled · 10 plan.

## 1. Inventory of the system

| Component | State it keeps | Operations | Interacts through | Modelled in |
|---|---|---|---|---|
| generation control (`api/generation.py`, `services/generation_service.py`, `services/generation_state.py`) | `projects.status / current_chapter / lease_*`, `chapters.*`, `generation_jobs` | start, pause, resume, retry, continue, approve, rewrite; the last decision on a revision | the three tables, the row lock of the project | `GenerationState`, `GenerationService`, `NovelGeneration` |
| worker loop and leases (`worker/runner.py`, `worker/job_queue.py`) | lease owner and expiry of a job and of its project | claim, renew, mark done, mark failed; one renewal task beside each pipeline, cancelled with it | `SKIP LOCKED`, row locks, time | `Worker`, `JobLease` |
| chapter pipeline (`worker/pipeline.py`) | chapter status, attempts and their text, retry count, the next job | write, review, accept, memory update, advance, retry, interrupt; streaming, continuation, recovery | the same tables; model clients; events | `Worker`, `WriterStream` |
| retention cleanup (`services/retention_cleanup_service.py`) | what is kept of a completed project | cleanup when a project completes | called by the pipeline | `GenerationState` |
| project events, SSE (`services/event_service.py`, `api/events.py`) | `project_events` rows, the cursor of a connection | append, stream after a cursor | table polling | `EventStream` |
| frontend live state (`useLiveWritingState.ts`, `useProjectEvents.ts`) | the live view of the running chapter | fold of events, refreshes, reconnection | SSE, HTTP | `EventStream` |
| model clients (`llm/openai_compatible.py`) | none between calls | one call with retries, parse attempts and fallbacks; the scan for the JSON value | HTTP | `LlmClient`, `JsonCandidate` |
| context service (`services/context_service.py`) | none | the token budget of a message; what a chapter is told | rows of memory | `ContextBudget`, `MemoryResources` |
| review rules (`services/review_rules.py`) | none | normalise a review; pass or fail | called by the pipeline | `ReviewRules` |
| prompt service (`services/prompt_service.py`, `api/prompts.py`) | versions of a chapter's prompt | generate, edit, approve, delete | rows; called by the pipeline | `PromptVersions` |
| memory service (`services/memory_service.py`), resources | summaries, profiles, revisions, the distant memory | update after acceptance, reset at a rewrite, apply a revision | called by the pipeline and by handlers | `MemoryResources` |
| channels and discovery (`services/channel_service.py`, `provider_discovery_service.py`) | a provider's models and its default | create, update, refresh, delete | rows; HTTP in the middle of a transaction | `Channels`, `ModelConfig` |
| system settings, runtime, projects (`system_settings_service.py`, `runtime_service.py`, `project_service.py`) | model configurations and encrypted keys | save, create, copy, delete; resolve at run time | rows | `ModelConfig` |
| export, frontend views, scripts | none of their own | formatting and forms | HTTP | - |

Behaviours that are hard to get right, and where the work was put first:

* **interleaving** - handlers and pipeline write the same rows; a handler waits for a
  row lock with a copy of the row in its session that the lock does not refresh;
* **leases** - a worker may lose its lease and go on; `mark_done` and `mark_failed`
  check no owner; renewals are concurrent with the pipeline and share row locks with it;
* **crash** - a worker may die between any two commits; what it leaves (a leased job, a
  chapter in `writing`, a half-streamed text, a deferred retry in a payload) is taken over
  after the lapse;
* **ordering across transactions** - the pipeline's last commit and the commit that ends
  the job and queues the retry are different transactions; event ids are drawn before
  the transactions that make them visible end;
* **cached columns** - the pipeline writes status, retry count and the attempt's text
  from copies its session loaded minutes earlier; a prompt's version number and a
  channel's default are read before a call of minutes and used after it;
* **partial failure** - a stream that breaks, an answer that is not JSON, a memory stage
  that times out after others have written.

What makes each modelled component correct:

* control: a running project has work (with the exceptions of section 5); a queued chapter
  has somebody to run it; a restart leaves the project running; a chapter paused can be resumed;
* leases: at most one worker holds live leases on jobs of a project; a live lease shields
  the chapter from everybody but an earlier holder of it;
* pipeline: a worker never restarts what a user stopped, a pause takes hold, what has passed
  has a text; in rush mode also at most one chapter of a project in progress, and what
  has passed or is completed stays so until the user says otherwise (section 5 shows
  why not in standard mode);
* writer's stream: what was shown is saved; a pause takes nothing back; only a usable
  text, the one in the row, is reviewed and passes;
* events and live view: the page is never told what is not committed; a lost connection
  overlooks nothing; the view settles on the saved text;
* model call: bounded requests and sleeps; a refused key ends it; the error reported is
  the one the caller's fallback depends on; it ends. JSON scan: a value in prose is found;
* context budget: the message fits or nothing is left to cut, the cutting ends and
  cuts nothing without need;
* review rules: a draft passes the gates on what the critic wrote;
* prompt versions: the numbers follow creation, one version is approved;
* memory: the incremental distant memory is what a full compression would say; a rewrite
  forgets the future;
* channels: one default; configurations: what passes the start check can run, and later
  edits of the system's configuration do not reach existing projects.

`PROJECT.json` lists the hazards at their lines with the properties aimed at them.

## 2. Modules

| Module | What it is |
|---|---|
| `GenerationState` | the rows of one project and the transitions that handlers and workers share, as functions from rows to rows (`generation_state.py` and private helpers of service and pipeline) |
| `GenerationService` | the seven HTTP operations, each in two steps: the first read and the locked transaction; and the decision on a revision, which locks nothing |
| `Worker` | worker processes: claim, renewal and lapse of leases, the pipeline cut at its commits, the end of the loop, crash and restart |
| `NovelGeneration` | the composition: initial state, next-state relation, safety and action properties, and the mapping to `JobLease` |
| `GenerationScope` | `NovelGeneration` with a history variable for "this chapter only" |
| `GenerationLiveness` | `NovelGeneration` with fairness, and the liveness properties |
| `JobLease` | abstract specification of what the leases promise |
| `WriterStream` | inside the phase `writing`: how one chapter's text is streamed, continued, recovered, paused, resumed |
| `EventStream` | the event table, the SSE endpoint and the page that folds the events |
| `LlmClient` | one call of the model client |
| `JsonCandidate` | the scan for the JSON value in an answer, character by character |
| `ContextBudget` | `_fit_to_budget` on the layers of the three kinds of message |
| `ReviewRules` | from the critic's answer to the verdict |
| `PromptVersions` | concurrent builders, edits and approvals of one chapter's prompts |
| `MemoryResources` | which texts the memory was made of, and what a chapter is told |
| `Channels` | the default model of a channel under concurrent requests |
| `ModelConfig` | configurations and keys of the system, of projects and of a channel |
| `MCNovelGeneration` | symmetry for TLC |
| `MCWriting` | one run for `WriterStream`, `EventStream`, `LlmClient`, `JsonCandidate`, `ContextBudget` |
| `MCServices` | one run for `JobLease`, `PromptVersions`, `MemoryResources`, `ReviewRules`, `Channels`, `ModelConfig` |
| `JobLeaseProofs`, `NovelGenerationProofs`, `WriterStreamProofs`, `EventStreamProofs` | TLAPS proofs about the module each is named after |
| `PipelineLeaseProofs` | about `NovelGeneration`: what the leases give the pipelines, and the refinement of `JobLease` |
| `ProgressProofs` | about `NovelGeneration`: no work is lost, and what a restart repairs |
| `ModelCallProofs` | about `LlmClient`, `JsonCandidate`, `ContextBudget` and `MCWriting` |
| `ServicesProofs` | about `PromptVersions`, `ReviewRules`, `MemoryResources`, `ModelConfig`, `Channels` and `MCServices` |

`MCWriting` and `MCServices` put components side by side that share no variable. Each
behaviour picks a `subject` at the start and takes steps of that component alone, so the
states are the sum of the components' and not their product, and every invariant still is
checked on every reachable state of its component.

Some operators carry the comment "mutant": they are deliberately wrong variants of the
definition that follows them, used only to see that a property would notice (section 5).

## 3. How the model corresponds to the code

### Generation: handlers and workers

**Rows.** `project`, `chapters` and `jobs` are the three tables restricted to the columns
that control generation. `live` stands for `lease_expires_at >= now`; time passing is
the actions `ExpireJob` and `ExpireProject`. A chapter has `accepted`
(`accepted_attempt_id IS NOT NULL`) and `draft` (some attempt has text) instead of the
rows of its attempts. A job's payload is reduced to `kind` ("single" for
`chapter_retry` / `chapter_continue`, which the code treats alike when the chapter ends)
and `deferred` (the payload holds a deferred retry). `jobs` is indexed by insertion order,
so `Min` of a set of jobs is the code's `ORDER BY created_at`.

**Handlers.** Every handler calls `get_project` (action `Receive`, which stores the copy of
the row the SQLAlchemy session keeps in `request.cached`), then `_lock_project`. The
`SELECT ... FOR UPDATE` returns the object already in the identity map *without
refreshing it*, so all tests of `project.status` after the lock, and the decision whether
an assignment produces an UPDATE at all, use the old copy (`OrmSet`). From the lock to
the commit a handler is one step: the other sides can see nothing of it before. `Reject`
is every path that commits nothing (ValueError, 404, failed model call).

`DecideRevision` is `_sync_project_state_after_revision_decision` of `memory_service.py`, called
when a revision is applied or rejected: if none is left to decide and all chapters have
passed, the project is completed. It takes no lock: the chapters and the status are
read in earlier steps (`Receive`, `ReadPassed`) than the one that writes. How many
revisions are open is left to chance. Only a memory update proposes revisions, so a rush
project has none to decide.

**Worker.** A worker's `pc` follows the commits of `process_generate_chapter`:

    idle -Claim-> claimed -Open-> opened -StartWriting-> writing -SubmitReview-> reviewing
         -Accept-> memory -Finalize-> returned -Finish-> idle

with `FailAttempt`, `ProviderUnavailable` and `Interrupt` ending in `returned`, with
`PipelineError` -> `raised` -`Rollback`-> `failing` -`Fail`-> `idle`, and with `LoseLease`
going to `failing` from any phase. `workers[w]` holds the columns its session has cached
and writes from later. `memory` is the time between `accept_chapter` (flushed, not
committed) and the commit: `rowLock` records the rows that the open transaction has
written, and every other writer of these rows waits. `hung` is a renewal waiting for such
a row, and `late` says that no renewal has begun and ended since one was hung.

A renewal that waits is cancelled with the pipeline (`StopRenewal`): `runner.py:120` cancels
the monitor, the monitor awaits the renewal, and `stop_lease_task` (`:69-85`) swallows the
cancellation. So `Rollback` always follows a `PipelineError`, but the lease may have lapsed
by then (a `late` worker's lease may lapse even under `Timely`), and another worker may claim
the job between the rollback (`:144`) and the commit of `mark_failed` (`:155`), which asks
nobody who owns it. Section 5 says what comes of that.

**The environment.** A model call may return anything the pipeline distinguishes; any
phase may raise; processes die (at most `MaxCrashes` times) and restart under the same
name.

Abstractions, and why they are safe to make:

* The locked part of a handler is one atomic step. Its flushes hold row locks until the
  commit, except that it *reads* chapters without locking them; splitting it there is
  in the plan.
* `Interrupt` tests and pauses in one step; the code does both without a model call between.
* `generation_mode` is a constant of a run (`RushMode`). A user can edit it at any time (`PUT` on
  the project), and a chapter is written in the mode in which it was begun; projects that
  mix the modes are not modelled. What is said of rush projects holds of those that have
  always been one.
* Retry counts are capped at `MaxRetries`; beyond that only the test against it matters.
* One HTTP request is in progress at a time; handlers of one project serialise on the
  project row, and what a second one could read early is what one request can read early.
* If PostgreSQL chooses a deadlock victim, the victim is a rejected request or a renewal
  that changes nothing, and both may happen at any time in the model.
* `Timely` (a constant, so runs exist with and without it) states the time scales: a renewal that
  is not blocked is in time; a blocked one takes the row before a new claim does; and the
  database-only stretches between two model calls are shorter than the time
  between two requests of a user. Without the last clause, five requests within
  milliseconds of a claim can bring two workers onto one chapter (`contention.cfg` with
  `MaxRequests = 5` and without `Brief` in `Service`; 17 states).

### `WriterStream`: the text of a chapter

A text is the sequence of the pieces of the story it holds: a model that is given a text
goes on with the piece after its last, so a text with a gap or a lost beginning can be
told from a whole one. `drafts` are the committed rows of `chapter_attempts`;
`writer.text` is `attempt.content` in the worker's session, ahead of the row; `writer.buffer`
is the batch of `content_chunk` events not yet committed, `writer.parts` the local list of
this round's pieces, `writer.prefix` the text the round continues. `Chunk` commits its batch
or not (20 chunks or two seconds). `StreamEnds` is the normal end with
`_finalize_writer_content`; `Disconnect` is `RemoteProtocolError` with
`_recover_usable_stream_content`; `TextReturned` the non-streamed answer;
`NextRound` a truncated text that opens another round; `InterruptWriting` is
`GenerationInterrupted` in any guarded stage. The ends of an attempt differ in what they
leave: `RejectDraft` is `apply_review_failure`, which deletes the chunk events only if the
chapter is queued again; `CriticFails` marks the attempt and keeps them; `WriterRaises` is an
exception of the pipeline, rolled back to the last batch and recorded by `mark_failed`.
`KillWriter` drops the session and leaves the
job to be claimed again. `PauseWriting`, `ResumeWriting` and `ContinueWriting` are the
handlers of `GenerationService` as seen from the attempt (`_build_resume_payload`,
`_get_latest_approvable_attempt`). Which texts count as truncated is left open: any
text may get another round while rounds are left.

### `EventStream`: events, SSE and the page

`EventService.append` draws an id when the event is flushed (`PipelineFlush`, `NoteFlush`)
and the row is visible when its transaction commits; two transactions are open at a time,
so ids become visible out of order. `ListAfter` is `list_after` with its limit and its
special case for cursor 0 (the *last* page). `Poll` moves the cursor of the connection,
what was sent and has not arrived is `sse.wire` (delivered in order), and `Drop` loses it.
`sse.jumped` remembers that a list fetched beside the connection has moved the page's
`lastEventId`. The page is a counter of list requests
in flight, at most one request for details (a newer one aborts it), a request for the
event list, and what it shows. `ReconnectDelay` and the limit of attempts are no part of
it: `connect()` calls `disconnect()`, which resets the counter, so the limit never applies.
`heard` is history: the events the page handled, without those whose effect it has undone
by handling an earlier event again (a list can lower `lastEventId`).

### `LlmClient` and `JsonCandidate`: one model call

The four modes are `generate`, `generate_text_fallback` (one retry), `generate_json` without
and with a schema (with the structured-output probe first). `Reply` is what the provider
may answer, in classes the code distinguishes. `try` and `parse` are the two nested loops;
`waited` sums the backoffs (`2 ** attempt`, the recursive function `PowerOfTwo`) in units
of `retry_backoff_seconds`. The deadline is the
caller's (`_run_cancelable_with_pause_support`, `asyncio.wait_for`); handlers that approve a
chapter or draft outlines have none (`guarded = FALSE`).

`JsonCandidate` runs `_extract_json_candidate`'s balanced scan one character per step over
values with nestings, strings, quotes and escapes that could mislead it.

### `ContextBudget`: cutting a message

A layer is its number of tokens. `FitInit` renders the layers at their limits, `ReduceLayer`
is the first pass over `REDUCTION_ORDER`, `HalveAll` the second, `BeginPass` / `CutLayer` /
`EndPass` the `while` loop. The running total is kept by differences, as in the code. (After
one turn of that loop the message fits or no layer is above 300 tokens, so a second one
changes nothing.)

### `ReviewRules`: the verdict

Scores are in tenths; `NoScore` is everything `_coerce_score` reads as none, `NotANumber` is
NaN, which `min(10.0, x)` turns into 10; a score of 0 inside an object is falsy and reads
as missing. The three dimensions without a gate count as one with weight three.
`Normalized` is `normalize_review_payload`; `SaveReview` applies it twice, as the pipeline
and `is_review_passed` do. The overall score and the scores of outline and instructions each
have a threshold of their own (`GateOf`).

### `PromptVersions`

A builder (a handler or the pipeline) reads the next version (`StartBuilding`), waits for the
model, flushes its row (`FlushPrompt`: the unique index blocks a version that is taken or
flushed by another transaction), and commits. An approval reads the rows it supersedes
and writes them when it commits; as the unit of work compares with the loaded value, an
approval of an approved row writes nothing (`again`). `era` counts the rewrites and imports
that delete all rows: a builder begun before one can commit its row after it.

### `MemoryResources`

A text is the number of its acceptance for the chapter. A summary is known by the text it
was made of, the distant memory by the pairs of chapter and text it was compressed from,
the profiles (characters and world settings) by the chapters whose changes they contain.
The three ways to accept are: all stages succeed; the chapter is written in rush mode or
a stage before the first write fails; the refresh of the distant memory times out after
the others were flushed. `ToldOf` is what `ContextService` gives the writer of a chapter.

### `Channels` and `ModelConfig`

`Channels` splits `update_channel`, `refresh_channel_models` and the replacement of the list
at their flushes, with the row locks they take; the default is kept twice, in the
channel's row and as a flag on a model. Discovery, awaited inside the refresh, answers any
set of models or fails. `ModelConfig` has the rows of the system, of each project and of
the channel they may name; a key is the number of the request that saved it. `Snapshots`
is what a new project gets, `ShownConfigs` what the settings page and the start check see,
`RuntimeConfig` what the pipeline reads: different completions of missing roles.

## 4. Bounds

`N` chapters, `MaxRetries`, the set `Workers`, `MaxRequests` *committed* requests (rejected
ones are free), `MaxCrashes`, and `MaxJobs` rows of `generation_jobs`. The runs with the
constraint `RoomForJobs` stop following a behaviour when the table is full; since
finished jobs are never reused, this bounds the number of attempts, not what can be
in the table at one time. Two chapters give a chapter with a successor and a last one;
all decisions of the code look at "the next one", "an earlier one" or "none". Two
workers are enough for every pairwise race; the lease discipline is also checked
with three, and proved for any number. `MaxRetries = 2` gives an attempt that is retried
and one that fails for good. A request can interrupt a run, and a second one restart it:
two requests reach every handler from `paused`, `completed`, and `running`; the rush
runs have three. The deadlock check is off in these runs because the system may
really rest: a completed or paused project with no request left. In `writing` and
`services` every component ends or runs out of its bounds, so it is off there too.

| Bound | Value | Why it is enough |
|---|---|---|
| `StoryLength`, `MinUsable` | 3, 2 | texts that are empty, not usable, usable, and usable with a remainder to continue |
| `MaxRounds` | 2 | a first and a last continuation round (the code's value) |
| `MaxAttempts`, `MaxPauses`, `MaxKills` | 2, 2, 1 | a reopened attempt, a new one beside it, a pause in each, a kill between |
| `ViewPieces`, `MaxNotes`, `MaxDrops`, `MaxReloads`, `PageLimit` | 1, 1, 1, 1, 2 | four events in two transactions, a page smaller than the log, a lost connection, a list fetched again; a second piece adds no new order of a chunk against a refresh |
| `MaxRetries` of the client | 2 | a first, a middle and a last attempt in both loops |
| `MaxProse` | 1 | every character before and after every value |
| `OptionalSizes`, `RequiredSizes`, `Budgets` | see `writing.cfg`, `BudgetPairs` | layers absent or above every limit; required parts that fit, that leave less than the layers need, and that exceed the hard limit; the default budgets, half of them, and one that nothing fits |
| `MaxPrompts`, `MaxEdits`, `PromptUsers` | 4, 3, 2 | four rows are the least with which a builder of a former era disturbs the order |
| `NChapters`, `MaxTexts` | 4, 2 | the distant memory begins with chapter 4's context and chapter 3's acceptance; a chapter written twice |
| `RawScores`; `OverallThreshold`, `OutlineThreshold`, `InstructionThreshold` | 0, 60, 70, 90; 80, 70, 90 | none, below all, at the lowest, at the highest threshold, in every combination: three thresholds, so that a mix-up shows |
| `Admins`, `Models`, `MaxLists` | 2, 2, 2 | two requests at once, a model that stays and one that goes |
| `Projects`, `SavedKeys`, `MaxSaves` | 2, 2, 4 | a project and its copy, an old and a new key, four requests in any order |

## 5. Runs

| Run | Instance | Properties | Distinct states |
|---|---|---|---|
| `core` | standard mode, 2 chapters, 2 workers, 2 requests | `TypeOK`, `RunningHasWork`, `ImplementsJobLease` | 410 k |
| `takeover` | the same with a crash | `LeaseShieldsChapter`, `OnlyRenewalsStray` | 1.15 M |
| `contention` | rush mode, 2 chapters, 2 workers, 3 requests, 1 crash | `OneActivePipeline`, `CachedChapterFresh`, `RunningHasWork`, `PassedStable` | 1.50 M |
| `rush` | rush mode, automatic and manual, 2 chapters, 3 requests | `QueuedChapterCovered`, `CompletedStable` | 263 k |
| `zombie` | not `Timely`: leases lapse under a worker that goes on | `PassedIsAccepted`, `WorkerNeverUnpauses` | 392 k |
| `live` | fair, standard mode, 1 chapter, 2 workers, 2 requests, 1 crash | `RunEnds`, `PauseTakesHold` | 224 k |
| `writing` | `MCWriting` | `WritingTypeOK`; writer: `ShownIsSaved`, `PassedTextUsable`, `PauseKeepsText`; view: `ToldIsSaved`, `ReconnectOverlooksNothing`, `ViewSettles`; call: `RequestBound`, `RefusalEndsCall`, `BadJsonReported`, `CallEnds`; scan: `ValueFound`; budget: `FitsOrExhausted`, `FitEnds` | 315 k |
| `services` | `MCServices`; leases with 3 workers and 3 jobs and no bound on steps | `ServicesTypeOK`; leases: `LeaseExclusive`, `LeaseCovers`; prompts: `VersionsFollowCreation`, `OneApproved`; memory: `DistantIsCurrent`, `RewriteForgets`; review: `GateHolds`; channels: `OneDefault`; configurations: `StartedHasClients`, `SystemSettingsStayOut` | 1.06 M |
| `stranded`, `scope`, `restart`, `draft` | small | one property each, violated (section 8) | |

* `core` shows, within its bounds, that in standard mode, renewals held up by memory updates and
  takeovers before a late `mark_failed` included, every step of workers and handlers is a
  step of the lease discipline and a running project always has work.
* `takeover` shows what is left of this when a crash is added: only a renewal by a worker
  that has lost the project breaks the discipline, and while a lease is live only an earlier
  holder of the chapter writes its row beside the worker.
* `contention` shows that where no renewal has to wait, in rush mode, the handlers' tests
  (`_has_queued_job`, `_has_live_leased_job` after cancelling expired jobs) are enough to keep
  a second worker out, a crash included; that the columns the pipeline caches are still
  true while it holds its lease; and that nobody undoes what has passed.
* `rush` adds projects that do not go on by themselves: queued chapters always have
  somebody to run them, and a late worker reopens no completed project.
* `zombie` shows what is left when the time assumption fails altogether: two pipelines may
  then run, but a passed chapter still has its text, and nobody restarts what a user stopped.
* `live` shows that a run ends and a pause takes hold, however long a renewal has to wait
  for the memory update of its own worker, and after a crash.
* `writing` shows that the text survives pauses, broken streams and kills, that the page
  ends up showing it whatever the network does, and that a call, a scan and a message
  end with what they promise. `ViewSettles` was also found to hold with two drops and
  two reloads, and with two drops, a reload and a note.
* `services` shows that the unlocked reads around long calls do no harm, apart from the
  exceptions the properties name.

The exceptions are part of what was learned: two *approvals* at the same time can leave
two approved versions; two *replacements* of a channel's list, or two moves of its flags,
can leave two defaults; a prompt builder that began before a rewrite can commit among the
new rows; an *event* can be overlooked when a slower transaction commits a smaller id,
when a page of the list is full at cursor 0, or when the list is fetched again; a score of
exactly 0 in an object reads as missing and NaN as 10.

What the runs leave out, because it is false there, is as much a result as what they show.

*Standard mode and the leases.* In the memory update the pipeline's transaction holds the
project's row, for minutes perhaps, and the renewal waits. When the pipeline raises, the
renewal is cancelled, and the lease may lapse before `mark_failed`. Within the bounds of
`core` TLC then finds (23 states) two pipelines on one project: start; the first worker's
memory update outlives the lease and raises; rollback; the second worker claims the job
and writes; the first one's `mark_failed`, which asks nobody who owns the job, fails it and
pauses the project; a rewrite finds no live job and releases the project's lease; the first
worker claims the new job while the second still writes. So in standard mode

* `OneActivePipeline`, `CachedChapterFresh` and `PassedStable` fail (the stale worker may fail or
  pause what the other has passed), and `CompletedStable` fails without any request after
  the start (the late `mark_failed` pauses what the successor completed): all four are
  checked, and proved, of rush projects, which have no memory update;
* `ImplementsJobLease` fails with a crash (`takeover.cfg`, 42 states): a dead worker leaves a
  leased job behind; later a worker, whose renewal is held up behind the memory update of a
  stale one, loses the project to the stale one, which takes that job over; then it renews
  its own job beside the new owner's lease. `renew_lease` asks who owns the job and not who
  owns the project. `OnlyRenewalsStray` says that nothing else breaks the discipline;
* `LeaseShieldsChapter` is what remains of `CachedChapterFresh`.

*The work.* `process_generate_chapter` returns for a chapter that is already passed
without going on to the next, and the insert of a chapter's job does nothing while
another job of that chapter is leased. Together with `mark_done`, which asks nobody who
owns the job either, that can leave a project `running` with neither a job nor a busy
worker, until the user acts:

* in standard mode with two requests and a crash (`takeover.cfg` with `MaxJobs = 7`, 49
  states): a worker that lost its job ends the only one left as done;
* without `Timely`, with two requests: a worker that lost its lease passes a chapter that the
  user has retried meanwhile; the retry's job is taken, finds the chapter passed, and ends.

So `RunningHasWork` is checked in `core` without crashes, and in `contention`, for rush projects,
with one; section 7 proves the latter for any number.

`QueuedChapterCovered` is checked without crashes. After crashes a queued chapter can lose
its job until the next start, or resume of a paused project, repairs it (`RestartRepairs`
in section 7): a rewrite from a later chapter cancels
the expired job of an earlier one (three requests, one crash), or a resume that was
received while the project ran cancels the expired jobs of two queued chapters and queues
the first (one worker, three requests, two crashes; 15 states).

Every property of a passing run has a mutant in `PROJECT.json`: a wrong variant of one
definition under which TLC finds the property violated.

## 6. Fairness

`GenerationLiveness` assumes weak fairness of: a received request (the server
answers it or rejects it), each worker's loop (`run_worker` never stops by itself, and
every model call has a timeout), each renewal, and the passing of time for every lease
nobody renews. Nothing is assumed about users, crashes, or what models answer. Weak
fairness is enough because the steps concerned stay possible until taken: nobody
else can claim for ever, for each claim ends. A renewal behind its own worker's
transaction needs no excuse: it is cancelled when the pipeline is over, or goes on when
the transaction has ended.

`EventStream` assumes that open transactions end, the endpoint polls, the page connects and
its requests are answered (`ViewProgress`); not that the writer goes on, and nothing about
notes, drops and reloads. `LlmClient` assumes that a request is answered or times out
(`Answered`; httpx has a read timeout there) and that a deadline, where the caller sets
one, passes (`Deadline`); a stream without a deadline may hang for ever, because
`stream_generate` sets no timeout, and `CallEnds` says so. `ContextBudget` is a loop in one
coroutine, so it goes on (`WF_fit(FitNext)`).

## 7. Proofs

Each theorem holds for every value of the constants that meets the named assumption of its
module (`LeaseAssumption`, `StateAssumption`, ...), which say no more than that
bounds are naturals and the like. Every proof has the same shape: a strengthened
invariant, first checked with TLC, that holds initially, one lemma per action that keeps
it, and a temporal step that combines them.

`JobLeaseProofs`, for any `Workers` and `JobIds`:

    Invariance   Spec => []IInv     IInv == TypeOK /\ LeaseExclusive /\ LeaseCovers
    TypeCorrect, Exclusive, Covers: its three conjuncts

`LeaseExclusive` is not inductive: `claim_next_job` reads only the *project's* lease,
and nothing in `LeaseExclusive` says that a project without a live lease has no job with
one. `LeaseCovers` says it: a live job lease is backed by the project's lease, unless the
project has stopped (after `mark_failed`), and a stopped project is not claimed. It stays
true when a project is started again because the handlers refuse to while a live job
remains. One lemma per action; two lemmas say that ending jobs and inserting one
creates no lease.

`NovelGenerationProofs`, about the whole generation system, for any number of chapters,
retries, jobs, workers, requests and crashes, with or without `Timely`:

    Invariance       Spec => []IInv
    TypeCorrect      Spec => []TypeOK
    PassedAccepted   Spec => []PassedIsAccepted
    NeverUnpauses    Spec => WorkerNeverUnpauses

`TypeOK` is not inductive: a worker's `chapters[workers[w].chapter]` is a row only if
the job it took had a chapter, which is true of queued and leased jobs but not of rows
that are not inserted yet; and `requestsLeft` stays a natural only because a request in
progress has been counted. `IInv` adds exactly this: `SoundJob`, `SoundWorker`, `SoundRequest`
and `ServiceOK`. A chapter row in `SoundChapter` is accepted when it is passed,
so `PassedIsAccepted` is a conjunct of the invariant and needs no lease: each
transition that sets `passed` sets the attempt in the same row, and each one that
drops the attempt sets another status. The proof has a lemma for each helper on rows (what it
is given and returns is sound), one for each handler and phase, and composes them.
`NeverUnpauses` follows from it and one fact about `advance_after_chapter_success`: the
pipeline's session has `running` cached, so its assignment of `running` emits no UPDATE.

`WriterStreamProofs`, for stories, rounds, attempts, pauses and kills of any number:

    WriterTypes, ShownTextIsSaved, OnlyUsableTextPasses, PauseTakesNothingBack

`ShownIsSaved` speaks of the stream only, and is kept by a chunk only because of what was
true when the round began: the invariant `StreamInv` adds `InStep` (between two rounds, and
in a call that returns its text whole, the session's text is the row's, and a round opens
with an empty batch), `Continued` (a continuation names an attempt that is there),
`Streamed` (`ShownIsSaved` with the suffix spelt out: the committed text is some text followed
by what was shown), `Reviewed` (what was generated is usable, and the text under review is
the row's) and `Passed` (an accepted text is usable, in a row, and the writer is idle).
Lemmas about sequences (`Regroup`: regrouping concatenations; `SuffixOfConcat`,
`PrefixOfConcat`) carry the batch over its commit.

`PipelineLeaseProofs`, about the whole generation system, for any number of chapters, workers,
requests and crashes. Three theorems need no hypothesis, neither on time nor on the mode:

    LeasesSound        Spec => []LeasesOK
    StraysAreRenewals  Spec => OnlyRenewalsStray
    LeaseShields       Spec => LeaseShieldsChapter

so that whatever happens to the lease discipline of `JobLease` happens at a renewal by a worker
that has lost the project: claims, lapses, crashes, both ends of a job and all handlers
obey it, each lemma giving the abstract step. `LeaseShields` splits a step by who takes
it: handlers leave the chapter of a live lease alone, because it is in `writing` or
`reviewing` (`Phases`) and none of them pauses or queues such a chapter while its job is
live; a worker writes the rows of its own chapter only, and of queued ones when it completes
or advances; two workers on one chapter cannot both have a live lease of it (`OneHolder`).
The others assume `Timely` and `RushMode`:

    LeaseInvariance    Spec => []LInv
    OnePipeline        Spec => []OneActivePipeline
    CachedFresh        Spec => []CachedChapterFresh
    PassedStays        Spec => PassedStable
    CompletedStays     Spec => CompletedStable
    LeaseImplemented   Spec => ImplementsJobLease
    OneLeaseOwner      the exclusiveness of the leases, carried over by the refinement

Both are constants of the model and not hypotheses about a behaviour: `RushMode` is a mode
the user chooses, and `Timely` the time scales of section 3. In standard mode the conclusions
are false (section 5). Crashes and takeovers from dead workers are included; `RushQuiet`, the
first conjunct of `LInv`, proves that no transaction stays open, no renewal waits and none
is late.

`OneActivePipeline` is far from inductive. `LInv` says besides that a busy worker owns the
project's lease (`OwnsProject`); that it owns its job until the end of its loop, where a
retry may have cancelled it (`KeepsJob`); and that the session's copy of the chapter is the
row, but for a pause that took it out of the queue (`OpenedFresh`, `WorkingFresh`). A request
that is being served may have cached a project that has stopped meanwhile, and
`NoneOpening` says that no worker opens a chapter under it: that is the clause of `Timely` the
handlers need. `PassedStable` and `CompletedStable` follow because the only writers left are
the lease holder, whose chapter is neither passed nor beside a completed project, and the
user.

`ProgressProofs`, the first two under the same two assumptions:

    NeverStranded      Spec => []RunningHasWork
    QueuedCovered      Spec => [](Uncrashed => QueuedChapterCovered)
    RestartRepairs     Spec => [][Restarting => NothingOrphaned']_vars

`NeverStranded` allows any number of crashes. `RunningHasWork` alone is not inductive: the
job that is left may be of a chapter that has passed, which `process_generate_chapter` skips
without queueing another. `KInv` says what there is to do: while the project runs, a job of a
chapter that has not passed is queued, or leased to nobody who is alive, or a worker that has
such a chapter and its job has not yet decided what comes next (`Unfinished`); a crash
turns the second into the first. `UInv` counts more, until a crash: a leased job belongs
to a busy worker, and a queued chapter has its job or its worker. What a crash leaves of
it is `RestartRepairs`, without any assumption: a start, a pause, and a resume, approval or
rewrite of a project read as paused leave no queued chapter without a queued job.

`EventStreamProofs`, for texts, notes, drops and reloads without bound: `ViewTypes`,
`ToldOfCommitted`, `ReconnectLosesNothing`. `HeldBack` says that what a transaction has
flushed tells no more than it will commit, `Answers` what an answer on its way to the page
may say, `Ahead` that the connection is ahead of the page: what is still to arrive has an id
the page has not passed. The proof attempt showed that the property must except a page
whose `lastEventId` a list has moved while a connection was open (`jumped`): with two drops
and two reloads TLC finds a connection that is behind the page.

    RestShowsText   ViewSpec => [](AtRest /\ WriterDone => Overlooked \/ page.view = TextPieces(rowText))

is the safety half of `ViewSettles`: where nothing more happens by itself (`RestIsRest`: at rest
no action of `ViewProgress` is possible), the page shows the committed text. `InOrder` says that
after the writer's last event only notes follow, and `EndShown` that a page that handled that
event has the text on its way: a list in flight, an answer that is not read yet or was read
late enough, or the text itself. This proof corrected the model: `heard` used to keep an
event that the page undid by handling an earlier one again, and with two drops and
two reloads TLC then found a page that had "heard" of the end and showed nothing.

`ModelCallProofs`, three parts. `LlmClient`, for any number of retries: `RefusedKeyEndsCall`,
`BadJsonIsReported`, `RequestsAreBounded`, `CallTypes`. The first two need to know in which
phases a call can have a refused request or an unparsed answer behind it. The third is an
invariant that says what a call has spent in terms of how far it has come
(`parse * (R+1) + try` requests, and the sleeps of as many retries). Powers are unknown to
the provers, so `Backoff` is a recursive function, and `PowerRecursion` proves that its
recursion has a solution and `BackoffGrows` that it grows. `CallAdvances` is the safety half of
`CallEnds`: `CallStepsLeft`, the requests not yet sent and one for being given up, is a
natural that every step lowers, so only a step that never returns keeps a call from
ending. `JsonCandidate`, for the values of `JsonValues` in prose of any
length: `WrappedValueIsFound`, `ScanTypes`; a table says where the scan stands after each
character of a value, and `TableFollowsScan` that the scan follows it. `ContextBudget`, for all
sizes and limits: `RunningTotal`, `MessageFits`, `FitTypes`; `Settled` says what a pass that
made no progress has gone by. `FitAdvances` is the safety half of `FitEnds`: in a turn of
the loop that made progress some layer lost a token, which outweighs all the layers and phases
still to go through (`FitStepsLeft`). A fourth part is about `MCWriting`: `WritingTypes` and
`WritingHolds` carry the invariants over to the composed specification, in which a component
may also be at rest, and so every safety property of `writing` is a theorem of what the
run checks.

`ServicesProofs`, six parts.

* `PromptVersions`, for any users and rows: `PromptTypes`, `VersionsAreTheHistory`,
  `OneVersionApproved`. For the second, `Numbers` says that the rows of one era hold the
  versions 1 to some n in their order, that a builder of this era holds a number that is
  taken or the next one, and that the index keeps flushed numbers apart: the number a builder
  read may be old, but then the index refuses it. For the third, `Approvals` says that while
  approvals have not overlapped at most one is under way, and every approved row is the one
  it approves or one of its losers.
* `ReviewRules`, for any three thresholds and any scores: `PassedMeetsGates`. Lemmas say that
  reading a score again changes nothing (`CoerceFacts`, `DimensionFacts`), and what a
  normalisation keeps (`NormalizedFacts`); the theorem applies the last one twice, for the
  pipeline's and `is_review_passed`'s.
* `MemoryResources`, for stories of any length: `MemoryTypes`, `DistantMemoryIsCurrent`,
  `RewriteForgetsTheFuture`. The first two are inductive together: a chapter that is accepted
  again lies behind the coverage of the distant memory or follows a rewrite that emptied it.
  The third needs `MemoryOfTexts` (only a chapter with a text has a summary or a profile) and
  `PastAlone` (from a rewrite to the next acceptance nothing is remembered but its past, and
  the distant memory is empty).
* `ModelConfig`, for any projects and requests: `ConfigTypes`, `StartedProjectsHaveClients`,
  `SystemSavesStayOut`. The invariant is that a project that has any row of its own has the
  writer's: each way to write rows demands the writer's or takes over a snapshot that has
  it. A project that was created has rows, which the runtime completes from the project's
  own writer and never from the system.
* `Channels`, for any requests, models and lists, where `Models` is not empty: `ChannelsTypes`,
  `ChannelHasOneDefault`. A request that moves flags has the flags to move as it read them
  (`CurrentFlags`), and one that replaces the list replaces all of it (`WholeList`), until two
  requests overlap.
* `MCServices`: `ServicesImplement` shows that a behaviour of the composed specification is
  one of each component (of the review only when it is the subject: at rest it is a review
  that has been decided, which no run of the rules begins with), so that `ServicesTypes` and
  `ServicesHold` get every property of `services` from the components' theorems.

Where a proof goes by induction over the naturals
(the powers, the order of delivered events), it takes the least number that breaks the
claim (`LeastNumber`, from the library's well-founded induction), as the provers cannot
instantiate the library's induction theorems.

Only model-checked:

* liveness (`RunEnds`, `PauseTakesHold`, `ViewSettles`, `CallEnds`, `FitEnds`), as fairness and
  `ENABLED` are out of the prover's reach; of the last three the safety half is proved
  (`RestShowsText`, `CallAdvances`, `FitAdvances`), of the first two nothing yet (section 10);
* of standard mode, `ImplementsJobLease` and `RunningHasWork` as far as `core` goes: no proof
  can reach that, since both are false in larger instances (section 5);
* `QueuedChapterCovered` after crashes is neither: it is false there (section 5).

## 8. Findings

1. `stranded` - a pause noticed during the memory update commits acceptance and pause
   together; the chapter is `paused` with an accepted attempt, and `resume_project`, which
   picks chapters without one, passes over it, although the user was told that it
   can be continued.
2. `scope` - the automatic retry of a rejected draft drops the payload's mark
   `chapter_retry`; when the retry passes, the pipeline goes on to the next chapter although
   only this one was asked for.
3. `restart` - a handler that read the project as `running` and then waited for the lock
   writes no status; a worker that paused or completed the project meanwhile wins, and a
   job is left in the queue of a project that does not run.
4. `draft` - a stream that breaks in a continuation round is recovered from the pieces
   of that round when they are usable by themselves (`pipeline.py:1306`, used at `:1322`):
   the round's prefix is not put before them, and the critic gets the chapter without its
   beginning, although the page says that the chapter is continued from the text
   saved so far (`useLiveWritingState.ts:445`, also `:137` and `projectEvents.ts:116`). The same
   holds for a `chapter_continue` run that is paused: its attempt has only the new pieces.

Met on the way, and kept as hazards or exceptions of a property rather than findings, as
no text of the repository says otherwise: the limit of reconnection attempts
(`useProjectEvents.ts:82`) never applies, because `connect()` resets the counter; the key of
a system configuration is dropped when a project is created but kept, with
the system's `prompt_builder` row, when one is copied; a refresh of a channel keeps the
default it loaded before discovery; a late `mark_failed` or renewal of a worker that lost its
job (section 5); the last decision on a revision completes a project from chapters and a
status it read without a lock, over a retry or rewrite committed meanwhile
(`memory_service.py:1327`).

## 9. Not modelled, and why

* The wording of prompts, the rendering of context layers, the texts of issues and
  suggestions, export and the frontend's forms are text and layout.
* The normalisation of the models' payloads in the memory service (half of the file) is a
  long list of defaults for missing fields with no state; which memory update waits for a
  review is a setting per update.
* The three memory stages on one `AsyncSession`, and the guarded stage that is polled on
  the session it uses: what overlapping operations on one connection do is outside the
  source. All outcomes of a stage are possible in the model.
* The connectivity test changes no state; system runtime settings and project defaults are
  rows edited on their own.
* PostgreSQL, SQLAlchemy, asyncio and httpx are modelled from how the code uses them (row
  locks, identity map, tasks, timeouts). Migrations, the reconnection of the database and
  the operations scripts are left out.

## 10. Plan

Next, most important first.

| Step | Question |
|---|---|
| handlers split at their flushes | unlocked reads of chapters; refines `GenerationService` |
| `WriterStream` under `Worker` | that the phases of the stream refine the phase `writing` |
| `ProjectLifecycle` | import, copy, delete of a project beside a run; composes with `NovelGeneration` |
| `RunEnds` by a measure | a number that falls with every step of workers while no request comes, as for calls and messages |
