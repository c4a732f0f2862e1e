# DailyCast in TLA+

DailyCast is one Python process that turns news into a daily podcast: it collects articles,
clusters and ranks them, has an LLM write a script, synthesises audio, asks for approval and
publishes an RSS feed.  Everything durable is in one SQLite file and two directories of media.
This directory models the parts of it whose correctness depends on *order*: who may write a row
when, what a crash leaves behind, and what the next process makes of it.

Paths below are relative to the repository's `src/dailycast/`.

## 1. Inventory

| component | code | state it keeps | operations | interacts with |
|---|---|---|---|---|
| Task submission | `pipeline/submission.py` | rows of `task_runs`; `_offered_task_run_ids` | submit, resolve a lost insert race, recover a stale run | API, scheduler thread, startup; offers identifiers to the executor |
| Executor | `pipeline/executor.py` | `_queue`, `_queued_task_run_ids`, `_accepting`, `_shutdown_requested` | enqueue, redeliver, worker loop, heartbeat, start, shutdown | calls the orchestrator; polls `task_runs` |
| Orchestrator | `pipeline/orchestrator.py`, `pipeline/state.py` | rows of `task_runs` and `task_steps`; `warning_count`, restored checkpoints | claim, restore, start/finish/fail a step, time out, interrupt, succeed, wait | steps (TTS, LLM, publishing, ...) |
| Recovery | `pipeline/recovery.py` | none | list queued and stale rows once at startup | submission |
| Scheduler | `scheduler/service.py` | APScheduler job | daily tick, in a pool thread | submission |
| Episodes | `episodes/service.py` | `episodes`, `episode_items` | create, regenerate, approve, transition | `create_episode` and `publish` steps |
| Publication and feed | `publishing/service.py`, `publishing/rss.py` | `publications`, media files, `feed.xml` | publish, reconcile | dispatcher, startup |
| Distribution | `publishing/dispatcher.py`, `netease.py`, `xiaoyuzhou.py` | `publication_targets`, the remote platform | publish, resume, reconcile | `publish` step, API, startup |
| Speech synthesis | `tts/` | `audio_segments`, cache files, merged draft | ensure segment, look up cache, merge | `generate_audio` step, providers, FFmpeg |
| Briefing | `briefing/` | `_run_reserved`, prepared files, delivery markers | prepare, deliver, run, dry run | its own scheduler, API, webhook |
| LLM access | `llm/` | budget counters, artifact cache | reserve, call, fail over, cache | editorial steps, briefing |
| Editorial | `llm/editorial_service.py`, `llm/*_editorial.py`, `llm/script_checking.py`, `pipeline/steps/ranking.py` .. `create_episode.py` | the context and files of an attempt, event statuses | rank, outline, write, review, revise, describe, create | LLM access, episodes |
| News processing | `news/` | `news_events`, article statuses | normalise, filter, deduplicate, cluster | pipeline steps, briefing |
| Sources | `sources/` | `sources`, `articles` | synchronise configuration, collect, extract | `collecting` step, briefing |
| Manual submission | `main.py` | none of its own | choose an edition, replay an idempotency key | submission, episodes |
| Core | `core/` | settings, readiness | startup and shutdown order, workdays | everything |

What is hard: the scheduler thread enters `TaskSubmissionService` and `enqueue` while the loop
does the same; the process can die between any two transactions, and between a transaction and
the effect it announces (an enqueue, a feed, a remote upload, a webhook); a restart sees rows
whose owner may have died a second or an hour ago; deadlines pass while a step runs; the queue
is bounded; a run's checkpoints are inherited along a chain of recovery children.

What makes each component correct:

* submission — one active row per business key and one row per idempotency key;
* executor — a committed queued row is never forgotten while the process lives, and is executed
  at most once;
* orchestrator — a step starts only on top of a successful prefix, an outcome is written exactly
  once and never changes, a success is a success of every step;
* recovery — a dead worker's run is continued, once, under the same request and deadline;
* publication — the database says "published" only for what the feed shows; a failure can be
  retried, or ends at the next startup; the feed never loses an episode that is still there;
* distribution — one attempt per target at a time, nothing sent before RSS is out, nothing sent twice
  without a person's request;
* synthesis — the draft speaks the sections of the current script, whatever was reused;
* editorial — what becomes an Episode was validated and reviewed as it is;
* briefing — a day's message is sent once unless something explains another, and a delivery tick
  leaves the chat told or the operator alerted;
* LLM access — no answered question is asked again; a run's call count is what its finished steps
  took from the budget;
* news, sources — no collected article is lost between the feeds and the events, and an event holds
  what resembles its representative.

## 2. Modules

| module | what it is |
|---|---|
| `TaskExecution` | submission, scheduler thread, executor, orchestrator, recovery, shutdown and crash over one `task_runs` table |
| `TaskLifecycle` | what that table promises to its readers; `TaskExecution` is shown to implement it |
| `Publication` | the Episode, its audio, its RSS publication and the feed file, from `create_episode` to `publish`, crash and reconcile |
| `PublicFeed` | what the feed promises its subscribers; `Publication` is shown to implement it |
| `Distribution` | the dispatcher's targets, the adapters of the platforms, the resume route, reconciliation |
| `UploadLedger` | what a target owes a platform that cannot recognise a repeated submission; `Distribution` is shown to implement it |
| `Loops` | a pass over a sequence that carries a value, and the passes several algorithms share |
| `BriefingEdition` | the algorithms that turn articles and a model's answer into a message: candidate pool, audit, repair, fallback, byte budget |
| `Briefing` | the run slot, the ticks, manual runs, preparation, delivery, markers, webhook and crash |
| `EventSelection` | the algorithms of ranking and outlining: candidate cap, quotas, spread of sources, evidence budget |
| `ModelCalls` | one question to a language model: cache, chain of providers, fallback, repair, budget |
| `EpisodeDrafts` | the row of the day's Episode as the editorial steps and the audio see it |
| `Editorial` | ranking, outlining, scripting, checking and create_episode of one attempt |
| `SpeechSynthesis` | segment rows, cache files, synthesis, merge |
| `Production` | `Editorial` and `SpeechSynthesis` under attempts that crash and are repeated |
| `NewsRules` | the filter, the duplicate passes and the clusters as operators |
| `News` | collection, extraction and the news checkpoints beside the briefing that shares the rows |
| `MC*` | instances for TLC |
| `TaskExecutionProofs`, `PublicationProofs`, `DistributionProofs`, `BriefingProofs`, `ProductionProofs`, `NewsProofs` | inductive invariants and theorems |
| `LoopProofs` | lemmas about loops, sequences without repetitions and their order, for all the other proofs |
| `SelectionProofs` | theorems about the algorithms of `EventSelection`, for every input |

A day's run passes through them in this order:

    TaskExecution   claims the run and drives anonymous steps
      News            collecting .. clustering   -> candidate events
      Production      ranking .. create_episode, generate_audio   -> a draft of an Episode
      Publication     the Episode steps again, around approval and the feed
      Distribution    the publish step's targets; Publication is its RSS adapter
    Briefing        beside all of it, on the same loop; it shares article rows with News

`Production` composes `Editorial` and `SpeechSynthesis` by their actions, over the Episode row of
`EpisodeDrafts`.  Elsewhere two modules overlap in a small interface that each of them abstracts
from its side, and they are checked apart: `Publication` takes what comes before its steps as
`StartRun`; `Distribution` keeps of `Publication` the status of its row; `Production` keeps of it
the three ends of the publish step; `News` keeps of the briefing what it does to article rows, and
`Briefing` takes whatever it finds.

What could be added next, in order of importance: the choice of an edition and the replay of a key
for manual runs, in front of `TaskExecution`; the synchronisation of the source table at startup.

Every safety property of a passing run is a theorem, for all values of the constants that satisfy the
assumptions of the modules.  What stays with TLC is liveness, which the prover cannot handle:
`QueuedIsTaken`, `PublishingSettles` and `TargetSettles`.

The algorithms that walk over lists are written as loops (`Loops`): a body, which is a function of the
value carried so far and of the next item, and a start.  A loop is a recursive function over the places
of its sequence.  The library's induction rules cannot be instantiated by the installed provers, so
`LoopProofs` gets its own from the least element of a set of numbers: a set that holds 0 and with
`k - 1` also `k` has no smallest gap (`Upwards`).  `LoopKeeps` is the rule every algorithm below is
proved with: what holds of the start before the first item, and survives each turn of the body, holds
after the last.

## 3. TaskExecution

### State and actions

`runs` is the table, in `created_at` order, one record per row; a row's `steps` give the newest
attempt at each pipeline step (a run attempts a step once).  Everything else is volatile and lost
by `Down` (`Exit`, `Crash`), except the clock.

* **The loop and the thread.**  Coroutines run atomically between awaits, so the executor's
  worker, API requests and shutdown never interleave inside a function; the scheduler thread does
  interleave with all of them.  Hence one action per write transaction of the worker (it can crash
  between any two), `Submit` in one step guarded by `AtAwait`, and the tick in four: `CronLookup`,
  `CronInsert`, `CronPut` and `CronMark`.  The last two are the two halves of
  `InProcessTaskExecutor.enqueue` (`executor.py:77` and `:82`).
* **Queue.**  `queue` and `pending` are `_queue` and `_queued_task_run_ids`.  `Redelivery` is one
  call of `_redeliver_queued`: the queued rows that are not pending, oldest first, until the queue
  refuses one.  `_offered_task_run_ids` is left out: it only suppresses a second offer of an
  identifier that was accepted, which `pending` and the claim do as well.
* **Worker.**  `pc` says which transaction comes next; `run`, `step`, `skip`, `warned` and
  `outcome` are the local variables of `execute`.  The content of a step is a nondeterministic
  result (continue, stop the pipeline, wait for a human; with or without warnings) or a failure.
  `BoundaryFails` and `RestoreFails` are transactions that raise.
* **Time.**  Only comparisons matter, so the clock is two variables: `stale`, the running rows whose
  heartbeat is older than the threshold, and `overdue`, the number of deadlines that have passed.
  All deadlines are computed as now plus the same constant, so they pass in the order of
  submission, and a row's `deadline` is the number of the row it was computed for; a recovery
  child copies its parent's.
* **Startup and shutdown.**  `Boot` is `executor.start` together with `recover`'s first listing;
  no coroutine can run in between, because `start` yields once, before the worker task it created
  is first scheduled, and `recover` never awaits.  `RecoverStale` is one transaction each, so a
  crash may come between two of them.

Left out: the reply to a request that reuses a row, the usage counters of a run, and `cancelled`
and `interrupted -> queued`, which the table of `pipeline/state.py` allows and no code performs.

### Runs

| run | instance | checks |
|---|---|---|
| `lineage` | one request, two steps, three processes, one raising transaction | `TypeOK`, `ChildReplacesParent`, `StepsNeedTheirPrefix`, `SuccessIsComplete` |
| `races` | two API requests and a tick, two of them for the same business key, queue of one, two processes | `OneActivePerBusiness`, `UniqueKeys`, `WorkerOwnsRunning`, `PendingIsHeld`, `FinishedRunsAreFinal`, `KeepsLifecycle` |
| `liveness` | a request and a tick, queue of one, two processes, fairness | `QueuedIsTaken` |
| `orphan` | one request, two processes, fairness | refutes `OrphanIsRecovered` |
| `interrupted` | one request, two processes, two steps | refutes `InterruptedIsResumed` |

Bounds: `MaxRuns` stops submissions, `MaxBoots` is the number of processes (the last one never
dies, so that liveness is about a process that lives), `MaxFaults` the number of raising
transactions.  Three processes give a chain parent - child - grandchild, the shortest in which an
attempt can be newer than the success of its grandparent; two steps are needed for a prefix; two
commands for one business key and a queue of one make every race and every `QueueFull` happen.
Recovery children are not counted by `MaxRuns`.

Fairness (`Fairness`) is weak fairness of what the machine does by itself: a dead process is
restarted by its supervisor, the event loop schedules the worker and polls the queue, the
scheduler's thread finishes what it started, every external call of a step has a timeout, and an
unrenewed heartbeat gets old.  Nobody has to submit, nothing has to fail, and no deadline has to
pass.

### Where the documentation says otherwise

* `orphan`: `docs/design.md:492` promises that the next startup waits for the heartbeat of an
  over-grace run to pass the 60 second threshold and then finds it interrupted.  `recover` looks
  once, at startup (`recovery.py:36`); when the restart is quicker than the threshold the row stays
  running, and blocks its business key, until some later restart.
* `interrupted`: `docs/design.md:491` promises a child task for a run that a graceful shutdown
  interrupted.  `recover` lists queued and stale running rows only, so the run ends there.

### Proofs

`TaskExecutionProofs` proves, for any commands, pipeline length, queue size and number of
processes and faults (assumption `ConstantsOK`): `TypeCorrect`, `OneActive`, `KeysAreUnique`,
`ChildrenReplace`, `WorkerOwnsItsRow`, `FinalRows` and `ImplementsLifecycle`.

None of the invariants is inductive alone.  That the worker's transitions are legal needs to know
that its row is running; that a recovered row can be replaced needs to know that stale rows run;
that the child's business key is free needs `OneActivePerBusiness` of the parent it ends.  `IInv`
is the conjunction of the type invariant, where the worker can be (`WorkerPlace`), `StaleRunsRun`,
`WorkerOwnsRunning` and the three table invariants.  The steps are classified once: under `IInv`
every action does to the table one of four things (`RowChange`): nothing, a new request row, one
row moved along the lifecycle, or a stale running row ended together with its child.  The table
invariants, finality and the refinement of `TaskLifecycle` then each follow from those four cases.

The second half of the module is about what a run and its ancestors amount to:

* `StepsFollowTheirPrefix` and `SuccessfulRunsAreComplete` speak of `Lineage`, a recursive function over
  the table.  `LineageOK` is proved first: `Lineage` obeys its equation, a lineage holds only the run
  and older ones, and the older ones are over.  The facts about a whole lineage (the newest attempt at a
  step is unique, a child that inherits nothing changes nothing) are then proved by taking the least
  run of a lineage that would violate them.  The invariant `Progress` says how far the worker has come:
  every step behind it is completed in its lineage, nothing at or after its step has been attempted, and
  `warned` tells whether a step behind it warned.  It needs that queued rows are untouched, because a claim
  starts from there, and that interrupted ancestors never change, because a child's prefix rests on them.
* `PendingRowsAreHeld` states `PendingIsHeld` as long as no transaction of `execute` has raised
  (`Faultless`), which is what the run `races` checks with `MaxFaults = 0`.  The condition is needed: if
  the scheduler thread marks an identifier (`executor.py:82`) after the worker took it, and the claim
  then raises, the row is queued, pending and on nobody's queue.  The invariant `Delivery` counts an
  identifier the thread has put and not yet marked as pending already.

Model-checked only: `QueuedIsTaken`, which is liveness.

## 4. Publication

### State and actions

`episodes` and `publications` are the columns of the two tables that decide anything: status, audio
and versions of an Episode, status and asset of its publication.  An audio content stands for its
sha256, so `draft`, `media` and `feed` (the merged draft in `DATA_DIR`, the promoted assets and the
items of `feed.xml` in `PUBLIC_DIR`) hold contents, not paths.  A promoted path contains the hash,
which is why an asset is a pair of an Episode and a content.

* **One action per transaction and per file.**  No transaction spans a table and a file.  `pc` names
  the next of them: `merge` (the draft is replaced) and `finalize` (its row) are two, as are
  `promote`, `persist`, `write` and `mark`.  `Crash` may come between any two.  `os.replace` makes
  each file operation atomic, and every reader of a file is told by its hash.
* **One actor.**  The executor runs one run at a time, `PublicationService.publish` has no await,
  and `core/lifespan.py:335` reconciles before the executor starts, so the worker and the
  reconciliation of startup never overlap.  `write`, `mark` and `fail` are shared by both; `Leave`
  goes on with the next row at startup and ends the run otherwise.
* **Runs.**  `StartRun` is a run that reaches the Episode steps: from `create_episode`, or further
  on when the checkpoints of its parents were restored.  Whatever happens before does not touch
  this state.
* **Audio.**  `Merge(a)` may give another content than before, because a segment is synthesised
  again when the settings of the synthesis have changed or its cached file no longer matches its
  row; `KeepDraft` is the shortcut for an unchanged manifest.  `script_revision` stays 1: the only
  code that raises it (`regenerate_from_editorial_artifacts`) serves a task type nobody submits.
* **Approval.**  `auto_publish` is on.  Off, the publish step does nothing (`publish.py:31`), and
  `EpisodeService.approve` has no other caller.
* **Faults.**  `MaxFaults` bounds the reads and writes of files that raise `OSError`, wherever they
  occur.  `FileFault` and `RebuildFault` are those that `publish` and `reconcile` catch.
  `RSSPublisher.reconcile` turns a failed read into False (`rss.py:170`-`174`), and what that does
  depends on who asks: `MisreadRow` writes the feed of a row once more, `MisreadFeed` rebuilds it,
  and `AbandonRow` is `_mark_published`, which raises `PublicationOperationError`
  (`service.py:240`-`243`) past both excepts of `publish`.  The same error in `reconcile` escapes and
  ends the startup (`AbortStartup`), as does a look at the volume that itself raises.
  `RefuseFeed` and `RebuildRefused` are the `RSSPublicationError` for a missing asset.
* **History.**  `swallowed`: `reconcile` has passed over an error since the last feed was written.
  `abandoned`: the rows this process has left publishing for want of a verification; a new process
  starts with none.  Neither appears in a guard.
* **Losses.**  While the process is down the public volume may lose its feed, or the assets of an
  Episode.  `DATA_DIR` and the database survive.

Branches that no state of the model takes, and that have no action: an approval that is not current
in `_require_current_approval` and a draft that does not match its row in `promote_asset` (both are
what `ApprovedIsDraft` excludes), and a row that is already publishing in `publish`: the publish step
skips a publishing Episode (`publish.py:40`), and `StatusesAgree` has the Episode of such a row
publishing too.  A database that refuses one of the short transactions is left out; where `publish`
does not catch it, it leaves the row as `AbandonRow` does.

### Runs

| run | instance | checks |
|---|---|---|
| `publication` | two Episodes, two contents, two merges each, three processes, one file read or write that raises, feed and assets may get lost, fairness | `TypeOK`, `StatusesAgree`, `ApprovedIsDraft`, `ServingOwnsPublishing`, `FeedShowsPublished`, `PublishingSettles`, `ImplementsFeed` |
| `stale_audio` | one Episode, nothing gets lost | refutes `PublishedIsApproved` |
| `lost_volume` | one Episode, feed and assets may get lost | refutes `StartupHealsFeed` |

Two Episodes are needed for a feed that could drop the other one, two merges for an asset of an
earlier attempt, and three processes for a crash, a failed reconciliation and a retry.  The bounds
are `MaxVersions`, `MaxBoots` (the last process never dies) and `MaxFaults`.

Fairness is weak, on the steps of a run that has begun and on startup: TTS providers and FFmpeg
return or fail, the loop goes on, and a supervisor restarts the process.  Nobody has to start a run,
and nothing has to crash.

### Where the code differs from what it says

* `stale_audio`: `_request_fingerprint` (`publishing/service.py:396`) is there so that a retry cannot
  silently publish a changed Episode, but nothing compares it.  A publication that failed after its
  asset was persisted keeps the asset.  If the audio is then rebuilt and approved, and the process
  dies after `_begin_publish` and before `_persist_candidate_asset`, startup finds a publishing row
  with a valid asset, writes a feed with it, and marks the Episode published with audio that is not
  the approved one.
* `lost_volume`: `core/lifespan.py:332` says that the check at startup heals a lost public volume.
  It rewrites the feed from the assets that lie in the same volume; if they are lost too the rebuild
  raises, the error is swallowed, and the feed stays without its Episodes.  With only the feed lost
  the claim is right: that is `FeedShowsPublished`.
* The state diagram of `docs/design.md:526` returns an Episode from publishing to approved when its
  publication fails and may be retried.  A verification that cannot read the feed it has just written
  is such a failure and returns nothing: both rows stay publishing, `PublishStep` skips the Episode in
  every later run, and only a restart resolves it, where the feed often turns out to be right after
  all.  No run is spent on refuting that line; `ServingOwnsPublishing` and `PublishingSettles` say
  exactly what is left: such a row is untouched until the process ends, and the next one settles it.

### Proofs

`PublicationProofs` proves, for any Episodes, contents, losses and bounds (assumption
`PublicationConstantsOK`): `TypeCorrect`, `TablesAgree`, `ApprovalIsForTheDraft`,
`WorkerOwnsPublishing`, `FeedIsComplete` and `PublicationImplementsFeed`.

`IInv` adds to the properties what each place of the actor takes for granted: the phase of the
process (`ActorPlace`), what holds of a row and of its draft (`EpisodeRows`, `PublicationRows`), what
the actor knows of the Episode it holds (`HeldRow`: it is a draft while its file is replaced, and
publishing from `promote` on), and that startup has every publishing row on its list and a serving
process every one in its hands or among the abandoned, which no run takes up again (`Owned`).
`ApprovedIsDraft` needs the former, because the file is replaced before the row; `FeedShowsPublished`
needs that the item of a row is not changed after its decision, which is `HeldRow` again.  The
refinement maps `published` to the assets of the published rows: `WriteFeed` and `RebuildFeed` show a
feed, `MarkPublished` and `ReconcileVerified` settle, `Boot` and `Crash` turn the service, and all
other steps stutter, because no other action touches a published row.

Model-checked only: `PublishingSettles`, which is liveness.

## 5. Distribution

### State and actions

`targets` is the table `publication_targets`, a row per Episode and platform; `rss` is the status of
the Episode's publication, kept by the service that section 4 models; `uploads` counts what the
creator backend of NetEase has accepted, which survives any crash.

* **Actors.**  The worker visits the platforms in order, RSS first; a request resumes one target.
  Both run on the event loop and interleave where an adapter awaits its browser, so an attempt is one
  action per wait: `Validate`, `StopForHuman`, `Submit`, `Confirm`, and `RecordResult` for the row.
  `VisitTarget` is `_ensure_target` and `_begin_attempt` together, with no await in between.
* **The RSS adapter** is two actions, because `PublicationService.publish` commits its own row before
  the dispatcher commits the target's: a process can die with the two tables apart.  `AbandonRss` is
  section 4's `AbandonRow` seen from here: the dispatcher catches the exception and fails the target,
  while the publication stays publishing.
* **A failed RSS target** raises and ends the worker's visit; every other result is recorded and the
  next platform is visited.  Not taken by any state: the worker skipping a target that is already
  published on an external platform, because an Episode with a published external target has a
  published RSS publication, which the publish step does not let through.  This is part of the
  invariant that is proved.
* **Startup** settles the RSS rows first, then asks each adapter about every publishing target.  An
  adapter finds in the creator history only what was submitted, but may fail to find it.  The RSS
  adapter reconciles the publications once more, which may raise and fail the target
  (`MisreadTarget`).  `misread` (history) has the Episodes whose last attempt or check ended so.
* **Assumption.**  `"rss" \in Platforms` is what the settings validator demands
  (`core/config.py:329`).

### Run

`distribution`: one Episode, three platforms, the worker and two resume requests, three attempts at a
target, three processes, files that cannot be read, an asset that may get lost while the process is down.
Two requests and the worker are every pair of actors at one target; three processes are two crashes, the second during the
resume or the reconciliation after the first.  Episodes share nothing but the worker, so one is enough.
`TargetSettles` assumes that begun visits, attempts and startups go on (every browser wait has a
timeout) and that the supervisor restarts the process.

| property | what it shows |
|---|---|
| `OneAttempt` | no target is tried by two actors at once, and no publishing row is left behind |
| `UploadsFollowRss` | nothing is sent to NetEase before the RSS publication it copies is out |
| `RssRowIsTruthful` | a published target has a published publication, and outside an attempt the converse, wherever the process died, except where the last look at the files failed |
| `OnlyResumeResends` | what the platform has accepted once is sent again only on a person's request |
| `KeepsLedger` | the rows of NetEase implement `UploadLedger` |
| `TargetSettles` | every attempt ends in its row |

### What the model reaches that a reader may not expect

* A process that dies after the RSS target is published and before the next platform is begun leaves
  that platform untried for good: the publish step skips the published Episode from then on,
  `reconcile` looks at publishing rows, and the resume route at `needs_attention` ones.
  `docs/api.md:609` says that the dispatcher tries NetEase by itself once RSS is published, which
  no later process does.  For the same reason a target that is `pending` or `failed` is never tried
  again.
* `docs/design.md:684` wants the list of the platform looked at before an upload is repeated after a
  timeout.  Only reconciliation looks; `resume` submits again.  This is the one way to a second
  submission, which `OnlyResumeResends` states.
* A publication whose files could not be read when it was to be marked leaves its target failed for
  good.  The next startup may publish the publication, but it only looks at publishing targets, and
  the publish step skips a published Episode: the RSS target stays failed and the external platforms
  stay untried.  That is why the second half of `RssRowIsTruthful` is for Episodes not in `misread`.
* Resuming a target whose asset has been lost turns `needs_attention` into `failed`.

### Proofs

`DistributionProofs` proves `TypeCorrect`, `RowsAreTriedOnce`, `ExternalFollowsRss`, `TablesAgree`,
`OnlyAPersonResends` and `DistributionKeepsLedger` for any Episodes, platforms, requests and bounds
(`DistributionConstantsOK`; the last one also assumes that NetEase is enabled).

Most steps of an attempt only move the actor along: `GoesOn` and `RssGoesOn` say what such a step
leaves alone, and the invariant is shown to survive it once, for all adapters.

`OneAttempt` is nearly inductive: a row is entered into `publishing` by the actor that begins the
attempt, in one step with the test of its status.  `UploadsFollowRss` needs what is known about an
attempt under way (its asset was there when it began, hence the publication is out) and what is known
about untouched rows: a row the worker has still to visit was never begun, or RSS is not published.
`RssRowIsTruthful` needs an invariant that also covers startup, where the two tables may disagree
exactly for the rows that startup has still on its list, and the misread ones (`Agree`).  For the refinement, `phase` is read off a
row's status, `tries` off its attempts; every action is shown to be one ledger step or a stutter for
the NetEase row.

Model-checked only: `TargetSettles`, which is liveness.

## 6. Briefing

### State and actions

`prepared` and `done` are the marker files of a day, `sent`, `told` and `alerted` what the group chat
and the operator have seen.  `run` is the run that holds the slot (`_run_reserved`), with the place it
has reached; `excuses` is a history variable that counts the reasons for one more message: a forced
run, an attempt whose answer was lost, a crash or a failed write between the message and its marker.
It appears in no guard.

* **Ticks.**  A preparation tick first probes the providers, which awaits, and takes the slot later
  (`PrepareTick`, `StartPrepare`); a delivery tick takes it at once or is skipped.  A tick that fires
  while the process is down is missed.  Days off have no ticks.
* **Preparation** is `BeginPrepare` (keep the edition or make a new one), `Collect` (everything up to
  the results of the categories, which write no file that is read again) and `Merge` (the marker).
* **Delivery** is `LoadPrepared`, one action per webhook attempt, one per category marker, and the
  report.  `PushFails` covers an attempt that was refused and one whose answer was lost.
* **What a category yields** is computed by the operators of `BriefingEdition` from the articles found
  and *every* answer of a model: items in any order, repeated, invented, fewer or more than asked, or
  nothing usable; the repair answers likewise, and a second failure falls back to titles.
  `EditionIsVerified` compares the operators with reference definitions over all those inputs.

Left out: the readout files and the push test (nothing reads them back), the fixed-order selection
(the policy validator rejects it), the publisher caps that only that mode uses, prompts and prose.

### Run

`briefing`: a working day and the day off after it, three telecom and two AI articles of two outlets,
pools and editions of two, two webhook attempts, one run from a route (forced, plain or a rehearsal)
and one crash, anywhere.  Two categories are what the code has; two of each limit make pools overflow
and editions stay short; a crash and a forced run together are the worst that one day offers.  The
second day shows that a run that goes on past midnight stays with its day, and that a preparation
tick that takes the slot late prepares the day it then is.  A run from a route on the day off is
checked when it starts and not followed (`LateTicksOnDayOff`): it meets nothing there that it does
not meet on the first day.

| property | what it shows |
|---|---|
| `OneMessageADay` | a day's message is sent once, plus once per excuse |
| `DoneMeansTold` | a marker, which silences its category for the day, stands for news the chat has |
| `NoSilentDelivery` | a delivery tick that got the slot leaves the chat told or the operator alerted |
| `EditionIsVerified` | for every input and answer the edition has verified links in their places and fits the robot |

### What the model reaches

* The delivery tick is skipped when a preparation or a rehearsal holds the slot at that moment, and
  nothing delivers later that day.  `NoSilentDelivery` therefore speaks of ticks that got the slot.
* An edition that lacks a whole category (nothing found) counts as full, so the second preparation
  tick keeps it.  An edition below its target is made again and the new one replaces it even if it is
  worse.  An edition may consist of headings without items.
* A line that does not fit the robot's message is dropped and the next one tried.  When that line is a
  heading, a shorter item of its section may still follow, under the heading before it
  (`renderer.py:94`-`109`); `FittingMessage` therefore promises an item its own heading only where no
  item is shorter than a heading, and that is all `MessagesFit` needs beside the module's assumptions.

### Proofs

`BriefingProofs` proves `TypeCorrect`, `OneMessage`, `MarkersAreTold` and `DeliveryIsHeard` for any
categories, articles, days and bounds (`BriefingConstantsOK`, `EditionConstantsOK`).  The algorithms
do not matter to these four: the proofs use of `BriefingEdition` only that an edition lists categories.

`OneMessageADay` is not inductive, since nothing in it forbids a push on a day already told.  `IInv`
adds that a run that pushes is forced or has seen the day open (`Places`), that a day which is not
closed by its markers has no message without an excuse, except while the run that sent it writes the
markers (`Budget`), and that markers only name what was told (`Told`).  `NoSilentDelivery` needs
`Settled`: a reported day stays reported, because markers are never removed.

The second half proves the algorithms, and with them `EditionsAreVerified`, the theorem of
`EditionIsVerified`:

* `PoolsAreBalanced`.  Two nested loops.  Within turn `i` the outlets served so far hold one article more
  than the others, unless their queue is empty or the pool is full (`ServeOne`, `TurnServesAll`).  Over
  the turns, every outlet holds the first articles of its queue, as many as there were turns while the
  pool has room (`Held`, `TurnsFillThePool`).  The reference definition counts articles by outlet and
  compares dates and knows nothing of turns, so `QueueIsFreshest` and `QueueLeavesOlder` relate the
  front of a queue to the order of all articles.
* `ResultsAreVerified`.  An audit keeps the links of the pool, each once, up to the target
  (`AuditKeepsLinks`).  The repair is shown only what the first answer left, so what it adds and what
  was accepted share nothing (`RepairAddsLinks`); this is why the sizes add up to
  `Lesser(MaxItems, Cardinality(..))`.
* `MessagesFit`.  The loop over the sections carries an invariant (`Offered`): the budget is kept, lines
  are distinct, no item offered so far would still fit, and every item stands under its heading; and
  within a section, that its heading is the last one (`InSection`).  A later line cannot make an earlier
  one fit, since the message only grows.

Nothing of this is left to the small instance.  That the slot is released in the end is not checked as
liveness; `TypeOK` states that it is held only while a run is in progress.

## 7. Production

### State and actions

`Production` runs the attempts of one day, one after the other on the single worker.  What survives an
attempt is in `artifacts` (the rows of `llm_artifacts`), `events` (statuses), `episode`, `segments`,
`cache` and `draft`; `run`, `usage`, `call`, `answer`, `reserved` and `speech` are the attempt's own.

* **`ModelCalls`.**  A question is an operation with its input.  `Ask` looks it up under every provider
  of the chain, else reserves a call and sends the first request; `FallBackToObject`, `NextProvider`
  and `Repair` reserve one more each; `Accept` stores the answer.  A provider's reply is one of four,
  and its retries are folded into the outcome of an exchange.  The budget is a number of calls: the
  token budgets are reserved in the same place and only make it smaller.
* **`EventSelection`** has the quotas, the spread of sources and the evidence budget as the code
  computes them, integer shares included.  `SelectionIsBalanced` holds them against independent
  definitions for every set of candidates, every ranking and every small pile of evidence.
* **The accounts.**  `reserved` is the `BudgetController`'s call count, `usage.run` the run's
  `llm_call_count`, to which a step adds its calls when it finishes (`orchestrator.py:202`), and
  `usage.step` what the step under way has collected: checking asks up to four questions (review,
  revision, review, metadata) in one step, hence `GoOn` and `Finish`.  A step that fails adds nothing
  (`orchestrator.py:211`-`241`).  `usage.before` (history) is `reserved` when the step began.
  The accounts of an ended attempt stay visible until the next one begins; those of an attempt whose
  text is done are closed by `ToAudio`, since no later step asks a model.
* **`Editorial`.**  One action per use of an answer.  A script is abstracted to its outline, whether it
  is the first or the revised one, and the outcome of its validation (`fits`, `short` or `long`, the
  latter standing for every blocking issue that is not a duration).  The files of an attempt lie in a
  directory of its own, so writing one is part of the step that writes it.
* **`SpeechSynthesis`.**  The content of a file is what it speaks and which take it is.  `WriteCacheFile`
  and `RecordSegment` are two steps, `Merge` and `Finalize` likewise.  Equal speeches share a cache
  file.  A new take has another checksum, so the rows of other sections that name the file lose it.
* **Attempts.**  `Start` makes a retry, a recovery or a regeneration: restored checkpoints never reach
  past extraction, so each of them does the editorial steps again and relies on `artifacts`.  `Publish`
  has three ends; the whole of it is in sections 4 and 5.

Branches that no state takes with a single worker: the insert race on `llm_artifacts`, and the codes
`METADATA_UNAVAILABLE` and `NO_SELECTED_EVENTS`.  The cache of segments is enabled, as by default.

### Run

`production`: five events (one recruitment, three domestic, three on AI), candidates capped at three
and selected at two, two providers of which the first has the JSON-object mode, seven calls, two
attempts with a crash in the first, scripts of one and three sections that share texts, two takes.
`Takes` are interchangeable, hence `SYMMETRY`: no property or action names one.  Seven calls are the
five questions of an attempt and two of fallback, failover or repair, so every one of them meets the
limit.  Crashes and losses of files are confined to places that another attempt follows, since
otherwise nobody reads what is left.

| property | what it shows |
|---|---|
| `EpisodeIsReviewed` | the text of the Episode was validated and reviewed as it is, and its metadata written for it |
| `NeverAskedTwice` | no answered question is paid for again, by any provider in any attempt |
| `CallsAreAccounted` | the call count of a run is, to the call, what its finished steps took from the budget, and all of it when the text is done; nothing else falls short of the budget than the step under way or the one that ended the attempt |
| `SelectionIsBalanced` | quotas, spread and evidence budget hold for every input |
| `DraftSpeaksItsScript` | the recorded draft speaks the current script, whatever was reused |
| `ReadyToMerge` | sections are merged only with finished rows and files, after any crash |

### What the model reaches

* `_trim_nonrepresentatives` cuts excerpts before an event is dropped, and they stay cut although the
  dropped event has made room; the evidence at scripting and checking is rebuilt from fewer events, so
  its excerpts may differ from those of the outline.
* With `max_sources_per_event = 1` every distinct source gets in, because the limit is looked at after
  an article was added (`llm/outline_editorial.py:232`).
* A manifest can name the checksum of a shared cache file that a later section has written again, so
  generating the audio once more is not always the no-op `_manifest_hash` aims at.
* `docs/data-model.md:332` lists `llm_call_count` of a run as including schema repairs.  It does not
  include the calls of the step in which the run failed, however many were paid for: the result that
  carries them is never made.  The same holds for the calls of a step cut off by a crash.
* The cache identity of the metadata uses the first 4000 characters of a script; the model takes
  scripts to differ within them.

### Proofs

`ProductionProofs` proves `TypeCorrect`, `NothingIsAskedTwice`, `EveryCallIsCounted`,
`EpisodesAreReviewed`, `SectionsAreReady` and `DraftsSpeakTheirScript` for any chain of providers, any
scripts, voices, takes, limits and numbers of attempts, under the assumptions of its modules: `ModelCallConstantsOK`
(a chain of at least one provider, none twice), `EditorialConstantsOK`, `SpeechConstantsOK` (texts are sequences of
sections), and `NoAudioIsNoContent` (the absence of a file is not a content).  That a sequence is a
sequence of its own elements is written into two of them, since the prover does not derive it.

`IInv` has four parts.

* `Dialogue`: a request or an answer belongs to the step the attempt is at, an answer is in `artifacts`,
  and an open question has no row, and the accounts are in order (`Accounts`: only checking carries
  calls from one question to the next).  `NeverAskedTwice` is not inductive without the first two: when
  `Accept` writes a row, the question must be the one that `Ask` found unanswered, and no other step
  may have written in between.  `Cached` picks the provider that is first in the chain; that there is one
  is proved by the least position.
* `Copy`: what the attempt knows of its text at each stage.  From `create_episode` on, the script in hand
  is the one reviewed and the one the metadata was asked for; a revised script loses both until it is
  reviewed again.  `EpisodeIsReviewed` follows at the step that copies the text into the row.
* `Sound`: rows, files and the synthesis under way.  A finished row names its own speech, a file holds
  the speech it is named for, sections before the current one are finished, and the draft written by
  `Merge` speaks the script before `Finalize` records it.  Files that a crash leaves behind keep the
  second of these; rows that name an overwritten file lose it in the same step.
* `Counters`: attempts and event statuses.

`SelectionIsAlwaysBalanced` states `SelectionIsBalanced`.  It rests on four theorems of
`SelectionProofs`, each of which says more than the run can enumerate (assumption
`SelectionConstantsOK`):

* `CandidatesAreFair`, for every set of events.
* `SelectionsAreBalanced`, for every ranking without repetitions, not only those TLC lists.  The first
  places go to the best of their kind (`ReservedPlaces`).  The scan is a loop over the ranking; after `k`
  events, each of them is taken or skipped unless the episode is full, the skipped ones are AI events
  in the order of the ranking, and the cap is only exceeded by reserved places (`ScanOne`, `ScanEnds`).
  What fills the remaining places comes from the skipped ones.
* `EvidenceIsSpread`, for any number of articles of any sources.  The first pass takes the first article
  of each source until the limit is met, the second fills up; `Spreading` is what both passes keep.
  The part about several sources holds for limits above one only: with a limit of one the code looks at
  the limit too late (above).
* `BudgetsAreKept`, for any number of events with any number of excerpts of any length.  Totals are
  sums over slots without repetitions, so one excerpt changed changes a total by the difference
  (`TotalChanges`).  A pass that trims stops when the excess is gone or everything else is down to one
  character (`TrimmingSparesRepresentatives`).  Proportional shares, rounded down but at least one,
  exceed the budget by at most a character per excerpt (`SharesAreFair`), hence as many turns as there
  are excerpts are enough to shrink them (`ShrinkingReachesTheBudget`), and one pass upwards
  fills what rounding lost (`GrowingFillsTheBudget`).  The loop over the events is, after each turn,
  pending, fitted or failed (`OneTurn`, `BudgetLoopEnds`).

## 8. News

### State and actions

`articles` and `events` are the rows; `run` is the worker's context from `collecting` to the editorial
steps, `flow` the briefing that collects, extracts and filters the same rows beside it.

* **Interleaving.**  A source, a page and a model call are awaited; from the end of extraction to the
  first model call nothing is.  `Uninterrupted` names those places, and the briefing's actions are
  guarded by it (`LoopIsFree`).  The mutant of `EveryArticleIsAccountedFor` puts one await there.
* **Answers.**  A source may list any of its articles, or none (a failure is an empty answer with a
  warning), a page gives a text and perhaps a date, or fails.
* **Rules.**  `NewsRules` has the filter, the passes over body, title and near-duplicates, and the
  clusters with their guard against chains.  The loops of the code are stated as what they compute: `Kept`
  is the set of articles no better kept one equals, `Reached` the least set closed under edges.  Hashes, SimHash and Jaccard are relations of the instance;
  cosine similarity depends on the corpus of a run, so `Cluster` takes any symmetric relation.
* **Recovery.**  Only `collecting` has a restorer, so a recovering run keeps the collected set and
  extracts again.

Abstractions: time is a day, and midnight does not fall into a run; article numbers follow a fixed
order; the pass over URL hashes never finds anything, because `url_hash` is unique; the reason
`MISSING_PUBLISHED_TIME` cannot occur, because every row gets a date when it is created.

### Run

`news`: three articles, two podcast sources of different freshness and one briefing source that share
them, two days, one briefing, one crash.  Three articles are the shortest chain of similarity and of
duplicates; two days make an event key of yesterday, a window that has passed and a row that is
observed again.

| property | what it shows |
|---|---|
| `EveryArticleIsAccountedFor` | a collected article is refused, in an event, or a duplicate that leads to one that is |
| `EventsFollowTheEvidence` | an event holds what resembles its representative, and the rows agree with it |

### What the model reaches

* `duplicate_of` may name an article that lost a later pass itself; following it leads to a primary one.
* The briefing's filter resets `news_event_id` of shared rows, so an event may lose members between
  clustering and the editors.
* An event that a later run refreshes keeps the members only the earlier run gave it, so
  `article_count` differs from the number of rows that point at it.  Articles that a chain had joined
  become events of their own even if they resemble each other.

### Proofs

`NewsProofs` proves `TypeCorrect`, `NothingIsLost` and `EventsAreAPartition`: all safety properties of the
run, for any finite set of articles, any sources, bodies, dates, windows and likenesses, under
`RulesConstantsOK`, `NewsConstantsOK` and `SelectionsAreOfSources` (what `SelectSeq` leaves of a sequence
of sources is one, a fact the prover does not know).

The first half is about `NewsRules`, for any rows:

* the quality key orders articles totally, so a finite set that is not empty has a best one
  (`BestIsBest`);
* a pass keeps an article exactly if no better kept one is the same to it.  That such a set exists is
  proved on the smallest set without one: keep the best article and apply the pass to the rest
  (`KeptExists`).  Every article a pass drops gets a kept one as its winner (`PassLeadsToKept`), and three
  passes lead every article to a primary one (`EveryLossLeadsToAPrimary`), although the winner of an
  early pass may lose a later one;
* what edges reach partitions the articles (`ReachedPartitions`), and the guard of the chains splits each
  part around its representative (`ClustersPartition`).  Hence no two events of a run share their key,
  whose second part is the least member.

The second half is an invariant over the checkpoints: what the filter lets through is eligible when
duplicates are looked for, what is primary is eligible when clusters are built, and both properties hold
while the editors read.  It is inductive because nothing runs between the filter and the clusters
(`LoopIsFree`), and because collecting, extracting and filtering, the only writes of the briefing, take no
row away and move no article to another event (`OnlyDetached`).

## 9. Not modelled

* **Manual submission** (`main.py`): the choice of an edition from the Episodes of the day and the
  replay of a key.  `TaskExecution` has the submission itself with fixed requests.
* **Source bootstrap** (`sources/bootstrap.py`), settings, readiness, migrations: they run once, before
  anything is concurrent.
* **Collectors, the extractor, the browser's selectors**: external answers here.
* **Pages, feed and health endpoints**: they only read.
* Prompts, HTML parsing, XML serialisation and logging are input and output without a protocol.
* `EpisodeService.transition_status` has no caller that a task type reaches.

Hazards of the code for which the project has no property, besides those in `PROJECT.json`: an
identifier marked pending after its claim raised (`pipeline/executor.py:82`), the winner of an insert
race that ends before the loser looks it up (`pipeline/submission.py:162`), the edition of a manual
run chosen before a running run has created its Episode (`main.py:570`), a database error inside
publication (the transactions of `publishing/service.py`), and two sources that exchange their URLs
(`sources/bootstrap.py:150`).
