# Baton: a TLA+ model

Baton (`src/baton`) is a self-hosted service that launches Docusign Workflow
Builder ("Maestro") workflows: one for every matching webhook (automations), or
one for every row of an uploaded file (Bulk Upload). It is a TypeScript process
that runs an HTTP API, SQS workers and cron jobs over DynamoDB. Several copies
("pods") may run at once. DynamoDB gives it atomic single-item writes with
conditions and nothing more: every multi-step operation is a sequence of awaits
that interleaves with all the others. That is where its hard behaviour is, and
what these modules are about.

Paths below are relative to `src/baton/src/` unless they start with `src/`.

## 1. Inventory

| Part | Where | State | Operations | Modelled in |
|---|---|---|---|---|
| Bulk Upload dispatcher | `services/batch.service.ts`, cron in `lib/scheduler.ts` | `batch-runs` items (status, `consecutiveFailures`, `nextReleaseAt`), `batch-rows` items (status, `workflowInstanceId`, `launchingAt`) | every 30 seconds: scan running runs, count unfinished instances, stop after failures, release due rows to the launcher queue, complete a finished run, promote a legacy `queued` run, sweep stale `launching` rows | `BulkDispatcher`, `ReleaseCap` |
| Bulk Upload routes | `routes/batch-processors.ts` | the same items, the processor | upload, preflight, start, pause, resume, cancel (`queued` / `all`), cancel one row, view rows, deletion | `BulkRequests`, `BulkDrafts` |
| Launcher worker | `workers/workflow-launcher.worker.ts` | `workflow-instances` items, the row or the pipeline entry, streaks and counters | guards, relay gate, launch, persist, record; late adoption or undo; retry ladder; final failure | `BulkLauncher` (rows), `LaunchLadder` (automations) |
| Queues and worker loop | `queue/sqs-client.ts`, `workers/index.ts` | SQS messages | send with delay, receive, delete on success, redrive to the dead letters | in each of the above and below |
| Instance cancel, sync, routes | `services/instance.service.ts`, `lib/scheduler.ts`, `routes/instances.ts`, `services/usage.service.ts` | instance items, a scan cursor and back-offs in memory | cancel, manual retry, live view, postpone; copy Maestro's states; count completions | `InstanceRequests`, `SyncWalk`, `BulkStore` |
| Webhook ingestion | `routes/webhooks/handler.ts`, `services/webhook-event.service.ts`, `workers/webhook.worker.ts` | dedup marker, event item, queue message | store, enqueue, process, mark processed | `WebhookStore`, `RuleEngine` |
| Rules and paused queue | `services/rule-engine.service.ts`, `routes/rules.ts` | rule status, `queued-webhooks` items, pipeline entries | match, fire or store, pause, resume, release, cancel, delete | `RuleEngine` |
| Connections and tokens | `services/connection.service.ts`, `services/maestro.service.ts`, `workers/token-refresh.worker.ts`, `routes/connections.ts` | tokens, expiry, status | scheduled, on-demand and manual refresh, test, delete | `TokenRefresh` |
| Salesforce registration | `services/bootstrap-token.service.ts`, `routes/sf-*.ts` | bootstrap token, stored secret | redeem, replay, persist, mark, rotate, issue | `SfRegistration` |
| Flow canvas | `src/baton-front`: `pages/FlowBuilderPage.tsx`, `stores/flowStore.ts`; `services/flow-layout.service.ts` | queues of unsaved cells, a timer and a request per page; cells per tab; `flowPositions` of the organisation | move a node, pin a default, save (debounced, retried, on hide and unmount), poll, migrate | `CanvasLayout` |
| OAuth state, first-run setup, event cleanup, notifications, Slack, post-webhook endpoint, connectors, middleware, read-only routes, the rest of the frontend | see section 5 | | | not modelled |

How they interact. Every item is a DynamoDB record that several of these write.
A webhook is stored behind a marker and queued; a worker matches it against the
rules and, for each, stores a queue item (paused) or writes a pipeline entry and
sends a launch job (active). A bulk run's dispatcher claims a row (`queued` to
`launching`, conditional) and only then sends its job. The launcher receives a job
at least once, launches at Maestro with a token it may have to refresh, writes an
instance item and reports to the entry or moves the row to `launched`; a retryable
failure leaves a *tracking* instance (running, no Maestro id) and a delayed job of
the next attempt. The sync moves the instance to a terminal state; a manual retry, a
cancel and the live view write the same item meanwhile; the dispatcher completes the
run when nothing is left.

What is hard: overlapping passes, workers and requests; decisions on what was read
an await ago; a marker, claim or status that is written before the work it stands
for; jobs delivered twice, late or not at all; a retry racing its own late answer or
a person's retry; bounded walks and budgets that must not starve or overshoot.

What makes it correct, part by part, is what section 3 lists. `PROJECT.json` has
every part under `components`, every hazard with its line under `hazards`, and under
`map` the lines each definition models.

## 2. The modules

```
BulkStore            items, queue, Maestro, sync, rows view, time
  BulkDispatcher     one dispatcher pass            tick[d]
  BulkLauncher       one launcher worker            wk[w]
  BulkRequests       one HTTP request on the run    req[q]
    BulkUpload       composes them; Spec, FairSpec, properties     -> MCBulkUpload
      (BulkLifecycle)      what the run promises; BulkUpload implements it
      BulkUploadProofs     type correctness
        BulkReleaseProofs  releases, holds, notices, ladders

WebhookStore         marker, events, queue, handlers, faults
  RuleEngine         webhook workers and the routes of a rule
    WebhookPipeline  composes them; Spec, FairSpec, properties     -> MCWebhook
      WebhookTypeProofs -> WebhookProofs

LaunchLadder         the launcher on automations: ladder, entry, counters
  InstanceRequests   manual retry, cancel, live view, status sync
    AutomationLaunch composes them; Spec, properties               -> MCAutomation
      AutomationProofs

TokenRefresh   (TokenRefreshProofs)     the tokens of one connection
SfRegistration (SfRegistrationProofs)   secrets and bootstrap tokens
BulkDrafts                              a run before it runs
ReleaseCap                              the cap that runs share
SyncWalk                                how the sync reaches an instance
CanvasLayout                            the cell of a node on the canvas
  MCParts                               these six side by side
  PartsProofs                           drafts, cap, canvas, sync walk, and all six parts
```

An action is the code from one write (or one decisive read) to the next. Each
handler is an activation (`tick[d]`, `wk[w]`, `req[q]`, `rq[q]`, `dl[d]`, `act[a]`,
`caller[c]`, `wz[w]`, `pass`, `walk`, `visit[v]`): `pc` is the await it is at, the other fields
the local variables that outlive it, so a stale read is stale in the model. `hist`,
`past`, `told`, `seen`, `excess`, `unsaved` and `old` are history: they guard nothing and only let a
property say what went before.

Faults are injected by actions of their own, each kind switched on by a constant and
counted against a bound (`MaxFaults`, `MaxTokenFaults`, ...).

Definitions marked `faulty` in a comment are wrong on purpose: each stands before a
definition of the model, has its parameters, and is what a plausible bug would make
of it. No action uses them; substituted, each breaks one property.

### Bulk Upload (`BulkStore` ... `BulkUpload`)

`run`, `row`, `inst`, `maestro`, `msg` are the items. `run.streak` is
`consecutiveFailures`, `run.due` says that `nextReleaseAt` has passed, `row[r].stale`
that 90 minutes (`STALE_LAUNCHING_MINUTES`) have passed since `launchingAt`.
`ClaimRow`/`SendJob`/`AdvanceRelease` are the release loop of `dispatchRun` and its
last write, `CheckRows`/`CheckInstances`/`CompleteRun` are `completeRunIfFinished`,
`SweepRow`/`ResolveTracking`/`SweepDone` are `sweepStaleLaunchingRows`,
`RecordLaunch`/`ReadRun`/`AdoptLaunch`/`UndoLaunch` the record step of the launcher,
`TrackNew`/`ReferenceTracking`/`EnqueueRetry` and `FailInstance`/`FailRow`/
`CountFailure` its catch block. Faults: `dispatchError` (caught in the pass),
`tickCrash` and `workerCrash` (the process dies at any await; a message reappears),
`tryError` and `finalError` (a DynamoDB error), `lostReply` (Maestro launched, the
answer timed out), `cancelRejected` (of a late launch's undoing or of a user's
cancel: logged, and the instance is cancelled locally all the same), `reappear` (the
visibility timeout expires under a worker).

Abstractions. One run of one processor, without a cap (`ReleaseCap` has it). A
sibling run matters in one place, promotion to `paused`, and is a choice there.
`consecutiveFailures` saturates at `StopAfter`: the code only asks `>=`. Rows put by
the start route have no instance: only a draft's rows are put, and drafts have
launched nothing (with one start request; `BulkDrafts` says when that is so). Rows
`launching` from before `launchingAt` existed are left out. The sync of an instance
reads and writes in one step here; `InstanceRequests` splits it.

`BulkLifecycle` is the same run as its operator sees it: a row waits, is launched
once, runs and settles; an open run closes when nothing runs, and stays closed. The
mapping is `open <- ~Closed`, `phase <- PhaseOf(r)`. What a closed run may still do
was learnt from TLC: a cancel begun before may discard a waiting row or write
`cancelled` over a failure it raced with (`Discard`, `Overrule`). With stale rows the
code does *not* implement it: that is finding `bulk_adoption`.

### Webhooks and rules (`WebhookStore`, `RuleEngine`, `WebhookPipeline`)

`marker` holds the items `dedup#<id>`, `event[d]` the event that delivery `d`
stored, `msg[d]` its job, `item` the queued webhooks in the order of `queuedAt`,
`hist.entries`/`hist.jobs` the pipeline entries and launch jobs per event and rule.
`PutMarker`, `PutEvent`, `Enqueue` are the handler; `Receive`, `Guard`,
`FindMatchingRules`, `StoreQueuedWebhook`/`PutEntry`/`QueueLaunch`, `MarkProcessed`,
`Ack` the worker; `Pause`, `Activate`/`ReadQueue`/`Flip`/`ReleaseEntry`/`ReleaseSend`,
`CancelItem`, `Delete` the routes. Which id `extractPlatformEventId` takes (`KeyOf`) and which
rules an event meets (`Matches`) are constants: the first differs by platform and is
what one finding is about, the second is a pure function of event and rule. Faults:
a worker that throws or dies, an early redelivery, a failed send (the route swallows
it), a failed put, a handler that dies.

### Launching an automation (`LaunchLadder`, `InstanceRequests`, `AutomationLaunch`)

`inst[i]` has the fields that decisions hang on: `status`, `mid`
(`maestroInstanceId`), `seq` (`retrySequenceId`), `manual`, `counted`,
`countedFailed`; `entry` the pipeline entries, `msg` the jobs with attempt, sequence
and instance, `sync` the scheduler at one instance. `Repark` is the deferred retry that goes back to the
queue, `Superseded` and `RetryGuard` the checks of a retry, `Track`, `ReportRetry`,
`EnqueueRetry` the ladder, `ReadEntry` ... `CountFailure` the final failure.
`CatchFails` is a write of the gate's denial, of a retry's report or of the final
failure, or the lookup before it, that fails: the launcher swallows that, goes on and
deletes the message. `hist.unended` and `hist.unsettled` remember the instances and
entries such a write was to close.
`RetryWrites`/`SendRetry`, `CancelAtMaestro`/`CancelWrites`,
`Fetch`/`LiveWrites`/`LiveCounts` are the routes, `SyncScans` ... `SyncCharges` the
sync. `MaxEvents` bounds requests and faults together.

### Tokens, registration, drafts, cap, sync walk, canvas (`MCParts`)

* `TokenRefresh`: one connection whose platform gives a new refresh token with each
  exchange and may refuse older ones. Actors run a queue job, an on-demand refresh,
  a manual refresh, a test or a deletion. Tokens are numbered, `left` is the class of
  time to expiry the code tells apart.
* `SfRegistration`: one organisation, one webhook, tokens issued in order. A caller
  brings its secret, redeems or replays, resolves the app, persists and marks; an
  administrator rotates or issues.
* `BulkDrafts`: what happens to a run before `BulkUpload` takes over. `wz[w]` is an
  upload, preflight, start or deletion; rows are put one by one and may be left
  unprocessed; any call may throw. `seen` remembers which runs two requests held at
  once and which rows lost their put.
* `ReleaseCap`: the same pass as `BulkDispatcher`, seen for its count and its budget
  over several runs. A row and its instance are one item. What a batch get leaves in
  `UnprocessedKeys` is not counted. One dispatching process.
* `SyncWalk`: pages, cursor, list per workflow, fallback fetches with their cap and
  back-off, rate limit, restart; workflows that are passed over once, after an error,
  or always, for want of a Maestro id or connection (`Unlinked`). Time is counted in
  ticks of the cron.
* `CanvasLayout`: one node, one tab, the visits of the page in it and what other
  devices write. `Drop`/`PinDefault` fill the queues, `TimerFires`, `Save`, `Saved`,
  `SaveFails` are `scheduleFlush` and its PATCH, `Hide` and `Unmount` its `flushNow`,
  `Answer`/`OnSuccess` the poll. What a closure does after the page is unmounted (its
  request, its new timer) is kept. `unsaved` and `old` remember whether the server
  was sent the last move, and whether an answer was read before. Cells are named, not
  computed; writes are per key, so that another node would change nothing.

They share no item with each other that the questions asked of them depend on, so
`MCParts` lets a behaviour follow one of them while the others stay put: their
interleavings would show nothing that none of them shows alone.

### Abstractions common to all

Column values, texts, users, notification fan-out and logs are left out. Reads are
current when made, although `GetCommand` defaults to eventual consistency. A delayed
message is one that is received late; nothing bounds a delay. Ids never repeat, so the
least unused one is taken. Deleting a message succeeds unless the worker dies first.
A batch get is answered whole but in `ReleaseCap`.

## 3. What is checked

Deadlock is checked in every run but `parts`, whose requests are one-shot: the cron
and the workers never stop, so neither may those models (`Rest` is a step only when
nothing is in flight).

| Run | Instance | Shows |
|---|---|---|
| `bulk_release` | rows 1-3, 2 passes, no worker, start and pause, `ReleaseCount` 1, one dispatch error or crash | `RowReleasedOnce`, `LaunchingOnlyInOpenRun`, `LateReleasesBounded`, `CompletionNoticedOnce` |
| `bulk_cancel` | rows 1-2, 1 pass, 1 worker, cancel of the run (scope `all`) and of a row, run `running` or legacy `queued`, at most one cancel rejected by Maestro | `ClosedRunIsQuiet`, `OutcomesStand`, `RunLifecycle` (the refinement) |
| `bulk_faults` | 1 row, 1 pass, 2 workers, ladder of two retries, every launch outcome, aging, at most one of: early reappearance, lost answer, DynamoDB error, rejected cancel | `TypeOK`, `LaunchIsTracked` (without a fault), `LaunchingIsCarried`, `LadderNotStranded` |
| `bulk_liveness` | 1 row, 1 pass, 1 worker, ladder of two retries, resume, one crash or lost write, `FairSpec` | `LaunchingResolves`, `RunningRunSettles` |
| `webhook` | 2 deliveries of one event, 2 rules, 2 workers, a pause or resume and a release, cancel or deletion, up to 2 faults, `FairSpec` | `TypeOK`, `AcceptedIsKept`, `ProcessedIsHandled`, `RepeatsArePaidFor`, `ReprocessedOnlyIfOverlapped`, `PendingEntriesHaveJobs`, `PauseIsNonLossy`, `CancelledItemsStand`, `EnqueuedIsSettled` |
| `automation` | 1 worker, a manual retry and a cancel or live view, ladder of two retries, the second of them deferred, every outcome, one fault (a swallowed write among the kinds), requests and faults at most 2 together | `TypeOK`, `LadderNotStranded`, `OnlyLatestLaunches`, `LaunchIsTracked`, `FailuresCountedOnce`, `CompletionCountedOnce`, `ManualCancelStands`, `SettledAtRest` |
| `parts`, tokens | 3 actors, 1 job, 5 tokens, one fault | `RefreshTokenKept`, `NoFalseWarning`, `DeletedStaysDeleted` |
| `parts`, registration | 3 callers, 1 administrator, 2 tokens, one fault | `SecretVerifies`, `RotationStands` |
| `parts`, drafts | 3 requests, 2 runs, 2 rows (one with a problem), one fault | `StartedIsWhole` |
| `parts`, cap | 2 runs, 3 rows, cap 2, `ReleaseCount` 2 | `CapHolds` |
| `parts`, sync | 4 instances, one listed, one missing, one of a workflow that is not linked, 2 pages of 1, 1 fetch a pass, back-off of 3 ticks, one fault, `FairSpec` | `SyncCatchesUp` |
| `parts`, canvas | 2 visits, 2 cells, 2 moves, 1 move elsewhere, 1 save of `flushNow`, one failed request, layout empty or legacy | `NoSnapBack` |
| `bulk_adoption` | 1 row, late launch against a cancel | violates `ClosedRunIsQuiet` |
| `bulk_notice` | 1 row, pause and resume around a completion | violates `CompletionNoticedOnce` |
| `webhook_envelope` | 2 events of one envelope | violates `DuplicateIsKept` |
| `automation_view` | a cancel and a live view | violates `LiveViewKeepsCancel` |
| `canvas_hidden` | 1 visit, 2 moves, 1 save of `flushNow` | violates `LastDropStands` |

Why the bounds are enough. Rows interact only through the run's counters, the order
of release and the "anything left?" checks: two rows give "one left, one not", three
with `ReleaseCount` 1 and two passes give a batch that a second pass finds half
claimed. Two passes are the overlap the code guards against; a third would find what
the second found. Two retries have the first failure, the rung in the middle, the
retry that fails finally and the one that succeeds, and let a job that came twice meet
its own successor. Two
workers are one delivery and its duplicate. One fault stands at every point of every
behaviour; two, in `webhook`, let a redelivery meet a second failure. Two deliveries
are the event and the platform's retry; two rules let one fire before the other
fails. In the cap, two runs share and the second finds what the first left; a cap of
2 with 3 rows has a release that must be cut short. In the sync, two pages of one
item do not cover four places, so that a pass ends in mid-table and wraps in another;
one missing instance is as many as a pass may fetch, and the one of a workflow not
linked to Maestro lies between it and the last. On the canvas the second move is
the one that an answer or a save may be older than, and the move elsewhere is what a
poll must still deliver; the cells are alike, so a layout starts with the first.

What holds only with a restriction, and is a hazard or an observation otherwise.
`LaunchIsTracked` is claimed in `bulk_faults` of behaviours without a fault: a lost
answer, a failed write, a rejected cancel and a duplicated job leave orphans, which
the code accepts, and for the same reason `ClosedRunIsQuiet` speaks of workflows at
Docusign only where no cancel was rejected (of rows and instances always); in
`automation`, `hist.lost` names what a fault or a request let go of. `OutcomesStand` is checked without redelivery, where
the condition "not failed yet" lets a duplicate turn a finished row into a failed one.
`LaunchingIsCarried` is checked without a worker crash, where only the sweep helps the
row, which is what `LaunchingResolves` shows; and it names one more row that only the
sweep helps (`EndedUnrecorded`): its workflow was launched and stored with the
instance, the write of the row failed, and the workflow ended before the retry that
would have recorded it, which the retry guard then drops. `SettledAtRest` names the
same case for an entry (`EndedMeanwhile`). `LadderNotStranded` (in `automation`) and
`SettledAtRest` except what a swallowed write was to close, and only that
(`hist.unended`, `hist.unsettled`): see below. `CompletionNoticedOnce` holds in
`bulk_release` and `ClosedRunIsQuiet` in `bulk_cancel` because those instances lack
the third party the findings need.

Fairness.

* `BulkUpload!FairSpec`: weak fairness of each pass (the cron fires for ever and an
  awaited call returns or throws), of the passing of time, of Maestro's workflows
  ending, of the sync, and of requests once begun. *Nothing* is assumed of the
  launcher workers or of redelivery: both liveness properties hold even if every
  worker dies with its message, because the sweep and the failure streak end the run.
* `WebhookPipeline!FairSpec`: weak fairness of each worker (its poll loop runs for
  ever) and of the end of each visibility timeout. A handler or a request, once
  begun, need not go on. Faults are bounded, their moment is not.
* `SyncWalk!WalkFairness`: the cron ticks and a pass goes on, a rate limit passes,
  every workflow ends some day. The last is needed: an instance that is off the list
  and lives gets no back-off, so enough of them that never end take every fetch.

### Findings

* `bulk_adoption`. A late launch reads the run's status and then adopts the row
  under a condition on the *row* alone (`workers/workflow-launcher.worker.ts`,
  303-312). In between a cancel may reread the rows, find nothing unfinished and
  close the run; the run is then cancelled with a live workflow, which the comment
  at 321-323 says cannot be.
* `bulk_notice`. Pause writes `paused` without a condition
  (`routes/batch-processors.ts`, 559), so it may overwrite a completion that
  happened after it loaded the run. A resume then completes and announces the run
  a second time, against "exactly-once" at `services/batch.service.ts`, 1382-1383.
* `webhook_envelope`. `extractPlatformEventId` takes a Docusign `envelopeId` for the
  id of the event (`services/webhook-event.service.ts`, 33): every later event of the
  envelope is answered `duplicate` and dropped, not only "when platforms retry
  delivery" (26-27).
* `automation_view`. The live view writes Maestro's status when the status *or* the
  step has changed (`routes/instances.ts`, 167), and only the first excludes a cancel
  by hand, which it promises "never" to override (159-162).
* `canvas_hidden`. "Exactly one PATCH is in flight at a time" (`FlowBuilderPage.tsx`,
  179-180) does not hold for the save of a tab that is hidden (246): it is not marked
  as in flight, so the debounced save of a later move may overtake it, and the older
  cell stays.

### What the runs taught

Behaviour of the code that the properties except by name, because no line of the
repository promises otherwise (or because the exception is the better statement):

* Bulk drafts. A deletion of the processor that meets a start leaves a running run
  without a processor, which the dispatcher skips for ever and no route can cancel;
  an upload that meets a start deletes the run under it and the start's update makes
  a running stub; two starts release rows twice; an upload that fails after it
  deleted the rows leaves a draft without rows that can be started; two uploads may
  give the same `runNumber`.
* Cap. A release that throws is not taken from the shared budget
  (`services/batch.service.ts`, 908-912), so the next run may exceed the cap; so may
  two dispatching processes, an instance that is postponed or retried by hand, and a
  late adoption.
* Sync. "Full coverage across ticks" (`lib/scheduler.ts`, 147) holds while the
  fallback back-off outlasts one lap of the table. On a longer table, as many missing
  instances as a pass may fetch are due again each time the walk comes back to
  their window, and those behind them are never fetched.
* Sync and live view write under a condition on the status alone (or none): an answer
  about an old Maestro id may fail or complete an instance that was retried since.
* Retries. A manual retry of a running instance lets its Maestro instance go. The
  guard of a retry ignores `maestroInstanceId`, so a duplicated retry job launches
  twice. A ladder that was abandoned, or whose worker dies between `FailInstance` and
  `FailEntry`, leaves its entry `retrying`. `Track` by an older sequence overwrites
  `retrySequenceId`. A second manual retry that fails for good is not counted;
  `countedAsFailed` is never reset.
* Counters. A non-retryable first failure is thrown to SQS and redelivered; if the
  redelivery ends in a retry, the entry goes back to `retrying` and the failure may
  count again. After one crash it may count three times: the mark of the one worker is
  cleared by the report of the other before the first has counted, and the attempt
  that is then thrown back finds no mark. A counter that fails after a successful launch is taken for a failed
  launch, which is repeated. A job in the dead letters leaves its entry unsettled.
* Tokens. `updateTokens` and `updateConnectionStatus` are upserts: an actor that read
  the connection before its deletion brings it back as a stub, and one that lost the
  race of two refreshes writes `warning` over fresh tokens.
* Registration. "Redundantly re-writes the same secret - harmless"
  (`routes/sf-registration.ts`, 268-269) overlooks a rotation between the crash and the replay.
* Canvas. `NoSnapBack` rests on the 15 s guard outlasting a poll's answer (`GuardExpires`);
  requests have no timeout. A page unmounted while a save fails, or while a move waits
  behind it, sets its timer again and may save an old cell over one of its next visit.
  The legacy migration saves what it read without a condition, over a move another
  device made meanwhile. A node moved away and back while its save is under way counts
  as saved, though another device may have moved it.
* Swallowed writes. The writes that end a ladder are each caught and logged
  (`workers/workflow-launcher.worker.ts`, 184-188, 560-562, 628-630) and the job's
  message is deleted. One that fails leaves a tracking instance `running` that nobody
  carries, or an entry `retrying`, without a dead letter; nothing sweeps instances or
  entries of automations. A failed entry write skips the rule's failure count too. A
  failed lookup (542) may count a failure again.
* Partial reads. No caller of a batch get looks at `UnprocessedKeys`. The cap then
  counts too little, and `completeRunIfFinished` takes a launched row whose instance
  was not returned for one that has ended (`services/batch.service.ts`, 1361-1364).
* Cancel. A cancel that races with the sync overwrites an instance, and then a row,
  that had failed.

## 4. What is proved

For every value of the constants that meets the assumption its module names, so for
any number of rows, passes, workers, deliveries, rules, requests, callers, tokens,
retries and faults. A theorem that needs more says what, and why the code needs it.

Bulk Upload (`ConstantsAssumption`)

* `BulkUploadProofs!TypeCorrect`: `Spec => []TypeOK`. A worker looks its job up
  through the message it holds, so the invariant is
  `TypeInv == TypeOK /\ BusyHoldsMessage`.
* `BulkReleaseProofs!NoDoubleRelease`: `OneStart => (Spec => []RowReleasedOnce)`. A
  pass sends *after* its claim, so `ReleaseInv` adds `QueuedIsFresh` (a queued row
  was never sent and no pass is about to), `OneSender` (no two passes stand before
  the send of one row) and, because the start route puts whole rows, `PutIsFresh` and
  `DraftIsFresh`. `OneStart`: two starts that both read `draft` can put a released row
  back to `queued`.
* `LateReleasesAreBounded`, for finitely many passes: each pass has so many places left
  in its batch (`Left`), and `LateFits` says that what was released late and the places
  still left fit into `ReleaseCount` for each pass. A run that may still be released
  from has had no late release (`NoneLateYet`).
* `OneNotice`, under `OneStart` and `NoResume`: a noticed run is not running and
  cannot be started again (`Noticed`, `StartComesFirst`). A resume that was loaded
  before the completion does run it again: finding `bulk_notice`.
* `LaunchingStaysOpen`, under `StartAlone` (a run that one request starts is not
  started or cancelled by another meanwhile): a pass works only on a run that has run
  (`PassesOnScanned`), and who is about to close a run has seen that no row is queued
  or launching, which stays so (`NothingLeft`, `ClosedIsLeft`). Without the
  assumption a cancel that read the rows before the start route put them closes a run
  that the start route then runs.
* `LadderIsNotStranded`, under `CatchBlockLands` (no worker dies over a job, and the
  writes of the launcher's catch block land; what these leave is for the sweep):
  a tracking instance is borne by a message nobody is about to acknowledge, or by the
  worker that has just made it (`LadderBorne`); a worker that acknowledges a retry
  has stored the Maestro id with the instance or failed it (`LadderLetGo`), because
  what it persists is an id (`MidInHand`) and its job names an instance that exists
  (`HeldIsSent`, `JobsNameInstances`, `WorkersNameInstances`).
* `OutcomesAreFinal`, an action property, under `StartUndisturbed` (no cancel
  accompanies a start, which puts whole rows) and `JobsRunOnce` (a second delivery of a
  job may fail or skip the row whatever it has become). A row that has its outcome has
  no job left that could still write it (`OutcomesSettled`), because a message is held
  by one worker (`HeldOnce`) and a row has one message that is not about to be
  acknowledged (`OneLadder`). What each step may do to a message, a row and a worker is
  said once (`MessageMoved`, `RowMoved`, `WorkMoved`, `FreshMoved`) and used throughout.
* `LaunchesAreTracked`, under `OneStart`: `LaunchIsTracked` claims something of
  behaviours without a fault, so the invariant is `TypeInv`, `ReleaseInv` and, while
  `faults = 0`, `ChainInv`, `LadderInv` and `TrackInv`. The last says that a
  ladder's instance is borne by one message or worker (`BornByOne`) and has no Maestro
  id before its launch (`Unlaunched`), so that no worker overwrites an id another has
  written; that ids in hand are known to Docusign (`IdsKnown`, `WorkersOnIds`); and that
  a cancel is about a row whose launch has been recorded (`RowsNoted`,
  `RequestsOnIds`), so that an item is only cancelled behind its workflow.
* `ClosedRunStaysQuiet`, under `StartAlone` and `LaunchesLand`: no row goes stale while
  its worker still lives, no message is delivered twice, and the launcher's writes and
  cancels land. Passes may still fail or crash at any point, and launches may be denied,
  rejected or retried. A launch that lands late reaches a run that is closed already,
  which is finding `bulk_adoption`; so a theorem without this hypothesis would be false.
  The invariant `LandedInv` is that of the previous theorems (`CleanInv`, `OpenInv`) with
  three more parts. `JobsLaunch`: a row is launching from its claim until its job
  is done with it, so a row that is not launching has no launch to come. `NamesInv`: two
  rows never name one instance, a running instance that was launched is named by a
  launched row or is about to be (`RunningIsNamed`), and a cancel has ended the instance
  before it writes the row (`CancelsInOrder`), so a row with an ended instance stays
  with it. `QuietAhead`: a pass before its completion and a cancel before its close hold
  every launched row in hand, and have looked whether it lives.
* `LaunchingIsInHand`, under `OneStart` and `CarriersLand` (no pass breaks off between
  the claim of a row and its send, no worker dies over a job, the writes of the catch
  block land: for what those leave there is only the sweep). Early redeliveries, lost
  answers, failed writes of the try block, rejected cancels and rows swept while their
  worker still lives remain, as in run `bulk_faults`, here with any number of rows,
  passes, workers and requests. `CarryInv` says that an instance
  belongs to one row, and only once that was released (`OwnInv`); that whoever has left
  a launch, swept a row or is cancelling it stands before a row that is past launching
  for good (`PastInv`); that an instance which has ended under a launching row was
  launched, or its worker is about to fail the row (`EndedIsKnown`); and that the row is
  about to be sent or begun, or somebody climbs its ladder (`RowCarried`).
* `RunImplementsLifecycle`, the refinement: every step of `BulkUpload` is a step or a
  stutter of `BulkLifecycle` under the mapping `PhaseOf` and `Closed`, under
  `StartUndisturbed`, `LaunchesLand` and `NoReopen` (no pause or resume: one that read
  the run before its close would reopen it, finding `bulk_notice`). `OneWrite` says
  what a step may write at all: nothing that matters to a phase, one instance, one row,
  or the rows that were found over and keep their phase. For each of these `PhaseGoes`
  lists how the phase of a row may move (`Onward`), by the lemmas on rows and
  instances that the previous theorems rest on (`RowMoved`, `InstMoves`); `RowGoesOn`
  takes each to an action of `BulkLifecycle`; and `ClosesQuiet` shows that a step which
  closes the run moves no row and finds all of them quiet, by `QuietAhead`.

Webhooks (`WebhookAssumption`)

* `WebhookTypeProofs!WebhookTypeCorrect`: `TypeOK`, by `TypeInv`, which adds that
  messages were sent (`MessagesAreSent`), that workers and requests hold what they
  look at (`WorkersHoldMessages`, `RequestsHoldItems`).
* `WebhookProofs!AcceptedKept`, under `OwnKeys` (the platform's ids tell its events
  apart, which Docusign's do not: finding `webhook_envelope`). The invariant is
  `MarkerIsBacked`: behind every marker is a delivery that stored its event, is about
  to, or failed.
* `RedeliveryFindsTheMark`, by `OverlapIsEarly` (two workers hold one message only if
  it reappeared early), and `MarkedIsHandled`, by `MarkIsEarned`: what a worker has
  passed over is handled or still on its list, and a mark stands for the whole list.
* `PauseLosesNothing` and `CancelStands`, by `QueueInv`: an item that is still queued
  under an active rule is on the list of a resume, or was stored late
  (`QueueIsWatched`); what is about to be launched has been flipped (`FlippedIsGone`);
  a cancel that met a release is known (`CancelIsNoticed`).
* `EntriesAreLaunched`: of each event and rule, the entries without a job are no more
  than the workers (`AtSend`) and requests (`AtRelease`) between the two writes and
  the faults there were (`Paired`). The sets are finite because workers, requests and
  items are (`FiniteSetTheorems`).
* `HandledOncePerFault`: of each event and rule, what was handled (fired or stored in the
  rule's queue), the workers that still owe it (`Owing`) and the message, if it is still
  to come (`Ahead`), are together no more than one and the faults there were
  (`Bounded`): a receive turns a message into a worker that owes, a launch or a put turns
  such a worker into a rule that is served, and what reappears under a worker or after
  one that failed is a fault. The conditional put of the marker lets one delivery of a
  named event through (`OneWins`). The property was a sum over the deliveries of an
  event before; it now says, more strongly, that only one of them is handled at all.

Launching an automation (`LadderAssumption`), all in `AutomationProofs`

* `AutomationTyped`: `TypeOK`, by `Shape`, which adds that every id an item, a job, a
  worker, a request or the sync carries names something that exists (`ItemsNamed`,
  `JobsNamed`, `WorkersNamed`, `RequestsNamed`, `SyncNamed`).
* `CompletionsCountOnce` (`OnceCounted`: a counted completion is marked on its item) and
  `ChargesCountOnce` (`ChargesMarked`: so is a failure the sync has charged).
* `FailuresCountOnce`: `FailuresCountedOnce`, the count of an entry with it. Two sums of
  an entry are bounded (`AllFit`): its load, the workers at it and the messages that
  wait, by one and one more for each fault; and its debt, the failures counted, the
  workers that may still count one and the messages that will come again, by what is
  allowed. A step moves what an entry owes from a message to a worker or back, or pays
  it into the count; a fault adds one. Two steps do not fit that: a report of a retry
  clears the count, and then what can still be counted is bounded by the load; and a
  first attempt that is thrown back after it has counted comes again, but it finds the
  mark and will not count unless a report has cleared it, so a mark under a first
  attempt spares one (`MarkSpares`). For that the first attempt has to be one
  (`FirstsAlone`), hence the job of a retry the first its entry gets
  (`SentOrUntouched`), and what is put off a later attempt (`EarlyIsLater`). The sums
  are numbers though the workers and messages may be infinitely many, for few are busy
  at a time (`FewAtOnce`).
* `OnlyTheLatestLaunches`: whoever is past the retry guard has the sequence of the
  item unless a retry came between (`PastIsLatest`, `SeqsBegun`).
* `CancelStands`: who may still overwrite a cancelled item is known to have read it
  before (`CancelKnown`).
* `LadderIsNotStranded`, with every kind of fault, but for what `hist.torn` (a race or
  a crash) and `hist.unended` (a closing write that failed and was swallowed) name: an
  instance that only tracks has a message with its sequence that is not about to be
  deleted, a worker on the way to the queue, or a retry request before its send
  (`Borne`); who notes a success or a final failure has written it to the item
  (`RunHasId`). What a swallowed write leaves as it was is said once (`CatchGoes`,
  `SwallowedStays`), and that it marks what it was to close (`MarksOfSwallowed`,
  `ReportedIsCared`, `SwallowedIsCared`).
* `LaunchesAreTracked`: a message is held by one worker unless it reappeared
  (`HeldAlone`), a ladder is carried by one bearer (`OneBearer`), so what a worker
  persists is not overwritten; what the sync, a cancel or the live view has read is
  the item's id still, or the item was torn, or the old workflow let go (`MidKept`,
  `ReadingsStand`, `OldLetGo`).
* `EntriesSettle`, with the exceptions `SettledAtRest` names: an entry that is still
  open has a job, a worker or a request that will settle it, or the write that was to
  do so was swallowed (`EntryBorne`); it rests on `WorkIsSteady` (the instance of a ladder
  in hand stays as it was unless somebody asked), `JobsKnowEntry` and `IdleAskNothing`.

Drafts, cap, canvas, sync walk (`DraftAssumption`, `CapAssumption`, `CanvasAssumption`,
`WalkAssumption`), all in `PartsProofs`

* `CapIsKept`: while a pass counts, a row that takes a slot in a run it has been through
  is in its count, has an instance it will look at, or came back behind its back
  (`Counted`), and what a batch get left out is known (`excess`); while it releases,
  what is left of its budget fits beside what takes a slot (`Budgeted`). By the cardinality theorems of the library.
* `OldAnswersMoveNothing`, an action property: from the drop until the poll has seen it
  the queue, the PATCH in flight and the guard hand the move on without a gap, so that
  an answer read before it finds one of them and is not shown (`OldIsFenced`).
* `StartsAreWhole`: a run that no two requests held at once is held by at most one
  (`AloneOnDraft`, `HoldersMet`), is created once (`BornOnce`), and every row of a run
  past its upload is put or known to be lost (`RowsPut`).
* `PartsTypeCorrect`: `TypeOK` of the composed instance. `SidesAreParts` shows that a
  behaviour of `MCParts!FairSpec` is one of each of the six parts, so every theorem about
  a part holds of the composition too. For the walk the proof needs that a
  page of an unfinished scan holds a place (`CursorIsAPlace`), hence that a finite
  set of places has a first and a last (`MinIsLeast`, `MaxIsLargest`). That the walk
  gets to every instance is liveness, and stays with TLC; what the sync may do to one,
  with retries and cancels in its way, is in `InstanceRequests`, and
  `AutomationProofs!LaunchesAreTracked` and `CancelStands` speak of it.

Tokens (`TokenAssumption`)

* `TokenRefreshProofs!TokenTypeCorrect`, `NewestTokenKept`, `FreshTokenHealthy`,
  `DeletionStands`. The invariant `TokenInv` says that an actor about to store holds
  the newest token or another exchanged after it and the race is known
  (`StoresEndWithNewest`), that a job finds the token old (`JobsFindTokenOld`), that a
  warning is owed to what the actor has seen (`VerdictIsDue`), and that whoever goes
  on after a deletion had read before it (`GoneIsNoticed`).

Registration (`SfAssumption`)

* `SfRegistrationProofs!SfTypeCorrect`, `AnsweredSecretVerifies`,
  `RemovedStaysRemoved`, by `RequestsHoldSecrets` and `RedeemersDiffer` (a request
  works on the secret of its token, and two tokens were redeemed by two requests),
  `StoredStays`, and `RemovedWasAsked`/`RemovedIsOver` (what a rotation removed
  belongs to a token that is marked and that nobody is working on).

Every invariant was checked by TLC on the instances of section 3 before it was
proved. Three times that, or the proof, corrected a property: with a second retry in
the ladder TLC found the rows of `EndedUnrecorded` and the entries of `EndedMeanwhile`;
and the attempt to prove that a fault makes one more failure of an entry count, at
most, led to the two workers, three deliveries and one crash that make three count
(section 3, Counters), which `CountsAllowed` now allows for.

Model-checked only: liveness, and whatever rests on fairness. Of the safety properties
one has an exception that is a matter of its wording: two manual retries of one
instance start two ladders over one entry, each of which may count, so
`FailuresCountedOnce` says nothing of the failures of such an entry (`AskedTwice`).

## 5. Not modelled

* The frontend but for the canvas (`src/baton-front`, about half of the repository's
  lines): React views over the API that keep no state another party reads. With it left out, most of the
  repository's lines stand for layout, formatting and data conversion, and so does
  what is left of the backend: connectors (signatures, payload formats, HTTP calls),
  spreadsheet parsing, rule conditions, the Slack messages, the API docs, table
  definitions.
* OAuth state and first-run setup: a read followed by an unconditional write. The
  property one would state (consumed once; one owner) fails as written, and no doc
  promises it under concurrency; the second is listed as a hazard.
* Webhook event cleanup: its coverage is the order of the database's scan.
* Notifications, Slack, usage counters, the post-webhook limiter: fire and forget, or
  counters in one process that nothing reads back. The number of completion notices is
  modelled in the dispatcher, the completion count in `InstanceRequests`.
* Middleware, encryption, redaction, logging: stateless.
* Of modelled parts: the automatic pause of a failing rule, creation and edit of rules
  and processors, the placement of nodes, legacy keys and several organisations of a
  registration, the OAuth flow that creates a connection, graceful shutdown.

## 6. Plan

What is left is to model: the automatic pause of a failing rule in `LaunchLadder`, and
two dispatching processes in `ReleaseCap`.
