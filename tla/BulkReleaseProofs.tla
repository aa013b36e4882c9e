------------------------- MODULE BulkReleaseProofs -------------------------
(***************************************************************************)
(* No row is handed to the launcher queue twice, for every number of rows, *)
(* passes, workers and requests, whatever fails or crashes - provided the  *)
(* run is started by one request. (Two start requests that both read       *)
(* 'draft' put the rows anew one after the other, and a row the first made *)
(* 'queued' may have been released when the second requeues it.) Then, in  *)
(* the same way: a held run releases no more than the batches under way, a *)
(* finished run is noticed once, only an open run has launching rows, no   *)
(* retry ladder is stranded, a row that has its outcome keeps it, nothing  *)
(* runs unseen at Docusign, nothing runs in a closed run, a launching row  *)
(* is in somebody's hands, and BulkUpload implements BulkLifecycle.        *)
(***************************************************************************)
EXTENDS BulkUploadProofs, FiniteSetTheorems

OneStart == \A p, q \in Req : Kind[p] = "start" /\ Kind[q] = "start" => p = q

(* A pass between the claim of row r and the send of its job.              *)
Sending(d, r) == tick[d].pc = "send" /\ IsFirst(r, tick[d].todo)
Fresh(r)      == hist.released[r] = 0 /\ \A d \in Tick : ~Sending(d, r)
NotYet(r)     == Fresh(r) /\ row[r].status # "queued"

(* RowReleasedOnce is not inductive alone.  A queued row has never been    *)
(* claimed, a claimed one is in the hands of a single pass until its job   *)
(* is sent, and a row the start route has yet to put is untouched, so that *)
(* putting it 'queued' gives it its first and only chance.                 *)
QueuedIsFresh == \A r \in Row : row[r].status = "queued" => Fresh(r)
OneSender ==
  \A d \in Tick, r \in Row : Sending(d, r) =>
    hist.released[r] = 0 /\ \A e \in Tick : Sending(e, r) => e = d
PutIsFresh ==
  \A q \in Req : req[q].pc = "put" => Kind[q] = "start" /\ \A r \in req[q].todo : NotYet(r)
DraftIsFresh ==
  \A q \in Req : Kind[q] = "start" /\ req[q].pc = "idle" /\ run.status = "draft"
                   => \A r \in Row : NotYet(r)
ReleaseInv == RowReleasedOnce /\ QueuedIsFresh /\ OneSender /\ PutIsFresh /\ DraftIsFresh

(* Before the first step nothing is released, claimed or being put.        *)
LEMMA ReleaseInit == Init => ReleaseInv
<1> SUFFICES ASSUME Init PROVE ReleaseInv
  OBVIOUS
<1>1. \A r \in Row : Fresh(r)
  BY DEF Init, Fresh, Sending, IdleTick
<1>2. run.status = "draft" => \A r \in Row : row[r].status # "queued"
  BY DEF Init
<1>3. \A q \in Req : req[q].pc # "put"
  BY DEF Init, IdleReq
<1>4. RowReleasedOnce
  BY DEF Init, RowReleasedOnce
<1>5. OneSender
  BY <1>1 DEF OneSender, Fresh
<1>6. QED
  BY <1>1, <1>2, <1>3, <1>4, <1>5
  DEF ReleaseInv, QueuedIsFresh, PutIsFresh, DraftIsFresh, NotYet

----------------------------------------------------------------------------
(* Most steps have no part in a release: they queue no row, claim none,    *)
(* send none, begin no start request and make no run a draft.              *)
NoneQueued == \A r \in Row : row'[r].status = "queued" => row[r].status = "queued"
NoneClaimed == \A d \in Tick : tick'[d].pc = "send" =>
                 tick[d].pc = "send" /\ tick'[d].todo = tick[d].todo
NoneBegun ==
  \A q \in Req : /\ req'[q].pc = "put" => req[q].pc = "put" /\ req'[q].todo = req[q].todo
                 /\ req'[q].pc = "idle" => req[q].pc = "idle"
NoDraft == run'.status = "draft" => run.status = "draft"
Aside == NoneQueued /\ NoneClaimed /\ NoneBegun /\ NoDraft /\ hist'.released = hist.released

(* A step that stands aside from releasing keeps the invariant.            *)
LEMMA AsideKeeps == ASSUME TypeOK, ReleaseInv, Aside PROVE ReleaseInv'
<1> USE DEF Aside
<1>1. \A d \in Tick, r \in Row : Sending(d, r)' => Sending(d, r)
  BY DEF Sending, IsFirst, NoneClaimed
<1>2. \A r \in Row : Fresh(r) => Fresh(r)'
  BY <1>1 DEF Fresh
<1>3. \A r \in Row : NotYet(r) => NotYet(r)'
  BY <1>2 DEF NotYet, NoneQueued
<1>4. RowReleasedOnce'
  BY DEF ReleaseInv, RowReleasedOnce
<1>5. QueuedIsFresh'
  BY <1>2 DEF ReleaseInv, QueuedIsFresh, NoneQueued
<1>6. OneSender'
  BY <1>1 DEF ReleaseInv, OneSender
<1>7. PutIsFresh'
  <2>1. \A q \in Req : req[q].todo \in SUBSET Row
    BY DEF TypeOK, ReqState
  <2>2. QED
    BY <1>3, <2>1 DEF ReleaseInv, PutIsFresh, NoneBegun
<1>8. DraftIsFresh'
  BY <1>3 DEF ReleaseInv, DraftIsFresh, NoneBegun, NoDraft
<1>9. QED
  BY <1>4, <1>5, <1>6, <1>7, <1>8 DEF ReleaseInv


----------------------------------------------------------------------------
(* resolveRowInstanceStatuses makes no row queued.                         *)
LEMMA ResolveQueuesNone ==
  ASSUME TypeOK, NEW R, ResolveRows(R) PROVE NoneQueued
  BY DEF TypeOK, RowItem, ResolveRows, InstanceEnded, Terminal, NoneQueued

(* A write of another status makes no row queued.                          *)
LEMMA RowKeepsQueue ==
  ASSUME TypeOK, NEW r, NEW s \in RowStatus \ {"queued"}, row' = [row EXCEPT ![r].status = s]
  PROVE  NoneQueued
  BY DEF TypeOK, RowItem, NoneQueued

(* The environment stands aside.                                           *)
LEMMA EnvironmentAside == ASSUME TypeOK, Environment PROVE Aside
<1> USE DEF others, NoneClaimed, NoneBegun
<1>1. tick' = tick /\ req' = req /\ hist' = hist
  BY DEF Environment, ReleaseTimeComes, Age, Reappear, ReappearEarly, WorkflowEnds,
         SyncInstance, ViewRows
<1>2. NoDraft
  BY DEF Environment, ReleaseTimeComes, Age, Reappear, ReappearEarly, WorkflowEnds,
         SyncInstance, ViewRows, NoDraft, TypeOK, RunItem
<1>3. NoneQueued
  <2>1. ASSUME NEW r \in Row, Age(r) PROVE NoneQueued
    BY <2>1 DEF Age, TypeOK, RowItem, NoneQueued
  <2>2. CASE ViewRows
    BY <2>2, ResolveQueuesNone DEF ViewRows
  <2>3. CASE row' = row
    BY <2>3 DEF NoneQueued
  <2>4. QED
    BY <2>1, <2>2, <2>3 DEF Environment, ReleaseTimeComes, Reappear, ReappearEarly,
         WorkflowEnds, SyncInstance
<1>4. QED
  BY <1>1, <1>2, <1>3 DEF Aside

(* The launcher stands aside: it never returns a row to the queue.         *)
LEMMA LauncherAside ==
  ASSUME TypeInv, NEW w \in Worker, LauncherStep(w) \/ LauncherFault(w) PROVE Aside
<1>t. TypeOK
  BY DEF TypeInv
<1>1. tick' = tick /\ req' = req /\ hist' = hist
  BY DEF LauncherStep, LauncherFault, WorkerUnchanged,
         Receive, EnqueueRetry, LaunchSucceeds, PersistNew, TrackNew, RetryGuard,
         DenyInstance, LaunchFailsRetryably, LaunchRejected, PersistRetry,
         RecordRefused, ReadRun, AdoptRefused, UndoLaunch, UndoInstance, TrackAgain,
         FailInstance, FailRowAgain, Ack, ReplyLost, UndoRejected, TryFails,
         FinalFails, WorkerCrashes, GateDenies, RecordLaunch, AdoptLaunch,
         ResetStreak, ReferenceTracking, FailRow, CountFailure
<1>2. NoDraft
  BY <1>t DEF LauncherStep, LauncherFault, AddFailures, NoDraft, TypeOK, RunItem,
         Receive, EnqueueRetry, LaunchSucceeds, PersistNew, TrackNew, RetryGuard,
         DenyInstance, LaunchFailsRetryably, LaunchRejected, PersistRetry,
         RecordRefused, ReadRun, AdoptRefused, UndoLaunch, UndoInstance, TrackAgain,
         FailInstance, FailRowAgain, Ack, ReplyLost, UndoRejected, TryFails,
         FinalFails, WorkerCrashes, GateDenies, RecordLaunch, AdoptLaunch,
         ResetStreak, ReferenceTracking, FailRow, CountFailure
<1>3. NoneQueued
  <2>1. CASE GateDenies(w)
    BY <1>t, <2>1, RowKeepsQueue DEF GateDenies, SetRow, RowStatus
  <2>2. CASE RecordLaunch(w)
    BY <1>t, <2>2 DEF RecordLaunch, RecordOn, TypeOK, RowItem, NoneQueued
  <2>3. CASE AdoptLaunch(w)
    BY <1>t, <2>3 DEF AdoptLaunch, RecordOn, TypeOK, RowItem, NoneQueued
  <2>4. CASE ReferenceTracking(w)
    BY <1>t, <2>4 DEF ReferenceTracking, TypeOK, RowItem, NoneQueued
  <2>5. CASE FailRow(w)
    BY <1>t, <2>5 DEF FailRow, FailedRow, TypeOK, RowItem, NoneQueued
  <2>6. CASE row' = row
    BY <2>6 DEF NoneQueued
  <2>7. QED
    BY <2>1, <2>2, <2>3, <2>4, <2>5, <2>6 DEF LauncherStep, LauncherFault,
         Receive, EnqueueRetry, LaunchSucceeds, PersistNew, TrackNew, RetryGuard,
         DenyInstance, LaunchFailsRetryably, LaunchRejected, PersistRetry,
         RecordRefused, ReadRun, AdoptRefused, UndoLaunch, UndoInstance, TrackAgain,
         FailInstance, FailRowAgain, Ack, ReplyLost, UndoRejected, TryFails,
         FinalFails, WorkerCrashes, ResetStreak, CountFailure
<1>4. QED
  BY <1>1, <1>2, <1>3 DEF Aside, NoneClaimed, NoneBegun

(* So does a pass, but for the claim and the send.                         *)
LEMMA DispatcherAside ==
  ASSUME TypeInv, NEW d \in Tick, DispatcherStep(d) \/ DispatcherFault(d)
  PROVE  Aside \/ ClaimRow(d) \/ SendJob(d)
<1> USE DEF TickUnchanged
<1>t. /\ TypeOK
      /\ tick \in [Tick -> TickState]
      /\ tick[d] \in TickState
      /\ run \in RunItem
      /\ hist \in History
  BY DEF TypeInv, TypeOK
<1>s. ASSUME NEW t \in TickState, t.pc # "send", SetTick(d, t) PROVE NoneClaimed
  BY <1>t, <1>s DEF SetTick, NoneClaimed
<1>i. IdleTick \in TickState /\ IdleTick.pc = "idle"
  BY DEF IdleTick, TickState, TickPc
<1>h. ToHeld(d) => NoneClaimed
  BY <1>t, <1>i DEF ToHeld, SetTick, TickState, NoneClaimed
<1>1. CASE ScanRunning(d)
  <2>1. NoneClaimed
    BY <1>t, <1>i, <1>1 DEF ScanRunning, SetTick, TickState, NoneClaimed
  <2>2. NoneQueued
    BY <1>1 DEF ScanRunning, NoneQueued
  <2>3. NoDraft /\ hist'.released = hist.released
    BY <1>t, <1>1 DEF ScanRunning, NoDraft
  <2>4. QED
    BY <1>1, <2>1, <2>2, <2>3 DEF Aside, NoneBegun, ScanRunning
<1>2. CASE StopRun(d)
  <2>1. NoneClaimed
    BY <1>t, <1>h, <1>2 DEF StopRun, NoneClaimed
  <2>2. NoneQueued
    BY <1>2 DEF StopRun, NoneQueued
  <2>3. NoDraft /\ hist'.released = hist.released
    BY <1>t, <1>2 DEF StopRun, NoDraft, RunItem, History
  <2>4. QED
    BY <1>2, <2>1, <2>2, <2>3 DEF Aside, NoneBegun, StopRun
<1>3. CASE QueryQueuedRows(d)
  <2>1. NoneClaimed
    BY <1>t, <1>3 DEF QueryQueuedRows, SetTick, TickState, NoneClaimed
  <2>2. NoneQueued
    BY <1>3 DEF QueryQueuedRows, NoneQueued
  <2>3. NoDraft /\ hist'.released = hist.released
    BY <1>t, <1>3 DEF QueryQueuedRows, NoDraft
  <2>4. QED
    BY <1>3, <2>1, <2>2, <2>3 DEF Aside, NoneBegun, QueryQueuedRows
<1>4. CASE ClaimLost(d)
  <2>1. NoneClaimed
    BY <1>t, <1>4 DEF ClaimLost, SetTick, TickState, NoneClaimed
  <2>2. NoneQueued
    BY <1>4 DEF ClaimLost, NoneQueued
  <2>3. NoDraft /\ hist'.released = hist.released
    BY <1>t, <1>4 DEF ClaimLost, NoDraft
  <2>4. QED
    BY <1>4, <2>1, <2>2, <2>3 DEF Aside, NoneBegun, ClaimLost
<1>5. CASE AdvanceRelease(d)
  <2>1. NoneClaimed
    BY <1>t, <1>h, <1>5 DEF AdvanceRelease, TickStep, SetTick, TickState, NoneClaimed
  <2>2. NoneQueued
    BY <1>5 DEF AdvanceRelease, NoneQueued
  <2>3. NoDraft /\ hist'.released = hist.released
    BY <1>t, <1>5 DEF AdvanceRelease, WithLaterRelease, NoDraft, RunItem, History
  <2>4. QED
    BY <1>5, <2>1, <2>2, <2>3 DEF Aside, NoneBegun, AdvanceRelease
<1>6. CASE CheckRows(d)
  <2>1. NoneClaimed
    BY <1>t, <1>h, <1>6 DEF CheckRows, SetTick, TickState, NoneClaimed
  <2>2. NoneQueued
    BY <1>6 DEF CheckRows, NoneQueued
  <2>3. NoDraft /\ hist'.released = hist.released
    BY <1>t, <1>6 DEF CheckRows, NoDraft
  <2>4. QED
    BY <1>6, <2>1, <2>2, <2>3 DEF Aside, NoneBegun, CheckRows
<1>7. CASE CheckInstances(d)
  <2>1. NoneClaimed
    BY <1>t, <1>h, <1>7 DEF CheckInstances, SetTick, TickState, NoneClaimed
  <2>2. NoneQueued
    BY <1>t, <1>7, ResolveQueuesNone DEF CheckInstances
  <2>3. NoDraft /\ hist'.released = hist.released
    BY <1>t, <1>7 DEF CheckInstances, NoDraft
  <2>4. QED
    BY <1>7, <2>1, <2>2, <2>3 DEF Aside, NoneBegun, CheckInstances
<1>8. CASE CompleteRun(d)
  <2>1. NoneClaimed
    BY <1>t, <1>h, <1>8 DEF CompleteRun, NoneClaimed
  <2>2. NoneQueued
    BY <1>8 DEF CompleteRun, NoneQueued
  <2>3. NoDraft /\ hist'.released = hist.released
    BY <1>t, <1>8 DEF CompleteRun, SetRun, NoDraft, RunItem, History
  <2>4. QED
    BY <1>8, <2>1, <2>2, <2>3 DEF Aside, NoneBegun, CompleteRun
<1>9. CASE PromoteRun(d)
  <2>1. NoneClaimed
    BY <1>t, <1>9 DEF PromoteRun, NoneClaimed
  <2>2. NoneQueued
    BY <1>9 DEF PromoteRun, NoneQueued
  <2>3. NoDraft /\ hist'.released = hist.released
    BY <1>t, <1>9 DEF PromoteRun, NoDraft, RunItem, History
  <2>4. QED
    BY <1>9, <2>1, <2>2, <2>3 DEF Aside, NoneBegun, PromoteRun
<1>10. CASE QueryLaunching(d)
  <2>1. NoneClaimed
    BY <1>t, <1>i, <1>10 DEF QueryLaunching, SetTick, TickState, NoneClaimed
  <2>2. NoneQueued
    BY <1>10 DEF QueryLaunching, NoneQueued
  <2>3. NoDraft /\ hist'.released = hist.released
    BY <1>t, <1>10 DEF QueryLaunching, NoDraft
  <2>4. QED
    BY <1>10, <2>1, <2>2, <2>3 DEF Aside, NoneBegun, QueryLaunching
<1>11. CASE SweepRow(d)
  <2>1. NoneClaimed
    BY <1>t, <1>11 DEF SweepRow, SetTick, TickState, NoneClaimed
  <2>2. NoneQueued
    BY <1>t, <1>11, RowKeepsQueue DEF SweepRow, SetRow, RowStatus, Terminal
  <2>3. NoDraft /\ hist'.released = hist.released
    BY <1>t, <1>11 DEF SweepRow, NoDraft
  <2>4. QED
    BY <1>11, <2>1, <2>2, <2>3 DEF Aside, NoneBegun, SweepRow
<1>12. CASE SweepLost(d)
  <2>1. NoneClaimed
    BY <1>t, <1>12 DEF SweepLost, SetTick, TickState, NoneClaimed
  <2>2. NoneQueued
    BY <1>12 DEF SweepLost, NoneQueued
  <2>3. NoDraft /\ hist'.released = hist.released
    BY <1>t, <1>12 DEF SweepLost, NoDraft
  <2>4. QED
    BY <1>12, <2>1, <2>2, <2>3 DEF Aside, NoneBegun, SweepLost
<1>13. CASE ResolveTracking(d)
  <2>1. NoneClaimed
    BY <1>t, <1>13 DEF ResolveTracking, SetTick, TickState, NoneClaimed
  <2>2. NoneQueued
    BY <1>13 DEF ResolveTracking, NoneQueued
  <2>3. NoDraft /\ hist'.released = hist.released
    BY <1>t, <1>13 DEF ResolveTracking, NoDraft
  <2>4. QED
    BY <1>13, <2>1, <2>2, <2>3 DEF Aside, NoneBegun, ResolveTracking
<1>14. CASE SweepDone(d)
  <2>1. NoneClaimed
    BY <1>t, <1>i, <1>s, <1>14 DEF SweepDone, NoneClaimed
  <2>2. NoneQueued
    BY <1>14 DEF SweepDone, NoneQueued
  <2>3. NoDraft /\ hist'.released = hist.released
    BY <1>t, <1>14 DEF SweepDone, AddFailures, NoDraft, RunItem, History
  <2>4. QED
    BY <1>14, <2>1, <2>2, <2>3 DEF Aside, NoneBegun, SweepDone
<1>15. CASE DispatchFails(d)
  <2>1. NoneClaimed
    BY <1>t, <1>h, <1>15 DEF DispatchFails, NoneClaimed
  <2>2. NoneQueued
    BY <1>15 DEF DispatchFails, NoneQueued
  <2>3. NoDraft /\ hist'.released = hist.released
    BY <1>t, <1>15 DEF DispatchFails, NoDraft
  <2>4. QED
    BY <1>15, <2>1, <2>2, <2>3 DEF Aside, NoneBegun, DispatchFails
<1>16. CASE TickCrashes(d)
  <2>1. NoneClaimed
    BY <1>t, <1>i, <1>s, <1>16 DEF TickCrashes, NoneClaimed
  <2>2. NoneQueued
    BY <1>16 DEF TickCrashes, NoneQueued
  <2>3. NoDraft /\ hist'.released = hist.released
    BY <1>t, <1>16 DEF TickCrashes, NoDraft
  <2>4. QED
    BY <1>16, <2>1, <2>2, <2>3 DEF Aside, NoneBegun, TickCrashes
<1>q. QED
  BY <1>1, <1>2, <1>3, <1>4, <1>5, <1>6, <1>7, <1>8, <1>9, <1>10, <1>11, <1>12, <1>13,
     <1>14, <1>15, <1>16
  DEF DispatcherStep, DispatcherFault

(* So does a route under way, but for the put of the start route.          *)
LEMMA RequestsAside ==
  ASSUME TypeInv, NEW q \in Req, RequestProceeds(q) PROVE Aside \/ PutRow(q)
<1> USE DEF ReqUnchanged, OnlyReq
<1>t. /\ TypeOK
      /\ req \in [Req -> ReqState]
      /\ req[q] \in ReqState
      /\ run \in RunItem
      /\ hist \in History
  BY DEF TypeInv, TypeOK
<1>s. ASSUME NEW t, t.pc # "put", t.pc # "idle", SetReq(q, t) PROVE NoneBegun
  BY <1>t, <1>s DEF SetReq, NoneBegun
<1>k. ASSUME NEW f, NEW p, p # "put", p # "idle", ReqStep(q, f, p) PROVE NoneBegun
  BY <1>t, <1>k DEF ReqStep, SetReq, ReqState, NoneBegun
<1>c. ASSUME NEW r, CancelInstanceOf(q, r) PROVE NoneBegun
  BY <1>t, <1>c DEF CancelInstanceOf, SetReq, ReqState, NoneBegun
<1>i. IdleReq \in ReqState
  BY DEF IdleReq, ReqState, ReqPc
<1>1. CASE StartRun(q)
  <2>1. NoneBegun
    BY <1>t, <1>k, <1>1 DEF StartRun, NoneBegun
  <2>2. NoneQueued
    BY <1>1 DEF StartRun, NoneQueued
  <2>3. NoDraft /\ hist'.released = hist.released
    BY <1>t, <1>1 DEF StartRun, Running, NoneLate, NoDraft, RunItem, History
  <2>4. QED
    BY <1>1, <2>1, <2>2, <2>3 DEF Aside, NoneClaimed, StartRun
<1>2. CASE PauseRun(q)
  <2>1. NoneBegun
    BY <1>t, <1>k, <1>2 DEF PauseRun, NoneBegun
  <2>2. NoneQueued
    BY <1>2 DEF PauseRun, NoneQueued
  <2>3. NoDraft /\ hist'.released = hist.released
    BY <1>t, <1>2 DEF PauseRun, SetRun, NoDraft, RunItem, History
  <2>4. QED
    BY <1>2, <2>1, <2>2, <2>3 DEF Aside, NoneClaimed, PauseRun
<1>3. CASE ResumeRun(q)
  <2>1. NoneBegun
    BY <1>t, <1>k, <1>3 DEF ResumeRun, NoneBegun
  <2>2. NoneQueued
    BY <1>3 DEF ResumeRun, NoneQueued
  <2>3. NoDraft /\ hist'.released = hist.released
    BY <1>t, <1>3 DEF ResumeRun, Running, NoneLate, NoDraft, RunItem, History
  <2>4. QED
    BY <1>3, <2>1, <2>2, <2>3 DEF Aside, NoneClaimed, ResumeRun
<1>4. CASE ClaimQueued(q)
  <2>1. NoneBegun
    BY <1>t, <1>k, <1>4 DEF ClaimQueued, NoneBegun
  <2>2. NoneQueued
    BY <1>4 DEF ClaimQueued, NoneQueued
  <2>3. NoDraft /\ hist'.released = hist.released
    BY <1>t, <1>4 DEF ClaimQueued, NoDraft, RunItem, History
  <2>4. QED
    BY <1>4, <2>1, <2>2, <2>3 DEF Aside, NoneClaimed, ClaimQueued
<1>5. CASE ReadRows(q)
  <2>1. NoneBegun
    BY <1>t, <1>5 DEF ReadRows, SetReq, ReqState, NoneBegun
  <2>2. NoneQueued
    BY <1>5 DEF ReadRows, NoneQueued
  <2>3. NoDraft /\ hist'.released = hist.released
    BY <1>t, <1>5 DEF ReadRows, NoDraft
  <2>4. QED
    BY <1>5, <2>1, <2>2, <2>3 DEF Aside, NoneClaimed, ReadRows
<1>6. CASE CancelWaitingRow(q)
  <2>1. NoneBegun
    BY <1>t, <1>6 DEF CancelWaitingRow, SetReq, ReqState, NoneBegun
  <2>2. NoneQueued
    BY <1>t, <1>6 DEF CancelWaitingRow, TypeOK, RowItem, NoneQueued
  <2>3. NoDraft /\ hist'.released = hist.released
    BY <1>t, <1>6 DEF CancelWaitingRow, NoDraft
  <2>4. QED
    BY <1>6, <2>1, <2>2, <2>3 DEF Aside, NoneClaimed, CancelWaitingRow
<1>7. CASE ResolveLive(q)
  <2>1. NoneBegun
    BY <1>t, <1>7 DEF ResolveLive, SetReq, ReqState, NoneBegun
  <2>2. NoneQueued
    BY <1>t, <1>7, ResolveQueuesNone DEF ResolveLive
  <2>3. NoDraft /\ hist'.released = hist.released
    BY <1>t, <1>7 DEF ResolveLive, NoDraft
  <2>4. QED
    BY <1>7, <2>1, <2>2, <2>3 DEF Aside, NoneClaimed, ResolveLive
<1>8. CASE PickLiveRow(q)
  <2>1. NoneBegun
    BY <1>t, <1>c, <1>8 DEF PickLiveRow, NoneBegun
  <2>2. NoneQueued
    BY <1>8 DEF PickLiveRow, NoneQueued
  <2>3. NoDraft /\ hist'.released = hist.released
    BY <1>t, <1>8 DEF PickLiveRow, NoDraft
  <2>4. QED
    BY <1>8, <2>1, <2>2, <2>3 DEF Aside, NoneClaimed, PickLiveRow
<1>9. CASE NoLiveRowLeft(q)
  <2>1. NoneBegun
    BY <1>t, <1>k, <1>9 DEF NoLiveRowLeft, NoneBegun
  <2>2. NoneQueued
    BY <1>9 DEF NoLiveRowLeft, NoneQueued
  <2>3. NoDraft /\ hist'.released = hist.released
    BY <1>t, <1>9 DEF NoLiveRowLeft, NoDraft
  <2>4. QED
    BY <1>9, <2>1, <2>2, <2>3 DEF Aside, NoneClaimed, NoLiveRowLeft
<1>10. CASE RowRequest(q)
  <2>1. NoneBegun
    BY <1>t, <1>k, <1>c, <1>10
    DEF RowRequest, PickWaitingRow, PickLaunchedRow, RowRefused, SetReq, ReqState,
        NoneBegun
  <2>2. NoneQueued
    BY <1>10 DEF RowRequest, PickWaitingRow, PickLaunchedRow, RowRefused, NoneQueued
  <2>3. NoDraft /\ hist'.released = hist.released
    BY <1>t, <1>10 DEF RowRequest, PickWaitingRow, PickLaunchedRow, RowRefused, NoDraft
  <2>4. QED
    BY <1>10, <2>1, <2>2, <2>3
    DEF Aside, NoneClaimed, RowRequest, PickWaitingRow, PickLaunchedRow, RowRefused
<1>11. CASE CancelAtMaestro(q)
  <2>1. NoneBegun
    BY <1>t, <1>k, <1>11 DEF CancelAtMaestro, NoneBegun
  <2>2. NoneQueued
    BY <1>11 DEF CancelAtMaestro, NoneQueued
  <2>3. NoDraft /\ hist'.released = hist.released
    BY <1>t, <1>11 DEF CancelAtMaestro, NoDraft
  <2>4. QED
    BY <1>11, <2>1, <2>2, <2>3 DEF Aside, NoneClaimed, CancelAtMaestro
<1>12. CASE CancelLocally(q)
  <2>1. NoneBegun
    BY <1>t, <1>k, <1>12 DEF CancelLocally, NoneBegun
  <2>2. NoneQueued
    BY <1>12 DEF CancelLocally, NoneQueued
  <2>3. NoDraft /\ hist'.released = hist.released
    BY <1>t, <1>12 DEF CancelLocally, NoDraft
  <2>4. QED
    BY <1>12, <2>1, <2>2, <2>3 DEF Aside, NoneClaimed, CancelLocally
<1>13. CASE CancelLaunchedRow(q)
  <2>1. NoneBegun
    BY <1>t, <1>i, <1>13 DEF CancelLaunchedRow, SetReq, ReqState, NoneBegun
  <2>2. NoneQueued
    BY <1>t, <1>13 DEF CancelLaunchedRow, TypeOK, RowItem, NoneQueued
  <2>3. NoDraft /\ hist'.released = hist.released
    BY <1>t, <1>13 DEF CancelLaunchedRow, NoDraft
  <2>4. QED
    BY <1>13, <2>1, <2>2, <2>3 DEF Aside, NoneClaimed, CancelLaunchedRow
<1>14. CASE Reread(q)
  <2>1. NoneBegun
    BY <1>t, <1>14 DEF Reread, SetReq, ReqState, NoneBegun
  <2>2. NoneQueued
    BY <1>14 DEF Reread, NoneQueued
  <2>3. NoDraft /\ hist'.released = hist.released
    BY <1>t, <1>14 DEF Reread, NoDraft
  <2>4. QED
    BY <1>14, <2>1, <2>2, <2>3 DEF Aside, NoneClaimed, Reread
<1>15. CASE RecheckInstances(q)
  <2>1. NoneBegun
    BY <1>t, <1>i, <1>15 DEF RecheckInstances, SetReq, ReqState, NoneBegun
  <2>2. NoneQueued
    BY <1>t, <1>15, ResolveQueuesNone DEF RecheckInstances
  <2>3. NoDraft /\ hist'.released = hist.released
    BY <1>t, <1>15 DEF RecheckInstances, NoDraft
  <2>4. QED
    BY <1>15, <2>1, <2>2, <2>3 DEF Aside, NoneClaimed, RecheckInstances
<1>16. CASE CloseRun(q)
  <2>1. NoneBegun
    BY <1>t, <1>k, <1>16 DEF CloseRun, NoneBegun
  <2>2. NoneQueued
    BY <1>16 DEF CloseRun, NoneQueued
  <2>3. NoDraft /\ hist'.released = hist.released
    BY <1>t, <1>16 DEF CloseRun, SetRun, NoDraft, RunItem, History
  <2>4. QED
    BY <1>16, <2>1, <2>2, <2>3 DEF Aside, NoneClaimed, CloseRun
<1>q. QED
  BY <1>1, <1>2, <1>3, <1>4, <1>5, <1>6, <1>7, <1>8, <1>9, <1>10, <1>11, <1>12, <1>13,
     <1>14, <1>15, <1>16
  DEF RequestProceeds

----------------------------------------------------------------------------
(* The four steps that do take part.                                       *)
(* Rows are handled in order: one of them is the first.                    *)
LEMMA FirstIsOne ==
  ASSUME NEW R \in SUBSET Row, NEW r, NEW s, IsFirst(r, R), IsFirst(s, R) PROVE r = s
  BY ConstantsAssumption DEF IsFirst

(* The claim: a queued row, hence a fresh one, is claimed by this pass.    *)
LEMMA ClaimKeeps ==
  ASSUME TypeInv, ReleaseInv, NEW d \in Tick, ClaimRow(d) PROVE ReleaseInv'
<1> USE DEF TickUnchanged
<1>t. TypeOK
  BY DEF TypeInv
<1>1. PICK r \in tick[d].todo :
        /\ IsFirst(r, tick[d].todo) /\ row[r].status = "queued"
        /\ row' = [row EXCEPT ![r] = [@ EXCEPT !.status = "launching", !.stale = FALSE]]
  BY DEF ClaimRow, Claimable
<1>2. r \in Row /\ tick[d].todo \in SUBSET Row
  BY <1>t, <1>1 DEF TypeOK, TickState
<1>3. tick' = [tick EXCEPT ![d] = [tick[d] EXCEPT !.pc = "send"]] /\ tick[d].pc = "release"
  BY DEF ClaimRow, TickStep, SetTick
<1>4. /\ tick'[d].pc = "send" /\ tick'[d].todo = tick[d].todo
      /\ \A e \in Tick : e # d => tick'[e] = tick[e]
  BY <1>t, <1>3 DEF TypeOK, TickState
<1>5. \A s \in Row : Sending(d, s)' => s = r
  BY <1>1, <1>2, <1>4, FirstIsOne DEF Sending
<1>6. \A e \in Tick, s \in Row : e # d => (Sending(e, s)' <=> Sending(e, s))
  BY <1>4 DEF Sending
<1>7. Fresh(r)
  BY <1>1, <1>2 DEF ReleaseInv, QueuedIsFresh
<1>8. hist'.released = hist.released
  BY <1>t DEF ClaimRow, TypeOK, History
<1>9. \A s \in Row : s # r /\ Fresh(s) => Fresh(s)'
  BY <1>5, <1>6, <1>8 DEF Fresh
<1>10. /\ row'[r].status = "launching"
       /\ \A s \in Row : s # r => row'[s] = row[s]
  BY <1>t, <1>1, <1>2 DEF TypeOK, RowItem
<1>11. \A s \in Row : NotYet(s) => NotYet(s)'
  BY <1>1, <1>9, <1>10 DEF NotYet
<1>12. RowReleasedOnce'
  BY <1>8 DEF ReleaseInv, RowReleasedOnce
<1>13. QueuedIsFresh'
  BY <1>9, <1>10 DEF ReleaseInv, QueuedIsFresh
<1>14. OneSender'
  <2>1. SUFFICES ASSUME NEW e \in Tick, NEW s \in Row, Sending(e, s)'
                 PROVE  hist'.released[s] = 0 /\ \A f \in Tick : Sending(f, s)' => f = e
    BY DEF OneSender
  <2>2. CASE s = r
    BY <1>5, <1>6, <1>7, <1>8, <2>1, <2>2 DEF Fresh
  <2>3. CASE s # r
    BY <1>5, <1>6, <1>8, <2>1, <2>3 DEF ReleaseInv, OneSender
  <2>4. QED
    BY <2>2, <2>3
<1>15. req' = req /\ run' = run
  BY DEF ClaimRow
<1>16. PutIsFresh'
  <2>1. \A q \in Req : req[q].todo \in SUBSET Row
    BY <1>t DEF TypeOK, ReqState
  <2>2. QED
    BY <1>11, <1>15, <2>1 DEF ReleaseInv, PutIsFresh
<1>17. DraftIsFresh'
  BY <1>11, <1>15 DEF ReleaseInv, DraftIsFresh
<1>18. QED
  BY <1>12, <1>13, <1>14, <1>16, <1>17 DEF ReleaseInv

(* The send: the row was in the hands of this pass alone, unreleased.      *)
LEMMA SendKeeps ==
  ASSUME TypeInv, ReleaseInv, NEW d \in Tick, SendJob(d) PROVE ReleaseInv'
<1> USE DEF TickUnchanged
<1>t. TypeOK
  BY DEF TypeInv
<1>1. PICK r \in tick[d].todo :
        /\ tick[d].pc = "send" /\ IsFirst(r, tick[d].todo)
        /\ SetTick(d, [tick[d] EXCEPT !.pc = "release", !.todo = @ \ {r}, !.released = TRUE])
        /\ hist' = [hist EXCEPT !.released[r] = @ + 1]
  BY DEF SendJob
<1>2. r \in Row /\ Sending(d, r)
  BY <1>t, <1>1 DEF TypeOK, TickState, Sending
<1>3. tick'[d].pc = "release" /\ \A e \in Tick : e # d => tick'[e] = tick[e]
  BY <1>t, <1>1 DEF TypeOK, TickState, SetTick
<1>4. \A e \in Tick, s \in Row : Sending(e, s)' => Sending(e, s) /\ e # d
  BY <1>3 DEF Sending
<1>5. hist.released[r] = 0 /\ \A e \in Tick : Sending(e, r) => e = d
  BY <1>2 DEF ReleaseInv, OneSender
<1>6. hist'.released[r] = 1 /\ \A s \in Row : s # r => hist'.released[s] = hist.released[s]
  BY <1>t, <1>1, <1>2, <1>5 DEF TypeOK, History
<1>7. \A s \in Row : Fresh(s) => s # r /\ Fresh(s)'
  BY <1>2, <1>4, <1>6 DEF Fresh
<1>8. row' = row /\ req' = req /\ run' = run
  BY DEF SendJob
<1>9. \A s \in Row : NotYet(s) => NotYet(s)'
  BY <1>7, <1>8 DEF NotYet
<1>10. RowReleasedOnce'
  BY <1>6 DEF ReleaseInv, RowReleasedOnce
<1>11. QueuedIsFresh'
  BY <1>7, <1>8 DEF ReleaseInv, QueuedIsFresh
<1>12. OneSender'
  BY <1>4, <1>5, <1>6 DEF ReleaseInv, OneSender
<1>13. PutIsFresh'
  <2>1. \A q \in Req : req[q].todo \in SUBSET Row
    BY <1>t DEF TypeOK, ReqState
  <2>2. QED
    BY <1>8, <1>9, <2>1 DEF ReleaseInv, PutIsFresh
<1>14. DraftIsFresh'
  BY <1>8, <1>9 DEF ReleaseInv, DraftIsFresh
<1>15. QED
  BY <1>10, <1>11, <1>12, <1>13, <1>14 DEF ReleaseInv

(* The put: the row was not released before the one start puts it.         *)
LEMMA PutKeeps ==
  ASSUME TypeInv, ReleaseInv, OneStart, NEW q \in Req, PutRow(q) PROVE ReleaseInv'
<1> USE DEF ReqUnchanged
<1>t. TypeOK
  BY DEF TypeInv
<1>1. PICK r \in req[q].todo :
        /\ req[q].pc = "put"
        /\ row' = [row EXCEPT ![r] = [status |-> Plan[r], inst |-> None, stale |-> FALSE]]
        /\ SetReq(q, [req[q] EXCEPT !.todo = @ \ {r}])
  BY DEF PutRow
<1>2. r \in Row /\ req[q].todo \in SUBSET Row
  BY <1>t, <1>1 DEF TypeOK, ReqState
<1>3. tick' = tick /\ hist' = hist /\ run' = run
  BY DEF PutRow
<1>4. \A s \in Row : Fresh(s)' <=> Fresh(s)
  BY <1>3 DEF Fresh, Sending
<1>5. Kind[q] = "start" /\ Fresh(r)
  BY <1>1 DEF ReleaseInv, PutIsFresh, NotYet
<1>6. \A s \in Row : s # r => row'[s] = row[s]
  BY <1>t, <1>1, <1>2 DEF TypeOK
<1>7. /\ req'[q].pc = "put" /\ req'[q].todo = req[q].todo \ {r}
      /\ \A p \in Req : p # q => req'[p] = req[p]
  BY <1>t, <1>1 DEF TypeOK, ReqState, SetReq
<1>8. RowReleasedOnce'
  BY <1>3 DEF ReleaseInv, RowReleasedOnce
<1>9. QueuedIsFresh'
  BY <1>4, <1>5, <1>6 DEF ReleaseInv, QueuedIsFresh
<1>10. OneSender'
  BY <1>3 DEF ReleaseInv, OneSender, Sending
<1>11. PutIsFresh'
  <2>1. \A p \in Req : req'[p].pc = "put" => p = q
    BY <1>5, <1>7 DEF OneStart, ReleaseInv, PutIsFresh
  <2>2. \A s \in req'[q].todo : NotYet(s)'
    BY <1>1, <1>2, <1>4, <1>6, <1>7 DEF ReleaseInv, PutIsFresh, NotYet
  <2>3. QED
    BY <1>5, <2>1, <2>2 DEF PutIsFresh
<1>12. DraftIsFresh'
  BY <1>5, <1>7 DEF OneStart, DraftIsFresh
<1>13. QED
  BY <1>8, <1>9, <1>10, <1>11, <1>12 DEF ReleaseInv

(* A start begins on a draft, of which nothing has been released.          *)
LEMMA LoadKeeps ==
  ASSUME TypeInv, ReleaseInv, NEW q \in Req, Load(q) PROVE ReleaseInv'
<1> USE DEF ReqUnchanged, OnlyReq
<1>t. TypeOK
  BY DEF TypeInv
<1>1. row' = row /\ tick' = tick /\ hist' = hist /\ run' = run
  BY DEF Load
<1>2. \A s \in Row : (Fresh(s)' <=> Fresh(s)) /\ (NotYet(s)' <=> NotYet(s))
  BY <1>1 DEF NotYet, Fresh, Sending
<1>3. /\ req[q].pc = "idle" /\ Allowed(Kind[q])
      /\ req'[q].pc = FirstPc(Kind[q])
      /\ \A p \in Req : p # q => req'[p] = req[p]
      /\ req'[q].todo \in SUBSET Row
  BY <1>t DEF Load, TypeOK, ReqState, SetReq, IdleReq
<1>4. RowReleasedOnce' /\ QueuedIsFresh' /\ OneSender'
  BY <1>1, <1>2 DEF ReleaseInv, RowReleasedOnce, QueuedIsFresh, OneSender, Sending
<1>5. FirstPc(Kind[q]) # "idle" /\ (FirstPc(Kind[q]) = "put" => Kind[q] = "start")
  BY ConstantsAssumption DEF FirstPc, KindName
<1>6. Kind[q] = "start" => \A r \in Row : NotYet(r)
  BY <1>3 DEF Allowed, ReleaseInv, DraftIsFresh
<1>7. PutIsFresh'
  <2>1. \A p \in Req : req[p].todo \in SUBSET Row
    BY <1>t DEF TypeOK, ReqState
  <2>2. QED
    BY <1>2, <1>3, <1>5, <1>6, <2>1 DEF ReleaseInv, PutIsFresh
<1>8. DraftIsFresh'
  BY <1>1, <1>2, <1>3, <1>5 DEF ReleaseInv, DraftIsFresh
<1>9. QED
  BY <1>4, <1>7, <1>8 DEF ReleaseInv

----------------------------------------------------------------------------
(* The inductive step of NoDoubleRelease.                                  *)
LEMMA ReleaseStep ==
  ASSUME TypeInv, ReleaseInv, OneStart, [Next]_vars PROVE ReleaseInv'
<1>t. TypeOK
  BY DEF TypeInv
<1>1. CASE Environment
  BY <1>t, <1>1, EnvironmentAside, AsideKeeps
<1>2. ASSUME NEW d \in Tick, DispatcherStep(d) \/ DispatcherFault(d) PROVE ReleaseInv'
  BY <1>t, <1>2, DispatcherAside, AsideKeeps, ClaimKeeps, SendKeeps
<1>3. ASSUME NEW w \in Worker, LauncherStep(w) \/ LauncherFault(w) PROVE ReleaseInv'
  BY <1>t, <1>3, LauncherAside, AsideKeeps
<1>4. ASSUME NEW q \in Req, Load(q) \/ RequestProceeds(q) PROVE ReleaseInv'
  BY <1>t, <1>4, RequestsAside, AsideKeeps, PutKeeps, LoadKeeps
<1>5. CASE UNCHANGED vars
  <2>1. Aside
    BY <1>5 DEF vars, Aside, NoneQueued, NoneClaimed, NoneBegun, NoDraft
  <2>2. QED
    BY <1>t, <2>1, AsideKeeps
<1>6. QED
  BY <1>1, <1>2, <1>3, <1>4, <1>5 DEF Next

(* The double-release guard works: with one start request, no interleaving *)
(* of passes, requests, workers, crashes and faults has the dispatcher     *)
(* hand a row to the launcher queue twice.                                 *)
THEOREM NoDoubleRelease == OneStart => (Spec => []RowReleasedOnce)
<1> SUFFICES ASSUME OneStart PROVE Spec => []RowReleasedOnce
  OBVIOUS
<1>1. TypeInv /\ ReleaseInv /\ [Next]_vars => (TypeInv /\ ReleaseInv)'
  BY StepType, ReleaseStep
<1>2. Init => TypeInv /\ ReleaseInv
  BY InitType, ReleaseInit
<1>3. TypeInv /\ ReleaseInv => RowReleasedOnce
  BY DEF ReleaseInv
<1>4. QED
  BY <1>1, <1>2, <1>3, PTL DEF Spec

----------------------------------------------------------------------------
(* What the steps do to the run, the passes and the history.               *)

(* A worker and the environment leave the passes, the requests, the        *)
(* history and the status of the run alone.                                *)
LEMMA LauncherFrame ==
  ASSUME TypeOK, NEW w \in Worker, LauncherStep(w) \/ LauncherFault(w)
  PROVE  tick' = tick /\ req' = req /\ hist' = hist /\ run'.status = run.status
<1>1. tick' = tick /\ req' = req /\ hist' = hist
  BY DEF LauncherStep, LauncherFault, WorkerUnchanged,
         Receive, EnqueueRetry, LaunchSucceeds, PersistNew, TrackNew, RetryGuard,
         DenyInstance, LaunchFailsRetryably, LaunchRejected, PersistRetry,
         RecordRefused, ReadRun, AdoptRefused, UndoLaunch, UndoInstance, TrackAgain,
         FailInstance, FailRowAgain, Ack, ReplyLost, UndoRejected, TryFails,
         FinalFails, WorkerCrashes, GateDenies, RecordLaunch, AdoptLaunch,
         ResetStreak, ReferenceTracking, FailRow, CountFailure
<1>2. run'.status = run.status
  BY DEF LauncherStep, LauncherFault, AddFailures, TypeOK, RunItem,
         Receive, EnqueueRetry, LaunchSucceeds, PersistNew, TrackNew, RetryGuard,
         DenyInstance, LaunchFailsRetryably, LaunchRejected, PersistRetry,
         RecordRefused, ReadRun, AdoptRefused, UndoLaunch, UndoInstance, TrackAgain,
         FailInstance, FailRowAgain, Ack, ReplyLost, UndoRejected, TryFails,
         FinalFails, WorkerCrashes, GateDenies, RecordLaunch, AdoptLaunch,
         ResetStreak, ReferenceTracking, FailRow, CountFailure
<1>3. QED
  BY <1>1, <1>2

(* What SQS, the clock, the sync and the views leave alone: passes,        *)
(* requests, the history and the status of the run.                        *)
LEMMA EnvironmentFrame ==
  ASSUME TypeOK, Environment
  PROVE  tick' = tick /\ req' = req /\ hist' = hist /\ run'.status = run.status
  BY DEF Environment, ReleaseTimeComes, Age, Reappear, ReappearEarly, WorkflowEnds,
         SyncInstance, ViewRows, others, TypeOK, RunItem

(* A pass stops or completes a running run, promotes a queued one, or      *)
(* leaves its status and the count of notices alone.                       *)
RunKept      == run'.status = run.status /\ hist'.notices = hist.notices
RunStopped   == run.status = "running" /\ run'.status = "stopped" /\ hist'.notices = hist.notices
RunPromoted  == run.status = "queued" /\ run'.status \in {"running", "paused"}
                  /\ hist'.notices = hist.notices
RunFinished(d) ==
  /\ tick[d].pc = "complete" /\ run.status = "running" /\ run'.status = "completed"
  /\ hist'.notices = hist.notices + 1

(* A step of a pass moves no request and no other pass, releases late only *)
(* by a claim, and does one of those to the run.                           *)
LEMMA DispatcherOnRun ==
  ASSUME TypeOK, NEW d \in Tick, DispatcherStep(d) \/ DispatcherFault(d)
  PROVE  /\ req' = req
         /\ \A e \in Tick : e # d => tick'[e] = tick[e]
         /\ hist'.late = hist.late \/ ClaimRow(d)
         /\ RunKept \/ RunStopped \/ RunPromoted \/ RunFinished(d)
<1> USE DEF TickUnchanged
<1>1. req' = req
  BY DEF DispatcherStep, DispatcherFault, ScanRunning, StopRun, QueryQueuedRows, ClaimRow,
         ClaimLost, SendJob, AdvanceRelease, CheckRows, CheckInstances, CompleteRun, PromoteRun,
         QueryLaunching, SweepRow, SweepLost, ResolveTracking, SweepDone, DispatchFails, TickCrashes
<1>2. \A e \in Tick : e # d => tick'[e] = tick[e]
  BY DEF DispatcherStep, DispatcherFault, ScanRunning, StopRun, QueryQueuedRows, ClaimRow,
         ClaimLost, SendJob, AdvanceRelease, CheckRows, CheckInstances, CompleteRun, PromoteRun,
         QueryLaunching, SweepRow, SweepLost, ResolveTracking, SweepDone, DispatchFails, TickCrashes,
         ToHeld, TickStep, SetTick, TypeOK
<1>3. hist'.late = hist.late \/ ClaimRow(d)
  BY DEF DispatcherStep, DispatcherFault, ScanRunning, StopRun, QueryQueuedRows,
         ClaimLost, SendJob, AdvanceRelease, CheckRows, CheckInstances, CompleteRun, PromoteRun,
         QueryLaunching, SweepRow, SweepLost, ResolveTracking, SweepDone, DispatchFails, TickCrashes,
         TypeOK, History
<1>4. RunKept \/ RunStopped \/ RunPromoted \/ RunFinished(d)
  <2> USE DEF TypeOK, RunItem, History, RunKept
  <2>1. CASE StopRun(d)
    BY <2>1 DEF StopRun, RunStopped
  <2>2. CASE CompleteRun(d)
    BY <2>2 DEF CompleteRun, Completable, SetRun, RunFinished
  <2>3. CASE PromoteRun(d)
    BY <2>3 DEF PromoteRun, RunPromoted
  <2>4. CASE AdvanceRelease(d) \/ SweepDone(d)
    BY <2>4 DEF AdvanceRelease, WithLaterRelease, SweepDone, AddFailures
  <2>5. CASE run' = run /\ hist'.notices = hist.notices
    BY <2>5
  <2>6. QED
    BY <2>1, <2>2, <2>3, <2>4, <2>5
    DEF DispatcherStep, DispatcherFault, ScanRunning, QueryQueuedRows, ClaimRow,
         ClaimLost, SendJob, CheckRows, CheckInstances,
         QueryLaunching, SweepRow, SweepLost, ResolveTracking, DispatchFails, TickCrashes
<1>5. QED
  BY <1>1, <1>2, <1>3, <1>4

(* A route sets the run running (start and resume, which forget the late   *)
(* releases), paused or cancelled, or leaves it and the history alone.     *)
RouteKept    == run'.status = run.status /\ hist' = hist
RouteRuns(q) == /\ \/ Kind[q] = "start" /\ req[q].pc = "put" /\ req[q].todo = {}
                   \/ Kind[q] = "resume" /\ req[q].pc = "write"
                /\ req'[q].pc = "done" /\ run'.status = "running"
                /\ hist'.late = 0 /\ hist'.notices = hist.notices
RoutePauses(q) == Kind[q] = "pause" /\ req[q].pc = "write" /\ run'.status = "paused" /\ hist' = hist
RouteClaims(q) == /\ req[q].pc = "claim" /\ run.status = "queued" /\ run'.status = "cancelled"
                  /\ hist' = hist
RouteCloses(q) == req[q].pc = "close" /\ run'.status = "cancelled" /\ hist' = hist

(* A step of a request moves no pass and no other request, and does one of *)
(* those to the run.                                                       *)
LEMMA RequestOnRun ==
  ASSUME TypeOK, NEW q \in Req, Load(q) \/ RequestProceeds(q)
  PROVE  /\ tick' = tick
         /\ \A p \in Req : p # q => req'[p] = req[p]
         /\ RouteKept \/ RouteRuns(q) \/ RoutePauses(q) \/ RouteClaims(q) \/ RouteCloses(q)
<1> USE DEF ReqUnchanged, OnlyReq
<1>1. tick' = tick
  BY DEF Load, RequestProceeds, PutRow, StartRun, PauseRun, ResumeRun, ClaimQueued, ReadRows,
         CancelWaitingRow, ResolveLive, PickLiveRow, NoLiveRowLeft, RowRequest, PickWaitingRow,
         PickLaunchedRow, RowRefused, CancelAtMaestro, CancelLocally, CancelLaunchedRow, Reread,
         RecheckInstances, CloseRun
<1>2. \A p \in Req : p # q => req'[p] = req[p]
  BY DEF Load, RequestProceeds, PutRow, StartRun, PauseRun, ResumeRun, ClaimQueued, ReadRows,
         CancelWaitingRow, ResolveLive, PickLiveRow, NoLiveRowLeft, RowRequest, PickWaitingRow,
         PickLaunchedRow, RowRefused, CancelAtMaestro, CancelLocally, CancelLaunchedRow, Reread,
         RecheckInstances, CloseRun, ReqStep, SetReq, CancelInstanceOf, TypeOK
<1>3. RouteKept \/ RouteRuns(q) \/ RoutePauses(q) \/ RouteClaims(q) \/ RouteCloses(q)
  <2> USE DEF TypeOK, RunItem, History, ReqState, ReqStep, SetReq
  <2>1. CASE StartRun(q)
    BY <2>1 DEF StartRun, Running, NoneLate, RouteRuns
  <2>2. CASE ResumeRun(q)
    BY <2>2 DEF ResumeRun, Running, NoneLate, RouteRuns
  <2>3. CASE PauseRun(q)
    BY <2>3 DEF PauseRun, SetRun, RoutePauses
  <2>4. CASE ClaimQueued(q)
    BY <2>4 DEF ClaimQueued, RouteClaims, RouteKept
  <2>5. CASE CloseRun(q)
    BY <2>5 DEF CloseRun, SetRun, RouteCloses
  <2>6. CASE run' = run /\ hist' = hist
    BY <2>6 DEF RouteKept
  <2>7. QED
    BY <2>1, <2>2, <2>3, <2>4, <2>5, <2>6
    DEF Load, RequestProceeds, PutRow, ReadRows,
         CancelWaitingRow, ResolveLive, PickLiveRow, NoLiveRowLeft, RowRequest, PickWaitingRow,
         PickLaunchedRow, RowRefused, CancelAtMaestro, CancelLocally, CancelLaunchedRow, Reread,
         RecheckInstances
<1>4. QED
  BY <1>1, <1>2, <1>3

----------------------------------------------------------------------------
(* Late releases.  A pass that has scanned the run may still release the   *)
(* batch it was to read or has read; each slot of a batch is used once.    *)
Left(d) ==
  CASE tick[d].pc = "dispatch" -> ReleaseCount
    [] tick[d].pc = "release"  -> Cardinality(tick[d].todo)
    [] tick[d].pc = "send"     -> Cardinality(tick[d].todo) - 1
    [] OTHER                   -> 0
Slots == {s \in Tick \X (1 .. ReleaseCount) : s[2] <= Left(s[1])}

(* LateReleasesBounded is not inductive alone: what was released late and  *)
(* what still may be fit together into a batch for each pass.              *)
BatchesFit == \A d \in Tick : tick[d].pc \in {"release", "send"}
                                => Cardinality(tick[d].todo) <= ReleaseCount
LateFits == hist.late + Cardinality(Slots) <= ReleaseCount * Cardinality(Tick)
NoneLateYet ==
  /\ run.status \in {"running", "queued"} => hist.late = 0
  /\ run.status = "queued" => Slots = {}
LateInv == BatchesFit /\ LateFits /\ NoneLateYet

(* The first n of a finite set of rows are at most n: their ranks differ.  *)
LEMMA FirstRowsBounded ==
  ASSUME NEW n \in Nat, NEW R \in SUBSET Row
  PROVE  IsFiniteSet(FirstRows(n, R)) /\ Cardinality(FirstRows(n, R)) <= n
<1> DEFINE F == FirstRows(n, R)
           Below(r) == {s \in R : s < r}
           rank == [r \in F |-> Cardinality(Below(r))]
<1>1. IsFiniteSet(R) /\ R \subseteq Nat
  BY ConstantsAssumption, FS_Subset
<1>2. F \subseteq R
  BY DEF FirstRows
<1>3. \A r \in R : IsFiniteSet(Below(r)) /\ Cardinality(Below(r)) \in Nat
  BY <1>1, FS_Subset, FS_CardinalityType
<1>4. \A r \in F : Cardinality(Below(r)) \in 0 .. (n - 1)
  <2>1. ASSUME NEW r \in F PROVE Cardinality(Below(r)) < n
    BY DEF FirstRows
  <2>2. QED
    BY <1>2, <1>3, <2>1
<1>5. rank \in [F -> 0 .. (n - 1)]
  BY <1>4
<1>6. ASSUME NEW r \in R, NEW s \in R, r < s PROVE Cardinality(Below(r)) # Cardinality(Below(s))
  <2>1. Below(r) \subseteq Below(s) /\ r \in Below(s) /\ r \notin Below(r)
    <3>1. ASSUME NEW t \in Below(r) PROVE t \in Below(s)
      BY <1>1, <1>6, <3>1
    <3>2. r \in Below(s)
      BY <1>6
    <3>3. ~(r < r)
      BY <1>1
    <3>4. QED
      BY <3>1, <3>2, <3>3
  <2>2. Below(r) # Below(s)
    BY <2>1
  <2>3. QED
    BY <1>3, <2>1, <2>2, FS_Subset
<1>7. \A r, s \in F : rank[r] = rank[s] => r = s
  <2>1. SUFFICES ASSUME NEW r \in F, NEW s \in F, r # s PROVE rank[r] # rank[s]
    OBVIOUS
  <2>2. r \in Nat /\ s \in Nat /\ r \in R /\ s \in R
    BY <1>1, <1>2
  <2>3. CASE r < s
    BY <1>6, <2>2, <2>3
  <2>4. CASE s < r
    BY <1>6, <2>2, <2>4
  <2>5. QED
    BY <2>1, <2>2, <2>3, <2>4
<1>8. rank \in Injection(F, 0 .. (n - 1))
  BY <1>5, <1>7 DEF Injection, IsInjective
<1>9. IsFiniteSet(0 .. (n - 1)) /\ Cardinality(0 .. (n - 1)) = n
  BY FS_Interval
<1>10. QED
  BY <1>8, <1>9, FS_Injection

(* The rows in the hands of a pass can be counted.                         *)
LEMMA TodoFinite ==
  ASSUME TypeOK, NEW d \in Tick
  PROVE  IsFiniteSet(tick[d].todo) /\ Cardinality(tick[d].todo) \in Nat
<1>1. tick[d].todo \in SUBSET Row
  BY DEF TypeOK, TickState
<1>2. QED
  BY <1>1, ConstantsAssumption, FS_Subset, FS_CardinalityType

(* So can the slots that are left.                                         *)
LEMMA SlotsFinite ==
  ASSUME IsFiniteSet(Tick)
  PROVE  /\ IsFiniteSet(Slots) /\ Cardinality(Slots) \in Nat
         /\ Cardinality(Tick) \in Nat
         /\ Cardinality(Slots) <= ReleaseCount * Cardinality(Tick)
<1>1. IsFiniteSet(1 .. ReleaseCount) /\ Cardinality(1 .. ReleaseCount) = ReleaseCount
  BY ConstantsAssumption, FS_Interval
<1>2. /\ IsFiniteSet(Tick \X (1 .. ReleaseCount))
      /\ Cardinality(Tick \X (1 .. ReleaseCount)) = Cardinality(Tick) * ReleaseCount
  BY <1>1, FS_Product
<1>3. Slots \in SUBSET (Tick \X (1 .. ReleaseCount))
  BY DEF Slots
<1>4. Cardinality(Tick) \in Nat /\ ReleaseCount \in Nat
  BY FS_CardinalityType, ConstantsAssumption
<1>5. IsFiniteSet(Slots) /\ Cardinality(Slots) <= Cardinality(Tick) * ReleaseCount
  BY <1>2, <1>3, FS_Subset
<1>6. Cardinality(Slots) \in Nat
  BY <1>5, FS_CardinalityType
<1>7. QED
  BY <1>4, <1>5, <1>6

(* Before the first step no pass is under way.                             *)
LEMMA LateInit == ASSUME IsFiniteSet(Tick), Init PROVE LateInv
<1>1. \A d \in Tick : tick[d].pc = "idle"
  BY DEF Init, IdleTick
<1>2. hist.late = 0
  BY DEF Init
<1>3. QED
  <2>1. Slots = {}
    BY <1>1, ConstantsAssumption DEF Slots, Left
  <2>2. QED
    BY <1>1, <1>2, <2>1, SlotsFinite DEF LateInv, BatchesFit, LateFits, NoneLateYet

(* A step that makes no slot and no late release keeps the invariant.      *)
LEMMA NoSlotKeeps ==
  ASSUME IsFiniteSet(Tick), TypeOK, LateInv, BatchesFit',
         \A d \in Tick, k \in 1 .. ReleaseCount : k <= Left(d)' => k <= Left(d),
         hist'.late \in {hist.late, 0},
         run'.status = "running" => run.status \in {"running", "queued"} \/ hist'.late = 0,
         run'.status = "queued" => run.status = "queued"
  PROVE  LateInv'
<1>1. Slots' \subseteq Slots
  BY DEF Slots
<1>2. Cardinality(Slots') <= Cardinality(Slots) /\ Cardinality(Slots') \in Nat
  BY <1>1, SlotsFinite, FS_Subset, FS_CardinalityType
<1>3. hist.late \in Nat
  BY DEF TypeOK, History
<1>4. LateFits'
  <2>1. /\ Cardinality(Slots) \in Nat /\ Cardinality(Tick) \in Nat /\ ReleaseCount \in Nat
        /\ Cardinality(Slots) <= ReleaseCount * Cardinality(Tick)
    BY SlotsFinite, ConstantsAssumption
  <2> DEFINE a == Cardinality(Slots)'  b == Cardinality(Slots)  c == ReleaseCount * Cardinality(Tick)
  <2>2. a \in Nat /\ b \in Nat /\ c \in Nat /\ a <= b
    BY <1>2, <2>1
  <2>3. hist.late + b <= c
    BY DEF LateInv, LateFits
  <2> HIDE DEF a, b, c
  <2>4. hist'.late + a <= c
    BY <1>3, <2>2, <2>3
  <2>5. QED
    BY <2>4 DEF LateFits, a, c
<1>5. NoneLateYet'
  BY <1>1, <1>3 DEF LateInv, NoneLateYet
<1>6. QED
  BY <1>4, <1>5 DEF LateInv

(* The scan finds the run running: nothing was late, and there is room for *)
(* a batch of every pass.                                                  *)
LEMMA ScanKeepsLate ==
  ASSUME IsFiniteSet(Tick), TypeOK, LateInv, NEW d \in Tick, ScanRunning(d), run.status = "running"
  PROVE  LateInv'
<1>1. run' = run /\ hist' = hist
  BY DEF ScanRunning
<1>2. tick'[d].pc \in {"dispatch", "held"} /\ \A e \in Tick : e # d => tick'[e] = tick[e]
  BY DEF ScanRunning, SetTick, TypeOK, TickState, IdleTick
<1>3. hist.late = 0
  BY DEF LateInv, NoneLateYet
<1>4. BatchesFit'
  BY <1>2 DEF LateInv, BatchesFit
<1>5. LateFits'
  <2>1. /\ Cardinality(Slots)' \in Nat
        /\ Cardinality(Slots)' <= ReleaseCount * Cardinality(Tick)
    <3>1. IsFiniteSet(1 .. ReleaseCount) /\ Cardinality(1 .. ReleaseCount) = ReleaseCount
      BY ConstantsAssumption, FS_Interval
    <3>2. /\ IsFiniteSet(Tick \X (1 .. ReleaseCount))
          /\ Cardinality(Tick \X (1 .. ReleaseCount)) = Cardinality(Tick) * ReleaseCount
      BY <3>1, FS_Product
    <3>3. Slots' \in SUBSET (Tick \X (1 .. ReleaseCount))
      BY DEF Slots
    <3>4. Cardinality(Tick) \in Nat /\ ReleaseCount \in Nat
      BY FS_CardinalityType, ConstantsAssumption
    <3>5. IsFiniteSet(Slots') /\ Cardinality(Slots') <= Cardinality(Tick) * ReleaseCount
      BY <3>2, <3>3, FS_Subset
    <3>6. Cardinality(Slots') \in Nat
      BY <3>5, FS_CardinalityType
    <3>7. QED
      BY <3>4, <3>5, <3>6
  <2>2. QED
    BY <1>1, <1>3, <2>1 DEF LateFits
<1>6. NoneLateYet'
  BY <1>1 , <1>3 DEF NoneLateYet
<1>7. QED
  BY <1>4, <1>5, <1>6 DEF LateInv

(* A claim uses up the last slot of its pass.                              *)
LEMMA ClaimKeepsLate ==
  ASSUME IsFiniteSet(Tick), TypeOK, LateInv, NEW d \in Tick, ClaimRow(d) PROVE LateInv'
<1> USE DEF TickUnchanged
<1>1. /\ tick[d].pc = "release" /\ tick'[d].pc = "send" /\ tick'[d].todo = tick[d].todo
      /\ \A e \in Tick : e # d => tick'[e] = tick[e]
  BY DEF ClaimRow, TickStep, SetTick, TypeOK, TickState
<1>2. /\ hist'.late = IF run.status = "running" THEN hist.late ELSE hist.late + 1
      /\ run' = run /\ hist.late \in Nat
  BY DEF ClaimRow, TypeOK, History
<1>3. /\ IsFiniteSet(tick[d].todo) /\ Cardinality(tick[d].todo) \in Nat
      /\ Cardinality(tick[d].todo) <= ReleaseCount
      /\ tick[d].todo # {}
  BY <1>1, TodoFinite DEF LateInv, BatchesFit, ClaimRow
<1> DEFINE n == Cardinality(tick[d].todo)
<1>4. n \in 1 .. ReleaseCount
  BY <1>3, FS_EmptySet, ConstantsAssumption
<1>5. Left(d) = n /\ Left(d)' = n - 1 /\ \A e \in Tick : e # d => Left(e)' = Left(e)
  BY <1>1 DEF Left
<1>6. Slots' = Slots \ {<<d, n>>} /\ <<d, n>> \in Slots
  <2>1. <<d, n>> \in Slots
    BY <1>4, <1>5 DEF Slots
  <2>2. ASSUME NEW e \in Tick, NEW k \in 1 .. ReleaseCount
        PROVE  k <= Left(e)' <=> k <= Left(e) /\ <<e, k>> # <<d, n>>
    <3>1. CASE e = d
      BY <1>4, <1>5, <3>1
    <3>2. CASE e # d
      BY <1>5, <3>2
    <3>3. QED
      BY <3>1, <3>2
  <2>3. QED
    BY <2>1, <2>2 DEF Slots
<1>7. Cardinality(Slots') = Cardinality(Slots) - 1 /\ Cardinality(Slots) \in Nat
  BY <1>6, SlotsFinite, FS_RemoveElement
<1>8. LateFits'
  <2>1. hist'.late + Cardinality(Slots') <= hist.late + Cardinality(Slots)
    BY <1>2, <1>7
  <2>2. /\ hist.late + Cardinality(Slots) <= ReleaseCount * Cardinality(Tick)
        /\ hist'.late \in Nat /\ hist.late \in Nat
        /\ Cardinality(Slots') \in Int /\ Cardinality(Slots) \in Nat
        /\ Cardinality(Tick) \in Nat /\ ReleaseCount \in Nat
    BY <1>2, <1>7, SlotsFinite, ConstantsAssumption DEF LateInv, LateFits
  <2> DEFINE a == Cardinality(Slots')  b == Cardinality(Slots)  c == ReleaseCount * Cardinality(Tick)
  <2>3. c \in Nat
    BY <2>2
  <2> HIDE DEF a, b, c
  <2>4. hist'.late + a <= c
    BY <2>1, <2>2, <2>3 DEF a, b, c
  <2>5. QED
    BY <2>4 DEF LateFits, a, c
<1>9. BatchesFit'
  BY <1>1, <1>3 DEF LateInv, BatchesFit
<1>10. NoneLateYet'
  BY <1>2, <1>3, <1>6 DEF LateInv, NoneLateYet
<1>11. QED
  BY <1>8, <1>9, <1>10 DEF LateInv

(* A step of a pass other than the scan of a running run and the claim     *)
(* makes no slot, and no batch greater than releaseCount.                  *)
LEMMA PassLeavesLess ==
  ASSUME TypeOK, LateInv, NEW d \in Tick, DispatcherStep(d) \/ DispatcherFault(d),
         ~ClaimRow(d), ~(ScanRunning(d) /\ run.status = "running")
  PROVE  /\ \A k \in 1 .. ReleaseCount : k <= Left(d)' => k <= Left(d)
         /\ tick'[d].pc \in {"release", "send"} => Cardinality(tick'[d].todo) <= ReleaseCount
<1> USE DEF TickUnchanged
<1>l. /\ ReleaseCount \in Nat \ {0}
      /\ IsFiniteSet(tick[d].todo) /\ Cardinality(tick[d].todo) \in Nat
      /\ tick[d].pc \in {"release", "send"} => Cardinality(tick[d].todo) <= ReleaseCount
  BY TodoFinite, ConstantsAssumption DEF LateInv, BatchesFit
<1>t. tick \in [Tick -> TickState] /\ tick[d] \in TickState
  BY DEF TypeOK
<1>1. CASE QueryQueuedRows(d)
  <2> DEFINE Q == {r \in Row : row[r].status = "queued"}
  <2>1. /\ tick[d].pc = "dispatch" /\ tick'[d].pc = "release"
        /\ tick'[d].todo = FirstRows(ReleaseCount, Q)
    BY <1>t, <1>1 DEF QueryQueuedRows, SetTick, TickState, ReleaseLimit
  <2>2. IsFiniteSet(tick'[d].todo) /\ Cardinality(tick'[d].todo) <= ReleaseCount
    BY <1>l, <2>1, FirstRowsBounded
  <2>3. Cardinality(tick'[d].todo) \in Nat
    BY <2>2, FS_CardinalityType
  <2>4. QED
    BY <1>l, <2>1, <2>2, <2>3 DEF Left
<1>2. CASE ClaimLost(d)
  <2>1. PICK r \in tick[d].todo :
          /\ tick[d].pc = "release" /\ SetTick(d, [tick[d] EXCEPT !.todo = @ \ {r}])
    BY <1>2 DEF ClaimLost
  <2>2. tick'[d].pc = "release" /\ tick'[d].todo = tick[d].todo \ {r}
    BY <1>t, <2>1 DEF SetTick, TickState
  <2>3. Cardinality(tick'[d].todo) = Cardinality(tick[d].todo) - 1
    BY <1>l, <2>1, <2>2, FS_RemoveElement
  <2>4. QED
    BY <1>l, <2>1, <2>2, <2>3 DEF Left
<1>3. CASE SendJob(d)
  <2>1. PICK r \in tick[d].todo :
          /\ tick[d].pc = "send"
          /\ SetTick(d, [tick[d] EXCEPT !.pc = "release", !.todo = @ \ {r}, !.released = TRUE])
    BY <1>3 DEF SendJob
  <2>2. tick'[d].pc = "release" /\ tick'[d].todo = tick[d].todo \ {r}
    BY <1>t, <2>1 DEF SetTick, TickState
  <2>3. Cardinality(tick'[d].todo) = Cardinality(tick[d].todo) - 1
    BY <1>l, <2>1, <2>2, FS_RemoveElement
  <2>4. QED
    BY <1>l, <2>1, <2>2, <2>3 DEF Left
<1>4. CASE PromoteRun(d)
  <2>1. tick' = tick
    BY <1>4 DEF PromoteRun
  <2>2. QED
    BY <1>l, <2>1 DEF Left
<1>5. CASE tick'[d].pc \notin {"dispatch", "release", "send"}
  BY <1>l, <1>5 DEF Left
<1>6. QED
  <2>1. \A s : SetTick(d, s) => tick'[d] = s
    BY <1>t DEF SetTick
  <2>2. ToHeld(d) => tick'[d].pc = "held"
    BY <2>1 DEF ToHeld, IdleTick
  <2>3. CASE ScanRunning(d)
    BY <1>5, <2>1, <2>3 DEF ScanRunning, InRunningScan, IdleTick
  <2>4. CASE StopRun(d) \/ CompleteRun(d) \/ DispatchFails(d)
    BY <1>5, <2>2, <2>4 DEF StopRun, CompleteRun, DispatchFails
  <2>5. CASE AdvanceRelease(d) \/ CheckRows(d) \/ CheckInstances(d)
    BY <1>t, <1>5, <2>1, <2>2, <2>5 DEF AdvanceRelease, CheckRows, CheckInstances, TickStep, TickState
  <2>6. CASE QueryLaunching(d) \/ SweepDone(d) \/ TickCrashes(d)
    <3>1. CASE QueryLaunching(d)
      BY <1>t, <1>5, <3>1 DEF QueryLaunching, SetTick, IdleTick
    <3>2. CASE SweepDone(d) \/ TickCrashes(d)
      BY <1>5, <2>1, <3>2 DEF SweepDone, TickCrashes, IdleTick
    <3>3. QED
      BY <2>6, <3>1, <3>2
  <2>7. CASE SweepRow(d) \/ SweepLost(d) \/ ResolveTracking(d)
    BY <1>t, <1>5, <2>1, <2>7 DEF SweepRow, SweepLost, ResolveTracking, TickState
  <2>8. QED
    BY <1>1, <1>2, <1>3, <1>4, <2>3, <2>4, <2>5, <2>6, <2>7 DEF DispatcherStep, DispatcherFault

(* A pass keeps the account of late releases.                              *)
LEMMA DispatcherKeepsLate ==
  ASSUME IsFiniteSet(Tick), TypeOK, LateInv, NEW d \in Tick, DispatcherStep(d) \/ DispatcherFault(d)
  PROVE  LateInv'
<1>1. CASE ClaimRow(d)
  BY <1>1, ClaimKeepsLate
<1>2. CASE ScanRunning(d) /\ run.status = "running"
  BY <1>2, ScanKeepsLate
<1>3. CASE ~ClaimRow(d) /\ ~(ScanRunning(d) /\ run.status = "running")
  <2>1. /\ \A e \in Tick : e # d => tick'[e] = tick[e]
        /\ hist'.late = hist.late
        /\ RunKept \/ RunStopped \/ RunPromoted \/ RunFinished(d)
    BY <1>3, DispatcherOnRun
  <2>2. /\ \A k \in 1 .. ReleaseCount : k <= Left(d)' => k <= Left(d)
        /\ tick'[d].pc \in {"release", "send"} => Cardinality(tick'[d].todo) <= ReleaseCount
    BY <1>3, PassLeavesLess
  <2>3. \A e \in Tick : e # d => Left(e)' = Left(e)
    BY <2>1 DEF Left
  <2>4. BatchesFit'
    BY <2>1, <2>2 DEF LateInv, BatchesFit
  <2>5. \A e \in Tick, k \in 1 .. ReleaseCount : k <= Left(e)' => k <= Left(e)
    BY <2>2, <2>3
  <2>6. /\ run'.status = "running" => run.status \in {"running", "queued"}
        /\ run'.status = "queued" => run.status = "queued"
    BY <2>1 DEF RunKept, RunStopped, RunPromoted, RunFinished
  <2>7. QED
    BY <2>1, <2>4, <2>5, <2>6, NoSlotKeeps
<1>4. QED
  BY <1>1, <1>2, <1>3

(* A step that leaves the passes alone, and no late release in a run it    *)
(* sets running, keeps it too.                                             *)
LEMMA StillPassesKeepLate ==
  ASSUME IsFiniteSet(Tick), TypeOK, LateInv, tick' = tick, hist'.late \in {hist.late, 0},
         run'.status = "running" => run.status = "running" \/ hist'.late = 0,
         run'.status = "queued" => run.status = "queued"
  PROVE  LateInv'
<1>1. BatchesFit' /\ \A d \in Tick : Left(d)' = Left(d)
  BY DEF LateInv, BatchesFit, Left
<1>2. QED
  BY <1>1, NoSlotKeeps

(* The inductive step of LateReleasesAreBounded.                           *)
LEMMA LateStep ==
  ASSUME IsFiniteSet(Tick), TypeOK, LateInv, [Next]_vars PROVE LateInv'
<1>1. CASE Environment
  BY <1>1, EnvironmentFrame, StillPassesKeepLate
<1>2. ASSUME NEW d \in Tick, DispatcherStep(d) \/ DispatcherFault(d) PROVE LateInv'
  BY <1>2, DispatcherKeepsLate
<1>3. ASSUME NEW w \in Worker, LauncherStep(w) \/ LauncherFault(w) PROVE LateInv'
  BY <1>3, LauncherFrame, StillPassesKeepLate
<1>4. ASSUME NEW q \in Req, Load(q) \/ RequestProceeds(q) PROVE LateInv'
  <2>1. tick' = tick /\ (RouteKept \/ RouteRuns(q) \/ RoutePauses(q) \/ RouteClaims(q) \/ RouteCloses(q))
    BY <1>4, RequestOnRun
  <2>2. QED
    BY <2>1, StillPassesKeepLate DEF RouteKept, RouteRuns, RoutePauses, RouteClaims, RouteCloses
<1>5. CASE UNCHANGED vars
  <2>1. tick' = tick /\ hist' = hist /\ run' = run
    BY <1>5 DEF vars
  <2>2. QED
    BY <2>1, StillPassesKeepLate
<1>6. QED
  BY <1>1, <1>2, <1>3, <1>4, <1>5 DEF Next

(* Pausing, stopping or cancelling a run holds its remaining rows, but for *)
(* one batch of each pass that was under way, however many passes there    *)
(* are and however requests, crashes and faults fall between their steps.  *)
THEOREM LateReleasesAreBounded == IsFiniteSet(Tick) => (Spec => []LateReleasesBounded)
<1> SUFFICES ASSUME IsFiniteSet(Tick) PROVE Spec => []LateReleasesBounded
  OBVIOUS
<1>1. TypeInv /\ LateInv /\ [Next]_vars => (TypeInv /\ LateInv)'
  BY StepType, LateStep DEF TypeInv
<1>2. Init => TypeInv /\ LateInv
  BY InitType, LateInit
<1>3. TypeInv /\ LateInv => LateReleasesBounded
  <2>1. SUFFICES ASSUME TypeInv, LateInv PROVE LateReleasesBounded
    OBVIOUS
  <2>2. Cardinality(Slots) \in Nat /\ hist.late \in Nat
        /\ Cardinality(Tick) \in Nat /\ ReleaseCount \in Nat
    BY <2>1, SlotsFinite, ConstantsAssumption DEF TypeInv, TypeOK, History
  <2> DEFINE c == ReleaseCount * Cardinality(Tick)
  <2>3. c \in Nat /\ hist.late + Cardinality(Slots) <= c
    BY <2>1, <2>2 DEF LateInv, LateFits
  <2> HIDE DEF c
  <2>4. hist.late <= c
    BY <2>2, <2>3
  <2>5. QED
    BY <2>4 DEF LateReleasesBounded, c
<1>4. QED
  BY <1>1, <1>2, <1>3, PTL DEF Spec

----------------------------------------------------------------------------
(* One notice per finished run.                                            *)
NoResume == \A q \in Req : Kind[q] # "resume"

(* A run that has been noticed is over for good: it is not started, for    *)
(* its one start request is done, and nothing else sets a run running.     *)
Noticed == hist.notices >= 1 => run.status \notin {"draft", "queued", "running"}
StartComesFirst ==
  \A q \in Req : Kind[q] = "start" /\ req[q].pc = "put"
                   => hist.notices = 0 /\ run.status \notin {"queued", "running"}
NoticeInv == CompletionNoticedOnce /\ Noticed /\ StartComesFirst

(* A start request in hand was begun on a draft.                           *)
LEMMA PutBegun ==
  ASSUME TypeOK, NEW q \in Req, Load(q) \/ RequestProceeds(q), req'[q].pc = "put"
  PROVE  req[q].pc = "put" \/ (Kind[q] = "start" /\ run.status = "draft")
<1> USE DEF ReqUnchanged, OnlyReq
<1> SUFFICES ASSUME req[q].pc # "put" PROVE Kind[q] = "start" /\ run.status = "draft"
  OBVIOUS
<1>1. req[q] \in ReqState
  BY DEF TypeOK
<1>2. CASE Load(q)
  <2>1. req'[q].pc = FirstPc(Kind[q]) /\ Allowed(Kind[q])
    BY <1>2 DEF Load, SetReq, IdleReq, TypeOK
  <2>2. Kind[q] = "start"
    BY <2>1, ConstantsAssumption DEF FirstPc, KindName
  <2>3. QED
    BY <2>1, <2>2 DEF Allowed
<1>4. CASE RequestProceeds(q)
  <2>1. \A t : SetReq(q, t) => req'[q] = t
    BY DEF SetReq, TypeOK
  <2>2. \A a, b : ReqStep(q, a, b) => req'[q].pc = b
    BY <1>1, <2>1 DEF ReqStep, ReqState
  <2>3. \A r : CancelInstanceOf(q, r) => req'[q].pc = "maestro"
    BY <1>1, <2>1 DEF CancelInstanceOf, ReqState
  <2>4. ~(PutRow(q) \/ StartRun(q))
    BY <1>4 DEF PutRow, StartRun, ReqStep
  <2>5. CASE PauseRun(q) \/ ResumeRun(q) \/ ClaimQueued(q) \/ NoLiveRowLeft(q)
             \/ CancelAtMaestro(q) \/ CancelLocally(q) \/ CloseRun(q)
    BY <2>2, <2>5 DEF PauseRun, ResumeRun, ClaimQueued, NoLiveRowLeft, CancelAtMaestro,
                      CancelLocally, CloseRun
  <2>6. CASE ReadRows(q) \/ CancelWaitingRow(q) \/ ResolveLive(q) \/ CancelLaunchedRow(q)
             \/ Reread(q) \/ RecheckInstances(q)
    BY <1>1, <1>4, <2>1, <2>6 DEF ReadRows, CancelWaitingRow, ResolveLive, CancelLaunchedRow, Reread,
                             RecheckInstances, IdleReq, ReqState
  <2>7. CASE PickLiveRow(q) \/ RowRequest(q)
    BY <1>1, <2>1, <2>2, <2>3, <2>7 DEF PickLiveRow, RowRequest, PickWaitingRow, PickLaunchedRow,
                             RowRefused, ReqState
  <2>8. QED
    BY <1>4, <2>4, <2>5, <2>6, <2>7 DEF RequestProceeds
<1>5. QED
  BY <1>2, <1>4

(* Before the first step nothing has been noticed.                         *)
LEMMA NoticeInit == Init => NoticeInv
  BY DEF Init, NoticeInv, CompletionNoticedOnce, Noticed, StartComesFirst, IdleReq

(* A step that leaves the requests, the status and the notices alone.      *)
LEMMA KeptRunKeepsNotice ==
  ASSUME NoticeInv, req' = req, run'.status = run.status, hist'.notices = hist.notices
  PROVE  NoticeInv'
  BY DEF NoticeInv, CompletionNoticedOnce, Noticed, StartComesFirst

(* The inductive step of OneNotice.                                        *)
LEMMA NoticeStep ==
  ASSUME TypeOK, OneStart, NoResume, NoticeInv, [Next]_vars PROVE NoticeInv'
<1>t. hist.notices \in Nat
  BY DEF TypeOK, History
<1> USE DEF NoticeInv, CompletionNoticedOnce, Noticed, StartComesFirst
<1>1. CASE Environment
  BY <1>1, EnvironmentFrame, KeptRunKeepsNotice
<1>2. ASSUME NEW d \in Tick, DispatcherStep(d) \/ DispatcherFault(d) PROVE NoticeInv'
  <2>1. req' = req /\ (RunKept \/ RunStopped \/ RunPromoted \/ RunFinished(d))
    BY <1>2, DispatcherOnRun
  <2>2. QED
    BY <1>t, <2>1 DEF RunKept, RunStopped, RunPromoted, RunFinished
<1>3. ASSUME NEW w \in Worker, LauncherStep(w) \/ LauncherFault(w) PROVE NoticeInv'
  BY <1>3, LauncherFrame, KeptRunKeepsNotice
<1>4. ASSUME NEW q \in Req, Load(q) \/ RequestProceeds(q) PROVE NoticeInv'
  <2>1. /\ \A p \in Req : p # q => req'[p] = req[p]
        /\ RouteKept \/ RouteRuns(q) \/ RoutePauses(q) \/ RouteClaims(q) \/ RouteCloses(q)
    BY <1>4, RequestOnRun
  <2>2. req'[q].pc = "put" => req[q].pc = "put" \/ (Kind[q] = "start" /\ run.status = "draft")
    BY <1>4, PutBegun
  <2>3. CASE RouteKept
    BY <1>t, <2>1, <2>2, <2>3 DEF RouteKept
  <2>4. CASE RouteRuns(q)
    BY <1>t, <2>1, <2>4 DEF RouteRuns, OneStart, NoResume
  <2>5. CASE RoutePauses(q) \/ RouteClaims(q) \/ RouteCloses(q)
    BY <1>t, <2>1, <2>2, <2>5 DEF RoutePauses, RouteClaims, RouteCloses
  <2>6. QED
    BY <2>1, <2>3, <2>4, <2>5
<1>5. CASE UNCHANGED vars
  BY <1>5, KeptRunKeepsNotice DEF vars
<1>6. QED
  BY <1>1, <1>2, <1>3, <1>4, <1>5 DEF Next

(* A finished run is noticed once, however many passes find it finished    *)
(* and whatever crashes between them, provided it is started once and not  *)
(* resumed.  (A resume loaded before the completion sets the run running   *)
(* after it, and the next pass completes it, and notifies, again.)         *)
THEOREM OneNotice == OneStart /\ NoResume => (Spec => []CompletionNoticedOnce)
<1> SUFFICES ASSUME OneStart, NoResume PROVE Spec => []CompletionNoticedOnce
  OBVIOUS
<1>1. TypeInv /\ NoticeInv /\ [Next]_vars => (TypeInv /\ NoticeInv)'
  BY StepType, NoticeStep DEF TypeInv
<1>2. Init => TypeInv /\ NoticeInv
  BY InitType, NoticeInit
<1>3. TypeInv /\ NoticeInv => CompletionNoticedOnce
  BY DEF NoticeInv
<1>4. QED
  BY <1>1, <1>2, <1>3, PTL DEF Spec

----------------------------------------------------------------------------
(* Launching rows stay in open runs.                                       *)
IsCancel(q) == Kind[q] \in {"cancel", "cancelAll"}
StartAlone == \A p, q \in Req : Kind[p] = "start" /\ (Kind[q] = "start" \/ IsCancel(q)) => p = q

AllReleased == \A r \in Row : row[r].status \notin {"queued", "launching"}
NoPass == \A d \in Tick : tick[d].pc \notin DispatchPc

(* LaunchingOnlyInOpenRun is not inductive alone.  No pass works on a run  *)
(* that has never run, nor on one that was closed over queued rows; who is *)
(* about to close a run has seen that no row is queued or launching, and   *)
(* nobody but the start request queues rows.                               *)
PassesOnScanned == run.status \in {"draft", "queued"} => NoPass
RoutesInPlace ==
  \A q \in Req :
    /\ req[q].pc = "put"   => Kind[q] = "start" /\ run.status = "draft"
    /\ req[q].pc = "write" => run.status \notin {"draft", "queued"}
    /\ req[q].pc \in {"claim", "rows", "recheck", "recheckInst", "close"} => IsCancel(q)
    /\ req[q].pc = "flip" => IsCancel(q) \/ (Kind[q] = "rowCancel" /\ req[q].todo # {})
NothingLeft ==
  /\ \A d \in Tick : tick[d].pc \in {"checkInst", "complete"} => AllReleased
  /\ \A q \in Req : \/ req[q].pc = "recheckInst" /\ req[q].todo = {}
                    \/ req[q].pc = "close"
                    => AllReleased
ClosedIsLeft == Closed /\ (\E r \in Row : row[r].status = "queued") => NoPass
OpenInv == LaunchingOnlyInOpenRun /\ PassesOnScanned /\ RoutesInPlace /\ NothingLeft /\ ClosedIsLeft

(* Most steps make no row queued or launching.                             *)
Settling == \A r \in Row : row'[r].status \in {"queued", "launching"} => row'[r].status = row[r].status

(* Resolving rows settles them.                                            *)
LEMMA ResolveSettles == ASSUME TypeOK, NEW R, ResolveRows(R) PROVE Settling
  BY DEF TypeOK, RowItem, ResolveRows, InstanceEnded, Terminal, Settling

(* The environment makes no row queued or launching.                       *)
LEMMA EnvironmentSettles == ASSUME TypeOK, Environment PROVE Settling
<1>1. ASSUME NEW r \in Row, Age(r) PROVE Settling
  BY <1>1 DEF Age, TypeOK, RowItem, Settling
<1>2. CASE ViewRows
  BY <1>2, ResolveSettles DEF ViewRows
<1>3. CASE row' = row
  BY <1>3 DEF Settling
<1>4. QED
  BY <1>1, <1>2, <1>3 DEF Environment, ReleaseTimeComes, Reappear, ReappearEarly,
       WorkflowEnds, SyncInstance

(* Nor does a launcher worker.                                             *)
LEMMA LauncherSettles ==
  ASSUME TypeOK, NEW w \in Worker, LauncherStep(w) \/ LauncherFault(w) PROVE Settling
<1>1. CASE GateDenies(w)
  BY <1>1 DEF GateDenies, SetRow, TypeOK, RowItem, Settling
<1>2. CASE RecordLaunch(w) \/ AdoptLaunch(w)
  BY <1>2 DEF RecordLaunch, AdoptLaunch, RecordOn, TypeOK, RowItem, Settling
<1>3. CASE ReferenceTracking(w)
  BY <1>3 DEF ReferenceTracking, TypeOK, RowItem, Settling
<1>4. CASE FailRow(w)
  BY <1>4 DEF FailRow, FailedRow, TypeOK, RowItem, Settling
<1>5. CASE row' = row
  BY <1>5 DEF Settling
<1>6. QED
  BY <1>1, <1>2, <1>3, <1>4, <1>5 DEF LauncherStep, LauncherFault,
       Receive, EnqueueRetry, LaunchSucceeds, PersistNew, TrackNew, RetryGuard,
       DenyInstance, LaunchFailsRetryably, LaunchRejected, PersistRetry,
       RecordRefused, ReadRun, AdoptRefused, UndoLaunch, UndoInstance, TrackAgain,
       FailInstance, FailRowAgain, Ack, ReplyLost, UndoRejected, TryFails,
       FinalFails, WorkerCrashes, ResetStreak, CountFailure

(* A pass makes none but by its claim.                                     *)
LEMMA DispatcherSettles ==
  ASSUME TypeOK, NEW d \in Tick, DispatcherStep(d) \/ DispatcherFault(d)
  PROVE  Settling \/ ClaimRow(d)
<1>1. CASE CheckInstances(d)
  BY <1>1, ResolveSettles DEF CheckInstances
<1>2. CASE SweepRow(d)
  BY <1>2 DEF SweepRow, SetRow, TypeOK, RowItem, Settling
<1>3. CASE row' = row
  BY <1>3 DEF Settling
<1>4. QED
  BY <1>1, <1>2, <1>3 DEF DispatcherStep, DispatcherFault, ScanRunning, StopRun, QueryQueuedRows,
       ClaimLost, SendJob, AdvanceRelease, CheckRows, CompleteRun, PromoteRun,
       QueryLaunching, SweepLost, ResolveTracking, SweepDone, DispatchFails, TickCrashes

(* A route makes none but by the put of the start route.                   *)
LEMMA RouteSettles ==
  ASSUME TypeOK, NEW q \in Req, Load(q) \/ RequestProceeds(q)
  PROVE  Settling \/ PutRow(q)
<1> USE DEF OnlyReq
<1>1. CASE CancelWaitingRow(q)
  BY <1>1 DEF CancelWaitingRow, TypeOK, RowItem, Settling
<1>2. CASE CancelLaunchedRow(q)
  BY <1>2 DEF CancelLaunchedRow, TypeOK, RowItem, Settling
<1>3. CASE ResolveLive(q) \/ RecheckInstances(q)
  BY <1>3, ResolveSettles DEF ResolveLive, RecheckInstances
<1>4. CASE row' = row
  BY <1>4 DEF Settling
<1>5. QED
  BY <1>1, <1>2, <1>3, <1>4 DEF Load, RequestProceeds, StartRun, PauseRun, ResumeRun, ClaimQueued,
       ReadRows, PickLiveRow, NoLiveRowLeft, RowRequest, PickWaitingRow, PickLaunchedRow,
       RowRefused, CancelAtMaestro, CancelLocally, Reread, CloseRun

----------------------------------------------------------------------------
(* Where a pass may get to: into the run when it scans it running, to the  *)
(* completion when no row is left.                                         *)
LEMMA PassGoesOn ==
  ASSUME TypeOK, NEW d \in Tick, DispatcherStep(d) \/ DispatcherFault(d)
  PROVE  /\ tick'[d].pc \in DispatchPc =>
              tick[d].pc \in DispatchPc \/ (run.status = "running" /\ run' = run /\ row' = row)
         /\ tick'[d].pc \in {"checkInst", "complete"} =>
              tick[d].pc \in {"checkInst", "complete"} \/ AllReleased
<1> USE DEF TickUnchanged, DispatchPc
<1>t. tick \in [Tick -> TickState] /\ tick[d] \in TickState
  BY DEF TypeOK
<1>1. \A s : SetTick(d, s) => tick'[d] = s
  BY <1>t DEF SetTick
<1>2. ToHeld(d) => tick'[d].pc = "held"
  BY <1>1 DEF ToHeld, IdleTick
<1>3. CASE ScanRunning(d)
  <2>1. tick'[d].pc \in {"dispatch", "held"} /\ run' = run /\ row' = row
    BY <1>t, <1>3 DEF ScanRunning, SetTick, IdleTick
  <2>2. tick'[d].pc = "dispatch" => run.status = "running"
    BY <1>t, <1>3 DEF ScanRunning, SetTick, IdleTick, InRunningScan
  <2>3. QED
    BY <2>1, <2>2
<1>4. CASE StopRun(d) \/ CompleteRun(d) \/ DispatchFails(d) \/ TickCrashes(d) \/ SweepDone(d)
  BY <1>1, <1>2, <1>4 DEF StopRun, CompleteRun, DispatchFails, TickCrashes, SweepDone, IdleTick
<1>5. CASE QueryQueuedRows(d) \/ ClaimLost(d) \/ SendJob(d)
  BY <1>1, <1>t, <1>5 DEF QueryQueuedRows, ClaimLost, SendJob, TickState
<1>6. CASE ClaimRow(d)
  BY <1>1, <1>t, <1>6 DEF ClaimRow, TickStep, TickState
<1>7. CASE AdvanceRelease(d)
  BY <1>1, <1>2, <1>t, <1>7 DEF AdvanceRelease, TickStep, TickState
<1>8. CASE CheckRows(d)
  BY <1>1, <1>2, <1>t, <1>8 DEF CheckRows, TickStep, TickState, AllReleased, Unreleased
<1>9. CASE CheckInstances(d)
  BY <1>1, <1>2, <1>t, <1>9 DEF CheckInstances, TickStep, TickState
<1>10. CASE PromoteRun(d)
  BY <1>10 DEF PromoteRun
<1>11. CASE QueryLaunching(d)
  BY <1>t, <1>11 DEF QueryLaunching, SetTick, IdleTick
<1>12. CASE SweepRow(d) \/ SweepLost(d) \/ ResolveTracking(d)
  BY <1>1, <1>t, <1>12 DEF SweepRow, SweepLost, ResolveTracking, TickState
<1>13. QED
  BY <1>3, <1>4, <1>5, <1>6, <1>7, <1>8, <1>9, <1>10, <1>11, <1>12 DEF DispatcherStep, DispatcherFault

(* A claim is made by a pass at work, of a queued row, in a run that stays *)
(* as it is.                                                               *)
LEMMA ClaimMoves ==
  ASSUME TypeOK, NEW d \in Tick, ClaimRow(d)
  PROVE  /\ tick[d].pc = "release" /\ tick'[d].pc = "send" /\ run' = run
         /\ \E r \in Row : row[r].status = "queued"
         /\ \A r \in Row : row'[r].status = "queued" => row[r].status = "queued"
<1>1. tick[d].pc = "release" /\ tick'[d].pc = "send" /\ run' = run
  BY DEF ClaimRow, TickStep, SetTick, TypeOK, TickState
<1>2. PICK r \in tick[d].todo : /\ row[r].status = "queued"
                                /\ row' = [row EXCEPT ![r] = [@ EXCEPT !.status = "launching", !.stale = FALSE]]
  BY DEF ClaimRow, Claimable
<1>3. r \in Row
  BY <1>2 DEF TypeOK, TickState
<1>4. QED
  BY <1>1, <1>2, <1>3 DEF TypeOK, RowItem

(* A step that leaves the passes, the requests and the status alone, and   *)
(* makes no row queued or launching, keeps the invariant.                  *)
LEMMA SettlingKeepsOpen ==
  ASSUME OpenInv, Settling, tick' = tick, req' = req, run'.status = run.status
  PROVE  OpenInv'
<1>1. AllReleased => AllReleased'
  BY DEF AllReleased, Settling
<1>2. NoPass' <=> NoPass
  BY DEF NoPass
<1>3. LaunchingOnlyInOpenRun'
  BY DEF OpenInv, LaunchingOnlyInOpenRun, Settling
<1>4. PassesOnScanned' /\ RoutesInPlace'
  BY <1>2 DEF OpenInv, PassesOnScanned, RoutesInPlace
<1>5. NothingLeft'
  BY <1>1 DEF OpenInv, NothingLeft
<1>6. ClosedIsLeft'
  BY <1>2 DEF OpenInv, ClosedIsLeft, Closed, Settling
<1>7. QED
  BY <1>3, <1>4, <1>5, <1>6 DEF OpenInv

(* A pass keeps it: it claims in an open run, and completes a run with     *)
(* nothing left to release.                                                *)
LEMMA DispatcherKeepsOpen ==
  ASSUME TypeOK, OpenInv, NEW d \in Tick, DispatcherStep(d) \/ DispatcherFault(d) PROVE OpenInv'
<1>1. /\ req' = req
      /\ \A e \in Tick : e # d => tick'[e] = tick[e]
      /\ RunKept \/ RunStopped \/ RunPromoted \/ RunFinished(d)
  BY DispatcherOnRun
<1>2. /\ tick'[d].pc \in DispatchPc =>
           tick[d].pc \in DispatchPc \/ (run.status = "running" /\ run' = run /\ row' = row)
      /\ tick'[d].pc \in {"checkInst", "complete"} =>
           tick[d].pc \in {"checkInst", "complete"} \/ AllReleased
  BY PassGoesOn
<1>3. CASE ClaimRow(d)
  <2>1. /\ tick[d].pc = "release" /\ tick'[d].pc = "send" /\ run' = run
        /\ \E r \in Row : row[r].status = "queued"
        /\ \A r \in Row : row'[r].status = "queued" => row[r].status = "queued"
    BY <1>3, ClaimMoves
  <2>2. ~NoPass /\ ~AllReleased
    BY <2>1 DEF NoPass, DispatchPc, AllReleased
  <2>3. run.status \in {"running", "paused", "stopped"}
    BY <2>1, <2>2 DEF OpenInv, PassesOnScanned, ClosedIsLeft, Closed, TypeOK, RunItem, RunStatus
  <2>4. LaunchingOnlyInOpenRun' /\ PassesOnScanned' /\ ClosedIsLeft'
    BY <2>1, <2>3 DEF LaunchingOnlyInOpenRun, PassesOnScanned, ClosedIsLeft, Closed
  <2>5. RoutesInPlace'
    BY <1>1, <2>1 DEF OpenInv, RoutesInPlace
  <2>6. NothingLeft'
    BY <1>1, <2>1, <2>2 DEF OpenInv, NothingLeft
  <2>7. QED
    BY <2>4, <2>5, <2>6 DEF OpenInv
<1>4. CASE Settling
  <2>1. AllReleased => AllReleased'
    BY <1>4 DEF AllReleased, Settling
  <2>2. RunFinished(d) => AllReleased
    BY DEF RunFinished, OpenInv, NothingLeft
  <2>3. LaunchingOnlyInOpenRun'
    BY <1>1, <1>4, <2>2 DEF OpenInv, LaunchingOnlyInOpenRun, Settling, AllReleased,
                            RunKept, RunStopped, RunPromoted, RunFinished
  <2>4. run.status # "running" /\ NoPass => NoPass'
    BY <1>1, <1>2 DEF NoPass
  <2>5. PassesOnScanned'
    BY <1>1, <2>4 DEF OpenInv, PassesOnScanned, RunKept, RunStopped, RunPromoted, RunFinished
  <2>6. RoutesInPlace'
    BY <1>1 DEF OpenInv, RoutesInPlace, RunKept, RunStopped, RunPromoted, RunFinished
  <2>7. NothingLeft'
    BY <1>1, <1>2, <2>1 DEF OpenInv, NothingLeft
  <2>8. ClosedIsLeft'
    BY <1>1, <1>4, <2>1, <2>2, <2>4 DEF OpenInv, ClosedIsLeft, Closed, Settling, AllReleased,
                            RunKept, RunStopped, RunPromoted, RunFinished
  <2>9. QED
    BY <2>3, <2>5, <2>6, <2>7, <2>8 DEF OpenInv
<1>5. QED
  BY <1>3, <1>4, DispatcherSettles

(* Where a route may get to.                                               *)
LEMMA RouteGoesOn ==
  ASSUME TypeOK, RoutesInPlace, NothingLeft, NEW q \in Req, Load(q) \/ RequestProceeds(q)
  PROVE  /\ req'[q].pc = "write" =>
              run.status \in {"running", "paused", "stopped"} /\ run' = run
         /\ req'[q].pc \in {"claim", "rows", "recheck", "recheckInst", "close"} => IsCancel(q)
         /\ req'[q].pc = "flip" => IsCancel(q) \/ (Kind[q] = "rowCancel" /\ req'[q].todo # {})
         /\ (req'[q].pc = "recheckInst" /\ req'[q].todo = {}) \/ req'[q].pc = "close"
              => AllReleased
<1> USE DEF ReqUnchanged, OnlyReq
<1>t. req[q] \in ReqState
  BY DEF TypeOK
<1>1. \A t : SetReq(q, t) => req'[q] = t
  BY DEF SetReq, TypeOK
<1>2. \A a, b : ReqStep(q, a, b) => req[q].pc = a /\ req'[q].pc = b
  BY <1>t, <1>1 DEF ReqStep, ReqState
<1>3. \A r : CancelInstanceOf(q, r) => req'[q].pc = "maestro"
  BY <1>t, <1>1 DEF CancelInstanceOf, ReqState
<1>4. CASE Load(q)
  <2>1. req'[q].pc = FirstPc(Kind[q]) /\ Allowed(Kind[q]) /\ run' = run
    BY <1>1, <1>4 DEF Load, IdleReq
  <2>2. Kind[q] \in KindName
    BY ConstantsAssumption
  <2>3. QED
    BY <2>1, <2>2 DEF FirstPc, Allowed, KindName, IsCancel
<1>5. CASE PutRow(q)
  BY <1>t, <1>1, <1>5 DEF PutRow, ReqState
<1>6. CASE StartRun(q) \/ PauseRun(q) \/ ResumeRun(q)
  BY <1>2, <1>6 DEF StartRun, PauseRun, ResumeRun
<1>7. CASE ClaimQueued(q)
  BY <1>2, <1>7 DEF ClaimQueued, RoutesInPlace
<1>8. CASE ReadRows(q)
  <2>1. req'[q].pc = "flip" /\ req[q].pc = "rows"
    BY <1>t, <1>1, <1>8 DEF ReadRows, ReqState
  <2>2. QED
    BY <2>1 DEF RoutesInPlace
<1>9. CASE CancelWaitingRow(q)
  <2>1. /\ req[q].pc = "flip" /\ req'[q].pc \in {"flip", "done"}
        /\ Kind[q] = "rowCancel" => req'[q].pc = "done"
    BY <1>t, <1>1, <1>9 DEF CancelWaitingRow, ReqState
  <2>2. QED
    BY <2>1 DEF RoutesInPlace
<1>10. CASE ResolveLive(q)
  <2>1. req'[q].pc \in {"recheck", "pick"} /\ req[q].pc = "flip" /\ req[q].todo = {}
    BY <1>t, <1>1, <1>10 DEF ResolveLive, ReqState
  <2>2. QED
    BY <2>1 DEF RoutesInPlace
<1>11. CASE PickLiveRow(q)
  BY <1>3, <1>11 DEF PickLiveRow
<1>12. CASE NoLiveRowLeft(q)
  BY <1>2, <1>12 DEF NoLiveRowLeft, IsCancel
<1>13. ASSUME NEW r \in Row, PickWaitingRow(q, r)
       PROVE  req'[q].pc = "flip" /\ Kind[q] = "rowCancel" /\ req'[q].todo # {}
  <2>1. req'[q] = [req[q] EXCEPT !.pc = "flip", !.todo = {r}] /\ Kind[q] = "rowCancel"
    BY <1>1, <1>13 DEF PickWaitingRow
  <2>2. req'[q].pc = "flip" /\ r \in req'[q].todo
    BY <1>t, <2>1 DEF ReqState
  <2>3. QED
    BY <2>1, <2>2
<1>14. CASE RowRequest(q)
  BY <1>2, <1>3, <1>13, <1>14 DEF RowRequest, PickLaunchedRow, RowRefused
<1>15. CASE CancelAtMaestro(q) \/ CancelLocally(q)
  BY <1>2, <1>15 DEF CancelAtMaestro, CancelLocally
<1>16. CASE CancelLaunchedRow(q)
  BY <1>t, <1>1, <1>16 DEF CancelLaunchedRow, IdleReq
<1>17. CASE Reread(q)
  <2>1. /\ req[q].pc = "recheck" /\ req'[q].pc = "recheckInst"
        /\ req'[q].todo = {r \in Row : row[r].status \in Unprocessed}
    BY <1>t, <1>1, <1>17 DEF Reread, ReqState
  <2>2. QED
    BY <2>1 DEF RoutesInPlace, AllReleased, Unprocessed
<1>18. CASE RecheckInstances(q)
  <2>1. /\ req[q].pc = "recheckInst" /\ req'[q].pc \in {"done", "close"}
        /\ req'[q].pc = "close" => req[q].todo = {}
    BY <1>t, <1>1, <1>18 DEF RecheckInstances, IdleReq
  <2>2. QED
    BY <2>1 DEF RoutesInPlace, NothingLeft
<1>19. CASE CloseRun(q)
  BY <1>2, <1>19 DEF CloseRun
<1>20. QED
  BY <1>4, <1>5, <1>6, <1>7, <1>8, <1>9, <1>10, <1>11, <1>12, <1>14, <1>15, <1>16, <1>17, <1>18, <1>19
  DEF RequestProceeds

(* A route keeps it: the start route queues rows of a draft, and a cancel  *)
(* closes a run only with nothing left.                                    *)
LEMMA RequestKeepsOpen ==
  ASSUME TypeOK, StartAlone, OpenInv, NEW q \in Req, Load(q) \/ RequestProceeds(q) PROVE OpenInv'
<1>1. /\ tick' = tick
      /\ \A p \in Req : p # q => req'[p] = req[p]
      /\ RouteKept \/ RouteRuns(q) \/ RoutePauses(q) \/ RouteClaims(q) \/ RouteCloses(q)
  BY RequestOnRun
<1>2. /\ req'[q].pc = "write" =>
           run.status \in {"running", "paused", "stopped"} /\ run' = run
      /\ req'[q].pc \in {"claim", "rows", "recheck", "recheckInst", "close"} => IsCancel(q)
      /\ req'[q].pc = "flip" => IsCancel(q) \/ (Kind[q] = "rowCancel" /\ req'[q].todo # {})
      /\ (req'[q].pc = "recheckInst" /\ req'[q].todo = {}) \/ req'[q].pc = "close"
           => AllReleased
  BY RouteGoesOn DEF OpenInv
<1>3. req'[q].pc = "put" => req[q].pc = "put" \/ (Kind[q] = "start" /\ run.status = "draft")
  BY PutBegun
<1>4. Load(q) => run' = run
  BY DEF Load, OnlyReq
<1>5. NoPass' <=> NoPass
  BY <1>1 DEF NoPass
<1>6. RoutesInPlace'
  <2>1. \A p \in Req : req'[p].pc = "put" => Kind[p] = "start" /\ run.status = "draft"
    BY <1>1, <1>3 DEF OpenInv, RoutesInPlace
  <2>2. ASSUME NEW p \in Req, req'[p].pc = "put" PROVE run'.status = "draft"
    <3>1. CASE RouteKept
      BY <2>1, <2>2, <3>1 DEF RouteKept
    <3>2. CASE RouteRuns(q)
      BY <2>1, <2>2, <3>2 DEF RouteRuns, StartAlone, OpenInv, RoutesInPlace
    <3>3. CASE RoutePauses(q)
      BY <2>1, <2>2, <3>3 DEF RoutePauses, OpenInv, RoutesInPlace
    <3>4. CASE RouteClaims(q) \/ RouteCloses(q)
      <4>1. IsCancel(q)
        BY <3>4 DEF RouteClaims, RouteCloses, OpenInv, RoutesInPlace
      <4>2. p = q /\ Kind[p] = "start"
        BY <2>1, <2>2, <4>1 DEF StartAlone
      <4>3. QED
        BY <4>1, <4>2 DEF IsCancel
    <3>5. QED
      BY <1>1, <3>1, <3>2, <3>3, <3>4
  <2>3. ASSUME NEW p \in Req, req'[p].pc = "write" PROVE run'.status \notin {"draft", "queued"}
    <3>1. run.status \notin {"draft", "queued"}
      BY <1>1, <1>2, <2>3 DEF OpenInv, RoutesInPlace
    <3>2. QED
      BY <1>1, <3>1 DEF RouteKept, RouteRuns, RoutePauses, RouteClaims, RouteCloses
  <2>4. QED
    BY <1>1, <1>2, <2>1, <2>2, <2>3 DEF OpenInv, RoutesInPlace
<1>7. PassesOnScanned'
  BY <1>1, <1>5 DEF OpenInv, PassesOnScanned, RouteKept, RouteRuns, RoutePauses, RouteClaims, RouteCloses
<1>8. CASE PutRow(q)
  <2>1. req[q].pc = "put" /\ run' = run
    BY <1>8 DEF PutRow
  <2>2. run.status = "draft" /\ Kind[q] = "start" /\ NoPass
    BY <2>1 DEF OpenInv, RoutesInPlace, PassesOnScanned
  <2>3. \A p \in Req : ~IsCancel(p)
    BY <2>2 DEF StartAlone, IsCancel
  <2>4. LaunchingOnlyInOpenRun'
    <3>1. PICK r \in req[q].todo :
            row' = [row EXCEPT ![r] = [status |-> Plan[r], inst |-> None, stale |-> FALSE]]
      BY <1>8 DEF PutRow
    <3>2. r \in Row /\ Plan[r] # "launching"
      BY <3>1, ConstantsAssumption DEF TypeOK, ReqState
    <3>3. \A s \in Row : row'[s].status = "launching" => row[s].status = "launching"
      BY <3>1, <3>2 DEF TypeOK
    <3>4. QED
      BY <2>1, <3>3 DEF OpenInv, LaunchingOnlyInOpenRun
  <2>5. NothingLeft'
    <3>1. \A p \in Req : req'[p].pc \notin {"recheckInst", "close"}
      BY <1>1, <1>2, <2>3 DEF OpenInv, RoutesInPlace
    <3>2. \A d \in Tick : tick'[d].pc \notin {"checkInst", "complete"}
      BY <1>1, <2>2 DEF NoPass, DispatchPc
    <3>3. QED
      BY <3>1, <3>2 DEF NothingLeft
  <2>6. ClosedIsLeft'
    BY <2>1, <2>2 DEF ClosedIsLeft, Closed
  <2>7. QED
    BY <1>6, <1>7, <2>4, <2>5, <2>6 DEF OpenInv
<1>9. CASE Settling
  <2>1. AllReleased => AllReleased'
    BY <1>9 DEF AllReleased, Settling
  <2>2. RouteCloses(q) => AllReleased
    BY DEF RouteCloses, OpenInv, NothingLeft
  <2>3. LaunchingOnlyInOpenRun'
    BY <1>1, <1>9, <2>2 DEF OpenInv, LaunchingOnlyInOpenRun, Settling, AllReleased,
                            RouteKept, RouteRuns, RoutePauses, RouteClaims, RouteCloses
  <2>4. NothingLeft'
    BY <1>1, <1>2, <2>1 DEF OpenInv, NothingLeft
  <2>5. ClosedIsLeft'
    BY <1>1, <1>5, <1>9, <2>1, <2>2 DEF OpenInv, ClosedIsLeft, PassesOnScanned, Closed, Settling, AllReleased,
                            RouteKept, RouteRuns, RoutePauses, RouteClaims, RouteCloses
  <2>6. QED
    BY <1>6, <1>7, <2>3, <2>4, <2>5 DEF OpenInv
<1>10. QED
  BY <1>8, <1>9, RouteSettles

(* Before the first step no row is launching and nobody is at work.        *)
LEMMA OpenInit == Init => OpenInv
<1> SUFFICES ASSUME Init PROVE OpenInv
  OBVIOUS
<1>1. \A r \in Row : row[r].status # "launching"
  BY ConstantsAssumption DEF Init
<1>2. (\A d \in Tick : tick[d].pc = "idle") /\ (\A q \in Req : req[q].pc = "idle")
  BY DEF Init, IdleTick, IdleReq
<1>3. QED
  BY <1>1, <1>2 DEF OpenInv, LaunchingOnlyInOpenRun, PassesOnScanned, RoutesInPlace, NothingLeft,
                    ClosedIsLeft, NoPass, DispatchPc

(* The inductive step of LaunchingStaysOpen.                               *)
LEMMA OpenStep == ASSUME TypeOK, StartAlone, OpenInv, [Next]_vars PROVE OpenInv'
<1>1. CASE Environment
  BY <1>1, EnvironmentFrame, EnvironmentSettles, SettlingKeepsOpen
<1>2. ASSUME NEW d \in Tick, DispatcherStep(d) \/ DispatcherFault(d) PROVE OpenInv'
  BY <1>2, DispatcherKeepsOpen
<1>3. ASSUME NEW w \in Worker, LauncherStep(w) \/ LauncherFault(w) PROVE OpenInv'
  BY <1>3, LauncherFrame, LauncherSettles, SettlingKeepsOpen
<1>4. ASSUME NEW q \in Req, Load(q) \/ RequestProceeds(q) PROVE OpenInv'
  BY <1>4, RequestKeepsOpen
<1>5. CASE UNCHANGED vars
  BY <1>5, SettlingKeepsOpen DEF vars, Settling
<1>6. QED
  BY <1>1, <1>2, <1>3, <1>4, <1>5 DEF Next

(* "Only running/paused/stopped runs can hold 'launching' rows", so the    *)
(* sweep, which looks at no other run, sees every stale one: in every      *)
(* interleaving of passes, workers, requests, crashes and faults, provided *)
(* a run that is to be started is not cancelled meanwhile.  (A cancel that *)
(* read the rows before the start route put them closes the run that the   *)
(* start route then runs.)                                                 *)
THEOREM LaunchingStaysOpen == StartAlone => (Spec => []LaunchingOnlyInOpenRun)
<1> SUFFICES ASSUME StartAlone PROVE Spec => []LaunchingOnlyInOpenRun
  OBVIOUS
<1>1. TypeInv /\ OpenInv /\ [Next]_vars => (TypeInv /\ OpenInv)'
  BY StepType, OpenStep DEF TypeInv
<1>2. Init => TypeInv /\ OpenInv
  BY InitType, OpenInit
<1>3. TypeInv /\ OpenInv => LaunchingOnlyInOpenRun
  BY DEF OpenInv
<1>4. QED
  BY <1>1, <1>2, <1>3, PTL DEF Spec

----------------------------------------------------------------------------
(* No worker dies over a job and no write of the catch block is lost: the  *)
(* failures that the sweep alone makes up for.                             *)
CatchBlockLands == {"workerCrash", "finalError"} \cap FaultKind = {}
NothingDropped  == \A w \in Worker : ~FinalFails(w) /\ ~WorkerCrashes(w)

(* Where a worker has launched the workflow and stored its id with the     *)
(* instance, and where it has failed the instance for good: the ladder it  *)
(* climbs is over either way.                                              *)
LaunchedPc == {"record", "readRun", "adopt", "undo", "undoInst", "reset", "stats"}
LetGoPc    == LaunchedPc \cup {"failRow", "count"}

(* LadderNotStranded is not inductive alone.  A tracking instance is borne *)
(* by a message that no worker is about to acknowledge, or by the worker   *)
(* that has just made it and has yet to enqueue the retry; a worker that   *)
(* has persisted or failed its ladder's instance holds none that only      *)
(* tracks; and what a message or a worker names exists, so that a new      *)
(* instance is nobody's yet.                                               *)
Pending(m) == msg[m].state \in {"visible", "hidden"}
LettingGo(m) == \E w \in Worker : wk[w].pc \in {"stats", "ack"} /\ wk[w].msg = m
Bears(m, i) == Pending(m) /\ msg[m].job.inst = i /\ ~LettingGo(m)
Begins(w, i) == wk[w].pc \in {"reference", "enqueue"} /\ ~IsRetry(w) /\ wk[w].inst = i
LadderBorne ==
  \A i \in Inst : OnlyTracking(i) =>
    (\E m \in Msg : Bears(m, i)) \/ (\E w \in Worker : Begins(w, i))
LadderLetGo ==
  \A w \in Worker : wk[w].pc \in LetGoPc /\ IsRetry(w) => ~OnlyTracking(JobOf(w).inst)
MidInHand == \A w \in Worker : wk[w].pc = "persist" => wk[w].mid # None
Exists(i) == inst[i].status # "none"
HeldIsSent == \A w \in Worker : wk[w].pc # "idle" => msg[wk[w].msg].state # "none"
JobsNameInstances ==
  \A m \in Msg : msg[m].state # "none" /\ msg[m].job.inst # None => Exists(msg[m].job.inst)
WorkersNameInstances ==
  \A w \in Worker : wk[w].pc \in {"reference", "enqueue"} =>
    /\ wk[w].inst \in Inst /\ Exists(wk[w].inst)
    /\ IsRetry(w) => wk[w].inst = JobOf(w).inst
LadderInv ==
  /\ LadderBorne /\ LadderLetGo /\ MidInHand
  /\ HeldIsSent /\ JobsNameInstances /\ WorkersNameInstances

(* How a worker comes to where it is, when none dies and no write of the   *)
(* catch block is lost.                                                    *)
LEMMA LauncherPath ==
  ASSUME NothingDropped, TypeInv, NEW w \in Worker, LauncherStep(w) \/ LauncherFault(w)
  PROVE  /\ \A v \in Worker : v # w => wk'[v] = wk[v]
         /\ wk'[w].pc = "idle" => Ack(w)
         /\ wk'[w].pc # "idle" => \/ \E m \in Msg : Receive(w, m)
                                  \/ wk[w].pc # "idle" /\ wk'[w].msg = wk[w].msg
         /\ wk'[w].pc = "persist" => \E k \in Mid : LaunchSucceeds(w, k)
         /\ wk'[w].pc = "record" => PersistRetry(w) \/ \E i \in Inst : PersistNew(w, i)
         /\ wk'[w].pc \in LaunchedPc \ {"record"} => wk[w].pc \in LaunchedPc
         /\ wk'[w].pc = "failRow" => ~IsRetry(w) \/ FailInstance(w)
         /\ wk'[w].pc = "count" => FailRow(w)
         /\ wk'[w].pc = "reference" => TrackAgain(w) \/ \E i \in Inst : TrackNew(w, i)
         /\ wk'[w].pc = "enqueue" => ReferenceTracking(w)
         /\ wk'[w].pc = "ack" => \/ RetryGuard(w) /\ Superseded(w)
                                 \/ GateDenies(w) /\ ~IsRetry(w)
                                 \/ DenyInstance(w)
                                 \/ \E m \in Msg : EnqueueRetry(w, m)
                                 \/ FailRowAgain(w) \/ CountFailure(w)
<1> DEFINE Path ==
       /\ \A v \in Worker : v # w => wk'[v] = wk[v]
       /\ wk'[w].pc = "idle" => Ack(w)
       /\ wk'[w].pc # "idle" => \/ \E m \in Msg : Receive(w, m)
                                \/ wk[w].pc # "idle" /\ wk'[w].msg = wk[w].msg
       /\ wk'[w].pc = "persist" => \E k \in Mid : LaunchSucceeds(w, k)
       /\ wk'[w].pc = "record" => PersistRetry(w) \/ \E i \in Inst : PersistNew(w, i)
       /\ wk'[w].pc \in LaunchedPc \ {"record"} => wk[w].pc \in LaunchedPc
       /\ wk'[w].pc = "failRow" => ~IsRetry(w) \/ FailInstance(w)
       /\ wk'[w].pc = "count" => FailRow(w)
       /\ wk'[w].pc = "reference" => TrackAgain(w) \/ \E i \in Inst : TrackNew(w, i)
       /\ wk'[w].pc = "enqueue" => ReferenceTracking(w)
       /\ wk'[w].pc = "ack" => \/ RetryGuard(w) /\ Superseded(w)
                               \/ GateDenies(w) /\ ~IsRetry(w)
                               \/ DenyInstance(w)
                               \/ \E m \in Msg : EnqueueRetry(w, m)
                               \/ FailRowAgain(w) \/ CountFailure(w)
<1>t. wk \in [Worker -> WorkerState] /\ wk[w] \in WorkerState
  BY DEF TypeInv, TypeOK
<1>s. ASSUME NEW t \in WorkerState, SetWorker(w, t)
      PROVE  (\A v \in Worker : v # w => wk'[v] = wk[v]) /\ wk'[w] = t
  BY <1>t, <1>s DEF SetWorker
<1>k. ASSUME NEW f \in WorkerPc \ {"idle"}, NEW p \in WorkerPc, Step(w, f, p)
      PROVE  /\ \A v \in Worker : v # w => wk'[v] = wk[v]
             /\ wk[w].pc = f /\ wk'[w].pc = p /\ wk'[w].msg = wk[w].msg
  BY <1>t, <1>k DEF Step, SetWorker, WorkerState
<1> USE DEF LaunchedPc
<1>1. ASSUME NEW m \in Msg, Receive(w, m) PROVE Path
  <2>1. /\ \A v \in Worker : v # w => wk'[v] = wk[v]
        /\ wk'[w].pc \in {"guard", "launch"}
    BY <1>t, <1>1 DEF Receive, SetWorker, IdleWorker
  <2>2. QED
    BY <1>1, <2>1
<1>2. ASSUME NEW m \in Msg, EnqueueRetry(w, m) PROVE Path
  BY <1>2, <1>k DEF EnqueueRetry, WorkerPc
<1>3. ASSUME NEW k \in Mid, LaunchSucceeds(w, k) PROVE Path
  <2>1. /\ \A v \in Worker : v # w => wk'[v] = wk[v]
        /\ wk[w].pc = "launch" /\ wk'[w].pc = "persist" /\ wk'[w].msg = wk[w].msg
    BY <1>t, <1>3 DEF LaunchSucceeds, SetWorker, WorkerState
  <2>2. QED
    BY <1>3, <2>1
<1>4. ASSUME NEW i \in Inst, PersistNew(w, i) PROVE Path
  <2>1. /\ \A v \in Worker : v # w => wk'[v] = wk[v]
        /\ wk[w].pc = "persist" /\ wk'[w].pc = "record" /\ wk'[w].msg = wk[w].msg
    BY <1>t, <1>4 DEF PersistNew, SetWorker, WorkerState
  <2>2. QED
    BY <1>4, <2>1
<1>5. CASE PersistRetry(w)
  <2>1. /\ \A v \in Worker : v # w => wk'[v] = wk[v]
        /\ wk[w].pc = "persist" /\ wk'[w].pc = "record" /\ wk'[w].msg = wk[w].msg
    BY <1>t, <1>5 DEF PersistRetry, SetWorker, WorkerState
  <2>2. QED
    BY <1>5, <2>1
<1>6. ASSUME NEW i \in Inst, TrackNew(w, i) PROVE Path
  <2>1. /\ \A v \in Worker : v # w => wk'[v] = wk[v]
        /\ wk[w].pc = "track" /\ wk'[w].pc = "reference" /\ wk'[w].msg = wk[w].msg
    BY <1>t, <1>6 DEF TrackNew, SetWorker, WorkerState
  <2>2. QED
    BY <1>6, <2>1
<1>7. CASE TrackAgain(w)
  <2>1. /\ \A v \in Worker : v # w => wk'[v] = wk[v]
        /\ wk[w].pc = "track" /\ wk'[w].pc = "reference" /\ wk'[w].msg = wk[w].msg
    BY <1>t, <1>7 DEF TrackAgain, SetWorker, WorkerState
  <2>2. QED
    BY <1>7, <2>1
<1>8. CASE TryFails(w)
  <2>1. RetryOrFail(w) \in {"track", "failInst", "failRow"} /\ (RetryOrFail(w) = "failRow" => ~IsRetry(w))
    BY DEF RetryOrFail, FinalPc
  <2>2. /\ \A v \in Worker : v # w => wk'[v] = wk[v]
        /\ wk[w].pc # "idle" /\ wk'[w].pc = RetryOrFail(w) /\ wk'[w].msg = wk[w].msg
    BY <1>t, <1>8 DEF TryFails, TryPc, SetWorker, WorkerState
  <2>3. QED
    BY <2>1, <2>2
<1>9. CASE RetryGuard(w)
  <2>1. CASE Superseded(w)
    BY <1>9, <2>1, <1>k DEF RetryGuard, WorkerPc
  <2>2. CASE ~Superseded(w)
    BY <1>9, <2>2, <1>k DEF RetryGuard, WorkerPc
  <2>3. QED
    BY <2>1, <2>2
<1>10. CASE GateDenies(w)
  <2>1. CASE IsRetry(w)
    BY <1>10, <2>1, <1>k DEF GateDenies, WorkerPc
  <2>2. CASE ~IsRetry(w)
    BY <1>10, <2>2, <1>k DEF GateDenies, WorkerPc
  <2>3. QED
    BY <2>1, <2>2
<1>11. CASE DenyInstance(w)
  BY <1>11, <1>k DEF DenyInstance, WorkerPc
<1>12. CASE LaunchFailsRetryably(w) \/ LaunchRejected(w) \/ \E k \in Mid : ReplyLost(w, k)
  <2>1. PICK p \in {"track", "failInst", "failRow"} : Step(w, "launch", p) /\ (p = "failRow" => ~IsRetry(w))
    BY <1>12 DEF LaunchFailsRetryably, LaunchRejected, ReplyLost, RetryOrFail, FinalPc
  <2>2. QED
    BY <2>1, <1>k DEF WorkerPc
<1>13. CASE RecordLaunch(w) \/ RecordRefused(w) \/ ReadRun(w)
  <2>1. PICK f \in {"record", "readRun"}, p \in {"reset", "readRun", "adopt", "undo"} : Step(w, f, p)
    BY <1>13 DEF RecordLaunch, RecordRefused, ReadRun
  <2>2. QED
    BY <2>1, <1>k DEF WorkerPc
<1>14. CASE AdoptLaunch(w) \/ AdoptRefused(w) \/ UndoLaunch(w) \/ UndoRejected(w) \/ UndoInstance(w) \/ ResetStreak(w)
  <2>1. PICK f \in {"adopt", "undo", "undoInst", "reset"}, p \in {"reset", "undo", "undoInst", "stats"} :
          Step(w, f, p)
    BY <1>14 DEF AdoptLaunch, AdoptRefused, UndoLaunch, UndoRejected, UndoInstance, ResetStreak
  <2>2. QED
    BY <2>1, <1>k DEF WorkerPc
<1>15. CASE ReferenceTracking(w)
  BY <1>15, <1>k DEF ReferenceTracking, WorkerPc
<1>16. CASE FailInstance(w) \/ FailRow(w) \/ FailRowAgain(w) \/ CountFailure(w)
  BY <1>16, <1>k DEF FailInstance, FailRow, FailRowAgain, CountFailure, WorkerPc
<1>17. CASE Ack(w)
  <2>1. IdleWorker \in WorkerState /\ IdleWorker.pc = "idle"
    BY DEF IdleWorker, WorkerState, WorkerPc
  <2>2. QED
    BY <1>17, <2>1, <1>s DEF Ack
<1>18. ~FinalFails(w) /\ ~WorkerCrashes(w)
  BY DEF NothingDropped
<1>19. Path
  BY <1>1, <1>2, <1>3, <1>4, <1>5, <1>6, <1>7, <1>8, <1>9, <1>10, <1>11, <1>12, <1>13, <1>14,
     <1>15, <1>16, <1>17, <1>18 DEF LauncherStep, LauncherFault
<1>20. QED
  BY <1>19

(* What becomes of the messages: a job stays what it was sent with, and    *)
(* only an acknowledgement ends one.                                       *)
MessagesOnward ==
  /\ \A m \in Msg : msg[m].state # "none" =>
       /\ msg'[m].job = msg[m].job /\ msg'[m].state # "none"
       /\ Pending(m) => Pending(m)' \/ \E w \in Worker : Ack(w) /\ wk[w].msg = m
  /\ \A m \in Msg : msg[m].state = "none" /\ msg'[m].state # "none" =>
       msg'[m].job.inst = None \/ \E w \in Worker : EnqueueRetry(w, m)

(* So it is at every step.                                                 *)
LEMMA MessageSteps == ASSUME TypeInv, HeldIsSent, Next PROVE MessagesOnward
<1> USE DEF MessagesOnward, Pending
<1>t. TypeOK /\ msg \in [Msg -> Message]
  BY DEF TypeInv, TypeOK
<1>1. CASE msg' = msg
  BY <1>1
<1>2. ASSUME NEW d \in Tick, SendJob(d) PROVE MessagesOnward
  <2>1. PICK r \in tick[d].todo, m \in Msg : Send(m, [row |-> r, attempt |-> 0, inst |-> None])
    BY <1>2 DEF SendJob
  <2>2. QED
    BY <1>t, <2>1 DEF Send, FreshMsg, Message
<1>3. ASSUME NEW w \in Worker, NEW m \in Msg, EnqueueRetry(w, m) PROVE MessagesOnward
  <2> DEFINE job == NextAttempt(w)
  <2>1. Send(m, job)
    BY <1>3 DEF EnqueueRetry
  <2> HIDE DEF job
  <2>2. msg[m].state = "none" /\ msg' = [msg EXCEPT ![m] = [state |-> "visible", job |-> job]]
    BY <2>1 DEF Send, FreshMsg
  <2>3. QED
    BY <1>t, <1>3, <2>2 DEF Message
<1>4. ASSUME NEW w \in Worker, NEW m \in Msg, Receive(w, m) PROVE MessagesOnward
  BY <1>t, <1>4 DEF Receive, Message
<1>5. ASSUME NEW w \in Worker, Ack(w) PROVE MessagesOnward
  <2>1. msg' = [msg EXCEPT ![wk[w].msg].state = "deleted"]
    BY <1>5 DEF Ack
  <2>2. \A m \in Msg : /\ msg'[m].job = msg[m].job
                       /\ m # wk[w].msg => msg'[m] = msg[m]
                       /\ msg[m].state # "none" => msg'[m].state # "none"
                       /\ m # wk[w].msg /\ msg[m].state = "none" => msg'[m].state = "none"
    BY <1>t, <2>1 DEF Message
  <2>3. ASSUME NEW m \in Msg, msg[m].state = "none", msg'[m].state # "none" PROVE FALSE
    BY <1>5, <2>2, <2>3 DEF Ack, HeldIsSent
  <2>4. ASSUME NEW m \in Msg, Pending(m) PROVE Pending(m)' \/ \E v \in Worker : Ack(v) /\ wk[v].msg = m
    <3>1. CASE m = wk[w].msg
      BY <1>5, <3>1
    <3>2. CASE m # wk[w].msg
      BY <2>2, <2>4, <3>2
    <3>3. QED
      BY <3>1, <3>2
  <2>5. \A m \in Msg : msg[m].state # "none" =>
          msg'[m].job = msg[m].job /\ msg'[m].state # "none"
    BY <2>2
  <2> HIDE DEF Pending
  <2>6. QED
    BY <2>3, <2>4, <2>5
<1>6. ASSUME NEW m \in Msg, Reappear(m) \/ ReappearEarly(m) PROVE MessagesOnward
  BY <1>t, <1>6 DEF Reappear, ReappearEarly, Message
<1>7. CASE Environment
  BY <1>7, <1>1, <1>6 DEF Environment, ReleaseTimeComes, Age, WorkflowEnds, SyncInstance, ViewRows
<1>8. ASSUME NEW d \in Tick, DispatcherStep(d) \/ DispatcherFault(d) PROVE MessagesOnward
  BY <1>8, <1>1, <1>2 DEF DispatcherStep, DispatcherFault, ScanRunning, StopRun, QueryQueuedRows, ClaimRow,
     ClaimLost, AdvanceRelease, CheckRows, CheckInstances, CompleteRun, PromoteRun,
     QueryLaunching, SweepRow, SweepLost, ResolveTracking, SweepDone, DispatchFails, TickCrashes
<1>9. ASSUME NEW w \in Worker, LauncherStep(w) \/ LauncherFault(w) PROVE MessagesOnward
  BY <1>9, <1>1, <1>3, <1>4, <1>5 DEF LauncherStep, LauncherFault, LaunchSucceeds, PersistNew, TrackNew, RetryGuard,
     DenyInstance, LaunchFailsRetryably, LaunchRejected, PersistRetry,
     RecordRefused, ReadRun, AdoptRefused, UndoLaunch, UndoInstance, TrackAgain,
     FailInstance, FailRowAgain, ReplyLost, UndoRejected, TryFails,
     FinalFails, WorkerCrashes, GateDenies, RecordLaunch, AdoptLaunch,
     ResetStreak, ReferenceTracking, FailRow, CountFailure
<1>10. ASSUME NEW q \in Req, Load(q) \/ RequestProceeds(q) PROVE MessagesOnward
  BY <1>10, <1>1 DEF Load, RequestProceeds, RowRequest, OnlyReq, ReqUnchanged, PutRow, StartRun, PauseRun, ResumeRun,
     ClaimQueued, ReadRows, CancelWaitingRow, ResolveLive, PickLiveRow, NoLiveRowLeft, PickWaitingRow,
     PickLaunchedRow, RowRefused, CancelAtMaestro, CancelLocally, CancelLaunchedRow, Reread, RecheckInstances, CloseRun
<1>11. QED
  BY <1>7, <1>8, <1>9, <1>10 DEF Next

(* What becomes of the instances: one that exists stays, and only a first  *)
(* failure makes one that merely tracks.                                   *)
InstancesOnward ==
  \A i \in Inst : /\ Exists(i) => Exists(i)'
                  /\ OnlyTracking(i)' => OnlyTracking(i) \/ \E w \in Worker : TrackNew(w, i)

(* So it is at every step.                                                 *)
LEMMA InstanceSteps == ASSUME TypeInv, MidInHand, Next PROVE InstancesOnward
<1> USE DEF InstancesOnward, Exists, OnlyTracking
<1>t. TypeOK /\ inst \in [Inst -> InstItem]
  BY DEF TypeInv, TypeOK
<1>1. CASE inst' = inst
  BY <1>1
<1>2. ASSUME NEW i, NEW s \in {"completed", "failed", "cancelled"}, SetInst(i, s) PROVE InstancesOnward
  BY <1>t, <1>2 DEF SetInst, InstItem
<1>3. CASE Environment
  <2>1. ASSUME NEW i \in Inst, SyncInstance(i) PROVE InstancesOnward
    BY <1>2, <2>1 DEF SyncInstance, Terminal
  <2>2. QED
    BY <1>1, <1>3, <2>1 DEF Environment, ReleaseTimeComes, Age, Reappear, ReappearEarly, WorkflowEnds, ViewRows, others
<1>4. ASSUME NEW d \in Tick, DispatcherStep(d) \/ DispatcherFault(d) PROVE InstancesOnward
  <2>1. CASE ResolveTracking(d)
    BY <1>1, <1>2, <2>1 DEF ResolveTracking
  <2>2. QED
    BY <1>1, <1>4, <2>1 DEF DispatcherStep, DispatcherFault, ScanRunning, StopRun, QueryQueuedRows, ClaimRow, SendJob,
     ClaimLost, AdvanceRelease, CheckRows, CheckInstances, CompleteRun, PromoteRun,
     QueryLaunching, SweepRow, SweepLost, SweepDone, DispatchFails, TickCrashes, TickUnchanged
<1>5. ASSUME NEW w \in Worker, LauncherStep(w) \/ LauncherFault(w) PROVE InstancesOnward
  <2>1. ASSUME NEW i \in Inst, PersistNew(w, i) PROVE InstancesOnward
    BY <1>t, <2>1 DEF PersistNew, MidInHand, InstItem
  <2>2. CASE PersistRetry(w)
    BY <1>t, <2>2 DEF PersistRetry, MidInHand, InstItem
  <2>3. ASSUME NEW i \in Inst, TrackNew(w, i) PROVE InstancesOnward
    BY <1>t, <2>3 DEF TrackNew, InstItem
  <2>4. CASE DenyInstance(w) \/ UndoInstance(w) \/ FailInstance(w)
    BY <1>1, <1>2, <2>4 DEF DenyInstance, UndoInstance, FailInstance
  <2>5. QED
    BY <1>1, <1>5, <2>1, <2>2, <2>3, <2>4 DEF LauncherStep, LauncherFault, Receive, EnqueueRetry,
     LaunchSucceeds, RetryGuard, LaunchFailsRetryably, LaunchRejected,
     RecordRefused, ReadRun, AdoptRefused, UndoLaunch, TrackAgain,
     FailRowAgain, Ack, ReplyLost, UndoRejected, TryFails,
     FinalFails, WorkerCrashes, GateDenies, RecordLaunch, AdoptLaunch,
     ResetStreak, ReferenceTracking, FailRow, CountFailure
<1>6. ASSUME NEW q \in Req, Load(q) \/ RequestProceeds(q) PROVE InstancesOnward
  <2>1. CASE CancelLocally(q)
    BY <1>2, <2>1 DEF CancelLocally
  <2>2. QED
  BY <1>6, <1>1, <2>1 DEF Load, RequestProceeds, RowRequest, OnlyReq, ReqUnchanged, PutRow, StartRun, PauseRun, ResumeRun,
     ClaimQueued, ReadRows, CancelWaitingRow, ResolveLive, PickLiveRow, NoLiveRowLeft, PickWaitingRow,
     PickLaunchedRow, RowRefused, CancelAtMaestro, CancelLaunchedRow, Reread, RecheckInstances, CloseRun
<1>7. QED
  BY <1>3, <1>4, <1>5, <1>6 DEF Next

(* The environment, the passes and the requests leave the workers alone.   *)
LEMMA WorkerSteps ==
  ASSUME TypeInv, Next
  PROVE  wk' = wk \/ \E w \in Worker : LauncherStep(w) \/ LauncherFault(w)
<1>1. CASE Environment
  BY <1>1 DEF Environment, ReleaseTimeComes, Age, Reappear, ReappearEarly, WorkflowEnds, SyncInstance, ViewRows, others
<1>2. ASSUME NEW d \in Tick, DispatcherStep(d) \/ DispatcherFault(d) PROVE wk' = wk
  BY <1>2 DEF DispatcherStep, DispatcherFault, ScanRunning, StopRun, QueryQueuedRows, ClaimRow, SendJob,
     ClaimLost, AdvanceRelease, CheckRows, CheckInstances, CompleteRun, PromoteRun, ResolveTracking,
     QueryLaunching, SweepRow, SweepLost, SweepDone, DispatchFails, TickCrashes, TickUnchanged
<1>3. ASSUME NEW q \in Req, Load(q) \/ RequestProceeds(q) PROVE wk' = wk
  BY <1>3 DEF Load, RequestProceeds, RowRequest, OnlyReq, ReqUnchanged, PutRow, StartRun, PauseRun, ResumeRun,
     ClaimQueued, ReadRows, CancelWaitingRow, ResolveLive, PickLiveRow, NoLiveRowLeft, PickWaitingRow,
     PickLaunchedRow, RowRefused, CancelAtMaestro, CancelLocally, CancelLaunchedRow, Reread, RecheckInstances, CloseRun
<1>4. QED
  BY <1>1, <1>2, <1>3 DEF Next

(* A worker that references or enqueues does that next.                    *)
LEMMA LauncherForward ==
  ASSUME NothingDropped, TypeInv, NEW w \in Worker, LauncherStep(w) \/ LauncherFault(w),
         wk[w].pc \in {"reference", "enqueue"}
  PROVE  ReferenceTracking(w) \/ \E m \in Msg : EnqueueRetry(w, m)
<1>1. ~FinalFails(w) /\ ~WorkerCrashes(w)
  BY DEF NothingDropped
<1>2. QED
  BY <1>1 DEF LauncherStep, LauncherFault, Step, TryPc,
         Receive, LaunchSucceeds, PersistNew, TrackNew, RetryGuard,
         DenyInstance, LaunchFailsRetryably, LaunchRejected, PersistRetry,
         RecordRefused, ReadRun, AdoptRefused, UndoLaunch, UndoInstance, TrackAgain,
         FailInstance, FailRowAgain, Ack, ReplyLost, UndoRejected, TryFails,
         GateDenies, RecordLaunch, AdoptLaunch, ResetStreak, FailRow, CountFailure

(* A worker's job has the types of one, and names an instance that exists. *)
LEMMA HeldJob ==
  ASSUME TypeInv, LadderInv, NEW w \in Worker, wk[w].pc # "idle"
  PROVE  /\ wk[w].msg \in Msg /\ msg[wk[w].msg].state # "none"
         /\ IsRetry(w) => JobOf(w).inst \in Inst /\ Exists(JobOf(w).inst)
<1>1. wk[w].msg \in Msg /\ msg[wk[w].msg].state # "none"
  BY DEF TypeInv, BusyHoldsMessage, LadderInv, HeldIsSent
<1>2. JobOf(w).inst \in Inst \cup {None}
  BY <1>1 DEF TypeInv, TypeOK, Message, Job, JobOf
<1>3. QED
  BY <1>1, <1>2 DEF LadderInv, JobsNameInstances, IsRetry, JobOf

(* A worker that goes on with its message has the same job, and what is    *)
(* let go of stays so.                                                     *)
LEMMA WorkGoesOn ==
  ASSUME NothingDropped, TypeInv, LadderInv, Next
  PROVE  /\ \A w \in Worker : wk'[w] = wk[w] \/ LauncherStep(w) \/ LauncherFault(w)
         /\ \A w \in Worker : wk[w].pc # "idle" /\ wk'[w].msg = wk[w].msg =>
              JobOf(w)' = JobOf(w) /\ (IsRetry(w)' <=> IsRetry(w))
         /\ \A i \in Inst : Exists(i) /\ ~OnlyTracking(i) => ~OnlyTracking(i)'
<1>1. \A w \in Worker : wk'[w] = wk[w] \/ LauncherStep(w) \/ LauncherFault(w)
  BY WorkerSteps, LauncherPath
<1>2. ASSUME NEW w \in Worker, wk[w].pc # "idle", wk'[w].msg = wk[w].msg
      PROVE  JobOf(w)' = JobOf(w) /\ (IsRetry(w)' <=> IsRetry(w))
  <2>1. msg'[wk[w].msg].job = msg[wk[w].msg].job
    BY <1>2, HeldJob, MessageSteps DEF MessagesOnward, LadderInv
  <2>2. QED
    BY <1>2, <2>1 DEF JobOf, IsRetry
<1>3. \A i \in Inst : Exists(i) /\ ~OnlyTracking(i) => ~OnlyTracking(i)'
  BY InstanceSteps DEF InstancesOnward, LadderInv, Exists, TrackNew, FreshInst
<1>4. QED
  BY <1>1, <1>2, <1>3

(* Workers hold what was sent, and name what exists.                       *)
LEMMA NamesKept ==
  ASSUME NothingDropped, TypeInv, TypeInv', LadderInv, Next
  PROVE  HeldIsSent' /\ MidInHand' /\ JobsNameInstances' /\ WorkersNameInstances'
<1>m. MessagesOnward /\ InstancesOnward
  BY MessageSteps, InstanceSteps DEF LadderInv
<1>t. /\ wk \in [Worker -> WorkerState] /\ msg' \in [Msg -> Message] /\ msg \in [Msg -> Message]
      /\ None \notin Mid /\ None \notin Inst /\ inst \in [Inst -> InstItem]
  BY ConstantsAssumption DEF TypeInv, TypeOK
<1>1. HeldIsSent'
  <2> SUFFICES ASSUME NEW w \in Worker, wk'[w].pc # "idle" PROVE msg'[wk'[w].msg].state # "none"
    BY DEF HeldIsSent
  <2>1. CASE wk[w].pc # "idle" /\ wk'[w].msg = wk[w].msg
    BY <1>m, <2>1, HeldJob DEF MessagesOnward
  <2>2. ASSUME NEW m \in Msg, Receive(w, m) PROVE msg'[wk'[w].msg].state # "none"
    BY <1>t, <2>2 DEF Receive, SetWorker, IdleWorker, Message
  <2>3. QED
    BY <2>1, <2>2, WorkGoesOn, LauncherPath
<1>2. MidInHand'
  <2> SUFFICES ASSUME NEW w \in Worker, wk'[w].pc = "persist" PROVE wk'[w].mid # None
    BY DEF MidInHand
  <2>1. CASE wk'[w] = wk[w]
    BY <2>1 DEF LadderInv, MidInHand
  <2>2. ASSUME NEW k \in Mid, LaunchSucceeds(w, k) PROVE wk'[w].mid # None
    BY <1>t, <2>2 DEF LaunchSucceeds, SetWorker, WorkerState
  <2>3. QED
    BY <2>1, <2>2, WorkGoesOn, LauncherPath
<1>3. JobsNameInstances'
  <2> SUFFICES ASSUME NEW m \in Msg, msg'[m].state # "none", msg'[m].job.inst # None
               PROVE  inst'[msg'[m].job.inst].status # "none"
    BY DEF JobsNameInstances, Exists
  <2>1. msg'[m].job.inst \in Inst
    BY <1>t DEF Message, Job
  <2>2. CASE msg[m].state # "none"
    <3>1. msg'[m].job = msg[m].job
      BY <1>m, <2>2 DEF MessagesOnward
    <3>2. Exists(msg[m].job.inst) /\ msg[m].job.inst \in Inst
      BY <2>1, <2>2, <3>1 DEF LadderInv, JobsNameInstances
    <3>3. QED
      BY <1>m, <3>1, <3>2 DEF InstancesOnward, Exists
  <2>3. ASSUME NEW w \in Worker, EnqueueRetry(w, m) PROVE inst'[msg'[m].job.inst].status # "none"
    <3>1. wk[w].pc = "enqueue" /\ msg'[m].job = NextAttempt(w)
      BY <1>t, <2>3 DEF EnqueueRetry, Send, Step
    <3>2. wk[w].inst \in Inst /\ Exists(wk[w].inst)
      BY <3>1 DEF LadderInv, WorkersNameInstances
    <3>3. JobOf(w) \in Job
      BY <1>t, <3>1, HeldJob DEF JobOf, Message
    <3>4. NextAttempt(w).inst = wk[w].inst
      BY <3>3 DEF NextAttempt, Job
    <3>5. QED
      BY <1>m, <3>1, <3>2, <3>4 DEF InstancesOnward, Exists
  <2>4. QED
    BY <1>m, <2>2, <2>3 DEF MessagesOnward
<1>4. WorkersNameInstances'
  <2> SUFFICES ASSUME NEW w \in Worker, wk'[w].pc \in {"reference", "enqueue"}
               PROVE  /\ wk'[w].inst \in Inst /\ inst'[wk'[w].inst].status # "none"
                      /\ IsRetry(w)' => wk'[w].inst = JobOf(w)'.inst
    BY DEF WorkersNameInstances, Exists
  <2>1. CASE wk[w].pc \in {"reference", "enqueue"} /\ wk'[w].msg = wk[w].msg /\ wk'[w].inst = wk[w].inst
    <3>1. /\ wk[w].inst \in Inst /\ Exists(wk[w].inst)
          /\ IsRetry(w) => wk[w].inst = JobOf(w).inst
      BY <2>1 DEF LadderInv, WorkersNameInstances
    <3>2. JobOf(w)' = JobOf(w) /\ (IsRetry(w)' <=> IsRetry(w))
      BY <2>1, WorkGoesOn
    <3>3. inst'[wk'[w].inst].status # "none"
      BY <1>m, <2>1, <3>1 DEF InstancesOnward, Exists
    <3>4. QED
      BY <2>1, <3>1, <3>2, <3>3
  <2>2. CASE TrackAgain(w)
    <3>1. wk[w].pc # "idle" /\ IsRetry(w) /\ wk'[w].msg = wk[w].msg /\ wk'[w].inst = JobOf(w).inst
      BY <1>t, <2>2 DEF TrackAgain, SetWorker, WorkerState
    <3>2. JobOf(w)' = JobOf(w) /\ JobOf(w).inst \in Inst /\ Exists(JobOf(w).inst)
      BY <3>1, WorkGoesOn, HeldJob
    <3>3. inst'[wk'[w].inst].status # "none"
      BY <1>m, <3>1, <3>2 DEF InstancesOnward, Exists
    <3>4. QED
      BY <3>1, <3>2, <3>3
  <2>3. ASSUME NEW i \in Inst, TrackNew(w, i)
        PROVE  /\ wk'[w].inst \in Inst /\ inst'[wk'[w].inst].status # "none"
               /\ IsRetry(w)' => wk'[w].inst = JobOf(w)'.inst
    <3>1. wk[w].pc # "idle" /\ ~IsRetry(w) /\ wk'[w].msg = wk[w].msg /\ wk'[w].inst = i
      BY <1>t, <2>3 DEF TrackNew, SetWorker, WorkerState
    <3>2. ~IsRetry(w)'
      BY <3>1, WorkGoesOn
    <3>3. Exists(i)'
      BY <1>t, <2>3 DEF TrackNew, Exists
    <3>4. inst'[wk'[w].inst].status # "none"
      BY <3>1, <3>3 DEF Exists
    <3>5. QED
      BY <3>1, <3>2, <3>4
  <2>4. CASE ReferenceTracking(w)
    <3>1. wk[w].pc = "reference" /\ wk'[w].msg = wk[w].msg /\ wk'[w].inst = wk[w].inst
      BY <1>t, <2>4 DEF ReferenceTracking, Step, SetWorker, WorkerState
    <3>2. QED
      BY <2>1, <3>1
  <2>5. QED
    BY <2>1, <2>2, <2>3, <2>4, WorkGoesOn, LauncherPath
<1>5. QED
  BY <1>1, <1>2, <1>3, <1>4

(* A ladder that is launched or failed for good is let go of for good.     *)
LEMMA LetGoKept ==
  ASSUME NothingDropped, TypeInv, LadderInv, Next PROVE LadderLetGo'
<1>t. wk \in [Worker -> WorkerState] /\ inst \in [Inst -> InstItem]
  BY DEF TypeInv, TypeOK
<1> SUFFICES ASSUME NEW w \in Worker, wk'[w].pc \in LetGoPc, IsRetry(w)'
             PROVE  ~OnlyTracking(JobOf(w).inst)'
  BY DEF LadderLetGo
<1>1. CASE wk[w].pc \in LetGoPc /\ wk'[w].msg = wk[w].msg
  <2>1. wk[w].pc # "idle"
    BY <1>1 DEF LetGoPc, LaunchedPc
  <2>2. JobOf(w)' = JobOf(w) /\ IsRetry(w)
    BY <1>1, <2>1, WorkGoesOn
  <2>3. JobOf(w).inst \in Inst /\ Exists(JobOf(w).inst) /\ ~OnlyTracking(JobOf(w).inst)
    BY <1>1, <2>1, <2>2, HeldJob DEF LadderInv, LadderLetGo
  <2> DEFINE i == JobOf(w).inst
  <2>4. inst'[i].status # "running" \/ inst'[i].mid # None
    BY <2>3, WorkGoesOn DEF OnlyTracking
  <2>5. QED
    BY <2>2, <2>4 DEF OnlyTracking
<1>2. CASE PersistRetry(w)
  <2>1. wk[w].pc = "persist" /\ wk'[w].msg = wk[w].msg /\ IsRetry(w)
    BY <1>t, <1>2 DEF PersistRetry, SetWorker, WorkerState
  <2>2. JobOf(w)' = JobOf(w) /\ JobOf(w).inst \in Inst
    BY <2>1, WorkGoesOn, HeldJob
  <2>3. inst'[JobOf(w).inst].mid # None
    BY <1>t, <1>2, <2>1, <2>2 DEF PersistRetry, LadderInv, MidInHand
  <2>4. QED
    BY <2>2, <2>3 DEF OnlyTracking
<1>3. ASSUME NEW i \in Inst, PersistNew(w, i) PROVE FALSE
  <2>1. wk[w].pc = "persist" /\ wk'[w].msg = wk[w].msg /\ ~IsRetry(w)
    BY <1>t, <1>3 DEF PersistNew, SetWorker, WorkerState
  <2>2. QED
    BY <2>1, WorkGoesOn
<1>4. CASE FailInstance(w)
  <2>1. wk[w].pc = "failInst" /\ wk'[w].msg = wk[w].msg
    BY <1>t, <1>4 DEF FailInstance, Step, SetWorker, WorkerState
  <2>2. JobOf(w)' = JobOf(w) /\ JobOf(w).inst \in Inst
    BY <2>1, WorkGoesOn, HeldJob
  <2>3. inst'[JobOf(w).inst].status = "failed"
    BY <1>t, <1>4, <2>2 DEF FailInstance, SetInst, InstItem
  <2>4. QED
    BY <2>2, <2>3 DEF OnlyTracking
<1>5. CASE FailRow(w)
  <2>1. wk[w].pc = "failRow" /\ wk'[w].msg = wk[w].msg
    BY <1>t, <1>5 DEF FailRow, Step, SetWorker, WorkerState
  <2>2. QED
    BY <1>1, <2>1 DEF LetGoPc
<1>6. CASE wk'[w].pc = "failRow" /\ ~IsRetry(w) /\ wk[w].pc # "idle" /\ wk'[w].msg = wk[w].msg
  BY <1>6, WorkGoesOn
<1>7. CASE wk'[w].pc \in LaunchedPc \ {"record"} /\ wk[w].pc \in LaunchedPc /\ wk[w].pc # "idle" /\ wk'[w].msg = wk[w].msg
  BY <1>1, <1>7 DEF LetGoPc
<1>8. ASSUME NEW m \in Msg, Receive(w, m) PROVE wk'[w].pc \notin LetGoPc
  BY <1>t, <1>8 DEF Receive, SetWorker, IdleWorker, LetGoPc, LaunchedPc
<1>9. CASE wk'[w] = wk[w]
  BY <1>1, <1>9
<1>10. CASE LauncherStep(w) \/ LauncherFault(w)
  <2>1. wk[w].pc # "idle" /\ wk'[w].msg = wk[w].msg
    BY <1>8, <1>10, LauncherPath DEF LetGoPc, LaunchedPc
  <2>2. CASE wk'[w].pc = "record"
    BY <1>2, <1>3, <1>10, <2>2, LauncherPath
  <2>3. CASE wk'[w].pc \in LaunchedPc \ {"record"}
    BY <1>7, <1>10, <2>1, <2>3, LauncherPath
  <2>4. CASE wk'[w].pc = "failRow"
    BY <1>4, <1>6, <1>10, <2>1, <2>4, LauncherPath
  <2>5. CASE wk'[w].pc = "count"
    BY <1>5, <1>10, <2>5, LauncherPath
  <2>6. QED
    BY <2>2, <2>3, <2>4, <2>5 DEF LetGoPc
<1>11. QED
  BY <1>9, <1>10, WorkGoesOn

(* The retry that is enqueued bears the ladder.                            *)
LEMMA RetryBears ==
  ASSUME NothingDropped, TypeInv, LadderInv, NEW w \in Worker, NEW n \in Msg, EnqueueRetry(w, n)
  PROVE  Bears(n, wk[w].inst)'
<1>t. wk \in [Worker -> WorkerState] /\ msg \in [Msg -> Message]
  BY DEF TypeInv, TypeOK
<1>1. /\ wk[w].pc = "enqueue" /\ wk'[w].msg = wk[w].msg /\ wk'[w].inst = wk[w].inst
      /\ msg[n].state = "none"
      /\ msg'[n].state = "visible" /\ msg'[n].job = NextAttempt(w)
  BY <1>t DEF EnqueueRetry, Send, FreshMsg, Step, SetWorker, WorkerState
<1>2. \A v \in Worker : v # w => wk'[v] = wk[v]
  BY LauncherPath DEF LauncherStep
<1>3. JobOf(w) \in Job
  BY <1>t, <1>1, HeldJob DEF JobOf, Message
<1>4. NextAttempt(w).inst = wk[w].inst
  BY <1>3 DEF NextAttempt, Job
<1>5. ASSUME NEW v \in Worker, wk'[v].pc \in {"stats", "ack"}, wk'[v].msg = n PROVE FALSE
  BY <1>1, <1>2, <1>5, HeldJob
<1>6. QED
  BY <1>1, <1>4, <1>5 DEF Bears, Pending, LettingGo

(* A ladder is handed on.                                                  *)
LEMMA BorneKept ==
  ASSUME NothingDropped, TypeInv, LadderInv, Next PROVE LadderBorne'
<1>t. /\ wk \in [Worker -> WorkerState] /\ inst \in [Inst -> InstItem] /\ None \notin Inst
      /\ msg \in [Msg -> Message]
  BY ConstantsAssumption DEF TypeInv, TypeOK
<1>m. MessagesOnward /\ InstancesOnward
  BY MessageSteps, InstanceSteps DEF LadderInv
<1> DEFINE BorneNext(i) == (\E m \in Msg : Bears(m, i)') \/ (\E w \in Worker : Begins(w, i)')
<1> SUFFICES ASSUME NEW i \in Inst, OnlyTracking(i)' PROVE BorneNext(i)
  BY DEF LadderBorne
<1>i. inst'[i].status = "running" /\ inst'[i].mid = None
  BY DEF OnlyTracking
<1>1. ASSUME NEW w \in Worker, TrackNew(w, i) PROVE BorneNext(i)
  <2>1. /\ wk[w].pc # "idle" /\ ~IsRetry(w) /\ wk'[w].msg = wk[w].msg
        /\ wk'[w].inst = i /\ wk'[w].pc = "reference"
    BY <1>t, <1>1 DEF TrackNew, SetWorker, WorkerState
  <2>2. ~IsRetry(w)'
    BY <2>1, WorkGoesOn
  <2>3. Begins(w, i)'
    BY <2>1, <2>2 DEF Begins
  <2>4. QED
    BY <2>3
<1>2. ASSUME NEW w \in Worker, NEW n \in Msg, EnqueueRetry(w, n), wk[w].inst = i PROVE BorneNext(i)
  <2>1. Bears(n, wk[w].inst)'
    BY <1>2, RetryBears
  <2>2. wk'[w].inst = wk[w].inst
    BY <1>t, <1>2 DEF EnqueueRetry, Step, SetWorker, WorkerState
  <2>3. msg'[n].job.inst = i /\ Pending(n)' /\ ~LettingGo(n)'
    BY <1>2, <2>1, <2>2 DEF Bears
  <2>4. Bears(n, i)'
    BY <2>3 DEF Bears
  <2>5. QED
    BY <2>4
<1>3. ASSUME NEW w \in Worker, Begins(w, i) PROVE BorneNext(i)
  <2>1. wk[w].pc \in {"reference", "enqueue"} /\ ~IsRetry(w) /\ wk[w].inst = i
    BY <1>3 DEF Begins
  <2>2. CASE wk'[w].msg = wk[w].msg /\ wk'[w].inst = i /\ wk'[w].pc \in {"reference", "enqueue"}
    <3>1. ~IsRetry(w)'
      BY <2>1, <2>2, WorkGoesOn
    <3>2. Begins(w, i)'
      BY <2>2, <3>1 DEF Begins
    <3>3. QED
      BY <3>2
  <2>3. CASE ReferenceTracking(w)
    <3>1. wk'[w].msg = wk[w].msg /\ wk'[w].inst = wk[w].inst /\ wk'[w].pc = "enqueue"
      BY <1>t, <2>3 DEF ReferenceTracking, Step, SetWorker, WorkerState
    <3>2. QED
      BY <2>1, <2>2, <3>1
  <2>4. ASSUME NEW n \in Msg, EnqueueRetry(w, n) PROVE BorneNext(i)
    BY <1>2, <2>1, <2>4
  <2>5. QED
    BY <2>1, <2>2, <2>3, <2>4, WorkGoesOn, LauncherForward
<1>4. ASSUME NEW m \in Msg, Bears(m, i), OnlyTracking(i) PROVE BorneNext(i)
  <2>1. Pending(m) /\ msg[m].job.inst = i /\ ~LettingGo(m) /\ msg[m].state # "none"
    BY <1>4 DEF Bears, Pending
  <2>2. Pending(m)' /\ msg'[m].job.inst = i
    BY <1>m, <2>1 DEF MessagesOnward, LettingGo, Ack
  <2>3. CASE ~LettingGo(m)'
    BY <2>2, <2>3 DEF Bears
  <2>4. ASSUME NEW w \in Worker, wk'[w].pc \in {"stats", "ack"}, wk'[w].msg = m PROVE BorneNext(i)
    <3>1. wk'[w] # wk[w]
      BY <2>1, <2>4 DEF LettingGo
    <3>2. LauncherStep(w) \/ LauncherFault(w)
      BY <3>1, WorkGoesOn
    <3>3. ASSUME NEW n \in Msg, Receive(w, n) PROVE FALSE
      BY <1>t, <2>4, <3>3 DEF Receive, SetWorker, IdleWorker
    <3>4. wk[w].pc # "idle" /\ wk[w].msg = m
      BY <2>4, <3>2, <3>3, LauncherPath
    <3>5. JobOf(w).inst = i /\ IsRetry(w)
      BY <1>t, <2>1, <3>4 DEF JobOf, IsRetry
    <3>6. wk[w].pc \notin LetGoPc
      BY <1>4, <3>5 DEF LadderInv, LadderLetGo
    <3>7. wk'[w].pc = "ack"
      BY <2>4, <3>2, <3>6, LauncherPath DEF LetGoPc, LaunchedPc
    <3>8. ~(RetryGuard(w) /\ Superseded(w))
      BY <1>4, <3>5 DEF Superseded, OnlyTracking
    <3>9. ~DenyInstance(w)
      BY <1>t, <1>i, <1>4, <3>5 DEF DenyInstance, SetInst, OnlyTracking, InstItem
    <3>10. ~FailRowAgain(w) /\ ~CountFailure(w)
      BY <3>6 DEF FailRowAgain, CountFailure, Step, LetGoPc
    <3>11. PICK n \in Msg : EnqueueRetry(w, n)
      BY <3>2, <3>5, <3>7, <3>8, <3>9, <3>10, LauncherPath
    <3>12. wk[w].inst = i
      BY <3>5, <3>11 DEF EnqueueRetry, Step, LadderInv, WorkersNameInstances
    <3>13. QED
      BY <1>2, <3>11, <3>12
  <2>5. QED
    BY <2>3, <2>4 DEF LettingGo
<1>5. QED
  BY <1>1, <1>3, <1>4, <1>m DEF InstancesOnward, LadderInv, LadderBorne

(* Before the first step nothing is sent, held or tracked.                 *)
LEMMA LadderInit == Init => LadderInv
  BY DEF Init, LadderInv, LadderBorne, LadderLetGo, MidInHand, HeldIsSent, JobsNameInstances,
         WorkersNameInstances, OnlyTracking, IdleWorker, LetGoPc, LaunchedPc

(* The inductive step of LadderIsNotStranded.                              *)
LEMMA LadderStep ==
  ASSUME NothingDropped \/ UNCHANGED vars, TypeInv, LadderInv, [Next]_vars PROVE LadderInv'
<1>1. CASE Next /\ NothingDropped
  <2>1. TypeInv'
    BY StepType
  <2>2. QED
    BY <1>1, <2>1, NamesKept, LetGoKept, BorneKept DEF LadderInv
<1>2. CASE UNCHANGED vars
  BY <1>2 DEF vars, LadderInv, LadderBorne, LadderLetGo, MidInHand, HeldIsSent, JobsNameInstances,
         WorkersNameInstances, OnlyTracking, Exists, Bears, Begins, Pending, LettingGo, IsRetry, JobOf
<1>3. QED
  BY <1>1, <1>2

(* A tracking instance is never stranded 'running': whatever the order of  *)
(* deliveries, redeliveries, launches, lost answers, failed writes of the  *)
(* try block, syncs, sweeps and cancels, a message or a worker carries its *)
(* ladder - as long as no worker dies over a job and the catch block's     *)
(* writes land, for what those leave only the sweep cleans up.             *)
THEOREM LadderIsNotStranded == CatchBlockLands => (Spec => []LadderNotStranded)
<1> SUFFICES ASSUME CatchBlockLands PROVE Spec => []LadderNotStranded
  OBVIOUS
<1>1. TypeInv /\ LadderInv /\ [Next]_vars => (TypeInv /\ LadderInv)'
  <2>1. NothingDropped
    BY DEF NothingDropped, CatchBlockLands, FinalFails, WorkerCrashes, Fault
  <2>2. QED
    BY <2>1, StepType, LadderStep
<1>2. Init => TypeInv /\ LadderInv
  BY InitType, LadderInit
<1>3. TypeInv /\ LadderInv => LadderNotStranded
  BY DEF LadderInv, LadderBorne, LadderNotStranded, Carried, Bears, Pending, Begins
<1>4. QED
  BY <1>1, <1>2, <1>3, PTL DEF Spec

----------------------------------------------------------------------------
(* No message comes back while its worker is at it, or after it has done   *)
(* part of the job: a row's ladder is climbed by one worker at a time.     *)
NoRepeats ==
  /\ \A m \in Msg : ~ReappearEarly(m)
  /\ \A w \in Worker : ~TryFails(w) /\ ~WorkerCrashes(w)

(* Where a worker has done what its job says of the row.                   *)
DonePc == {"denyInst", "reset", "stats", "ack"}

(* A worker that stays with its job stays with its message, and one that   *)
(* is done with the row only acknowledges.                                 *)
LEMMA WorkerMoves ==
  ASSUME TypeInv, NoRepeats, NEW w \in Worker, LauncherStep(w) \/ LauncherFault(w)
  PROVE  /\ \A v \in Worker : v # w => wk'[v] = wk[v]
         /\ \/ \E m \in Msg : Receive(w, m) /\ wk[w].pc = "idle" /\ wk'[w].msg = m /\ wk'[w].pc \in {"guard", "launch"}
            \/ Ack(w) /\ wk[w].pc \in {"stats", "ack"} /\ wk'[w] = IdleWorker
            \/ /\ wk[w].pc \notin {"idle", "stats", "ack"} /\ wk'[w].pc # "idle" /\ wk'[w].msg = wk[w].msg
               /\ wk[w].pc \in DonePc => wk'[w].pc \in DonePc
<1> DEFINE Goes == /\ wk[w].pc \notin {"idle", "stats", "ack"} /\ wk'[w].pc # "idle" /\ wk'[w].msg = wk[w].msg
                   /\ wk[w].pc \in DonePc => wk'[w].pc \in DonePc
           Others == \A v \in Worker : v # w => wk'[v] = wk[v]
<1>t. wk \in [Worker -> WorkerState] /\ wk[w] \in WorkerState
  BY DEF TypeInv, TypeOK
<1>k. ASSUME NEW f \in WorkerPc \ {"idle", "stats", "ack"}, NEW p \in WorkerPc \ {"idle"}, Step(w, f, p), f \in DonePc => p \in DonePc
      PROVE  Others /\ Goes
  BY <1>t, <1>k DEF Step, SetWorker, WorkerState
<1>s. ASSUME NEW t \in WorkerState, SetWorker(w, t)
      PROVE  Others /\ wk'[w] = t
  BY <1>t, <1>s DEF SetWorker
<1> USE DEF DonePc
<1>1. ASSUME NEW m \in Msg, Receive(w, m)
      PROVE  Others /\ wk[w].pc = "idle" /\ wk'[w].msg = m /\ wk'[w].pc \in {"guard", "launch"}
  BY <1>t, <1>1 DEF Receive, SetWorker, IdleWorker
<1>2. CASE Ack(w)
  <2>1. IdleWorker \in WorkerState
    BY DEF IdleWorker, WorkerState, WorkerPc
  <2>2. Others /\ wk'[w] = IdleWorker /\ wk[w].pc \in {"stats", "ack"}
    BY <1>2, <2>1, <1>s DEF Ack
  <2>3. QED
    BY <1>2, <2>2
<1>3. ASSUME \/ \E m \in Msg : EnqueueRetry(w, m)
             \/ RetryGuard(w) \/ GateDenies(w) \/ DenyInstance(w)
             \/ LaunchFailsRetryably(w) \/ LaunchRejected(w) \/ \E k \in Mid : ReplyLost(w, k)
      PROVE  Others /\ Goes
  <2>1. PICK f \in {"enqueue", "guard", "launch", "denyInst"}, p \in {"ack", "launch", "denyInst", "track", "failInst", "failRow"} :
          Step(w, f, p) /\ (f = "denyInst" => p = "ack")
    BY <1>3 DEF EnqueueRetry, RetryGuard, GateDenies, DenyInstance, LaunchFailsRetryably, LaunchRejected, ReplyLost,
       RetryOrFail, FinalPc
  <2>2. QED
    BY <2>1, <1>k DEF WorkerPc
<1>4. ASSUME \/ RecordLaunch(w) \/ RecordRefused(w) \/ ReadRun(w) \/ AdoptLaunch(w) \/ AdoptRefused(w)
             \/ UndoLaunch(w) \/ UndoRejected(w) \/ UndoInstance(w) \/ ResetStreak(w)
      PROVE  Others /\ Goes
  <2>1. PICK f \in {"record", "readRun", "adopt", "undo", "undoInst", "reset"},
             p \in {"readRun", "adopt", "undo", "undoInst", "reset", "stats"} :
          Step(w, f, p) /\ (f = "reset" => p = "stats")
    BY <1>4 DEF RecordLaunch, RecordRefused, ReadRun, AdoptLaunch, AdoptRefused, UndoLaunch, UndoRejected, UndoInstance, ResetStreak
  <2>2. QED
    BY <2>1, <1>k DEF WorkerPc
<1>5. ASSUME ReferenceTracking(w) \/ FailInstance(w) \/ FailRow(w) \/ FailRowAgain(w) \/ CountFailure(w)
      PROVE  Others /\ Goes
  <2>1. PICK f \in {"reference", "failInst", "failRow", "count"}, p \in {"enqueue", "failRow", "count", "ack"} : Step(w, f, p)
    BY <1>5 DEF ReferenceTracking, FailInstance, FailRow, FailRowAgain, CountFailure
  <2>2. QED
    BY <2>1, <1>k DEF WorkerPc
<1>6. ASSUME NEW k \in Mid, LaunchSucceeds(w, k)
      PROVE  Others /\ Goes
  BY <1>t, <1>6 DEF LaunchSucceeds, SetWorker, WorkerState
<1>7. ASSUME NEW i \in Inst, PersistNew(w, i) \/ TrackNew(w, i)
      PROVE  Others /\ Goes
  BY <1>t, <1>7 DEF PersistNew, TrackNew, SetWorker, WorkerState
<1>8. ASSUME PersistRetry(w) \/ TrackAgain(w)
      PROVE  Others /\ Goes
  BY <1>t, <1>8 DEF PersistRetry, TrackAgain, SetWorker, WorkerState
<1>9. ASSUME FinalFails(w)
      PROVE  Others /\ Goes
  <2>1. /\ wk[w].pc \in {"denyInst", "undo", "undoInst", "reference", "failInst", "failRow", "count"}
        /\ AfterError(wk[w].pc) \in {"failRow", "stats", "enqueue", "ack"}
        /\ wk[w].pc = "denyInst" => AfterError(wk[w].pc) = "ack"
    BY <1>9 DEF FinalFails, AfterError
  <2>2. Others /\ wk'[w].pc = AfterError(wk[w].pc) /\ wk'[w].msg = wk[w].msg
    BY <1>t, <1>9 DEF FinalFails, SetWorker, WorkerState
  <2>3. QED
    BY <2>1, <2>2
<1>10. ~TryFails(w) /\ ~WorkerCrashes(w)
  BY DEF NoRepeats
<1>11. QED
  BY <1>1, <1>2, <1>3, <1>4, <1>5, <1>6, <1>7, <1>8, <1>9, <1>10 DEF LauncherStep, LauncherFault

(* What may become of a message.                                           *)
Released(d, r, m) ==
  /\ Sending(d, r) /\ FreshMsg(m)
  /\ msg'[m] = [state |-> "visible", job |-> [row |-> r, attempt |-> 0, inst |-> None]]
  /\ hist'.released[r] # 0 /\ wk' = wk /\ row' = row
Retried(w, m) ==
  /\ EnqueueRetry(w, m) /\ FreshMsg(m)
  /\ msg'[m].state = "visible" /\ msg'[m].job = NextAttempt(w)
Received(w, m) ==
  /\ Receive(w, m) /\ msg[m].state = "visible"
  /\ msg'[m].state = "hidden" /\ msg'[m].job = msg[m].job
Acked(w, m) ==
  /\ Ack(w) /\ wk[w].msg = m
  /\ msg'[m].state = "deleted" /\ msg'[m].job = msg[m].job
Reappeared(m) ==
  /\ msg[m].state = "hidden" /\ msg'[m].state = "visible" /\ msg'[m].job = msg[m].job
  /\ \A w \in Worker : wk[w].msg # m
  /\ wk' = wk /\ row' = row
MessageMoves ==
  \A m \in Msg :
    \/ msg'[m] = msg[m]
    \/ \E d \in Tick, r \in Row : Released(d, r, m)
    \/ \E w \in Worker : Retried(w, m) \/ Received(w, m) \/ Acked(w, m)
    \/ Reappeared(m)

(* So it is at every step in which no message reappears early.             *)
LEMMA MessageMoved == ASSUME TypeInv, NoRepeats, Next PROVE MessageMoves
<1> USE DEF MessageMoves
<1>t. TypeOK /\ msg \in [Msg -> Message]
  BY DEF TypeInv, TypeOK
<1>1. CASE msg' = msg
  BY <1>1
<1>2. ASSUME NEW d \in Tick, SendJob(d) PROVE MessageMoves
  <2>1. PICK r \in tick[d].todo, m \in Msg :
          /\ tick[d].pc = "send" /\ IsFirst(r, tick[d].todo)
          /\ Send(m, [row |-> r, attempt |-> 0, inst |-> None])
          /\ hist' = [hist EXCEPT !.released[r] = @ + 1]
    BY <1>2 DEF SendJob
  <2>2. r \in Row /\ Sending(d, r)
    BY <1>t, <2>1 DEF TypeOK, TickState, Sending
  <2>3. hist'.released[r] # 0
    BY <1>t, <2>1, <2>2 DEF TypeOK, History
  <2>4. wk' = wk /\ row' = row
    BY <1>2 DEF SendJob, TickUnchanged
  <2>5. /\ FreshMsg(m)
        /\ msg'[m] = [state |-> "visible", job |-> [row |-> r, attempt |-> 0, inst |-> None]]
        /\ \A n \in Msg : n # m => msg'[n] = msg[n]
    BY <1>t, <2>1 DEF Send
  <2>6. Released(d, r, m)
    BY <2>2, <2>3, <2>4, <2>5 DEF Released
  <2>7. QED
    BY <2>2, <2>5, <2>6
<1>3. ASSUME NEW w \in Worker, NEW m \in Msg, EnqueueRetry(w, m) PROVE MessageMoves
  <2> DEFINE job == NextAttempt(w)
  <2>1. Send(m, job)
    BY <1>3 DEF EnqueueRetry
  <2> HIDE DEF job
  <2>2. /\ FreshMsg(m) /\ msg'[m].state = "visible" /\ msg'[m].job = job
        /\ \A n \in Msg : n # m => msg'[n] = msg[n]
    BY <1>t, <2>1 DEF Send
  <2>3. Retried(w, m)
    BY <1>3, <2>2 DEF Retried, job
  <2>4. QED
    BY <2>2, <2>3
<1>4. ASSUME NEW w \in Worker, NEW m \in Msg, Receive(w, m) PROVE MessageMoves
  <2>1. Received(w, m) /\ \A n \in Msg : n # m => msg'[n] = msg[n]
    BY <1>t, <1>4 DEF Receive, Received, Message
  <2>2. QED
    BY <2>1
<1>5. ASSUME NEW w \in Worker, Ack(w) PROVE MessageMoves
  <2>1. msg' = [msg EXCEPT ![wk[w].msg].state = "deleted"] /\ wk[w].pc # "idle"
    BY <1>5 DEF Ack
  <2>2. wk[w].msg \in Msg
    BY <2>1 DEF TypeInv, BusyHoldsMessage
  <2>3. Acked(w, wk[w].msg) /\ \A n \in Msg : n # wk[w].msg => msg'[n] = msg[n]
    BY <1>t, <1>5, <2>1, <2>2 DEF Acked, Message
  <2>4. QED
    BY <2>3
<1>6. ASSUME NEW m \in Msg, Reappear(m) PROVE MessageMoves
  <2>1. Reappeared(m) /\ \A n \in Msg : n # m => msg'[n] = msg[n]
    BY <1>t, <1>6 DEF Reappear, Reappeared, Message, others
  <2>2. QED
    BY <2>1
<1>7. CASE Environment
  BY <1>7, <1>1, <1>6 DEF NoRepeats, Environment, ReleaseTimeComes, Age, WorkflowEnds, SyncInstance, ViewRows
<1>8. ASSUME NEW d \in Tick, DispatcherStep(d) \/ DispatcherFault(d) PROVE MessageMoves
  BY <1>8, <1>1, <1>2 DEF DispatcherStep, DispatcherFault, ScanRunning, StopRun, QueryQueuedRows, ClaimRow,
     ClaimLost, AdvanceRelease, CheckRows, CheckInstances, CompleteRun, PromoteRun,
     QueryLaunching, SweepRow, SweepLost, ResolveTracking, SweepDone, DispatchFails, TickCrashes
<1>9. ASSUME NEW w \in Worker, LauncherStep(w) \/ LauncherFault(w) PROVE MessageMoves
  BY <1>9, <1>1, <1>3, <1>4, <1>5 DEF LauncherStep, LauncherFault, LaunchSucceeds, PersistNew, TrackNew, RetryGuard,
     DenyInstance, LaunchFailsRetryably, LaunchRejected, PersistRetry,
     RecordRefused, ReadRun, AdoptRefused, UndoLaunch, UndoInstance, TrackAgain,
     FailInstance, FailRowAgain, ReplyLost, UndoRejected, TryFails,
     FinalFails, WorkerCrashes, GateDenies, RecordLaunch, AdoptLaunch,
     ResetStreak, ReferenceTracking, FailRow, CountFailure
<1>10. ASSUME NEW q \in Req, Load(q) \/ RequestProceeds(q) PROVE MessageMoves
  BY <1>10, <1>1 DEF Load, RequestProceeds, RowRequest, OnlyReq, ReqUnchanged, PutRow, StartRun, PauseRun, ResumeRun,
     ClaimQueued, ReadRows, CancelWaitingRow, ResolveLive, PickLiveRow, NoLiveRowLeft, PickWaitingRow,
     PickLaunchedRow, RowRefused, CancelAtMaestro, CancelLocally, CancelLaunchedRow, Reread, RecheckInstances, CloseRun
<1>11. QED
  BY <1>7, <1>8, <1>9, <1>10 DEF Next

(* What may become of a row's status.                                      *)
Swept(r)     == row[r].status = "launching" /\ row[r].stale /\ row'[r].status = "failed"
Resolved(r)  ==
  /\ row[r].status = "launched" /\ row'[r].status \in Terminal
  /\ \/ InstanceEnded(r) /\ row'[r].status = inst[row[r].inst].status
     \/ row'[r].status = "cancelled" /\ \E q \in Req : req[q].pc = "row" /\ r \in req[q].todo
Claimed(r)   == row[r].status = "queued" /\ row'[r].status = "launching"
Cancelled(q, r) ==
  /\ CancelWaitingRow(q) /\ req[q].pc = "flip" /\ row[r].status \in Waiting /\ row'[r].status = "cancelled"
PutAnew(q, r) ==
  /\ PutRow(q) /\ req[q].pc = "put" /\ r \in req[q].todo /\ row'[r].status = Plan[r]
Worked(w, r) ==
  /\ wk[w].pc \notin DonePc \cup {"idle", "count"} /\ JobOf(w).row = r
  /\ wk'[w].msg = wk[w].msg
  /\ \/ row'[r].status = "failed" /\ row[r].status # "failed" /\ wk'[w].pc = "count"
     \/ row'[r].status \in {"launched", "skipped"} /\ wk'[w].pc \in DonePc
RowMoves ==
  \A r \in Row :
    \/ row'[r].status = row[r].status
    \/ wk' = wk /\ msg' = msg /\ (Swept(r) \/ Resolved(r) \/ Claimed(r))
    \/ \E q \in Req : wk' = wk /\ msg' = msg /\ (Cancelled(q, r) \/ PutAnew(q, r))
    \/ \E w \in Worker : (LauncherStep(w) \/ LauncherFault(w)) /\ msg' = msg /\ Worked(w, r)

(* So it is at every step.                                                 *)
LEMMA RowMoved == ASSUME TypeInv, Next PROVE RowMoves
<1> USE DEF RowMoves
<1>t. /\ TypeOK /\ row \in [Row -> RowItem] /\ inst \in [Inst -> InstItem] /\ wk \in [Worker -> WorkerState]
  BY DEF TypeInv, TypeOK
<1>1. CASE \A r \in Row : row'[r].status = row[r].status
  BY <1>1
<1>2. ASSUME NEW R, ResolveRows(R), wk' = wk, msg' = msg PROVE RowMoves
  BY <1>t, <1>2 DEF ResolveRows, InstanceEnded, RowItem, Resolved
<1>3. CASE Environment
  <2>1. ASSUME NEW r \in Row, Age(r) PROVE \A s \in Row : row'[s].status = row[s].status
    BY <1>t, <2>1 DEF Age, RowItem
  <2>2. CASE ViewRows
    BY <2>2, <1>2 DEF ViewRows, others
  <2>3. QED
    BY <1>1, <1>3, <2>1, <2>2 DEF Environment, ReleaseTimeComes, Reappear, ReappearEarly, WorkflowEnds, SyncInstance
<1>4. ASSUME NEW d \in Tick, DispatcherStep(d) \/ DispatcherFault(d) PROVE RowMoves
  <2>1. CASE ClaimRow(d)
    <3>1. PICK r \in tick[d].todo : /\ row[r].status = "queued"
                                    /\ row' = [row EXCEPT ![r] = [@ EXCEPT !.status = "launching", !.stale = FALSE]]
      BY <2>1 DEF ClaimRow, Claimable
    <3>2. r \in Row
      BY <1>t DEF TypeOK, TickState
    <3>3. Claimed(r) /\ \A s \in Row : s # r => row'[s] = row[s]
      BY <1>t, <3>1, <3>2 DEF Claimed, RowItem
    <3>4. QED
      BY <2>1, <3>3 DEF ClaimRow, TickUnchanged
  <2>2. CASE CheckInstances(d)
    BY <2>2, <1>2 DEF CheckInstances, TickUnchanged
  <2>3. CASE SweepRow(d)
    <3>1. PICK r \in tick[d].todo : row[r].status = "launching" /\ row[r].stale /\ SetRow(r, "failed")
      BY <2>3 DEF SweepRow, StaleRow
    <3>2. r \in Row
      BY <1>t DEF TypeOK, TickState
    <3>3. Swept(r) /\ \A s \in Row : s # r => row'[s] = row[s]
      BY <1>t, <3>1, <3>2 DEF Swept, SetRow, RowItem
    <3>4. QED
      BY <2>3, <3>3 DEF SweepRow, TickUnchanged
  <2>4. QED
    BY <1>1, <1>4, <2>1, <2>2, <2>3 DEF DispatcherStep, DispatcherFault, ScanRunning, StopRun, QueryQueuedRows,
       ClaimLost, SendJob, AdvanceRelease, CheckRows, CompleteRun, PromoteRun,
       QueryLaunching, SweepLost, ResolveTracking, SweepDone, DispatchFails, TickCrashes
<1>5. ASSUME NEW w \in Worker, LauncherStep(w) \/ LauncherFault(w) PROVE RowMoves
  <2> DEFINE r == JobOf(w).row
  <2>k. ASSUME NEW f \in WorkerPc, NEW p \in WorkerPc, Step(w, f, p)
        PROVE  wk[w].pc = f /\ wk'[w].pc = p /\ wk'[w].msg = wk[w].msg
    BY <1>t, <2>k DEF Step, SetWorker, WorkerState
  <2>j. wk[w].pc # "idle" => r \in Row
    BY <1>t DEF TypeInv, BusyHoldsMessage, TypeOK, Message, Job, JobOf
  <2> HIDE DEF r
  <2>1. CASE GateDenies(w)
    <3>1. wk[w].pc = "launch" /\ wk'[w].pc \in DonePc /\ wk'[w].msg = wk[w].msg
      BY <2>1, <2>k DEF GateDenies, DonePc, WorkerPc
    <3>2. row'[r].status = "skipped" /\ \A s \in Row : s # r => row'[s] = row[s]
      BY <1>t, <2>1, <2>j, <3>1 DEF GateDenies, SetRow, RowItem, r
    <3>3. Worked(w, r)
      BY <3>1, <3>2 DEF Worked, DonePc, r
    <3>4. msg' = msg
      BY <2>1 DEF GateDenies
    <3>5. QED
      BY <1>5, <3>2, <3>3, <3>4
  <2>2. CASE RecordLaunch(w) \/ AdoptLaunch(w)
    <3>1. wk[w].pc \in {"record", "adopt"} /\ wk'[w].pc = "reset" /\ wk'[w].msg = wk[w].msg
      BY <2>2, <2>k DEF RecordLaunch, AdoptLaunch, WorkerPc
    <3>2. row'[r].status = "launched" /\ \A s \in Row : s # r => row'[s] = row[s]
      <4>1. RecordOn(w) /\ r \in Row
        BY <2>2, <2>j, <3>1 DEF RecordLaunch, AdoptLaunch
      <4>2. QED
        BY <1>t, <4>1 DEF RecordOn, RowItem, r
    <3>3. Worked(w, r)
      BY <3>1, <3>2 DEF Worked, DonePc, r
    <3>4. msg' = msg
      BY <2>2 DEF RecordLaunch, AdoptLaunch
    <3>5. QED
      BY <1>5, <3>2, <3>3, <3>4
  <2>3. CASE FailRow(w)
    <3>1. wk[w].pc = "failRow" /\ wk'[w].pc = "count" /\ wk'[w].msg = wk[w].msg
      BY <2>3, <2>k DEF FailRow, WorkerPc
    <3>2. /\ row'[r].status = "failed" /\ row[r].status # "failed" /\ \A s \in Row : s # r => row'[s] = row[s]
      BY <1>t, <2>3, <2>j, <3>1 DEF FailRow, NotYetFailed, FailedRow, RowItem, r
    <3>3. Worked(w, r)
      BY <3>1, <3>2 DEF Worked, DonePc, r
    <3>4. msg' = msg
      BY <2>3 DEF FailRow
    <3>5. QED
      BY <1>5, <3>2, <3>3, <3>4
  <2>4. CASE ReferenceTracking(w)
    BY <1>1, <1>t, <2>4 DEF ReferenceTracking, RowItem
  <2>5. CASE row' = row
    BY <1>1, <2>5
  <2>6. QED
    BY <1>5, <2>1, <2>2, <2>3, <2>4, <2>5 DEF LauncherStep, LauncherFault,
       Receive, EnqueueRetry, LaunchSucceeds, PersistNew, TrackNew, RetryGuard,
       DenyInstance, LaunchFailsRetryably, LaunchRejected, PersistRetry,
       RecordRefused, ReadRun, AdoptRefused, UndoLaunch, UndoInstance, TrackAgain,
       FailInstance, FailRowAgain, Ack, ReplyLost, UndoRejected, TryFails,
       FinalFails, WorkerCrashes, ResetStreak, CountFailure
<1>6. ASSUME NEW q \in Req, Load(q) \/ RequestProceeds(q) PROVE RowMoves
  <2> USE DEF ReqUnchanged
  <2>t. req[q] \in ReqState
    BY <1>t DEF TypeOK
  <2>1. CASE PutRow(q)
    <3>1. PICK r \in req[q].todo : /\ req[q].pc = "put"
                                   /\ row' = [row EXCEPT ![r] = [status |-> Plan[r], inst |-> None, stale |-> FALSE]]
      BY <2>1 DEF PutRow
    <3>2. r \in Row
      BY <2>t DEF ReqState
    <3>3. PutAnew(q, r) /\ \A s \in Row : s # r => row'[s] = row[s]
      BY <1>t, <2>1, <3>1, <3>2 DEF PutAnew
    <3>4. QED
      BY <2>1, <3>3 DEF PutRow
  <2>2. CASE CancelWaitingRow(q)
    <3>1. PICK r \in req[q].todo : /\ req[q].pc = "flip"
                                   /\ row' = IF row[r].status \in Waiting THEN [row EXCEPT ![r].status = "cancelled"] ELSE row
      BY <2>2 DEF CancelWaitingRow
    <3>2. r \in Row
      BY <2>t DEF ReqState
    <3>3. CASE row[r].status \in Waiting
      <4>1. Cancelled(q, r) /\ \A s \in Row : s # r => row'[s] = row[s]
        BY <1>t, <2>2, <3>1, <3>2, <3>3 DEF Cancelled, RowItem
      <4>2. QED
        BY <2>2, <4>1 DEF CancelWaitingRow
    <3>4. CASE row' = row
      BY <1>1, <3>4
    <3>5. QED
      BY <3>1, <3>3, <3>4
  <2>3. CASE CancelLaunchedRow(q)
    <3>1. PICK r \in req[q].todo : req[q].pc = "row" /\ row' = IF row[r].status = "launched" THEN [row EXCEPT ![r].status = "cancelled"] ELSE row
      BY <2>3 DEF CancelLaunchedRow
    <3>2. r \in Row
      BY <2>t DEF ReqState
    <3>3. CASE row[r].status = "launched"
      <4>1. Resolved(r) /\ \A s \in Row : s # r => row'[s] = row[s]
        BY <1>t, <3>1, <3>2, <3>3 DEF Resolved, RowItem, Terminal
      <4>2. QED
        BY <2>3, <4>1 DEF CancelLaunchedRow
    <3>4. CASE row' = row
      BY <1>1, <3>4
    <3>5. QED
      BY <3>1, <3>3, <3>4
  <2>4. CASE ResolveLive(q) \/ RecheckInstances(q)
    BY <2>4, <1>2 DEF ResolveLive, RecheckInstances
  <2>5. CASE row' = row
    BY <1>1, <2>5
  <2>6. QED
    BY <1>6, <2>1, <2>2, <2>3, <2>4, <2>5 DEF Load, RequestProceeds, StartRun, PauseRun, ResumeRun, ClaimQueued, OnlyReq,
       ReadRows, PickLiveRow, NoLiveRowLeft, RowRequest, PickWaitingRow, PickLaunchedRow,
       RowRefused, CancelAtMaestro, CancelLocally, Reread, CloseRun
<1>7. QED
  BY <1>3, <1>4, <1>5, <1>6 DEF Next

(* OutcomesStand says what a step does to a row; what it takes is that a   *)
(* row with an outcome has no job left that could still write it.  A       *)
(* message is held by one worker at a time, what was sent was released, a  *)
(* row has one message that is not about to be acknowledged, a row whose   *)
(* job is being sent is being launched (or the sweep has failed it since), *)
(* and a staged row was never released.                                    *)
HeldOnce ==
  \A w \in Worker : wk[w].pc # "idle" =>
    /\ msg[wk[w].msg].state = "hidden"
    /\ \A v \in Worker : wk[v].pc # "idle" /\ wk[v].msg = wk[w].msg => v = w
SentIsReleased == \A m \in Msg : msg[m].state # "none" => hist.released[msg[m].job.row] # 0
OneLadder ==
  \A m, n \in Msg :
    Pending(m) /\ ~LettingGo(m) /\ Pending(n) /\ ~LettingGo(n) /\ msg[m].job.row = msg[n].job.row => m = n
SendersClaimed == \A d \in Tick, r \in Row : Sending(d, r) => row[r].status \in {"launching", "failed"}
StagedIsFresh == \A r \in Row : row[r].status = "staged" => Fresh(r)
DoneWith(m) == \E w \in Worker : wk[w].pc \in DonePc /\ wk[w].msg = m
Settled(r) == \A m \in Msg : Pending(m) /\ msg[m].job.row = r => DoneWith(m)
OutcomesSettled ==
  \A r \in Row : row[r].status \in {"launched", "completed", "cancelled", "skipped"} => Settled(r)
ChainInv ==
  /\ HeldOnce /\ SentIsReleased /\ OneLadder
  /\ SendersClaimed /\ StagedIsFresh /\ OutcomesSettled

(* Before the first step nothing is sent and no row has an outcome but by  *)
(* its plan.                                                               *)
LEMMA ChainInit == Init => ChainInv
<1> SUFFICES ASSUME Init PROVE ChainInv
  OBVIOUS
<1>1. \A m \in Msg : msg[m].state = "none"
  BY DEF Init
<1>2. \A w \in Worker : wk[w].pc = "idle"
  BY DEF Init, IdleWorker
<1>3. \A r \in Row : Fresh(r)
  BY DEF Init, Fresh, Sending, IdleTick
<1>4. \A m \in Msg : ~Pending(m)
  BY <1>1 DEF Pending
<1>5. QED
  BY <1>1, <1>2, <1>3, <1>4 DEF ChainInv, HeldOnce, SentIsReleased, OneLadder, SendersClaimed, StagedIsFresh,
     OutcomesSettled, Settled, Fresh

(* What a worker does to its place and its message.                        *)
Takes(w, m) == Receive(w, m) /\ wk[w].pc = "idle" /\ wk'[w].msg = m /\ wk'[w].pc \in {"guard", "launch"}
LetsGo(w)   == Ack(w) /\ wk[w].pc \in {"stats", "ack"} /\ wk'[w].pc = "idle"
GoesOn(w)   == /\ wk[w].pc \notin {"idle", "stats", "ack"} /\ wk'[w].pc # "idle" /\ wk'[w].msg = wk[w].msg
               /\ wk[w].pc \in DonePc => wk'[w].pc \in DonePc
WorkMoves ==
  \A w \in Worker : wk'[w] = wk[w] \/ (\E m \in Msg : Takes(w, m)) \/ LetsGo(w) \/ GoesOn(w)

(* So it is at every step in which no job is begun twice.                  *)
LEMMA WorkMoved == ASSUME TypeInv, NoRepeats, Next PROVE WorkMoves
<1> SUFFICES ASSUME NEW w \in Worker
             PROVE  wk'[w] = wk[w] \/ (\E m \in Msg : Takes(w, m)) \/ LetsGo(w) \/ GoesOn(w)
  BY DEF WorkMoves
<1>1. CASE wk' = wk
  BY <1>1
<1>2. ASSUME NEW v \in Worker, LauncherStep(v) \/ LauncherFault(v)
      PROVE  wk'[w] = wk[w] \/ (\E m \in Msg : Takes(w, m)) \/ LetsGo(w) \/ GoesOn(w)
  <2>1. CASE v # w
    BY <1>2, <2>1, WorkerMoves
  <2>2. CASE v = w
    BY <1>2, <2>2, WorkerMoves DEF Takes, LetsGo, GoesOn, IdleWorker
  <2>3. QED
    BY <2>1, <2>2
<1>3. QED
  BY <1>1, <1>2, WorkerSteps

(* What becomes of a row that was never released.                          *)
FreshMoves ==
  /\ \A r \in Row : hist.released[r] # 0 => hist'.released[r] # 0
  /\ \A r \in Row : Fresh(r) => Fresh(r)' \/ (row[r].status = "queued" /\ row'[r].status = "launching")
  /\ \A d \in Tick, r \in Row : Sending(d, r)' => Sending(d, r) \/ row'[r].status = "launching"

(* So it is at every step.                                                 *)
LEMMA FreshMoved == ASSUME TypeInv, ReleaseInv, Next PROVE FreshMoves
<1>t. TypeOK
  BY DEF TypeInv
<1>1. CASE hist'.released = hist.released /\ \A d \in Tick, r \in Row : Sending(d, r)' => Sending(d, r)
  <2>1. \A r \in Row : Fresh(r) => Fresh(r)'
    BY <1>1 DEF Fresh
  <2>2. QED
    BY <1>1, <2>1 DEF FreshMoves
<1>2. CASE Aside
  BY <1>1, <1>2 DEF Aside, Sending, IsFirst, NoneClaimed
<1>3. ASSUME NEW d \in Tick, ClaimRow(d) PROVE FreshMoves
  <2>1. PICK r \in tick[d].todo :
          /\ IsFirst(r, tick[d].todo) /\ row[r].status = "queued"
          /\ row' = [row EXCEPT ![r] = [@ EXCEPT !.status = "launching", !.stale = FALSE]]
    BY <1>3 DEF ClaimRow, Claimable
  <2>2. r \in Row /\ tick[d].todo \in SUBSET Row
    BY <1>t, <2>1 DEF TypeOK, TickState
  <2>3. tick' = [tick EXCEPT ![d] = [tick[d] EXCEPT !.pc = "send"]]
    BY <1>3 DEF ClaimRow, TickStep, SetTick
  <2>4. /\ tick'[d].todo = tick[d].todo
        /\ \A e \in Tick : e # d => tick'[e] = tick[e]
    BY <1>t, <2>3 DEF TypeOK, TickState
  <2>5. \A e \in Tick, s \in Row : Sending(e, s)' => Sending(e, s) \/ s = r
    BY <2>1, <2>2, <2>4, FirstIsOne DEF Sending
  <2>6. row'[r].status = "launching"
    BY <1>t, <2>1, <2>2 DEF TypeOK, RowItem
  <2>7. hist'.released = hist.released
    BY <1>t, <1>3 DEF ClaimRow, TypeOK, History
  <2>8. \A s \in Row : s # r /\ Fresh(s) => Fresh(s)'
    BY <2>5, <2>7 DEF Fresh
  <2>9. QED
    BY <2>1, <2>5, <2>6, <2>7, <2>8 DEF FreshMoves
<1>4. ASSUME NEW d \in Tick, SendJob(d) PROVE FreshMoves
  <2>1. PICK r \in tick[d].todo :
          /\ tick[d].pc = "send" /\ IsFirst(r, tick[d].todo)
          /\ SetTick(d, [tick[d] EXCEPT !.pc = "release", !.todo = @ \ {r}, !.released = TRUE])
          /\ hist' = [hist EXCEPT !.released[r] = @ + 1]
    BY <1>4 DEF SendJob
  <2>2. r \in Row /\ Sending(d, r)
    BY <1>t, <2>1 DEF TypeOK, TickState, Sending
  <2>3. tick'[d].pc = "release" /\ \A e \in Tick : e # d => tick'[e] = tick[e]
    BY <1>t, <2>1 DEF TypeOK, TickState, SetTick
  <2>4. \A e \in Tick, s \in Row : Sending(e, s)' => Sending(e, s)
    BY <2>3 DEF Sending
  <2>5. /\ hist'.released[r] # 0 /\ \A s \in Row : s # r => hist'.released[s] = hist.released[s]
    BY <1>t, <2>1, <2>2 DEF TypeOK, History
  <2>6. \A s \in Row : Fresh(s) => s # r
    BY <2>2 DEF Fresh
  <2>7. \A s \in Row : Fresh(s) => Fresh(s)'
    BY <2>4, <2>5, <2>6 DEF Fresh
  <2>8. \A s \in Row : hist.released[s] # 0 => hist'.released[s] # 0
    BY <2>5
  <2>9. QED
    BY <2>4, <2>7, <2>8 DEF FreshMoves
<1>5. ASSUME NEW q \in Req, PutRow(q) \/ Load(q) PROVE FreshMoves
  BY <1>1, <1>5 DEF PutRow, Load, OnlyReq, ReqUnchanged, Sending
<1>6. CASE Environment
  BY <1>t, <1>2, <1>6, EnvironmentAside
<1>7. ASSUME NEW d \in Tick, DispatcherStep(d) \/ DispatcherFault(d) PROVE FreshMoves
  BY <1>t, <1>2, <1>3, <1>4, <1>7, DispatcherAside
<1>8. ASSUME NEW w \in Worker, LauncherStep(w) \/ LauncherFault(w) PROVE FreshMoves
  BY <1>2, <1>8, LauncherAside
<1>9. ASSUME NEW q \in Req, Load(q) \/ RequestProceeds(q) PROVE FreshMoves
  BY <1>t, <1>2, <1>5, <1>9, RequestsAside
<1>10. QED
  BY <1>6, <1>7, <1>8, <1>9 DEF Next

(* A worker's message is pending, was released, and is its worker's alone. *)
LEMMA JobInHand ==
  ASSUME TypeInv, ReleaseInv, ChainInv, NEW w \in Worker, wk[w].pc # "idle"
  PROVE  /\ wk[w].msg \in Msg /\ msg[wk[w].msg].state = "hidden" /\ Pending(wk[w].msg)
         /\ JobOf(w) = msg[wk[w].msg].job /\ JobOf(w) \in Job
         /\ hist.released[JobOf(w).row] # 0
         /\ \A d \in Tick : ~Sending(d, JobOf(w).row)
         /\ row[JobOf(w).row].status \notin {"queued", "staged"}
         /\ wk[w].pc \notin {"stats", "ack"} => ~LettingGo(wk[w].msg)
         /\ wk[w].pc \notin DonePc => ~DoneWith(wk[w].msg)
<1>1. wk[w].msg \in Msg /\ msg[wk[w].msg].state = "hidden" /\ JobOf(w) = msg[wk[w].msg].job
  BY DEF TypeInv, BusyHoldsMessage, ChainInv, HeldOnce, JobOf
<1>2. JobOf(w) \in Job /\ JobOf(w).row \in Row
  BY <1>1 DEF TypeInv, TypeOK, Message, Job
<1>3. hist.released[JobOf(w).row] # 0
  BY <1>1 DEF ChainInv, SentIsReleased
<1>4. ~Fresh(JobOf(w).row) /\ \A d \in Tick : ~Sending(d, JobOf(w).row)
  BY <1>2, <1>3 DEF Fresh, ReleaseInv, OneSender
<1>5. row[JobOf(w).row].status \notin {"queued", "staged"}
  BY <1>2, <1>4 DEF ReleaseInv, QueuedIsFresh, ChainInv, StagedIsFresh
<1>6. \A v \in Worker : wk[v].pc # "idle" /\ wk[v].msg = wk[w].msg => v = w
  BY DEF ChainInv, HeldOnce
<1>7. Pending(wk[w].msg)
  BY <1>1 DEF Pending
<1>8. QED
  BY <1>1, <1>2, <1>3, <1>4, <1>5, <1>6, <1>7 DEF LettingGo, DoneWith, DonePc

(* Nothing that was sent belongs to a row that is queued, staged or being  *)
(* sent.                                                                   *)
LEMMA SentIsNotFresh ==
  ASSUME ReleaseInv, ChainInv, NEW m \in Msg, msg[m].state # "none", msg[m].job.row \in Row
  PROVE  /\ ~Fresh(msg[m].job.row) /\ \A d \in Tick : ~Sending(d, msg[m].job.row)
         /\ row[msg[m].job.row].status \notin {"queued", "staged"}
<1>1. hist.released[msg[m].job.row] # 0
  BY DEF ChainInv, SentIsReleased
<1>2. ~Fresh(msg[m].job.row) /\ \A d \in Tick : ~Sending(d, msg[m].job.row)
  BY <1>1 DEF Fresh, ReleaseInv, OneSender
<1>3. QED
  BY <1>2 DEF ReleaseInv, QueuedIsFresh, ChainInv, StagedIsFresh

(* A message that a worker is done with, or about to acknowledge, stays so *)
(* for as long as it is pending.                                           *)
LEMMA DoneStays ==
  ASSUME TypeInv, NoRepeats, Next, NEW m \in Msg, Pending(m)'
  PROVE  /\ LettingGo(m) => LettingGo(m)'
         /\ DoneWith(m) => DoneWith(m)'
<1>w. WorkMoves
  BY WorkMoved
<1>1. ASSUME NEW w \in Worker, wk[w].msg = m PROVE ~LetsGo(w)
  <2>1. SUFFICES ASSUME Ack(w) PROVE FALSE
    BY DEF LetsGo
  <2>2. msg'[m].state = "deleted"
    BY <1>1, <2>1 DEF Ack, TypeInv, TypeOK, Message
  <2>3. QED
    BY <2>2 DEF Pending
<1>2. ASSUME LettingGo(m) PROVE LettingGo(m)'
  <2>1. PICK w \in Worker : wk[w].pc \in {"stats", "ack"} /\ wk[w].msg = m
    BY <1>2 DEF LettingGo
  <2>2. wk'[w] = wk[w]
    BY <1>w, <1>1, <2>1 DEF WorkMoves, Takes, GoesOn
  <2>3. QED
    BY <2>1, <2>2 DEF LettingGo
<1>3. ASSUME DoneWith(m) PROVE DoneWith(m)'
  <2>1. PICK w \in Worker : wk[w].pc \in DonePc /\ wk[w].msg = m
    BY <1>3 DEF DoneWith
  <2>2. wk'[w] = wk[w] \/ (wk'[w].pc \in DonePc /\ wk'[w].msg = m)
    BY <1>w, <1>1, <2>1 DEF WorkMoves, Takes, GoesOn, DonePc
  <2>3. QED
    BY <2>1, <2>2 DEF DoneWith
<1>4. QED
  BY <1>2, <1>3

(* Where a pending message comes from.                                     *)
LEMMA PendingSource ==
  ASSUME TypeInv, NoRepeats, Next, NEW m \in Msg, Pending(m)'
  PROVE  \/ Pending(m) /\ msg'[m].job = msg[m].job
         \/ \E d \in Tick, r \in Row : Released(d, r, m)
         \/ \E w \in Worker : Retried(w, m)
<1>1. MessageMoves
  BY MessageMoved
<1>2. ASSUME NEW w \in Worker, Acked(w, m) PROVE FALSE
  BY <1>2 DEF Acked, Pending
<1>3. QED
  BY <1>1, <1>2 DEF MessageMoves, Pending, Received, Reappeared

(* A retry is a job of the row its worker holds a message of.              *)
LEMMA RetryOfRow ==
  ASSUME TypeInv, ReleaseInv, ChainInv, NEW w \in Worker, NEW m \in Msg, Retried(w, m)
  PROVE  /\ wk[w].pc = "enqueue" /\ wk'[w].pc = "ack" /\ wk'[w].msg = wk[w].msg
         /\ msg'[m].job.row = JobOf(w).row
<1>1. wk[w].pc = "enqueue" /\ wk'[w].pc = "ack" /\ wk'[w].msg = wk[w].msg
  BY DEF Retried, EnqueueRetry, Step, SetWorker, TypeInv, TypeOK, WorkerState
<1>2. JobOf(w) \in Job
  BY <1>1, JobInHand
<1>3. NextAttempt(w).row = JobOf(w).row
  BY <1>2 DEF NextAttempt, Job
<1>4. QED
  BY <1>1, <1>3 DEF Retried

(* A message stays with its one worker.                                    *)
LEMMA HeldKept == ASSUME TypeInv, NoRepeats, ReleaseInv, ChainInv, Next PROVE HeldOnce'
<1>t. wk \in [Worker -> WorkerState] /\ msg \in [Msg -> Message]
  BY DEF TypeInv, TypeOK
<1>m. MessageMoves /\ WorkMoves
  BY MessageMoved, WorkMoved
<1> DEFINE Stays(w) == wk[w].pc # "idle" /\ wk'[w].msg = wk[w].msg
<1>1. ASSUME NEW w \in Worker, wk'[w].pc # "idle"
      PROVE  Stays(w) \/ \E m \in Msg : Takes(w, m)
  BY <1>m, <1>1 DEF WorkMoves, LetsGo, GoesOn
<1>2. ASSUME NEW w \in Worker, wk'[w].pc # "idle", Stays(w)
      PROVE  msg'[wk[w].msg].state = "hidden"
  <2> DEFINE m == wk[w].msg
  <2>1. m \in Msg /\ msg[m].state = "hidden"
    BY <1>2, JobInHand
  <2>2. ASSUME NEW v \in Worker, Acked(v, m) PROVE FALSE
    <3>1. wk[v].pc # "idle" /\ wk[v].msg = m /\ wk'[v].pc = "idle"
      BY <1>t, <2>2 DEF Acked, Ack, SetWorker, IdleWorker
    <3>2. v = w
      BY <1>2, <3>1 DEF ChainInv, HeldOnce
    <3>3. QED
      BY <1>2, <3>1, <3>2
  <2>3. ~Reappeared(m)
    BY <1>2 DEF Reappeared
  <2> HIDE DEF m
  <2>4. msg'[m].state = "hidden"
    BY <1>m, <2>1, <2>2, <2>3 DEF MessageMoves, Released, Retried, Received, FreshMsg
  <2>5. QED
    BY <2>4 DEF m
<1>3. ASSUME NEW w \in Worker, NEW m \in Msg, Takes(w, m)
      PROVE  /\ msg[m].state = "visible" /\ msg'[m].state = "hidden"
             /\ \A v \in Worker : v # w => wk'[v] = wk[v]
  BY <1>t, <1>3 DEF Takes, Receive, SetWorker, Message
<1>4. SUFFICES ASSUME NEW w \in Worker, wk'[w].pc # "idle"
               PROVE  /\ msg'[wk'[w].msg].state = "hidden"
                      /\ \A v \in Worker : wk'[v].pc # "idle" /\ wk'[v].msg = wk'[w].msg => v = w
  BY DEF HeldOnce
<1>5. msg'[wk'[w].msg].state = "hidden"
  BY <1>1, <1>2, <1>3, <1>4 DEF Takes
<1>6. ASSUME NEW v \in Worker, wk'[v].pc # "idle", wk'[v].msg = wk'[w].msg PROVE v = w
  <2>1. CASE Stays(w) /\ Stays(v)
    BY <1>6, <2>1 DEF ChainInv, HeldOnce
  <2>2. ASSUME NEW x \in Worker, NEW y \in Worker, NEW m \in Msg, Stays(x), Takes(y, m), wk'[x].msg = wk'[y].msg PROVE FALSE
    <3>1. msg[wk[x].msg].state = "hidden" /\ wk[x].msg = m
      BY <2>2, JobInHand DEF Takes
    <3>2. QED
      BY <1>3, <2>2, <3>1
  <2>3. ASSUME NEW m \in Msg, NEW n \in Msg, Takes(w, m), Takes(v, n) PROVE v = w
    BY <1>3, <2>3 DEF Takes
  <2>4. QED
    BY <1>1, <1>4, <1>6, <2>1, <2>2, <2>3
<1>7. QED
  BY <1>5, <1>6

(* What was sent was released.                                             *)
LEMMA SentKept == ASSUME TypeInv, NoRepeats, ReleaseInv, ChainInv, Next PROVE SentIsReleased'
<1>m. MessageMoves /\ FreshMoves
  BY MessageMoved, FreshMoved
<1>t. msg \in [Msg -> Message]
  BY DEF TypeInv, TypeOK
<1> SUFFICES ASSUME NEW m \in Msg, msg'[m].state # "none" PROVE hist'.released[msg'[m].job.row] # 0
  BY DEF SentIsReleased
<1>1. CASE msg[m].state # "none" /\ msg'[m].job = msg[m].job
  <2>1. msg[m].job.row \in Row /\ hist.released[msg[m].job.row] # 0
    BY <1>t, <1>1 DEF Message, Job, ChainInv, SentIsReleased
  <2>2. QED
    BY <1>m, <1>1, <2>1 DEF FreshMoves
<1>2. ASSUME NEW d \in Tick, NEW r \in Row, Released(d, r, m) PROVE hist'.released[msg'[m].job.row] # 0
  BY <1>2 DEF Released
<1>3. ASSUME NEW w \in Worker, Retried(w, m) PROVE hist'.released[msg'[m].job.row] # 0
  <2>1. msg'[m].job.row = JobOf(w).row /\ wk[w].pc # "idle"
    BY <1>3, RetryOfRow
  <2>2. hist.released[JobOf(w).row] # 0 /\ JobOf(w).row \in Row
    BY <2>1, JobInHand DEF Job
  <2>3. QED
    BY <1>m, <2>1, <2>2 DEF FreshMoves
<1>4. ASSUME NEW w \in Worker, Acked(w, m) PROVE msg[m].state # "none" /\ msg'[m].job = msg[m].job
  <2>1. wk[w].pc # "idle" /\ wk[w].msg = m
    BY <1>4 DEF Acked, Ack
  <2>2. QED
    BY <1>4, <2>1, JobInHand DEF Acked
<1>5. QED
  BY <1>m, <1>1, <1>2, <1>3, <1>4 DEF MessageMoves, Received, Reappeared

(* A row has one ladder.                                                   *)
LEMMA LadderKept == ASSUME TypeInv, NoRepeats, ReleaseInv, ChainInv, Next PROVE OneLadder'
<1>t. msg \in [Msg -> Message]
  BY DEF TypeInv, TypeOK
<1> SUFFICES ASSUME NEW m \in Msg, NEW n \in Msg, Pending(m)', ~LettingGo(m)', Pending(n)', ~LettingGo(n)',
                    msg'[m].job.row = msg'[n].job.row
             PROVE  m = n
  BY DEF OneLadder
<1> DEFINE Old(p) == Pending(p) /\ ~LettingGo(p) /\ msg'[p].job = msg[p].job
           New(p) == FreshMsg(p)
<1>1. ASSUME NEW p \in Msg, Pending(p)', ~LettingGo(p)'
      PROVE  Old(p) \/ (\E d \in Tick, r \in Row : Released(d, r, p)) \/ (\E w \in Worker : Retried(w, p))
  BY <1>1, PendingSource, DoneStays
<1>2. ASSUME NEW p \in Msg, NEW q \in Msg, Old(p), NEW d \in Tick, NEW r \in Row, Released(d, r, q),
             msg'[p].job.row = msg'[q].job.row
      PROVE  FALSE
  <2>1. msg[p].state # "none" /\ msg[p].job.row = r /\ Sending(d, r)
    BY <1>2 DEF Pending, Released
  <2>2. QED
    BY <2>1, SentIsNotFresh
<1>3. ASSUME NEW p \in Msg, NEW q \in Msg, Old(p), ~LettingGo(p)', NEW w \in Worker, Retried(w, q),
             msg'[p].job.row = msg'[q].job.row
      PROVE  FALSE
  <2>1. wk[w].pc = "enqueue" /\ wk'[w].pc = "ack" /\ wk'[w].msg = wk[w].msg /\ msg[p].job.row = JobOf(w).row
    BY <1>3, RetryOfRow
  <2>2. /\ wk[w].msg \in Msg /\ Pending(wk[w].msg) /\ ~LettingGo(wk[w].msg)
        /\ msg[wk[w].msg].job.row = JobOf(w).row
    BY <2>1, JobInHand
  <2>3. p = wk[w].msg
    BY <1>3, <2>1, <2>2 DEF ChainInv, OneLadder
  <2>4. QED
    BY <1>3, <2>1, <2>3 DEF LettingGo
<1>4. ASSUME New(m), New(n) PROVE m = n
  <2>1. m \in Nat /\ n \in Nat /\ m <= n /\ n <= m
    BY <1>4, ConstantsAssumption DEF FreshMsg
  <2>2. QED
    BY <2>1
<1>5. ASSUME NEW p \in Msg,
             (\E d \in Tick, r \in Row : Released(d, r, p)) \/ (\E w \in Worker : Retried(w, p))
      PROVE  New(p)
  BY <1>5 DEF Released, Retried
<1>6. CASE Old(m) /\ Old(n)
  BY <1>6 DEF ChainInv, OneLadder
<1>7. QED
  BY <1>1, <1>2, <1>3, <1>4, <1>5, <1>6

(* What a worker, a put or a cancel writes is not written to a row that is *)
(* still fresh, respectively to one that is not.                           *)
LEMMA WriterKnows ==
  ASSUME TypeInv, ReleaseInv, ChainInv, NEW r \in Row
  PROVE  /\ \A w \in Worker : Worked(w, r) =>
              (\A d \in Tick : ~Sending(d, r)) /\ row[r].status \notin {"queued", "staged"}
         /\ \A q \in Req : PutAnew(q, r) => Fresh(r) /\ row[r].status # "queued"
         /\ \A q \in Req : Cancelled(q, r) => Fresh(r)
<1>1. ASSUME NEW w \in Worker, Worked(w, r)
      PROVE  (\A d \in Tick : ~Sending(d, r)) /\ row[r].status \notin {"queued", "staged"}
  BY <1>1, JobInHand DEF Worked
<1>2. ASSUME NEW q \in Req, PutAnew(q, r) PROVE Fresh(r) /\ row[r].status # "queued"
  BY <1>2 DEF PutAnew, ReleaseInv, PutIsFresh, NotYet
<1>3. ASSUME NEW q \in Req, Cancelled(q, r) PROVE Fresh(r)
  BY <1>3 DEF Cancelled, Waiting, ReleaseInv, QueuedIsFresh, ChainInv, StagedIsFresh
<1>4. QED
  BY <1>1, <1>2, <1>3

(* A row whose job is being sent is being launched, or swept meanwhile.    *)
LEMMA SendersKept == ASSUME TypeInv, ReleaseInv, ChainInv, Next PROVE SendersClaimed'
<1>m. RowMoves /\ FreshMoves
  BY RowMoved, FreshMoved
<1> SUFFICES ASSUME NEW d \in Tick, NEW r \in Row, Sending(d, r)', row'[r].status # "launching"
             PROVE  row'[r].status = "failed"
  BY DEF SendersClaimed
<1>1. Sending(d, r) /\ row[r].status \in {"launching", "failed"}
  BY <1>m DEF FreshMoves, ChainInv, SendersClaimed
<1>2. \A w \in Worker : ~Worked(w, r)
  BY <1>1, WriterKnows
<1>3. \A q \in Req : ~PutAnew(q, r) /\ ~Cancelled(q, r)
  BY <1>1, WriterKnows DEF Fresh
<1>4. QED
  BY <1>m, <1>1, <1>2, <1>3 DEF RowMoves, Swept, Resolved, Claimed

(* A staged row was never released.                                        *)
LEMMA StagedKept == ASSUME TypeInv, ReleaseInv, ChainInv, Next PROVE StagedIsFresh'
<1>m. RowMoves /\ FreshMoves
  BY RowMoved, FreshMoved
<1> SUFFICES ASSUME NEW r \in Row, row'[r].status = "staged" PROVE Fresh(r)'
  BY DEF StagedIsFresh
<1>1. CASE Fresh(r)
  BY <1>m, <1>1 DEF FreshMoves
<1>2. CASE row'[r].status = row[r].status
  BY <1>1, <1>2 DEF ChainInv, StagedIsFresh
<1>3. ASSUME NEW q \in Req, PutAnew(q, r) PROVE Fresh(r)
  BY <1>3, WriterKnows
<1>4. QED
  BY <1>m, <1>1, <1>2, <1>3 DEF RowMoves, Swept, Resolved, Claimed, Cancelled, Worked, Terminal

(* A row that has its outcome has no job left that could still write it.   *)
LEMMA OutcomesKept == ASSUME TypeInv, NoRepeats, ReleaseInv, ChainInv, Next PROVE OutcomesSettled'
<1>t. msg \in [Msg -> Message]
  BY DEF TypeInv, TypeOK
<1>m. RowMoves
  BY RowMoved
<1> DEFINE Outcome4 == {"launched", "completed", "cancelled", "skipped"}
           Old(m) == Pending(m) /\ msg'[m].job = msg[m].job
<1> SUFFICES ASSUME NEW r \in Row, row'[r].status \in Outcome4, NEW m \in Msg, Pending(m)', msg'[m].job.row = r
             PROVE  DoneWith(m)'
  BY DEF OutcomesSettled, Settled
<1>1. \/ Old(m) \/ (\E d \in Tick, s \in Row : Released(d, s, m)) \/ (\E w \in Worker : Retried(w, m))
  BY PendingSource
<1>2. CASE Old(m) /\ row[r].status \in Outcome4
  <2>1. DoneWith(m)
    BY <1>2 DEF ChainInv, OutcomesSettled, Settled
  <2>2. QED
    BY <2>1, DoneStays
<1>3. ASSUME NEW d \in Tick, NEW s \in Row, Released(d, s, m) PROVE FALSE
  <2>1. s = r /\ Sending(d, r) /\ row' = row
    BY <1>3 DEF Released
  <2>2. QED
    BY <2>1 DEF ChainInv, SendersClaimed
<1>4. ASSUME NEW w \in Worker, Retried(w, m) PROVE FALSE
  <2>1. wk[w].pc = "enqueue" /\ JobOf(w).row = r
    BY <1>4, RetryOfRow
  <2>2. /\ wk[w].msg \in Msg /\ Pending(wk[w].msg) /\ ~DoneWith(wk[w].msg) /\ msg[wk[w].msg].job.row = r
    BY <2>1, JobInHand DEF DonePc
  <2>3. row' = row
    BY <1>4 DEF Retried, EnqueueRetry
  <2>4. QED
    BY <2>2, <2>3 DEF ChainInv, OutcomesSettled, Settled
<1>5. CASE Old(m) /\ row[r].status \notin Outcome4
  <2>1. msg[m].state # "none" /\ msg[m].job.row = r
    BY <1>5 DEF Pending
  <2>2. ~Fresh(r) /\ row[r].status \notin {"queued", "staged"}
    BY <2>1, SentIsNotFresh
  <2>3. \A q \in Req : ~Cancelled(q, r) /\ ~PutAnew(q, r)
    BY <2>2, WriterKnows
  <2>4. PICK w \in Worker : Worked(w, r)
    BY <1>m, <1>5, <2>2, <2>3 DEF RowMoves, Swept, Resolved, Claimed
  <2>5. /\ wk[w].pc \notin DonePc \cup {"idle"} /\ JobOf(w).row = r
        /\ wk'[w].pc \in DonePc /\ wk'[w].msg = wk[w].msg
    BY <2>4 DEF Worked
  <2>6. /\ wk[w].msg \in Msg /\ Pending(wk[w].msg) /\ ~LettingGo(wk[w].msg) /\ msg[wk[w].msg].job.row = r
    BY <2>5, JobInHand DEF DonePc
  <2>7. CASE LettingGo(m)
    <3>1. DoneWith(m)
      BY <2>7 DEF LettingGo, DoneWith, DonePc
    <3>2. QED
      BY <3>1, DoneStays
  <2>8. CASE ~LettingGo(m)
    <3>1. m = wk[w].msg
      BY <1>5, <2>1, <2>6, <2>8 DEF ChainInv, OneLadder
    <3>2. QED
      BY <2>5, <3>1 DEF DoneWith
  <2>9. QED
    BY <2>7, <2>8
<1>6. QED
  BY <1>1, <1>2, <1>3, <1>4, <1>5

(* The inductive step.                                                     *)
LEMMA ChainStep ==
  ASSUME TypeInv, ReleaseInv, ChainInv, NoRepeats \/ UNCHANGED vars, [Next]_vars PROVE ChainInv'
<1>1. CASE Next /\ NoRepeats
  BY <1>1, HeldKept, SentKept, LadderKept, SendersKept, StagedKept, OutcomesKept DEF ChainInv
<1>2. CASE UNCHANGED vars
  BY <1>2 DEF vars, ChainInv, HeldOnce, SentIsReleased, OneLadder, SendersClaimed, StagedIsFresh, OutcomesSettled,
     Settled, DoneWith, Pending, LettingGo, Sending, Fresh
<1>3. QED
  BY <1>1, <1>2

----------------------------------------------------------------------------
(* The start route puts every row anew, whatever it is by then: a row that *)
(* a cancel had settled meanwhile would lose its outcome.  So no cancel,   *)
(* of a run or of a row, accompanies a start.                              *)
StartUndisturbed ==
  \A p, q \in Req : Kind[p] = "start" /\ Kind[q] \in {"start", "cancel", "cancelAll", "rowCancel"} => p = q
DraftIsStaged ==
  \A q \in Req : Kind[q] = "start" =>
    /\ req[q].pc = "idle" /\ run.status = "draft" => \A r \in Row : row[r].status = "staged"
    /\ req[q].pc = "put" => \A r \in req[q].todo : row[r].status = "staged"

(* A staged row stays so unless the start route puts it.                   *)
LEMMA StagedStays ==
  ASSUME TypeInv, ReleaseInv, ChainInv, OpenInv, StartUndisturbed, Next,
         NEW p \in Req, Kind[p] = "start", NEW r \in Row, row[r].status = "staged"
  PROVE  row'[r].status = "staged" \/ PutAnew(p, r)
<1>m. RowMoves
  BY RowMoved
<1>1. \A w \in Worker : ~Worked(w, r)
  BY WriterKnows
<1>2. ASSUME NEW q \in Req, Cancelled(q, r) PROVE FALSE
  <2>1. req[q].pc = "flip"
    BY <1>2 DEF Cancelled
  <2>2. Kind[q] \in {"cancel", "cancelAll", "rowCancel"}
    BY <2>1 DEF OpenInv, RoutesInPlace, IsCancel
  <2>3. p = q
    BY <2>2 DEF StartUndisturbed
  <2>4. QED
    BY <2>2, <2>3
<1>3. ASSUME NEW q \in Req, PutAnew(q, r) PROVE q = p
  <2>1. Kind[q] = "start"
    BY <1>3 DEF PutAnew, ReleaseInv, PutIsFresh
  <2>2. QED
    BY <2>1 DEF StartUndisturbed
<1>4. QED
  BY <1>m, <1>1, <1>2, <1>3 DEF RowMoves, Swept, Resolved, Claimed

(* What becomes of a start request.                                        *)
LEMMA StartMoves ==
  ASSUME TypeInv, ReleaseInv, Next, NEW p \in Req, Kind[p] = "start"
  PROVE  /\ run'.status = "draft" => run.status = "draft"
         /\ req'[p].pc = "idle" => req[p].pc = "idle"
         /\ req'[p].pc = "put" =>
              \/ req[p].pc = "put" /\ req'[p].todo = req[p].todo
              \/ req[p].pc = "put" /\ PutRow(p) /\ req'[p].todo \subseteq req[p].todo
                 /\ \A r \in req'[p].todo : row'[r] = row[r]
              \/ req[p].pc = "idle" /\ run.status = "draft" /\ row' = row /\ req'[p].todo \subseteq Row
<1> DEFINE Goal ==
      /\ run'.status = "draft" => run.status = "draft"
      /\ req'[p].pc = "idle" => req[p].pc = "idle"
      /\ req'[p].pc = "put" =>
           \/ req[p].pc = "put" /\ req'[p].todo = req[p].todo
           \/ req[p].pc = "put" /\ PutRow(p) /\ req'[p].todo \subseteq req[p].todo
              /\ \A r \in req'[p].todo : row'[r] = row[r]
           \/ req[p].pc = "idle" /\ run.status = "draft" /\ row' = row /\ req'[p].todo \subseteq Row
<1>t. TypeOK /\ req \in [Req -> ReqState] /\ row \in [Row -> RowItem]
  BY DEF TypeInv, TypeOK
<1>1. CASE Aside
  BY <1>1 DEF Aside, NoneBegun, NoDraft
<1>2. CASE run' = run /\ req' = req
  BY <1>2
<1>3. ASSUME NEW d \in Tick, ClaimRow(d) \/ SendJob(d) PROVE Goal
  BY <1>2, <1>3 DEF ClaimRow, SendJob, TickUnchanged
<1>4. ASSUME NEW q \in Req, PutRow(q) PROVE Goal
  <2>1. PICK r \in req[q].todo :
          /\ req[q].pc = "put"
          /\ row' = [row EXCEPT ![r] = [status |-> Plan[r], inst |-> None, stale |-> FALSE]]
          /\ SetReq(q, [req[q] EXCEPT !.todo = @ \ {r}])
          /\ run' = run
    BY <1>4 DEF PutRow
  <2>2. req[q].todo \subseteq Row
    BY <1>t DEF ReqState
  <2>3. /\ req'[q].pc = "put" /\ req'[q].todo = req[q].todo \ {r}
        /\ q # p => req'[p] = req[p]
    BY <1>t, <2>1 DEF ReqState, SetReq
  <2>4. \A s \in req[q].todo \ {r} : row'[s] = row[s]
    BY <1>t, <2>1, <2>2
  <2>5. QED
    BY <1>4, <2>1, <2>3, <2>4
<1>5. ASSUME NEW q \in Req, Load(q) PROVE Goal
  <2>1. run' = run /\ row' = row /\ req[q].pc = "idle" /\ (q # p => req'[p] = req[p])
    BY <1>t, <1>5 DEF Load, OnlyReq, SetReq
  <2>2. CASE q = p
    <3>1. run.status = "draft" /\ req'[p].pc = "put" /\ req'[p].todo = Row
      BY <1>t, <1>5, <2>2 DEF Load, Allowed, FirstPc, SetReq, IdleReq
    <3>2. QED
      BY <2>1, <2>2, <3>1
  <2>3. QED
    BY <2>1, <2>2
<1>6. CASE Environment
  BY <1>t, <1>1, <1>6, EnvironmentAside
<1>7. ASSUME NEW d \in Tick, DispatcherStep(d) \/ DispatcherFault(d) PROVE Goal
  BY <1>1, <1>3, <1>7, DispatcherAside
<1>8. ASSUME NEW w \in Worker, LauncherStep(w) \/ LauncherFault(w) PROVE Goal
  BY <1>1, <1>8, LauncherAside
<1>9. ASSUME NEW q \in Req, Load(q) \/ RequestProceeds(q) PROVE Goal
  BY <1>1, <1>4, <1>5, <1>9, RequestsAside
<1>10. Goal
  BY <1>6, <1>7, <1>8, <1>9 DEF Next
<1>11. QED
  BY <1>10

(* The rows a start has yet to put are staged.                             *)
LEMMA DraftKept ==
  ASSUME TypeInv, ReleaseInv, ChainInv, OpenInv, StartUndisturbed, DraftIsStaged, Next
  PROVE  DraftIsStaged'
<1> SUFFICES ASSUME NEW p \in Req, Kind[p] = "start"
             PROVE  /\ req'[p].pc = "idle" /\ run'.status = "draft" => \A r \in Row : row'[r].status = "staged"
                    /\ req'[p].pc = "put" => \A r \in req'[p].todo : row'[r].status = "staged"
  BY DEF DraftIsStaged
<1>t. req[p].todo \subseteq Row
  BY DEF TypeInv, TypeOK, ReqState
<1>d. /\ req[p].pc = "idle" /\ run.status = "draft" => \A r \in Row : row[r].status = "staged"
      /\ req[p].pc = "put" => \A r \in req[p].todo : row[r].status = "staged"
  BY DEF DraftIsStaged
<1>1. CASE PutRow(p)
  <2>1. req[p].pc = "put"
    BY <1>1 DEF PutRow
  <2>2. req'[p].pc # "idle"
    BY <2>1, StartMoves
  <2>3. \A r \in req'[p].todo : req'[p].pc = "put" => row'[r].status = "staged"
    <3>1. SUFFICES ASSUME NEW r \in req'[p].todo, req'[p].pc = "put" PROVE row'[r].status = "staged"
      OBVIOUS
    <3>2. PICK s \in req[p].todo :
          /\ row' = [row EXCEPT ![s] = [status |-> Plan[s], inst |-> None, stale |-> FALSE]]
          /\ SetReq(p, [req[p] EXCEPT !.todo = @ \ {s}])
      BY <1>1 DEF PutRow
    <3>3. req'[p].todo = req[p].todo \ {s}
      BY <3>2 DEF SetReq, TypeInv, TypeOK, ReqState
    <3>4. row'[r] = row[r]
      BY <1>t, <3>1, <3>2, <3>3 DEF TypeInv, TypeOK
    <3>5. QED
      BY <1>d, <2>1, <3>1, <3>3, <3>4
  <2>4. QED
    BY <2>2, <2>3
<1>2. CASE ~PutRow(p)
  <2>1. \A r \in Row : row[r].status = "staged" => row'[r].status = "staged"
    BY <1>2, StagedStays DEF PutAnew
  <2>2. QED
    BY <1>t, <1>d, <1>2, <2>1, StartMoves
<1>3. QED
  BY <1>1, <1>2

(* No write reaches a row that has its outcome.                            *)
LEMMA OutcomeKept ==
  ASSUME TypeInv, ReleaseInv, ChainInv, DraftIsStaged, Next, NEW r \in Row,
         row[r].status \in {"completed", "cancelled", "skipped"}
  PROVE  row'[r].status = row[r].status
<1>m. RowMoves
  BY RowMoved
<1>1. ASSUME NEW w \in Worker, Worked(w, r) PROVE FALSE
  <2>1. wk[w].pc \notin DonePc \cup {"idle"} /\ JobOf(w).row = r
    BY <1>1 DEF Worked
  <2>2. /\ wk[w].msg \in Msg /\ Pending(wk[w].msg) /\ ~DoneWith(wk[w].msg) /\ msg[wk[w].msg].job.row = r
    BY <2>1, JobInHand
  <2>3. QED
    BY <2>2 DEF ChainInv, OutcomesSettled, Settled
<1>2. ASSUME NEW q \in Req, PutAnew(q, r) PROVE FALSE
  BY <1>2 DEF PutAnew, ReleaseInv, PutIsFresh, DraftIsStaged
<1>3. QED
  BY <1>m, <1>1, <1>2 DEF RowMoves, Swept, Resolved, Claimed, Cancelled, Waiting

(* No job is done twice by half: no message reappears while its worker is  *)
(* at it, and no worker loses one it has done part of.                     *)
JobsRunOnce == {"reappear", "tryError", "workerCrash"} \cap FaultKind = {}

(* "Rows that reached an outcome keep it": whatever the order of passes,   *)
(* launches, retries, syncs, views, sweeps and cancels, and however many   *)
(* take part, a row that is completed, cancelled or skipped stays so -     *)
(* provided no cancel accompanies a start and no job is done twice, for a  *)
(* second delivery of a job may fail or skip the row whatever it is by     *)
(* then, and a late start puts every row anew.                             *)
THEOREM OutcomesAreFinal == StartUndisturbed /\ JobsRunOnce => (Spec => OutcomesStand)
<1> SUFFICES ASSUME StartUndisturbed, JobsRunOnce PROVE Spec => OutcomesStand
  OBVIOUS
<1> DEFINE Inv == TypeInv /\ ReleaseInv /\ OpenInv /\ ChainInv /\ DraftIsStaged
           Stand == \A r \in Row : row[r].status \in {"completed", "cancelled", "skipped"}
                      => row'[r].status = row[r].status
<1>k. OneStart /\ StartAlone
  BY DEF StartUndisturbed, OneStart, StartAlone, IsCancel
<1>n. NoRepeats
  BY DEF NoRepeats, JobsRunOnce, ReappearEarly, TryFails, WorkerCrashes, Fault
<1>1. Init => Inv
  <2>1. Init => DraftIsStaged
    BY DEF Init, IdleReq, DraftIsStaged
  <2>2. QED
    BY <2>1, InitType, ReleaseInit, OpenInit, ChainInit
<1>2. Inv /\ [Next]_vars => Inv'
  <2> SUFFICES ASSUME Inv, [Next]_vars PROVE Inv'
    OBVIOUS
  <2>1. TypeInv' /\ ReleaseInv' /\ OpenInv' /\ ChainInv'
    BY <1>k, <1>n, StepType, ReleaseStep, OpenStep, ChainStep DEF TypeInv
  <2>2. DraftIsStaged'
    <3>1. CASE Next
      BY <3>1, DraftKept
    <3>2. CASE UNCHANGED vars
      BY <3>2 DEF vars, DraftIsStaged
    <3>3. QED
      BY <3>1, <3>2
  <2>3. QED
    BY <2>1, <2>2
<1>3. Inv /\ [Next]_vars => [Stand]_vars
  BY OutcomeKept
<1>4. QED
  BY <1>1, <1>2, <1>3, PTL DEF Spec, OutcomesStand

(* No fault of the launcher occurs in the step, and no cancel is rejected. *)
NoFault ==
  /\ NoRepeats /\ NothingDropped
  /\ \A w \in Worker : ~UndoRejected(w) /\ \A k \in Mid : ~ReplyLost(w, k)
  /\ \A q \in Req : CancelAtMaestro(q) => UNCHANGED faults

(* What may become of an instance at Docusign.                             *)
Launched(w, k) ==
  /\ LaunchSucceeds(w, k) /\ maestro[k] = "none" /\ maestro'[k] = "live"
  /\ wk'[w].pc = "persist" /\ wk'[w].mid = k
MaestroMoves ==
  \A k \in Mid : \/ maestro'[k] = maestro[k]
                 \/ maestro[k] = "live" /\ maestro'[k] \in Terminal
                 \/ \E w \in Worker : Launched(w, k)

(* So it is at every step without a fault.                                 *)
LEMMA MaestroMoved == ASSUME TypeInv, NoFault, Next PROVE MaestroMoves
<1> USE DEF MaestroMoves
<1>t. TypeOK /\ maestro \in [Mid -> MaestroState] /\ wk \in [Worker -> WorkerState]
  BY DEF TypeInv, TypeOK
<1>1. CASE maestro' = maestro
  BY <1>1
<1>2. CASE Environment
  <2>1. ASSUME NEW k \in Mid, WorkflowEnds(k) PROVE MaestroMoves
    BY <1>t, <2>1, ConstantsAssumption DEF WorkflowEnds, Terminal
  <2>2. QED
    BY <1>1, <1>2, <2>1 DEF Environment, ReleaseTimeComes, Age, Reappear, ReappearEarly, SyncInstance, ViewRows
<1>3. ASSUME NEW d \in Tick, DispatcherStep(d) \/ DispatcherFault(d) PROVE maestro' = maestro
  BY <1>3 DEF DispatcherStep, DispatcherFault, ScanRunning, StopRun, QueryQueuedRows, ClaimRow, SendJob,
     ClaimLost, AdvanceRelease, CheckRows, CheckInstances, CompleteRun, PromoteRun, ResolveTracking,
     QueryLaunching, SweepRow, SweepLost, SweepDone, DispatchFails, TickCrashes, TickUnchanged
<1>4. ASSUME NEW w \in Worker, LauncherStep(w) \/ LauncherFault(w) PROVE MaestroMoves
  <2>1. ASSUME NEW k \in Mid, LaunchSucceeds(w, k) PROVE MaestroMoves
    <3>1. Launched(w, k) /\ \A j \in Mid : j # k => maestro'[j] = maestro[j]
      BY <1>t, <2>1 DEF LaunchSucceeds, Launched, FreshMid, SetWorker, WorkerState
    <3>2. QED
      BY <3>1
  <2>2. CASE UndoLaunch(w)
    BY <1>t, <2>2 DEF UndoLaunch, Terminal
  <2>3. ~UndoRejected(w) /\ \A k \in Mid : ~ReplyLost(w, k)
    BY DEF NoFault
  <2>4. QED
    BY <1>1, <1>4, <2>1, <2>2, <2>3 DEF LauncherStep, LauncherFault, Receive, EnqueueRetry, PersistNew, TrackNew, RetryGuard,
     DenyInstance, LaunchFailsRetryably, LaunchRejected, PersistRetry, Ack,
     RecordRefused, ReadRun, AdoptRefused, UndoInstance, TrackAgain,
     FailInstance, FailRowAgain, TryFails, FinalFails, WorkerCrashes, GateDenies, RecordLaunch, AdoptLaunch,
     ResetStreak, ReferenceTracking, FailRow, CountFailure
<1>5. ASSUME NEW q \in Req, Load(q) \/ RequestProceeds(q) PROVE MaestroMoves
  <2>1. CASE CancelAtMaestro(q)
    BY <1>t, <2>1 DEF CancelAtMaestro, Terminal
  <2>2. QED
    BY <1>1, <1>5, <2>1 DEF Load, RequestProceeds, RowRequest, OnlyReq, PutRow, StartRun, PauseRun, ResumeRun,
     ClaimQueued, ReadRows, CancelWaitingRow, ResolveLive, PickLiveRow, NoLiveRowLeft, PickWaitingRow,
     PickLaunchedRow, RowRefused, CancelLocally, CancelLaunchedRow, Reread, RecheckInstances, CloseRun
<1>6. QED
  BY <1>1, <1>2, <1>3, <1>4, <1>5 DEF Next

(* What may become of an instance item.                                    *)
Synced(i)    == inst[i].status = "running" /\ inst[i].mid # None /\ maestro[inst[i].mid] \in Terminal
Dropped(w, i) == wk[w].pc \in {"denyInst", "failInst"} /\ JobOf(w).inst = i
Undone(w, i)  == wk[w].pc = "undoInst" /\ wk[w].inst = i
Stopped(q, i) == req[q].pc = "inst" /\ req[q].inst = i
InstMoves ==
  \A i \in Inst :
    \/ inst'[i] = inst[i]
    \/ /\ inst'[i].mid = inst[i].mid
       /\ \/ inst'[i].status \in Terminal /\ (Synced(i) \/ OnlyTracking(i) \/ \E w \in Worker : Dropped(w, i))
          \/ inst'[i].status = "cancelled" /\ ((\E w \in Worker : Undone(w, i)) \/ \E q \in Req : Stopped(q, i))
    \/ \E w \in Worker : /\ inst'[i] = [status |-> "running", mid |-> wk[w].mid]
                         /\ PersistNew(w, i) \/ (PersistRetry(w) /\ JobOf(w).inst = i)
    \/ \E w \in Worker : TrackNew(w, i) /\ inst'[i].mid = None

(* So it is at every step.                                                 *)
LEMMA InstMoved == ASSUME TypeInv, Next PROVE InstMoves
<1> USE DEF InstMoves
<1>t. TypeOK /\ inst \in [Inst -> InstItem]
  BY DEF TypeInv, TypeOK
<1>1. CASE inst' = inst
  BY <1>1
<1>2. ASSUME NEW i, NEW s, SetInst(i, s)
      PROVE  \A j \in Inst : inst'[j].mid = inst[j].mid /\ (j # i => inst'[j] = inst[j]) /\ (j = i => inst'[j].status = s)
  BY <1>t, <1>2 DEF SetInst, InstItem
<1>3. CASE Environment
  <2>1. ASSUME NEW i \in Inst, SyncInstance(i) PROVE InstMoves
    BY <1>2, <2>1 DEF SyncInstance, Synced
  <2>2. QED
    BY <1>1, <1>3, <2>1 DEF Environment, ReleaseTimeComes, Age, Reappear, ReappearEarly, WorkflowEnds, ViewRows, others
<1>4. ASSUME NEW d \in Tick, DispatcherStep(d) \/ DispatcherFault(d) PROVE InstMoves
  <2>1. CASE ResolveTracking(d)
    BY <1>1, <1>2, <2>1 DEF ResolveTracking, Terminal
  <2>2. QED
    BY <1>1, <1>4, <2>1 DEF DispatcherStep, DispatcherFault, ScanRunning, StopRun, QueryQueuedRows, ClaimRow, SendJob,
     ClaimLost, AdvanceRelease, CheckRows, CheckInstances, CompleteRun, PromoteRun,
     QueryLaunching, SweepRow, SweepLost, SweepDone, DispatchFails, TickCrashes, TickUnchanged
<1>5. ASSUME NEW w \in Worker, LauncherStep(w) \/ LauncherFault(w) PROVE InstMoves
  <2>1. CASE DenyInstance(w)
    BY <1>1, <1>2, <2>1 DEF DenyInstance, Step, Dropped, Terminal
  <2>2. CASE FailInstance(w)
    BY <1>1, <1>2, <2>2 DEF FailInstance, Step, Dropped, Terminal
  <2>3. CASE UndoInstance(w)
    BY <1>1, <1>2, <2>3 DEF UndoInstance, Step, Undone
  <2>4. ASSUME NEW i \in Inst, PersistNew(w, i) PROVE InstMoves
    BY <1>t, <2>4 DEF PersistNew
  <2>5. CASE PersistRetry(w)
    BY <1>t, <2>5 DEF PersistRetry
  <2>6. ASSUME NEW i \in Inst, TrackNew(w, i) PROVE InstMoves
    BY <1>t, <2>6 DEF TrackNew
  <2>7. QED
    BY <1>1, <1>5, <2>1, <2>2, <2>3, <2>4, <2>5, <2>6 DEF LauncherStep, LauncherFault, Receive, EnqueueRetry, RetryGuard,
     LaunchFailsRetryably, LaunchRejected, Ack, LaunchSucceeds, ReplyLost, UndoRejected, UndoLaunch,
     RecordRefused, ReadRun, AdoptRefused, TrackAgain,
     FailRowAgain, TryFails, FinalFails, WorkerCrashes, GateDenies, RecordLaunch, AdoptLaunch,
     ResetStreak, ReferenceTracking, FailRow, CountFailure
<1>6. ASSUME NEW q \in Req, Load(q) \/ RequestProceeds(q) PROVE InstMoves
  <2>1. CASE CancelLocally(q)
    BY <1>1, <1>2, <2>1 DEF CancelLocally, ReqStep, Stopped
  <2>2. QED
    BY <1>1, <1>6, <2>1 DEF Load, RequestProceeds, RowRequest, OnlyReq, PutRow, StartRun, PauseRun, ResumeRun,
     ClaimQueued, ReadRows, CancelWaitingRow, ResolveLive, PickLiveRow, NoLiveRowLeft, PickWaitingRow,
     PickLaunchedRow, RowRefused, CancelAtMaestro, CancelLaunchedRow, Reread, RecheckInstances, CloseRun
<1>7. QED
  BY <1>3, <1>4, <1>5, <1>6 DEF Next

(* What a request may come to be about: a row it has just picked.          *)
Picked(q, r) ==
  /\ row[r].status = "launched" \/ r \in req[q].live
  /\ req'[q].pc = "maestro" /\ req'[q].todo = {r} /\ req'[q].inst = row[r].inst /\ req'[q].mid = MidOf(row[r].inst)
  /\ inst' = inst /\ row' = row
RequestMoves ==
  \A q \in Req :
    /\ req'[q].pc \in {"maestro", "inst"} =>
         \/ req'[q] = req[q]
         \/ /\ CancelAtMaestro(q) /\ req[q].pc = "maestro" /\ req'[q].pc = "inst"
            /\ req'[q].inst = req[q].inst /\ req'[q].mid = req[q].mid /\ req'[q].todo = req[q].todo
         \/ \E r \in Row : Picked(q, r)
    /\ req'[q].pc = "row" =>
         \/ req'[q] = req[q]
         \/ CancelLocally(q) /\ req[q].pc = "inst" /\ req'[q].inst = req[q].inst /\ req'[q].todo = req[q].todo
    /\ \A r \in req'[q].live : r \in Row /\ (r \in req[q].live \/ row[r].status = "launched")

(* So it is at every step.                                                 *)
LEMMA RequestMoved == ASSUME TypeInv, Next PROVE RequestMoves
<1>t. TypeOK /\ req \in [Req -> ReqState]
  BY DEF TypeInv, TypeOK
<1> DEFINE Moves(q) ==
       /\ req'[q].pc \in {"maestro", "inst"} =>
            \/ req'[q] = req[q]
            \/ /\ CancelAtMaestro(q) /\ req[q].pc = "maestro" /\ req'[q].pc = "inst"
               /\ req'[q].inst = req[q].inst /\ req'[q].mid = req[q].mid /\ req'[q].todo = req[q].todo
            \/ \E r \in Row : Picked(q, r)
       /\ req'[q].pc = "row" =>
            \/ req'[q] = req[q]
            \/ CancelLocally(q) /\ req[q].pc = "inst" /\ req'[q].inst = req[q].inst /\ req'[q].todo = req[q].todo
       /\ \A r \in req'[q].live : r \in Row /\ (r \in req[q].live \/ row[r].status = "launched")
<1>0. \A q \in Req : req[q].live \subseteq Row /\ req[q].todo \subseteq Row
  BY <1>t DEF ReqState
<1>1. ASSUME NEW q \in Req, req'[q] = req[q] PROVE Moves(q)
  BY <1>0, <1>1
<1>2. ASSUME NEW q \in Req, Load(q) \/ RequestProceeds(q) PROVE RequestMoves
  <2>s. \A t : SetReq(q, t) => req'[q] = t
    BY <1>t DEF SetReq
  <2>p. \A t : SetReq(q, t) => \A p \in Req : p # q => req'[p] = req[p]
    BY <1>t DEF SetReq
  <2>o. \A p \in Req : p # q => req'[p] = req[p]
    BY <1>2, <2>p DEF Load, RequestProceeds, RowRequest, ReqStep, CancelInstanceOf, PutRow, StartRun, PauseRun, ResumeRun,
     ClaimQueued, ReadRows, CancelWaitingRow, ResolveLive, PickLiveRow, NoLiveRowLeft, PickWaitingRow,
     PickLaunchedRow, RowRefused, CancelAtMaestro, CancelLocally, CancelLaunchedRow, Reread, RecheckInstances, CloseRun
  <2>r. req[q] \in ReqState
    BY <1>t
  <2>k. \A a, b : ReqStep(q, a, b) => /\ req[q].pc = a /\ req'[q].pc = b /\ req'[q].live = req[q].live
                                      /\ req'[q].inst = req[q].inst /\ req'[q].mid = req[q].mid
                                      /\ req'[q].todo = req[q].todo
    BY <2>r, <2>s DEF ReqStep, ReqState
  <2>1. CASE Load(q)
    <3>1. req'[q].pc = FirstPc(Kind[q]) /\ req'[q].live = {}
      BY <2>1, <2>s DEF Load, IdleReq
    <3>2. FirstPc(Kind[q]) \notin {"maestro", "inst", "row"}
      BY DEF FirstPc
    <3>3. Moves(q)
      BY <3>1, <3>2
    <3>4. QED
      BY <1>1, <2>o, <3>3 DEF RequestMoves
  <2>2. CASE PutRow(q) \/ CancelWaitingRow(q)
    <3>1. req'[q].pc \notin {"maestro", "inst", "row"} /\ req'[q].live = req[q].live
      BY <2>2, <2>r, <2>s DEF PutRow, CancelWaitingRow, ReqState
    <3>2. Moves(q)
      BY <1>0, <3>1
    <3>3. QED
      BY <1>1, <2>o, <3>2 DEF RequestMoves
  <2>3. CASE StartRun(q) \/ PauseRun(q) \/ ResumeRun(q) \/ ClaimQueued(q) \/ NoLiveRowLeft(q) \/ CloseRun(q)
             \/ \E r \in Row : RowRefused(q, r)
    <3>1. req'[q].pc \notin {"maestro", "inst", "row"} /\ req'[q].live = req[q].live
      BY <2>3, <2>k DEF StartRun, PauseRun, ResumeRun, ClaimQueued, NoLiveRowLeft, CloseRun, RowRefused
    <3>2. Moves(q)
      BY <1>0, <3>1
    <3>3. QED
      BY <1>1, <2>o, <3>2 DEF RequestMoves
  <2>4. CASE ReadRows(q) \/ Reread(q) \/ (\E r \in Row : PickWaitingRow(q, r))
    <3>1. /\ req'[q].pc \notin {"maestro", "inst", "row"}
          /\ req'[q].live \in {{}, req[q].live, {r \in Row : row[r].status = "launched"}}
      BY <2>4, <2>r, <2>s DEF ReadRows, Reread, PickWaitingRow, ReqState
    <3>2. Moves(q)
      BY <1>0, <3>1
    <3>3. QED
      BY <1>1, <2>o, <3>2 DEF RequestMoves
  <2>5. CASE ResolveLive(q) \/ RecheckInstances(q) \/ CancelLaunchedRow(q)
    <3>1. req'[q].pc \notin {"maestro", "inst", "row"} /\ req'[q].live \subseteq req[q].live
      <4>1. CASE ResolveLive(q)
        <5>1. SetReq(q, [req[q] EXCEPT !.pc = IF req[q].live = {} THEN "recheck" ELSE "pick",
                                       !.live = {r \in req[q].live : LiveRow(r)}])
          BY <4>1 DEF ResolveLive
        <5>2. req'[q].pc \in {"recheck", "pick"} /\ req'[q].live = {r \in req[q].live : LiveRow(r)}
          BY <5>1, <2>r, <2>s DEF ReqState
        <5>3. QED
          BY <5>2
      <4>2. CASE RecheckInstances(q)
        BY <4>2, <2>s DEF RecheckInstances, IdleReq
      <4>3. CASE CancelLaunchedRow(q)
        <5>1. PICK r \in req[q].todo :
                SetReq(q, [IdleReq EXCEPT !.pc = IF Kind[q] = "rowCancel" THEN "done" ELSE "pick",
                                          !.live = req[q].live \ {r}])
          BY <4>3 DEF CancelLaunchedRow
        <5>2. QED
          BY <5>1, <2>s DEF IdleReq
      <4>4. QED
        BY <2>5, <4>1, <4>2, <4>3
    <3>2. Moves(q)
      BY <1>0, <3>1
    <3>3. QED
      BY <1>1, <2>o, <3>2 DEF RequestMoves
  <2>6. CASE PickLiveRow(q) \/ \E r \in Row : PickLaunchedRow(q, r)
    <3>1. PICK r \in Row : /\ CancelInstanceOf(q, r) /\ OnlyReq
                           /\ row[r].status = "launched" \/ r \in req[q].live
      BY <1>0, <2>6 DEF PickLiveRow, PickLaunchedRow
    <3>2. /\ req'[q].pc = "maestro" /\ req'[q].todo = {r} /\ req'[q].inst = row[r].inst /\ req'[q].mid = MidOf(row[r].inst)
          /\ req'[q].live = req[q].live
      BY <2>r, <2>s, <3>1 DEF CancelInstanceOf, ReqState
    <3>3. Picked(q, r)
      BY <3>1, <3>2 DEF Picked, OnlyReq
    <3>4. Moves(q)
      BY <1>0, <3>2, <3>3
    <3>5. QED
      BY <1>1, <2>o, <3>4 DEF RequestMoves
  <2>7. CASE CancelAtMaestro(q)
    <3>1. /\ req[q].pc = "maestro" /\ req'[q].pc = "inst" /\ req'[q].live = req[q].live /\ req'[q].todo = req[q].todo
          /\ req'[q].inst = req[q].inst /\ req'[q].mid = req[q].mid
      BY <2>7, <2>k DEF CancelAtMaestro
    <3>2. Moves(q)
      BY <1>0, <2>7, <3>1
    <3>3. QED
      BY <1>1, <2>o, <3>2 DEF RequestMoves
  <2>8. CASE CancelLocally(q)
    <3>1. /\ req[q].pc = "inst" /\ req'[q].pc = "row" /\ req'[q].live = req[q].live /\ req'[q].todo = req[q].todo
          /\ req'[q].inst = req[q].inst
      BY <2>8, <2>k DEF CancelLocally
    <3>2. Moves(q)
      BY <1>0, <2>8, <3>1
    <3>3. QED
      BY <1>1, <2>o, <3>2 DEF RequestMoves
  <2>9. QED
    BY <1>2, <2>1, <2>2, <2>3, <2>4, <2>5, <2>6, <2>7, <2>8 DEF RequestProceeds, RowRequest
<1>3. CASE req' = req
  BY <1>1, <1>3 DEF RequestMoves
<1>4. CASE Environment
  BY <1>3, <1>4 DEF Environment, ReleaseTimeComes, Age, Reappear, ReappearEarly, WorkflowEnds, SyncInstance, ViewRows, others
<1>5. ASSUME NEW d \in Tick, DispatcherStep(d) \/ DispatcherFault(d) PROVE req' = req
  BY <1>5 DEF DispatcherStep, DispatcherFault, ScanRunning, StopRun, QueryQueuedRows, ClaimRow, SendJob,
     ClaimLost, AdvanceRelease, CheckRows, CheckInstances, CompleteRun, PromoteRun, ResolveTracking,
     QueryLaunching, SweepRow, SweepLost, SweepDone, DispatchFails, TickCrashes, TickUnchanged
<1>6. ASSUME NEW w \in Worker, LauncherStep(w) \/ LauncherFault(w) PROVE req' = req
  BY <1>t, <1>6, LauncherFrame
<1>7. QED
  BY <1>2, <1>3, <1>4, <1>5, <1>6 DEF Next

(* What may become of the instance a row names: only its start and a       *)
(* worker that has yet to do what its job says of it write it.             *)
WritesRow(w, r) == wk[w].pc \notin DonePc \cup {"idle"} /\ JobOf(w).row = r
Records(w, r) ==
  /\ wk[w].pc \in {"record", "adopt"} /\ JobOf(w).row = r
  /\ row'[r].inst = wk[w].inst /\ wk'[w].inst = wk[w].inst /\ inst' = inst
  /\ wk'[w].pc = "reset"
NamesMove ==
  \A r \in Row :
    /\ \/ row'[r].inst = row[r].inst
       \/ \E q \in Req : PutAnew(q, r)
       \/ \E w \in Worker : WritesRow(w, r)
    /\ row'[r].status = "launched" => row[r].status = "launched" \/ \E w \in Worker : Records(w, r)

(* So it is at every step.                                                 *)
LEMMA NamesMoved == ASSUME TypeInv, Next PROVE NamesMove
<1>t. /\ TypeOK /\ row \in [Row -> RowItem] /\ inst \in [Inst -> InstItem] /\ wk \in [Worker -> WorkerState]
  BY DEF TypeInv, TypeOK
<1> DEFINE Same(r) == row'[r].inst = row[r].inst /\ (row'[r].status = "launched" => row[r].status = "launched")
<1>1. CASE \A r \in Row : Same(r)
  BY <1>1 DEF NamesMove
<1>2. ASSUME NEW R, ResolveRows(R) PROVE NamesMove
  BY <1>t, <1>1, <1>2 DEF ResolveRows, RowItem
<1>3. ASSUME NEW s \in Row, NEW v \in RowStatus \ {"launched"}, row' = [row EXCEPT ![s].status = v] PROVE NamesMove
  BY <1>t, <1>1, <1>3 DEF RowItem
<1>4. CASE Environment
  <2>1. ASSUME NEW r \in Row, Age(r) PROVE NamesMove
    BY <1>t, <1>1, <2>1 DEF Age, RowItem
  <2>2. CASE ViewRows
    BY <2>2, <1>2 DEF ViewRows
  <2>3. QED
    BY <1>1, <1>4, <2>1, <2>2 DEF Environment, ReleaseTimeComes, Reappear, ReappearEarly, WorkflowEnds, SyncInstance
<1>5. ASSUME NEW d \in Tick, DispatcherStep(d) \/ DispatcherFault(d) PROVE NamesMove
  <2>0. tick[d].todo \subseteq Row
    BY <1>t DEF TypeOK, TickState
  <2>1. CASE ClaimRow(d)
    BY <1>t, <1>1, <2>0, <2>1 DEF ClaimRow, RowItem
  <2>2. CASE CheckInstances(d)
    BY <2>2, <1>2 DEF CheckInstances
  <2>3. CASE SweepRow(d)
    BY <1>3, <2>0, <2>3 DEF SweepRow, SetRow, RowStatus
  <2>4. QED
    BY <1>1, <1>5, <2>1, <2>2, <2>3 DEF DispatcherStep, DispatcherFault, ScanRunning, StopRun, QueryQueuedRows,
       ClaimLost, SendJob, AdvanceRelease, CheckRows, CompleteRun, PromoteRun,
       QueryLaunching, SweepLost, ResolveTracking, SweepDone, DispatchFails, TickCrashes
<1>6. ASSUME NEW w \in Worker, LauncherStep(w) \/ LauncherFault(w) PROVE NamesMove
  <2> DEFINE r == JobOf(w).row
  <2>k. ASSUME NEW f \in WorkerPc, NEW p \in WorkerPc, Step(w, f, p)
        PROVE  wk[w].pc = f /\ wk'[w].pc = p /\ wk'[w].inst = wk[w].inst
    BY <1>t, <2>k DEF Step, SetWorker, WorkerState
  <2>j. wk[w].pc # "idle" => r \in Row
    BY <1>t DEF TypeInv, BusyHoldsMessage, TypeOK, Message, Job, JobOf
  <2> HIDE DEF r
  <2>1. CASE GateDenies(w)
    <3>1. wk[w].pc = "launch"
      BY <2>1 DEF GateDenies, Step
    <3>2. QED
      BY <1>3, <2>1, <2>j, <3>1 DEF GateDenies, SetRow, RowStatus, r
  <2>2. CASE RecordLaunch(w) \/ AdoptLaunch(w)
    <3>1. wk[w].pc \in {"record", "adopt"} /\ wk'[w].pc = "reset" /\ wk'[w].inst = wk[w].inst
      BY <2>2, <2>k DEF RecordLaunch, AdoptLaunch, WorkerPc
    <3>2. RecordOn(w) /\ r \in Row /\ inst' = inst
      BY <2>2, <2>j, <3>1 DEF RecordLaunch, AdoptLaunch
    <3>3. row'[r].inst = wk[w].inst /\ \A s \in Row : s # r => row'[s] = row[s]
      BY <1>t, <3>2 DEF RecordOn, RowItem, r
    <3>4. Records(w, r) /\ WritesRow(w, r)
      BY <3>1, <3>2, <3>3 DEF Records, WritesRow, DonePc, r
    <3>5. QED
      BY <3>3, <3>4 DEF NamesMove
  <2>3. CASE FailRow(w)
    <3>1. wk[w].pc = "failRow"
      BY <2>3 DEF FailRow, Step
    <3>2. row'[r].status = "failed" /\ \A s \in Row : s # r => row'[s] = row[s]
      BY <1>t, <2>3, <2>j, <3>1 DEF FailRow, FailedRow, RowItem, r
    <3>3. WritesRow(w, r)
      BY <3>1 DEF WritesRow, DonePc, r
    <3>4. QED
      BY <3>2, <3>3 DEF NamesMove
  <2>4. CASE ReferenceTracking(w)
    <3>1. wk[w].pc = "reference"
      BY <2>4 DEF ReferenceTracking, Step
    <3>2. row'[r].status = row[r].status /\ \A s \in Row : s # r => row'[s] = row[s]
      BY <1>t, <2>4, <2>j, <3>1 DEF ReferenceTracking, RowItem, r
    <3>3. WritesRow(w, r)
      BY <3>1 DEF WritesRow, DonePc, r
    <3>4. QED
      BY <3>2, <3>3 DEF NamesMove
  <2>5. CASE row' = row
    BY <1>1, <2>5
  <2>6. QED
    BY <1>6, <2>1, <2>2, <2>3, <2>4, <2>5 DEF LauncherStep, LauncherFault,
       Receive, EnqueueRetry, LaunchSucceeds, PersistNew, TrackNew, RetryGuard,
       DenyInstance, LaunchFailsRetryably, LaunchRejected, PersistRetry,
       RecordRefused, ReadRun, AdoptRefused, UndoLaunch, UndoInstance, TrackAgain,
       FailInstance, FailRowAgain, Ack, ReplyLost, UndoRejected, TryFails,
       FinalFails, WorkerCrashes, ResetStreak, CountFailure
<1>7. ASSUME NEW q \in Req, Load(q) \/ RequestProceeds(q) PROVE NamesMove
  <2>0. req[q].todo \subseteq Row
    BY <1>t DEF TypeOK, ReqState
  <2>1. CASE PutRow(q)
    <3>1. PICK r \in req[q].todo : /\ req[q].pc = "put"
                                   /\ row' = [row EXCEPT ![r] = [status |-> Plan[r], inst |-> None, stale |-> FALSE]]
      BY <2>1 DEF PutRow
    <3>2. r \in Row /\ Plan[r] # "launched"
      BY <2>0, ConstantsAssumption
    <3>3. PutAnew(q, r) /\ row'[r].status # "launched" /\ \A s \in Row : s # r => row'[s] = row[s]
      BY <1>t, <2>1, <3>1, <3>2 DEF PutAnew
    <3>4. QED
      BY <3>3 DEF NamesMove
  <2>2. CASE CancelWaitingRow(q)
    BY <1>1, <1>3, <2>0, <2>2 DEF CancelWaitingRow, RowStatus
  <2>3. CASE CancelLaunchedRow(q)
    BY <1>1, <1>3, <2>0, <2>3 DEF CancelLaunchedRow, RowStatus
  <2>4. CASE ResolveLive(q) \/ RecheckInstances(q)
    BY <2>4, <1>2 DEF ResolveLive, RecheckInstances
  <2>5. CASE row' = row
    BY <1>1, <2>5
  <2>6. QED
    BY <1>7, <2>1, <2>2, <2>3, <2>4, <2>5 DEF Load, RequestProceeds, StartRun, PauseRun, ResumeRun, ClaimQueued, OnlyReq,
       ReadRows, PickLiveRow, NoLiveRowLeft, RowRequest, PickWaitingRow, PickLaunchedRow,
       RowRefused, CancelAtMaestro, CancelLocally, Reread, CloseRun
<1>8. QED
  BY <1>4, <1>5, <1>6, <1>7 DEF Next

(* LaunchIsTracked is not inductive alone, and without a fault more holds. *)
(* A ladder's instance is borne by one message, or by the one worker that  *)
(* has just made it; it has no Maestro id until the worker that holds the  *)
(* message has launched; an id in hand or in an item is of an instance     *)
(* Docusign knows; a worker that has launched works on its own instance; a *)
(* row that a cancel is about names an instance with an id, as the request *)
(* does, and no job of it is under way; and a live instance is named by a  *)
(* running item or by the worker that is about to write it.                *)
Going(m) == \E w \in Worker : wk[w].pc \in LaunchedPc /\ wk[w].msg = m
BornByOne ==
  \A i \in Inst :
    /\ \A m, n \in Msg : Bears(m, i) /\ Bears(n, i) => m = n
    /\ \A w \in Worker : Begins(w, i) => (\A m \in Msg : ~Bears(m, i)) /\ \A v \in Worker : Begins(v, i) => v = w
Unlaunched ==
  \A i \in Inst :
    /\ \A m \in Msg : Bears(m, i) /\ ~Going(m) => inst[i].mid = None
    /\ \A w \in Worker : Begins(w, i) => inst[i].mid = None
IdsKnown ==
  /\ \A i \in Inst : /\ ~Exists(i) => inst[i].mid = None
                     /\ inst[i].mid # None => maestro[inst[i].mid] # "none"
  /\ \A w \in Worker : wk[w].pc = "persist" => wk[w].mid \in Mid /\ maestro[wk[w].mid] # "none"
WorkersOnIds ==
  \A w \in Worker : wk[w].pc \in LaunchedPc =>
    /\ wk[w].inst \in Inst /\ wk[w].mid \in Mid /\ inst[wk[w].inst].mid = wk[w].mid
    /\ wk[w].pc = "undoInst" => maestro[wk[w].mid] # "live"
Noted(r) ==
  /\ Settled(r) /\ hist.released[r] # 0 /\ row[r].status \notin {"staged", "queued", "launching"}
  /\ row[r].inst \in Inst /\ inst[row[r].inst].mid # None
RowsNoted ==
  /\ \A r \in Row : row[r].status = "launched" => Noted(r)
  /\ \A q \in Req : \A r \in req[q].live : Noted(r)
RequestsOnIds ==
  \A q \in Req : req[q].pc \in {"maestro", "inst"} =>
    /\ req[q].inst \in Inst /\ req[q].mid \in Mid /\ inst[req[q].inst].mid = req[q].mid
    /\ req[q].pc = "inst" => maestro[req[q].mid] # "live"
Tracked ==
  \A k \in Mid : maestro[k] = "live" =>
    \/ \E i \in Inst : inst[i].mid = k /\ inst[i].status = "running"
    \/ \E w \in Worker : wk[w].pc = "persist" /\ wk[w].mid = k
TrackInv == BornByOne /\ Unlaunched /\ IdsKnown /\ WorkersOnIds /\ RowsNoted /\ RequestsOnIds /\ Tracked
CleanInv == TypeInv /\ ReleaseInv /\ ChainInv /\ LadderInv /\ TrackInv

(* Before the first step there is nothing to track.                        *)
LEMMA TrackInit == Init => TrackInv
<1> SUFFICES ASSUME Init PROVE TrackInv
  OBVIOUS
<1>1. /\ \A m \in Msg : ~Pending(m)
      /\ \A w \in Worker : wk[w].pc = "idle"
      /\ \A i \in Inst : inst[i].mid = None
      /\ \A k \in Mid : maestro[k] = "none"
      /\ \A q \in Req : req[q].pc = "idle" /\ req[q].live = {}
  BY DEF Init, Pending, IdleWorker, IdleReq
<1>2. \A r \in Row : row[r].status # "launched"
  BY ConstantsAssumption DEF Init
<1>3. BornByOne /\ Unlaunched
  BY <1>1 DEF BornByOne, Unlaunched, Bears, Begins
<1>4. IdsKnown /\ WorkersOnIds /\ RequestsOnIds /\ Tracked
  BY <1>1 DEF IdsKnown, WorkersOnIds, RequestsOnIds, Tracked, LaunchedPc
<1>5. RowsNoted
  BY <1>1, <1>2 DEF RowsNoted
<1>6. QED
  BY <1>3, <1>4, <1>5 DEF TrackInv

(* A worker at a retry bears the ladder, and until it has launched the     *)
(* ladder's instance has no Maestro id.                                    *)
LEMMA HeldBears ==
  ASSUME CleanInv, NEW w \in Worker, wk[w].pc \notin {"idle", "stats", "ack"}, IsRetry(w)
  PROVE  /\ JobOf(w).inst \in Inst /\ Exists(JobOf(w).inst) /\ Bears(wk[w].msg, JobOf(w).inst)
         /\ wk[w].pc \notin LaunchedPc => ~Going(wk[w].msg) /\ inst[JobOf(w).inst].mid = None
<1>1. JobOf(w).inst \in Inst /\ Exists(JobOf(w).inst)
  BY HeldJob DEF CleanInv
<1>2. /\ wk[w].msg \in Msg /\ Pending(wk[w].msg) /\ JobOf(w) = msg[wk[w].msg].job
      /\ ~LettingGo(wk[w].msg)
  BY JobInHand DEF CleanInv
<1>3. Bears(wk[w].msg, JobOf(w).inst)
  BY <1>2 DEF Bears
<1>4. ASSUME wk[w].pc \notin LaunchedPc PROVE ~Going(wk[w].msg)
  <2>1. \A v \in Worker : wk[v].pc # "idle" /\ wk[v].msg = wk[w].msg => v = w
    BY DEF CleanInv, ChainInv, HeldOnce
  <2>2. QED
    BY <1>4, <2>1 DEF Going, LaunchedPc
<1>5. QED
  BY <1>1, <1>2, <1>3, <1>4 DEF CleanInv, TrackInv, Unlaunched

(* A worker that has launched goes on with what it has, until it lets go.  *)
LEMMA LaunchedGoesOn ==
  ASSUME NoFault, TypeInv, NEW w \in Worker, LauncherStep(w) \/ LauncherFault(w)
  PROVE  /\ wk[w].pc \in LaunchedPc \ {"stats"} =>
              /\ wk'[w].pc \in LaunchedPc /\ wk'[w].msg = wk[w].msg
              /\ wk'[w].inst = wk[w].inst /\ wk'[w].mid = wk[w].mid
              /\ wk'[w].pc = "undoInst" => UndoLaunch(w)
         /\ wk[w].pc = "persist" => PersistRetry(w) \/ \E i \in Inst : PersistNew(w, i)
<1>t. wk \in [Worker -> WorkerState] /\ wk[w] \in WorkerState
  BY DEF TypeInv, TypeOK
<1>n. ~TryFails(w) /\ ~WorkerCrashes(w) /\ ~FinalFails(w) /\ ~UndoRejected(w)
  BY DEF NoFault, NoRepeats, NothingDropped
<1>k. ASSUME NEW f \in LaunchedPc, NEW p \in LaunchedPc, Step(w, f, p)
      PROVE  /\ wk[w].pc = f /\ wk'[w].pc = p /\ wk'[w].msg = wk[w].msg
             /\ wk'[w].inst = wk[w].inst /\ wk'[w].mid = wk[w].mid
  BY <1>t, <1>k DEF Step, SetWorker, WorkerState, LaunchedPc, WorkerPc
<1>1. ASSUME wk[w].pc = "persist" PROVE PersistRetry(w) \/ \E i \in Inst : PersistNew(w, i)
  BY <1>n, <1>1 DEF LauncherStep, LauncherFault, Step,
         Receive, EnqueueRetry, LaunchSucceeds, TrackNew, RetryGuard,
         DenyInstance, LaunchFailsRetryably, LaunchRejected,
         RecordRefused, ReadRun, AdoptRefused, UndoLaunch, UndoInstance, TrackAgain,
         FailInstance, FailRowAgain, Ack, ReplyLost, ReferenceTracking,
         GateDenies, RecordLaunch, AdoptLaunch, ResetStreak, FailRow, CountFailure
<1>2. ASSUME wk[w].pc \in LaunchedPc \ {"stats"}
      PROVE  /\ wk'[w].pc \in LaunchedPc /\ wk'[w].msg = wk[w].msg
             /\ wk'[w].inst = wk[w].inst /\ wk'[w].mid = wk[w].mid
             /\ wk'[w].pc = "undoInst" => UndoLaunch(w)
  <2>1. \/ RecordLaunch(w) \/ RecordRefused(w) \/ ReadRun(w) \/ AdoptLaunch(w) \/ AdoptRefused(w)
        \/ UndoLaunch(w) \/ UndoInstance(w) \/ ResetStreak(w)
    BY <1>n, <1>2 DEF LaunchedPc, LauncherStep, LauncherFault, Step,
         Receive, EnqueueRetry, LaunchSucceeds, PersistNew, TrackNew, RetryGuard,
         DenyInstance, LaunchFailsRetryably, LaunchRejected, PersistRetry, TrackAgain,
         FailInstance, FailRowAgain, Ack, ReplyLost, ReferenceTracking,
         GateDenies, FailRow, CountFailure
  <2>2. PICK f \in LaunchedPc, p \in LaunchedPc : Step(w, f, p) /\ (p = "undoInst" => UndoLaunch(w))
    BY <2>1 DEF RecordLaunch, RecordRefused, ReadRun, AdoptLaunch, AdoptRefused, UndoLaunch, UndoInstance,
       ResetStreak, LaunchedPc
  <2>3. QED
    BY <2>2, <1>k
<1>3. QED
  BY <1>1, <1>2

(* What bears a ladder after a step bore it before, or is its next retry.  *)
LEMMA BearsMoved ==
  ASSUME CleanInv, NoFault, Next, NEW i \in Inst, NEW m \in Msg, Bears(m, i)'
  PROVE  \/ Bears(m, i) /\ (Going(m) => Going(m)')
         \/ \E w \in Worker : Retried(w, m) /\ wk[w].inst = i
<1>n. NoRepeats /\ TypeInv /\ ReleaseInv /\ ChainInv
  BY DEF NoFault, CleanInv
<1>b. Pending(m)' /\ msg'[m].job.inst = i /\ ~LettingGo(m)'
  BY DEF Bears
<1>1. ASSUME NEW d \in Tick, NEW r \in Row, Released(d, r, m) PROVE FALSE
  BY <1>b, <1>1, ConstantsAssumption DEF Released
<1>2. ASSUME NEW w \in Worker, Retried(w, m) PROVE wk[w].inst = i
  <2>1. msg'[m].job = NextAttempt(w)
    BY <1>2 DEF Retried
  <2>2. wk[w].pc = "enqueue"
    BY <1>n, <1>2, RetryOfRow
  <2>3. JobOf(w) \in Job
    BY <1>n, <2>2, JobInHand
  <2>4. QED
    BY <1>b, <2>1, <2>3 DEF NextAttempt, Job
<1>3. ASSUME Pending(m), msg'[m].job = msg[m].job PROVE Bears(m, i) /\ (Going(m) => Going(m)')
  <2>1. ~LettingGo(m)
    BY <1>n, <1>b, DoneStays
  <2>2. Bears(m, i)
    BY <1>3, <1>b, <2>1 DEF Bears
  <2>3. ASSUME Going(m) PROVE Going(m)'
    <3>1. PICK w \in Worker : wk[w].pc \in LaunchedPc /\ wk[w].msg = m
      BY <2>3 DEF Going
    <3>2. wk[w].pc # "stats"
      BY <2>1, <3>1 DEF LettingGo
    <3>3. CASE wk'[w] = wk[w]
      BY <3>1, <3>3 DEF Going
    <3>4. CASE LauncherStep(w) \/ LauncherFault(w)
      BY <1>n, <3>1, <3>2, <3>4, LaunchedGoesOn DEF Going
    <3>5. QED
      BY <1>n, <3>3, <3>4, WorkGoesOn DEF NoFault, CleanInv
  <2>4. QED
    BY <2>2, <2>3
<1>4. QED
  BY <1>n, <1>b, <1>1, <1>2, <1>3, PendingSource

(* The worker that enqueues a retry bore the ladder or began it, and does  *)
(* neither any more.                                                       *)
LEMMA RetryHandsOn ==
  ASSUME CleanInv, NoFault, Next, NEW i \in Inst, NEW m \in Msg, NEW w \in Worker, Retried(w, m), wk[w].inst = i
  PROVE  /\ inst[i].mid = None /\ inst' = inst
         /\ \A n \in Msg : Bears(n, i) => ~Bears(n, i)'
         /\ \A v \in Worker : Begins(v, i) => ~Begins(v, i)'
<1>n. TypeInv /\ ReleaseInv /\ ChainInv
  BY DEF CleanInv
<1>1. wk[w].pc = "enqueue" /\ wk'[w].pc = "ack" /\ wk'[w].msg = wk[w].msg
  BY <1>n, RetryOfRow
<1>2. inst' = inst
  BY DEF Retried, EnqueueRetry
<1>3. CASE IsRetry(w)
  <2>1. JobOf(w).inst = i
    BY <1>1, <1>3 DEF CleanInv, LadderInv, WorkersNameInstances
  <2>2. Bears(wk[w].msg, i) /\ inst[i].mid = None /\ wk[w].msg \in Msg
    BY <1>1, <1>3, <2>1, HeldBears, JobInHand DEF LaunchedPc, CleanInv
  <2>3. /\ \A n \in Msg : Bears(n, i) => n = wk[w].msg
        /\ \A v \in Worker : ~Begins(v, i)
    BY <2>2 DEF CleanInv, TrackInv, BornByOne
  <2>4. \A n \in Msg : n = wk[w].msg => ~Bears(n, i)'
    BY <1>1 DEF Bears, LettingGo
  <2>5. QED
    BY <1>2, <2>2, <2>3, <2>4
<1>4. CASE ~IsRetry(w)
  <2>1. Begins(w, i)
    BY <1>1, <1>4 DEF Begins
  <2>2. /\ inst[i].mid = None /\ \A n \in Msg : ~Bears(n, i)
        /\ \A v \in Worker : Begins(v, i) => v = w
    BY <2>1 DEF CleanInv, TrackInv, BornByOne, Unlaunched
  <2>3. ~Begins(w, i)'
    BY <1>1 DEF Begins
  <2>4. QED
    BY <1>2, <2>2, <2>3
<1>5. QED
  BY <1>3, <1>4

(* Who begins a ladder after a step began it before, or has just made it.  *)
LEMMA BeginsMoved ==
  ASSUME CleanInv, NoFault, Next, NEW i \in Inst, NEW w \in Worker, Begins(w, i)'
  PROVE  Begins(w, i) \/ TrackNew(w, i)
<1>n. TypeInv /\ LadderInv /\ NothingDropped
  BY DEF CleanInv, NoFault
<1>t. wk \in [Worker -> WorkerState]
  BY <1>n DEF TypeInv, TypeOK
<1>b. wk'[w].pc \in {"reference", "enqueue"} /\ ~IsRetry(w)' /\ wk'[w].inst = i
  BY DEF Begins
<1>1. CASE wk'[w] = wk[w]
  <2>1. ~IsRetry(w)
    BY <1>n, <1>b, <1>1, WorkGoesOn
  <2>2. QED
    BY <1>b, <1>1, <2>1 DEF Begins
<1>2. CASE TrackAgain(w)
  <2>1. wk[w].pc = "track" /\ IsRetry(w) /\ wk'[w].msg = wk[w].msg
    BY <1>t, <1>2 DEF TrackAgain, SetWorker, WorkerState
  <2>2. QED
    BY <1>n, <1>b, <2>1, WorkGoesOn
<1>3. ASSUME NEW j \in Inst, TrackNew(w, j) PROVE TrackNew(w, i)
  <2>1. wk'[w].inst = j
    BY <1>t, <1>3 DEF TrackNew, SetWorker, WorkerState
  <2>2. QED
    BY <1>b, <1>3, <2>1
<1>4. CASE ReferenceTracking(w)
  <2>1. wk[w].pc = "reference" /\ wk'[w].msg = wk[w].msg /\ wk'[w].inst = wk[w].inst
    BY <1>t, <1>4 DEF ReferenceTracking, Step, SetWorker, WorkerState
  <2>2. ~IsRetry(w)
    BY <1>n, <1>b, <2>1, WorkGoesOn
  <2>3. QED
    BY <1>b, <2>1, <2>2 DEF Begins
<1>5. CASE LauncherStep(w) \/ LauncherFault(w)
  BY <1>n, <1>b, <1>2, <1>3, <1>4, <1>5, LauncherPath
<1>6. QED
  BY <1>n, <1>1, <1>5, WorkGoesOn

(* What has a Maestro id keeps it, what Docusign knows it goes on knowing, *)
(* and what has ended there has ended.                                     *)
LEMMA IdsStay ==
  ASSUME CleanInv, NoFault, Next
  PROVE  /\ \A i \in Inst : inst[i].mid # None => inst'[i].mid = inst[i].mid
         /\ \A k \in Mid : maestro[k] # "none" => maestro'[k] # "none"
         /\ \A k \in Mid : maestro[k] \notin {"none", "live"} => maestro'[k] # "live"
<1>t. TypeInv
  BY DEF CleanInv
<1>1. MaestroMoves /\ InstMoves
  BY <1>t, MaestroMoved, InstMoved
<1>2. ASSUME NEW i \in Inst, inst[i].mid # None, NEW w \in Worker, PersistRetry(w), JobOf(w).inst = i PROVE FALSE
  BY <1>2, HeldBears DEF PersistRetry, LaunchedPc
<1>3. ASSUME NEW i \in Inst, inst[i].mid # None, NEW w \in Worker, PersistNew(w, i) \/ TrackNew(w, i) PROVE FALSE
  BY <1>3 DEF PersistNew, TrackNew, FreshInst, CleanInv, TrackInv, IdsKnown, Exists
<1>4. \A i \in Inst : inst[i].mid # None => inst'[i].mid = inst[i].mid
  BY <1>1, <1>2, <1>3 DEF InstMoves
<1>5. \A k \in Mid : maestro[k] # "none" => maestro'[k] # "none"
  BY <1>1 DEF MaestroMoves, Launched, Terminal
<1>6. \A k \in Mid : maestro[k] \notin {"none", "live"} => maestro'[k] # "live"
  BY <1>1 DEF MaestroMoves, Launched, Terminal
<1>7. QED
  BY <1>4, <1>5, <1>6

(* A ladder is borne by one message or begun by one worker.                *)
LEMMA BornKept == ASSUME CleanInv, NoFault, Next PROVE BornByOne'
<1> SUFFICES ASSUME NEW i \in Inst
             PROVE  /\ \A m, n \in Msg : Bears(m, i)' /\ Bears(n, i)' => m = n
                    /\ \A w \in Worker : Begins(w, i)' =>
                         (\A m \in Msg : ~Bears(m, i)') /\ \A v \in Worker : Begins(v, i)' => v = w
  BY DEF BornByOne
<1>b. /\ \A m, n \in Msg : Bears(m, i) /\ Bears(n, i) => m = n
      /\ \A w \in Worker : Begins(w, i) => (\A m \in Msg : ~Bears(m, i)) /\ \A v \in Worker : Begins(v, i) => v = w
  BY DEF CleanInv, TrackInv, BornByOne
<1> DEFINE Hands(m) == \E w \in Worker : Retried(w, m) /\ wk[w].inst = i
<1>1. \A m \in Msg : Bears(m, i)' => Bears(m, i) \/ Hands(m)
  BY BearsMoved
<1>2. \A w \in Worker : Begins(w, i)' => Begins(w, i) \/ TrackNew(w, i)
  BY BeginsMoved
<1>3. ASSUME NEW m \in Msg, Hands(m)
      PROVE  /\ \A n \in Msg : Bears(n, i) => ~Bears(n, i)'
             /\ \A v \in Worker : Begins(v, i) => ~Begins(v, i)'
             /\ FreshMsg(m)
  BY <1>3, RetryHandsOn DEF Retried
<1>4. ASSUME NEW m \in Msg, NEW n \in Msg, FreshMsg(m), FreshMsg(n) PROVE m = n
  <2>1. m \in Nat /\ n \in Nat /\ m <= n /\ n <= m
    BY <1>4, ConstantsAssumption DEF FreshMsg
  <2>2. QED
    BY <2>1
<1>5. ASSUME NEW w \in Worker, TrackNew(w, i)
      PROVE  /\ \A m \in Msg : ~Bears(m, i) /\ ~Hands(m)
             /\ \A v \in Worker : ~Begins(v, i) /\ (TrackNew(v, i) => v = w)
  <2>1. ~Exists(i) /\ wk[w].pc = "track" /\ wk'[w] # wk[w] /\ \A v \in Worker : v # w => wk'[v] = wk[v]
    BY <1>5 DEF TrackNew, FreshInst, Exists, SetWorker, CleanInv, TypeInv, TypeOK, WorkerState
  <2>2. \A m \in Msg : ~Bears(m, i)
    BY <2>1, ConstantsAssumption DEF Bears, Pending, CleanInv, LadderInv, JobsNameInstances
  <2>3. \A v \in Worker : ~Begins(v, i)
    BY <2>1 DEF Begins, CleanInv, LadderInv, WorkersNameInstances
  <2>4. ASSUME NEW v \in Worker, TrackNew(v, i) PROVE v = w
    <3>1. wk'[v] # wk[v]
      BY <2>4 DEF TrackNew, SetWorker, CleanInv, TypeInv, TypeOK, WorkerState
    <3>2. QED
      BY <2>1, <3>1
  <2>5. ASSUME NEW m \in Msg, NEW v \in Worker, Retried(v, m), wk[v].inst = i PROVE FALSE
    BY <2>1, <2>5 DEF Retried, EnqueueRetry, Step, CleanInv, LadderInv, WorkersNameInstances
  <2>6. QED
    BY <2>2, <2>3, <2>4, <2>5
<1> HIDE DEF Hands
<1>6. \A m, n \in Msg : Bears(m, i)' /\ Bears(n, i)' => m = n
  BY <1>b, <1>1, <1>3, <1>4
<1>7. ASSUME NEW w \in Worker, Begins(w, i)'
      PROVE  (\A m \in Msg : ~Bears(m, i)') /\ \A v \in Worker : Begins(v, i)' => v = w
  BY <1>b, <1>1, <1>2, <1>3, <1>5, <1>7
<1>8. QED
  BY <1>6, <1>7

(* Until its worker has launched, a ladder's instance has no Maestro id.   *)
LEMMA UnlaunchedKept == ASSUME CleanInv, NoFault, Next PROVE Unlaunched'
<1>t. TypeInv /\ inst \in [Inst -> InstItem] /\ wk \in [Worker -> WorkerState]
  BY DEF CleanInv, TypeInv, TypeOK
<1> SUFFICES ASSUME NEW i \in Inst
             PROVE  /\ \A m \in Msg : Bears(m, i)' /\ ~Going(m)' => inst'[i].mid = None
                    /\ \A w \in Worker : Begins(w, i)' => inst'[i].mid = None
  BY DEF Unlaunched
<1>b. /\ \A m, n \in Msg : Bears(m, i) /\ Bears(n, i) => m = n
      /\ \A w \in Worker : Begins(w, i) => \A m \in Msg : ~Bears(m, i)
      /\ \A m \in Msg : Bears(m, i) /\ ~Going(m) => inst[i].mid = None
      /\ \A w \in Worker : Begins(w, i) => inst[i].mid = None
  BY DEF CleanInv, TrackInv, BornByOne, Unlaunched
<1>i. InstMoves
  BY <1>t, InstMoved
<1>1. ASSUME NEW w \in Worker, TrackNew(w, i) PROVE inst'[i].mid = None
  BY <1>t, <1>1 DEF TrackNew
<1>2. ASSUME NEW w \in Worker, NEW m \in Msg, Retried(w, m), wk[w].inst = i PROVE inst'[i].mid = None
  BY <1>2, RetryHandsOn
<1>3. ASSUME NEW w \in Worker, PersistNew(w, i)
      PROVE  (\A m \in Msg : ~Bears(m, i)) /\ \A v \in Worker : ~Begins(v, i)
  <2>1. ~Exists(i)
    BY <1>3 DEF PersistNew, FreshInst, Exists
  <2>2. QED
    BY <2>1, ConstantsAssumption DEF Bears, Pending, Begins, CleanInv, LadderInv, JobsNameInstances, WorkersNameInstances
<1>4. ASSUME NEW w \in Worker, PersistRetry(w), JobOf(w).inst = i
      PROVE  (\A m \in Msg : Bears(m, i) => Going(m)') /\ \A v \in Worker : ~Begins(v, i)
  <2>1. wk[w].pc = "persist" /\ IsRetry(w)
    BY <1>4 DEF PersistRetry
  <2>2. wk'[w].pc = "record" /\ wk'[w].msg = wk[w].msg
    BY <1>t, <1>4 DEF PersistRetry, SetWorker, WorkerState
  <2>3. Bears(wk[w].msg, i) /\ wk[w].msg \in Msg
    BY <1>4, <2>1, HeldBears, JobInHand DEF CleanInv, LaunchedPc
  <2>4. \A m \in Msg : Bears(m, i) => m = wk[w].msg
    BY <1>b, <2>3
  <2>5. \A m \in Msg : m = wk[w].msg => Going(m)'
    BY <2>2 DEF Going, LaunchedPc
  <2>6. QED
    BY <1>b, <2>3, <2>4, <2>5
<1>5. ASSUME inst[i].mid = None, inst'[i].mid # None
      PROVE  \E w \in Worker : PersistNew(w, i) \/ (PersistRetry(w) /\ JobOf(w).inst = i)
  BY <1>i, <1>5 DEF InstMoves
<1>6. ASSUME NEW m \in Msg, Bears(m, i)', ~Going(m)' PROVE inst'[i].mid = None
  <2>1. CASE Bears(m, i) /\ (Going(m) => Going(m)')
    BY <1>b, <1>3, <1>4, <1>5, <1>6, <2>1
  <2>2. QED
    BY <1>2, <1>6, <2>1, BearsMoved
<1>7. ASSUME NEW w \in Worker, Begins(w, i)' PROVE inst'[i].mid = None
  <2>1. CASE Begins(w, i)
    BY <1>b, <1>3, <1>4, <1>5, <2>1
  <2>2. QED
    BY <1>1, <1>7, <2>1, BeginsMoved
<1>8. QED
  BY <1>6, <1>7

(* Ids are known to Docusign.                                              *)
LEMMA IdsKept == ASSUME CleanInv, NoFault, Next PROVE IdsKnown'
<1>t. TypeInv /\ inst \in [Inst -> InstItem] /\ wk \in [Worker -> WorkerState] /\ LadderInv /\ NothingDropped /\ None \notin Mid
  BY ConstantsAssumption DEF CleanInv, TypeInv, TypeOK, NoFault
<1>i. InstMoves /\ IdsKnown /\ TypeInv'
  BY <1>t, InstMoved, StepType DEF CleanInv, TrackInv
<1>e. \A i \in Inst : Exists(i) => Exists(i)'
  BY <1>t, InstanceSteps DEF LadderInv, InstancesOnward
<1>1. ASSUME NEW i \in Inst, ~Exists(i)' PROVE inst'[i].mid = None
  <2>1. ~Exists(i) /\ inst[i].mid = None /\ inst[i].status = "none"
    BY <1>i, <1>e, <1>1 DEF IdsKnown, Exists
  <2>2. inst'[i].status = "none"
    BY <1>1 DEF Exists
  <2>3. CASE inst'[i].mid = inst[i].mid
    BY <2>1, <2>3
  <2>4. ASSUME NEW w \in Worker, inst'[i] = [status |-> "running", mid |-> wk[w].mid] PROVE FALSE
    BY <2>2, <2>4
  <2>5. CASE \E w \in Worker : TrackNew(w, i) /\ inst'[i].mid = None
    BY <2>5
  <2>6. QED
    BY <1>i, <2>3, <2>4, <2>5 DEF InstMoves
<1>2. ASSUME NEW i \in Inst, inst'[i].mid # None PROVE maestro'[inst'[i].mid] # "none"
  <2>t. inst'[i].mid \in Mid
    BY <1>i, <1>2 DEF TypeInv, TypeOK, InstItem
  <2>1. CASE inst'[i].mid = inst[i].mid
    BY <1>i, <1>2, <2>t, <2>1, IdsStay DEF IdsKnown
  <2>2. ASSUME NEW w \in Worker, wk[w].pc = "persist", inst'[i].mid = wk[w].mid PROVE maestro'[inst'[i].mid] # "none"
    BY <1>i, <2>2, IdsStay DEF IdsKnown
  <2>3. ASSUME NEW w \in Worker, inst'[i] = [status |-> "running", mid |-> wk[w].mid],
               PersistNew(w, i) \/ (PersistRetry(w) /\ JobOf(w).inst = i)
        PROVE  maestro'[inst'[i].mid] # "none"
    <3>1. wk[w].pc = "persist"
      BY <2>3 DEF PersistNew, PersistRetry
    <3>2. inst'[i].mid = wk[w].mid
      BY <2>3
    <3>3. QED
      BY <2>2, <3>1, <3>2
  <2>4. ASSUME inst'[i] = inst[i] PROVE inst'[i].mid = inst[i].mid
    BY <2>4
  <2>5. ~(\E w \in Worker : TrackNew(w, i) /\ inst'[i].mid = None)
    BY <1>2
  <2>6. QED
    BY <1>i, <2>1, <2>3, <2>4, <2>5 DEF InstMoves
<1>3. ASSUME NEW w \in Worker, wk'[w].pc = "persist" PROVE wk'[w].mid \in Mid /\ maestro'[wk'[w].mid] # "none"
  <2>1. CASE wk'[w] = wk[w]
    BY <1>i, <1>3, <2>1, IdsStay DEF IdsKnown
  <2>2. ASSUME NEW k \in Mid, LaunchSucceeds(w, k) PROVE wk'[w].mid \in Mid /\ maestro'[wk'[w].mid] # "none"
    <3>1. wk'[w].mid = k
      BY <1>t, <2>2 DEF LaunchSucceeds, SetWorker, WorkerState
    <3>2. maestro'[k] = "live"
      BY <1>t, <2>2 DEF LaunchSucceeds, TypeInv, TypeOK
    <3>3. QED
      BY <3>1, <3>2
  <2>3. QED
    BY <1>t, <1>3, <2>1, <2>2, WorkGoesOn, LauncherPath
<1>4. QED
  BY <1>1, <1>2, <1>3 DEF IdsKnown

(* A worker that has launched works on its own instance.                   *)
LEMMA OnIdsKept == ASSUME CleanInv, NoFault, Next PROVE WorkersOnIds'
<1>t. TypeInv /\ inst \in [Inst -> InstItem] /\ wk \in [Worker -> WorkerState] /\ LadderInv /\ NothingDropped /\ None \notin Mid
      /\ maestro \in [Mid -> MaestroState]
  BY ConstantsAssumption DEF CleanInv, TypeInv, TypeOK, NoFault
<1> SUFFICES ASSUME NEW w \in Worker, wk'[w].pc \in LaunchedPc
             PROVE  /\ wk'[w].inst \in Inst /\ wk'[w].mid \in Mid /\ inst'[wk'[w].inst].mid = wk'[w].mid
                    /\ wk'[w].pc = "undoInst" => maestro'[wk'[w].mid] # "live"
  BY DEF WorkersOnIds
<1>k. IdsKnown /\ WorkersOnIds
  BY DEF CleanInv, TrackInv
<1>1. CASE wk[w].pc \in LaunchedPc /\ wk'[w].inst = wk[w].inst /\ wk'[w].mid = wk[w].mid
           /\ (wk'[w].pc = "undoInst" => wk[w].pc = "undoInst" \/ UndoLaunch(w))
  <2>1. wk[w].inst \in Inst /\ wk[w].mid \in Mid /\ inst[wk[w].inst].mid = wk[w].mid
    BY <1>1, <1>k DEF WorkersOnIds
  <2>2. inst'[wk[w].inst].mid = wk[w].mid /\ maestro[wk[w].mid] # "none"
    BY <1>t, <1>k, <2>1, IdsStay DEF IdsKnown
  <2>3. ASSUME wk[w].pc = "undoInst" PROVE maestro'[wk[w].mid] # "live"
    BY <1>k, <2>1, <2>2, <2>3, IdsStay DEF WorkersOnIds, LaunchedPc
  <2>4. ASSUME UndoLaunch(w) PROVE maestro'[wk[w].mid] # "live"
    BY <1>t, <2>1, <2>4 DEF UndoLaunch
  <2>5. QED
    BY <1>1, <2>1, <2>2, <2>3, <2>4
<1>2. ASSUME NEW i \in Inst, PersistNew(w, i)
      PROVE  /\ wk'[w].inst = i /\ wk'[w].mid = wk[w].mid /\ wk'[w].pc = "record" /\ inst'[i].mid = wk[w].mid
             /\ wk[w].pc = "persist"
  BY <1>t, <1>2 DEF PersistNew, SetWorker, WorkerState
<1>3. ASSUME PersistRetry(w)
      PROVE  /\ JobOf(w).inst \in Inst /\ wk'[w].inst = JobOf(w).inst /\ wk'[w].mid = wk[w].mid
             /\ wk'[w].pc = "record" /\ inst'[JobOf(w).inst].mid = wk[w].mid /\ wk[w].pc = "persist"
  <2>1. JobOf(w).inst \in Inst
    BY <1>3, HeldBears DEF PersistRetry
  <2>2. QED
    BY <1>t, <1>3, <2>1 DEF PersistRetry, SetWorker, WorkerState
<1>4. CASE (\E i \in Inst : PersistNew(w, i)) \/ PersistRetry(w)
  BY <1>k, <1>2, <1>3, <1>4 DEF IdsKnown
<1>5. CASE wk'[w] = wk[w]
  BY <1>1, <1>5
<1>6. CASE LauncherStep(w) \/ LauncherFault(w)
  <2>1. CASE wk[w].pc \in LaunchedPc \ {"stats"}
    BY <1>t, <1>1, <1>6, <2>1, LaunchedGoesOn
  <2>2. CASE wk[w].pc = "stats"
    <3>1. WorkMoves
      BY <1>t, WorkMoved DEF NoFault
    <3>2. CASE wk'[w] = wk[w]
      BY <1>5, <3>2
    <3>3. QED
      BY <2>2, <3>1, <3>2 DEF WorkMoves, Takes, LetsGo, GoesOn, LaunchedPc
  <2>3. CASE wk[w].pc \notin LaunchedPc
    BY <1>t, <1>4, <1>6, <2>3, LauncherPath
  <2>4. QED
    BY <2>1, <2>2, <2>3
<1>7. QED
  BY <1>t, <1>5, <1>6, WorkGoesOn

(* No job is left that could write to the row, now or after the step.      *)
LEMMA SettledRow ==
  ASSUME CleanInv, NoFault, Next, NEW r \in Row, Settled(r), hist.released[r] # 0
  PROVE  /\ \A w \in Worker : ~WritesRow(w, r)
         /\ \A w \in Worker : ~Worked(w, r)
         /\ \A q \in Req : ~PutAnew(q, r) /\ ~Cancelled(q, r)
         /\ Settled(r)' /\ hist'.released[r] # 0
<1>t. TypeInv /\ ReleaseInv /\ ChainInv /\ NoRepeats
  BY DEF CleanInv, NoFault
<1>1. ASSUME NEW w \in Worker, wk[w].pc \notin DonePc \cup {"idle"}, JobOf(w).row = r PROVE FALSE
  <2>1. /\ wk[w].msg \in Msg /\ Pending(wk[w].msg) /\ ~DoneWith(wk[w].msg) /\ msg[wk[w].msg].job.row = r
    BY <1>t, <1>1, JobInHand
  <2>2. QED
    BY <2>1 DEF Settled
<1>2. \A q \in Req : ~PutAnew(q, r) /\ ~Cancelled(q, r)
  BY <1>t, WriterKnows DEF Fresh
<1>3. ASSUME NEW m \in Msg, Pending(m)', msg'[m].job.row = r PROVE DoneWith(m)'
  <2>1. \/ Pending(m) /\ msg'[m].job = msg[m].job
        \/ \E d \in Tick, s \in Row : Released(d, s, m)
        \/ \E w \in Worker : Retried(w, m)
    BY <1>t, <1>3, PendingSource
  <2>2. CASE Pending(m) /\ msg'[m].job = msg[m].job
    <3>1. DoneWith(m)
      BY <1>3, <2>2 DEF Settled
    <3>2. QED
      BY <1>t, <1>3, <3>1, DoneStays
  <2>3. ASSUME NEW d \in Tick, NEW s \in Row, Released(d, s, m) PROVE FALSE
    <3>1. s = r /\ Sending(d, r)
      BY <1>3, <2>3 DEF Released
    <3>2. QED
      BY <1>t, <3>1 DEF ReleaseInv, OneSender
  <2>4. ASSUME NEW w \in Worker, Retried(w, m) PROVE FALSE
    <3>1. wk[w].pc = "enqueue" /\ JobOf(w).row = r
      BY <1>t, <1>3, <2>4, RetryOfRow
    <3>2. QED
      BY <1>1, <3>1 DEF DonePc
  <2>5. QED
    BY <2>1, <2>2, <2>3, <2>4
<1>4. hist'.released[r] # 0
  BY <1>t, FreshMoved DEF FreshMoves
<1>5. \A w \in Worker : ~WritesRow(w, r) /\ ~Worked(w, r)
  BY <1>1 DEF WritesRow, Worked
<1>6. Settled(r)'
  BY <1>3 DEF Settled
<1>7. QED
  BY <1>2, <1>4, <1>5, <1>6

(* A row that a cancel may be about stays one.                             *)
LEMMA NotedStays == ASSUME CleanInv, NoFault, Next, NEW r \in Row, Noted(r) PROVE Noted(r)'
<1>n. /\ Settled(r) /\ hist.released[r] # 0 /\ row[r].status \notin {"staged", "queued", "launching"}
      /\ row[r].inst \in Inst /\ inst[row[r].inst].mid # None
  BY DEF Noted
<1>m. TypeInv /\ RowMoves /\ NamesMove
  BY RowMoved, NamesMoved DEF CleanInv
<1>1. /\ \A w \in Worker : ~WritesRow(w, r)
      /\ \A w \in Worker : ~Worked(w, r)
      /\ \A q \in Req : ~PutAnew(q, r) /\ ~Cancelled(q, r)
      /\ Settled(r)' /\ hist'.released[r] # 0
  BY <1>n, SettledRow
<1>2. row'[r].status \notin {"staged", "queued", "launching"}
  BY <1>n, <1>m, <1>1 DEF RowMoves, Swept, Resolved, Claimed, Terminal
<1>3. row'[r].inst = row[r].inst
  BY <1>m, <1>1 DEF NamesMove
<1>4. inst'[row[r].inst].mid # None
  BY <1>n, IdsStay
<1>5. QED
  BY <1>n, <1>1, <1>2, <1>3, <1>4 DEF Noted

(* The rows a cancel may be about name what was launched.                  *)
LEMMA RowsNotedKept == ASSUME CleanInv, NoFault, Next PROVE RowsNoted'
<1>t. TypeInv /\ ReleaseInv /\ ChainInv /\ NoRepeats /\ None \notin Mid /\ RowsNoted
  BY ConstantsAssumption DEF CleanInv, NoFault, TrackInv
<1>m. NamesMove /\ FreshMoves /\ RequestMoves /\ OutcomesSettled'
  BY <1>t, NamesMoved, FreshMoved, RequestMoved, OutcomesKept
<1>1. ASSUME NEW r \in Row, row'[r].status = "launched" PROVE Noted(r)'
  <2>1. CASE row[r].status = "launched"
    BY <1>t, <2>1, NotedStays DEF RowsNoted
  <2>2. CASE row[r].status # "launched"
    <3>1. PICK w \in Worker : Records(w, r)
      BY <1>m, <1>1, <2>2 DEF NamesMove
    <3>2. /\ wk[w].pc \in {"record", "adopt"} /\ JobOf(w).row = r
          /\ row'[r].inst = wk[w].inst /\ inst' = inst
      BY <3>1 DEF Records
    <3>3. wk[w].inst \in Inst /\ inst[wk[w].inst].mid # None
      BY <1>t, <3>2 DEF CleanInv, TrackInv, WorkersOnIds, LaunchedPc
    <3>4. hist.released[r] # 0
      BY <1>t, <3>2, JobInHand
    <3>5. hist'.released[r] # 0
      BY <1>m, <3>4 DEF FreshMoves
    <3>6. Settled(r)'
      BY <1>m, <1>1 DEF OutcomesSettled
    <3>7. QED
      BY <1>1, <3>2, <3>3, <3>5, <3>6 DEF Noted
  <2>3. QED
    BY <2>1, <2>2
<1>2. ASSUME NEW q \in Req, NEW r \in req'[q].live PROVE Noted(r)'
  <2>1. r \in Row /\ (r \in req[q].live \/ row[r].status = "launched")
    BY <1>m DEF RequestMoves
  <2>2. Noted(r)
    BY <1>t, <2>1 DEF RowsNoted
  <2>3. QED
    BY <2>1, <2>2, NotedStays
<1>3. QED
  BY <1>1, <1>2 DEF RowsNoted

(* A cancel is about an instance and its id.                               *)
LEMMA RequestIdsKept == ASSUME CleanInv, NoFault, Next PROVE RequestsOnIds'
<1>t. /\ TypeInv /\ None \notin Mid /\ RowsNoted /\ RequestsOnIds /\ IdsKnown
      /\ maestro \in [Mid -> MaestroState] /\ inst \in [Inst -> InstItem]
  BY ConstantsAssumption DEF CleanInv, TrackInv, TypeInv, TypeOK
<1>f. faults \in Nat
  BY ConstantsAssumption DEF CleanInv, TypeInv, TypeOK
<1> SUFFICES ASSUME NEW q \in Req, req'[q].pc \in {"maestro", "inst"}
             PROVE  /\ req'[q].inst \in Inst /\ req'[q].mid \in Mid /\ inst'[req'[q].inst].mid = req'[q].mid
                    /\ req'[q].pc = "inst" => maestro'[req'[q].mid] # "live"
  BY DEF RequestsOnIds
<1>1. CASE req[q].pc \in {"maestro", "inst"} /\ req'[q].inst = req[q].inst /\ req'[q].mid = req[q].mid
           /\ (req'[q] = req[q] \/ CancelAtMaestro(q))
  <2>1. /\ req[q].inst \in Inst /\ req[q].mid \in Mid /\ inst[req[q].inst].mid = req[q].mid
        /\ req[q].pc = "inst" => maestro[req[q].mid] # "live"
    BY <1>t, <1>1 DEF RequestsOnIds
  <2>2. inst'[req[q].inst].mid = req[q].mid /\ maestro[req[q].mid] # "none"
    BY <1>t, <2>1, IdsStay DEF IdsKnown
  <2>3. ASSUME req'[q] = req[q], req[q].pc = "inst" PROVE maestro'[req[q].mid] # "live"
    BY <2>1, <2>2, <2>3, IdsStay
  <2>4. ASSUME CancelAtMaestro(q) PROVE maestro'[req[q].mid] # "live"
    <3>1. ~Fault("cancelRejected")
      BY <1>f, <2>4 DEF NoFault, Fault
    <3>2. QED
      BY <1>t, <2>1, <2>4, <3>1 DEF CancelAtMaestro
  <2>5. QED
    BY <1>1, <2>1, <2>2, <2>3, <2>4
<1>2. ASSUME NEW r \in Row, Picked(q, r)
      PROVE  /\ req'[q].inst \in Inst /\ req'[q].mid \in Mid /\ inst'[req'[q].inst].mid = req'[q].mid
             /\ req'[q].pc # "inst"
  <2>1. Noted(r)
    BY <1>t, <1>2 DEF Picked, RowsNoted
  <2>2. row[r].inst \in Inst /\ inst[row[r].inst].mid # None
    BY <2>1 DEF Noted
  <2>3. inst[row[r].inst].mid \in Mid /\ MidOf(row[r].inst) = inst[row[r].inst].mid
    BY <1>t, <2>2 DEF InstItem, MidOf
  <2>4. QED
    BY <1>2, <2>2, <2>3 DEF Picked
<1>3. QED
  BY <1>t, <1>1, <1>2, RequestMoved DEF RequestMoves

(* What is live at Docusign stays named by a running item, until it ends.  *)
LEMMA NamedStaysNamed ==
  ASSUME CleanInv, NoFault, Next, NEW k \in Mid, maestro[k] = "live",
         NEW i \in Inst, inst[i].mid = k, inst[i].status = "running"
  PROVE  inst'[i].mid = k /\ inst'[i].status = "running"
<1>t. TypeInv /\ None \notin Mid /\ InstMoves
  BY ConstantsAssumption, InstMoved DEF CleanInv
<1>1. ~Synced(i) /\ ~OnlyTracking(i)
  BY <1>t DEF Synced, OnlyTracking, Terminal
<1>2. ASSUME NEW w \in Worker, Dropped(w, i) PROVE FALSE
  <2>1. wk[w].pc \in {"denyInst", "failInst"} /\ JobOf(w).inst = i
    BY <1>2 DEF Dropped
  <2>2. IsRetry(w)
    BY <2>1, ConstantsAssumption DEF IsRetry
  <2>3. inst[i].mid = None
    BY <2>1, <2>2, HeldBears DEF LaunchedPc
  <2>4. QED
    BY <1>t, <2>3
<1>3. ASSUME NEW w \in Worker, Undone(w, i) PROVE FALSE
  BY <1>3 DEF Undone, CleanInv, TrackInv, WorkersOnIds, LaunchedPc
<1>4. ASSUME NEW q \in Req, Stopped(q, i) PROVE FALSE
  BY <1>4 DEF Stopped, CleanInv, TrackInv, RequestsOnIds
<1>5. ASSUME NEW w \in Worker, PersistRetry(w), JobOf(w).inst = i PROVE FALSE
  BY <1>t, <1>5, HeldBears DEF PersistRetry, LaunchedPc
<1>6. ASSUME NEW w \in Worker, PersistNew(w, i) \/ TrackNew(w, i) PROVE FALSE
  BY <1>6 DEF PersistNew, TrackNew, FreshInst
<1>7. inst'[i] = inst[i]
  BY <1>t, <1>1, <1>2, <1>3, <1>4, <1>5, <1>6 DEF InstMoves
<1>8. QED
  BY <1>7

(* What is live at Docusign is named, or about to be.                      *)
LEMMA TrackedKept == ASSUME CleanInv, NoFault, Next PROVE Tracked'
<1>t. TypeInv /\ NothingDropped /\ LadderInv /\ MaestroMoves /\ Tracked /\ inst \in [Inst -> InstItem]
  BY MaestroMoved DEF CleanInv, NoFault, TrackInv, TypeInv, TypeOK
<1> SUFFICES ASSUME NEW k \in Mid, maestro'[k] = "live"
             PROVE  \/ \E i \in Inst : inst'[i].mid = k /\ inst'[i].status = "running"
                    \/ \E w \in Worker : wk'[w].pc = "persist" /\ wk'[w].mid = k
  BY DEF Tracked
<1>1. ASSUME NEW w \in Worker, Launched(w, k) PROVE wk'[w].pc = "persist" /\ wk'[w].mid = k
  BY <1>1 DEF Launched
<1>2. ASSUME maestro[k] = "live", NEW i \in Inst, inst[i].mid = k, inst[i].status = "running"
      PROVE  inst'[i].mid = k /\ inst'[i].status = "running"
  BY <1>2, NamedStaysNamed
<1>3. ASSUME NEW w \in Worker, wk[w].pc = "persist", wk[w].mid = k
      PROVE  \/ \E i \in Inst : inst'[i].mid = k /\ inst'[i].status = "running"
             \/ wk'[w].pc = "persist" /\ wk'[w].mid = k
  <2>1. CASE wk'[w] = wk[w]
    BY <1>3, <2>1
  <2>2. ASSUME NEW i \in Inst, PersistNew(w, i) PROVE inst'[i].mid = k /\ inst'[i].status = "running"
    BY <1>t, <1>3, <2>2 DEF PersistNew
  <2>3. ASSUME PersistRetry(w) PROVE \E i \in Inst : inst'[i].mid = k /\ inst'[i].status = "running"
    <3>1. JobOf(w).inst \in Inst
      BY <2>3, HeldBears DEF PersistRetry
    <3>2. inst'[JobOf(w).inst] = [status |-> "running", mid |-> k]
      BY <1>t, <1>3, <2>3, <3>1 DEF PersistRetry
    <3>3. QED
      BY <3>1, <3>2
  <2>4. CASE LauncherStep(w) \/ LauncherFault(w)
    BY <1>t, <1>3, <2>2, <2>3, <2>4, LaunchedGoesOn
  <2>5. QED
    BY <1>t, <2>1, <2>4, WorkGoesOn
<1>4. maestro[k] = "live" \/ \E w \in Worker : Launched(w, k)
  BY <1>t DEF MaestroMoves, Terminal
<1>5. QED
  BY <1>t, <1>1, <1>2, <1>3, <1>4 DEF Tracked

(* Faults are counted, so while none is none has been.                     *)
LEMMA FaultsCounted == ASSUME TypeInv, Next, faults' = 0 PROVE faults = 0 /\ NoFault
<1>t. faults \in Nat
  BY ConstantsAssumption DEF TypeInv, TypeOK
<1>f. \A f : ~Fault(f)
  BY <1>t DEF Fault
<1>1. NoFault
  BY <1>f DEF NoFault, NoRepeats, NothingDropped, ReappearEarly, TryFails, WorkerCrashes, FinalFails, UndoRejected, ReplyLost,
     CancelAtMaestro
<1>2. ASSUME Environment PROVE faults' = faults
  BY <1>f, <1>2 DEF Environment, ReleaseTimeComes, Age, Reappear, ReappearEarly, WorkflowEnds, SyncInstance, ViewRows, others
<1>3. ASSUME NEW d \in Tick, DispatcherStep(d) \/ DispatcherFault(d) PROVE faults' = faults
  BY <1>f, <1>3 DEF DispatcherStep, DispatcherFault, ScanRunning, StopRun, QueryQueuedRows, ClaimRow, SendJob,
     ClaimLost, AdvanceRelease, CheckRows, CheckInstances, CompleteRun, PromoteRun, ResolveTracking,
     QueryLaunching, SweepRow, SweepLost, SweepDone, DispatchFails, TickCrashes, TickUnchanged
<1>4. ASSUME NEW w \in Worker, LauncherStep(w) \/ LauncherFault(w) PROVE faults' = faults
  BY <1>f, <1>4 DEF LauncherStep, LauncherFault, Receive, EnqueueRetry, PersistNew, TrackNew, RetryGuard,
     DenyInstance, LaunchFailsRetryably, LaunchRejected, PersistRetry, Ack, LaunchSucceeds, ReplyLost,
     RecordRefused, ReadRun, AdoptRefused, UndoInstance, TrackAgain, UndoLaunch, UndoRejected,
     FailInstance, FailRowAgain, TryFails, FinalFails, WorkerCrashes, GateDenies, RecordLaunch, AdoptLaunch,
     ResetStreak, ReferenceTracking, FailRow, CountFailure
<1>5. ASSUME NEW q \in Req, Load(q) \/ RequestProceeds(q) PROVE faults' = faults
  BY <1>f, <1>5 DEF Load, RequestProceeds, RowRequest, OnlyReq, ReqUnchanged, PutRow, StartRun, PauseRun, ResumeRun,
     ClaimQueued, ReadRows, CancelWaitingRow, ResolveLive, PickLiveRow, NoLiveRowLeft, PickWaitingRow, CancelAtMaestro,
     PickLaunchedRow, RowRefused, CancelLocally, CancelLaunchedRow, Reread, RecheckInstances, CloseRun
<1>6. faults = 0
  BY <1>f, <1>2, <1>3, <1>4, <1>5 DEF Next
<1>7. QED
  BY <1>1, <1>6

(* "Unless an answer, a write or a cancel was lost or a job came twice,    *)
(* nothing runs unseen at Docusign": whatever passes, workers, retries,    *)
(* adoptions, undone launches and cancels do, and however many take part,  *)
(* a live Maestro instance is named by a running instance item or is in    *)
(* the hands of a worker that is to write it - provided a run is started   *)
(* by one request.                                                         *)
THEOREM LaunchesAreTracked == OneStart => (Spec => []LaunchIsTracked)
<1> SUFFICES ASSUME OneStart PROVE Spec => []LaunchIsTracked
  OBVIOUS
<1> DEFINE Clean == ChainInv /\ LadderInv /\ TrackInv
           Inv   == TypeInv /\ ReleaseInv /\ (faults = 0 => Clean)
<1>1. Init => Inv
  BY InitType, ReleaseInit, ChainInit, LadderInit, TrackInit
<1>2. Inv /\ [Next]_vars => Inv'
  <2> SUFFICES ASSUME Inv, [Next]_vars PROVE Inv'
    OBVIOUS
  <2>1. TypeInv' /\ ReleaseInv'
    BY StepType, ReleaseStep
  <2>2. ASSUME faults' = 0, Next PROVE Clean'
    <3>1. NoFault /\ NoRepeats /\ NothingDropped /\ CleanInv
      BY <2>2, FaultsCounted DEF CleanInv, NoFault
    <3>2. ChainInv' /\ LadderInv'
      BY <3>1, ChainStep, LadderStep DEF CleanInv
    <3>3. BornByOne' /\ Unlaunched' /\ IdsKnown' /\ WorkersOnIds'
      BY <2>2, <3>1, BornKept, UnlaunchedKept, IdsKept, OnIdsKept
    <3>4. RowsNoted' /\ RequestsOnIds' /\ Tracked'
      BY <2>2, <3>1, RowsNotedKept, RequestIdsKept, TrackedKept
    <3>5. QED
      BY <3>2, <3>3, <3>4 DEF TrackInv
  <2>3. ASSUME faults' = 0, UNCHANGED vars PROVE Clean'
    <3>1. faults = 0
      BY <2>3 DEF vars
    <3>2. ChainInv' /\ LadderInv'
      BY <2>3, <3>1, ChainStep, LadderStep
    <3>3. TrackInv'
      BY <2>3, <3>1 DEF vars, TrackInv, BornByOne, Unlaunched, IdsKnown, WorkersOnIds, RowsNoted, RequestsOnIds, Tracked,
         Bears, Begins, Going, Noted, Settled, DoneWith, Pending, LettingGo, Exists, OnlyTracking, IsRetry, JobOf
    <3>4. QED
      BY <3>2, <3>3
  <2>4. QED
    BY <2>1, <2>2, <2>3
<1>3. Inv => LaunchIsTracked
  BY DEF TrackInv, Tracked, LaunchIsTracked, InHand
<1>4. QED
  BY <1>1, <1>2, <1>3, PTL DEF Spec

----------------------------------------------------------------------------
(* No launch takes so long that the sweep gives its row up, and no part of *)
(* one is lost or done twice: then nothing is adopted late.                *)
LaunchesLand ==
  /\ ~CanAge
  /\ {"lostReply", "cancelRejected", "reappear", "tryError", "workerCrash", "finalError"} \cap FaultKind = {}

(* ClosedRunIsQuiet is not inductive alone.  A row is being launched from  *)
(* its claim until its job is done with it; no two rows name one instance, *)
(* and a running one is named by a launched row or is about to be; a       *)
(* cancel goes on from the instance of its row to the row; and whoever is  *)
(* about to close the run has seen that no launched row has a live one.    *)
NoneStale == \A r \in Row : ~row[r].stale
WrittenPc == {"denyInst", "reset", "stats", "ack", "count"}
Written(m) == \E w \in Worker : wk[w].pc \in WrittenPc /\ wk[w].msg = m
UnwrittenLaunch == \A m \in Msg : Pending(m) /\ ~Written(m) => row[msg[m].job.row].status = "launching"
SendersLaunch   == \A d \in Tick, r \in Row : Sending(d, r) => row[r].status = "launching"
AdoptPc == {"readRun", "adopt", "undo", "undoInst"}
NoneAdopts == \A w \in Worker : wk[w].pc \notin AdoptPc
JobsLaunch == NoneStale /\ UnwrittenLaunch /\ SendersLaunch /\ NoneAdopts

Recording(w, i) == wk[w].pc = "record" /\ wk[w].inst = i
Names(r, i)     == row[r].status = "launched" /\ row[r].inst = i
NamesDiffer ==
  \A i \in Inst :
    /\ \A r, s \in Row : Names(r, i) /\ Names(s, i) => r = s
    /\ \A w \in Worker : Recording(w, i) =>
         (\A r \in Row : ~Names(r, i)) /\ \A v \in Worker : Recording(v, i) => v = w
RunningIsNamed ==
  \A i \in Inst : inst[i].status = "running" /\ inst[i].mid # None =>
    (\E r \in Row : Names(r, i)) \/ \E w \in Worker : Recording(w, i)
CancelsInOrder ==
  \A q \in Req : req[q].pc \in {"maestro", "inst", "row"} =>
    /\ \A r \in req[q].todo : Noted(r) /\ row[r].inst = req[q].inst
    /\ req[q].pc = "row" => /\ req[q].inst \in Inst /\ inst[req[q].inst].mid # None
                            /\ inst[req[q].inst].status = "cancelled"
NamesInv == NamesDiffer /\ RunningIsNamed /\ CancelsInOrder

(* A step under which launches land is one without a fault of the          *)
(* launcher or a rejected cancel, and makes no row stale.                  *)
LEMMA LandsClean == ASSUME LaunchesLand PROVE NoFault /\ NothingDropped /\ NoRepeats /\ \A r \in Row : ~Age(r)
  BY DEF LaunchesLand, NoFault, NoRepeats, NothingDropped, ReappearEarly, TryFails, WorkerCrashes, FinalFails,
         UndoRejected, ReplyLost, CancelAtMaestro, Fault, Age

(* Nobody but the clock makes a row stale.                                 *)
LEMMA FreshStays == ASSUME TypeInv, LaunchesLand, NoneStale, Next PROVE NoneStale'
<1> USE DEF NoneStale
<1>t. /\ TypeOK /\ row \in [Row -> RowItem] /\ \A r \in Row : ~Age(r)
  BY LandsClean DEF TypeInv, TypeOK
<1>1. CASE row' = row
  BY <1>1
<1>2. ASSUME NEW R, ResolveRows(R) PROVE NoneStale'
  BY <1>t, <1>2 DEF ResolveRows, RowItem
<1>3. ASSUME NEW r \in Row, NEW v, v.stale = FALSE, row' = [row EXCEPT ![r] = v] PROVE NoneStale'
  BY <1>t, <1>3
<1>4. CASE Environment
  BY <1>t, <1>1, <1>2, <1>4 DEF Environment, ReleaseTimeComes, Reappear, ReappearEarly, WorkflowEnds, SyncInstance, ViewRows
<1>5. ASSUME NEW d \in Tick, DispatcherStep(d) \/ DispatcherFault(d) PROVE NoneStale'
  <2>0. tick[d].todo \subseteq Row
    BY <1>t DEF TypeOK, TickState
  <2>1. CASE ClaimRow(d)
    BY <1>t, <1>3, <2>0, <2>1 DEF ClaimRow, RowItem
  <2>2. CASE SweepRow(d)
    BY <2>0, <2>2 DEF SweepRow, StaleRow
  <2>3. QED
    BY <1>1, <1>2, <1>5, <2>1, <2>2 DEF DispatcherStep, DispatcherFault, ScanRunning, StopRun, QueryQueuedRows,
       ClaimLost, SendJob, AdvanceRelease, CheckRows, CheckInstances, CompleteRun, PromoteRun,
       QueryLaunching, SweepLost, ResolveTracking, SweepDone, DispatchFails, TickCrashes
<1>6. ASSUME NEW w \in Worker, LauncherStep(w) \/ LauncherFault(w) PROVE NoneStale'
  <2>1. CASE GateDenies(w)
    BY <1>t, <2>1 DEF GateDenies, SetRow, RowItem
  <2>2. CASE RecordLaunch(w) \/ AdoptLaunch(w)
    BY <1>t, <2>2 DEF RecordLaunch, AdoptLaunch, RecordOn, RowItem
  <2>3. CASE FailRow(w)
    BY <1>t, <2>3 DEF FailRow, FailedRow, RowItem
  <2>4. CASE ReferenceTracking(w)
    BY <1>t, <2>4 DEF ReferenceTracking, RowItem
  <2>5. QED
    BY <1>1, <1>6, <2>1, <2>2, <2>3, <2>4 DEF LauncherStep, LauncherFault,
       Receive, EnqueueRetry, LaunchSucceeds, PersistNew, TrackNew, RetryGuard,
       DenyInstance, LaunchFailsRetryably, LaunchRejected, PersistRetry,
       RecordRefused, ReadRun, AdoptRefused, UndoLaunch, UndoInstance, TrackAgain,
       FailInstance, FailRowAgain, Ack, ReplyLost, UndoRejected, TryFails,
       FinalFails, WorkerCrashes, ResetStreak, CountFailure
<1>7. ASSUME NEW q \in Req, Load(q) \/ RequestProceeds(q) PROVE NoneStale'
  <2>0. req[q].todo \subseteq Row
    BY <1>t DEF TypeOK, ReqState
  <2>1. CASE PutRow(q)
    BY <1>t, <1>3, <2>0, <2>1 DEF PutRow
  <2>2. CASE CancelWaitingRow(q)
    BY <1>t, <2>2 DEF CancelWaitingRow, RowItem
  <2>3. CASE CancelLaunchedRow(q)
    BY <1>t, <2>3 DEF CancelLaunchedRow, RowItem
  <2>4. QED
    BY <1>1, <1>2, <1>7, <2>1, <2>2, <2>3 DEF Load, RequestProceeds, StartRun, PauseRun, ResumeRun, ClaimQueued, OnlyReq,
       ReadRows, ResolveLive, RecheckInstances, PickLiveRow, NoLiveRowLeft, RowRequest, PickWaitingRow, PickLaunchedRow,
       RowRefused, CancelAtMaestro, CancelLocally, Reread, CloseRun
<1>8. QED
  BY <1>4, <1>5, <1>6, <1>7 DEF Next

(* A job that has been written to its row stays so.                        *)
LEMMA WrittenStays ==
  ASSUME CleanInv, NoFault, Next, NEW m \in Msg, Pending(m)', Written(m) PROVE Written(m)'
<1>n. NoRepeats /\ NothingDropped /\ TypeInv /\ LadderInv
  BY DEF NoFault, CleanInv
<1>1. PICK w \in Worker : wk[w].pc \in WrittenPc /\ wk[w].msg = m
  BY DEF Written
<1>2. CASE DoneWith(m)
  BY <1>n, <1>2, DoneStays DEF DoneWith, Written, DonePc, WrittenPc
<1>3. CASE wk[w].pc = "count"
  <2>1. CASE wk'[w] = wk[w]
    BY <1>1, <2>1 DEF Written
  <2>2. CASE LauncherStep(w) \/ LauncherFault(w)
    <3>0. ~TryFails(w) /\ ~WorkerCrashes(w) /\ ~FinalFails(w)
      BY <1>n DEF NoRepeats, NothingDropped
    <3>1. CountFailure(w)
      BY <1>3, <2>2, <3>0 DEF LauncherStep, LauncherFault, Step, Receive, EnqueueRetry, LaunchSucceeds, PersistNew,
       TrackNew, RetryGuard, DenyInstance, LaunchFailsRetryably, LaunchRejected, PersistRetry,
       RecordRefused, ReadRun, AdoptRefused, UndoLaunch, UndoInstance, TrackAgain,
       FailInstance, FailRow, FailRowAgain, Ack, ReplyLost, UndoRejected, ResetStreak, GateDenies, RecordLaunch,
       AdoptLaunch, ReferenceTracking
    <3>2. wk'[w].pc = "ack" /\ wk'[w].msg = m
      BY <1>n, <1>1, <3>1 DEF CountFailure, Step, SetWorker, TypeInv, TypeOK, WorkerState
    <3>3. QED
      BY <3>2 DEF Written, WrittenPc
  <2>3. QED
    BY <1>n, <2>1, <2>2, WorkGoesOn
<1>4. QED
  BY <1>1, <1>2, <1>3 DEF DoneWith, DonePc, WrittenPc

(* A row ceases to be launched only when its job is done with it.          *)
LEMMA LaunchingLeft ==
  ASSUME CleanInv, NoFault, NoneStale, Next, NEW r \in Row, ~Fresh(r),
         row[r].status = "launching", row'[r].status # "launching"
  PROVE  \E w \in Worker : /\ wk[w].pc \notin DonePc \cup {"idle"} /\ JobOf(w).row = r
                           /\ wk'[w].pc \in WrittenPc /\ wk'[w].msg = wk[w].msg
<1>1. RowMoves
  BY RowMoved DEF CleanInv
<1>2. \A q \in Req : ~PutAnew(q, r) /\ ~Cancelled(q, r)
  BY WriterKnows DEF CleanInv
<1>3. QED
  BY <1>1, <1>2 DEF RowMoves, Swept, Resolved, Claimed, NoneStale, Worked, DonePc, WrittenPc

(* A row is being launched from its claim until its job is done with it.   *)
LEMMA UnwrittenKept ==
  ASSUME CleanInv, NoFault, JobsLaunch, Next PROVE UnwrittenLaunch'
<1>t. TypeInv /\ ReleaseInv /\ ChainInv /\ NoRepeats
  BY DEF CleanInv, NoFault
<1>j. NoneStale /\ UnwrittenLaunch /\ SendersLaunch
  BY DEF JobsLaunch
<1> SUFFICES ASSUME NEW m \in Msg, Pending(m)', ~Written(m)' PROVE row'[msg'[m].job.row].status = "launching"
  BY DEF UnwrittenLaunch
<1>1. \/ Pending(m) /\ msg'[m].job = msg[m].job
      \/ \E d \in Tick, s \in Row : Released(d, s, m)
      \/ \E w \in Worker : Retried(w, m)
  BY <1>t, PendingSource
<1>2. CASE Pending(m) /\ msg'[m].job = msg[m].job
  <2> DEFINE r == msg[m].job.row
  <2>1. ~Written(m)
    BY <1>t, WrittenStays
  <2>2. row[r].status = "launching" /\ r \in Row
    BY <1>t, <1>j, <1>2, <2>1 DEF UnwrittenLaunch, TypeInv, TypeOK, Message, Job
  <2>3. ~Fresh(r) /\ msg[m].state # "none"
    BY <1>t, <1>2, <2>2, SentIsNotFresh DEF Pending
  <2>4. ASSUME row'[r].status # "launching" PROVE FALSE
    <3>1. PICK w \in Worker : /\ wk[w].pc \notin DonePc \cup {"idle"} /\ JobOf(w).row = r
                              /\ wk'[w].pc \in WrittenPc /\ wk'[w].msg = wk[w].msg
      BY <1>j, <2>2, <2>3, <2>4, LaunchingLeft
    <3>2. /\ wk[w].msg \in Msg /\ Pending(wk[w].msg) /\ ~LettingGo(wk[w].msg) /\ msg[wk[w].msg].job.row = r
      BY <1>t, <3>1, JobInHand DEF DonePc
    <3>3. ~LettingGo(m)
      BY <2>1 DEF LettingGo, Written, WrittenPc
    <3>4. m = wk[w].msg
      BY <1>t, <1>2, <3>2, <3>3 DEF ChainInv, OneLadder
    <3>5. QED
      BY <3>1, <3>4 DEF Written
  <2>5. QED
    BY <1>2, <2>4
<1>3. ASSUME NEW d \in Tick, NEW s \in Row, Released(d, s, m) PROVE row'[msg'[m].job.row].status = "launching"
  BY <1>j, <1>3 DEF Released, SendersLaunch
<1>4. ASSUME NEW w \in Worker, Retried(w, m) PROVE row'[msg'[m].job.row].status = "launching"
  <2>1. wk[w].pc = "enqueue" /\ msg'[m].job.row = JobOf(w).row
    BY <1>t, <1>4, RetryOfRow
  <2>2. /\ wk[w].msg \in Msg /\ Pending(wk[w].msg) /\ JobOf(w) = msg[wk[w].msg].job
    BY <1>t, <2>1, JobInHand
  <2>3. ~Written(wk[w].msg)
    BY <1>t, <2>1 DEF ChainInv, HeldOnce, Written, WrittenPc
  <2>4. row' = row
    BY <1>4 DEF Retried, EnqueueRetry
  <2>5. QED
    BY <1>j, <2>1, <2>2, <2>3, <2>4 DEF UnwrittenLaunch
<1>5. QED
  BY <1>1, <1>2, <1>3, <1>4

(* So is a row whose job is being sent.                                    *)
LEMMA SendersLaunchKept == ASSUME CleanInv, NoFault, JobsLaunch, Next PROVE SendersLaunch'
<1>t. TypeInv /\ ReleaseInv /\ ChainInv /\ RowMoves /\ FreshMoves
  BY RowMoved, FreshMoved DEF CleanInv
<1> SUFFICES ASSUME NEW d \in Tick, NEW r \in Row, Sending(d, r)', row'[r].status # "launching" PROVE FALSE
  BY DEF SendersLaunch
<1>1. Sending(d, r)
  BY <1>t DEF FreshMoves
<1>2. row[r].status = "launching" /\ ~row[r].stale /\ ~Fresh(r)
  BY <1>1 DEF JobsLaunch, SendersLaunch, NoneStale, Fresh
<1>3. \A w \in Worker : ~Worked(w, r)
  BY <1>t, <1>1, WriterKnows
<1>4. \A q \in Req : ~PutAnew(q, r) /\ ~Cancelled(q, r)
  BY <1>t, <1>2, WriterKnows
<1>5. QED
  BY <1>t, <1>2, <1>3, <1>4 DEF RowMoves, Swept, Resolved, Claimed

(* A worker at a row's job finds the row being launched.                   *)
LEMMA AtLaunching ==
  ASSUME CleanInv, JobsLaunch, NEW w \in Worker, wk[w].pc \notin WrittenPc \cup {"idle"}
  PROVE  JobOf(w).row \in Row /\ row[JobOf(w).row].status = "launching"
<1>1. /\ wk[w].msg \in Msg /\ Pending(wk[w].msg) /\ JobOf(w) = msg[wk[w].msg].job /\ JobOf(w) \in Job
  BY JobInHand DEF CleanInv
<1>2. ~Written(wk[w].msg)
  BY DEF CleanInv, ChainInv, HeldOnce, Written, WrittenPc
<1>3. QED
  BY <1>1, <1>2 DEF JobsLaunch, UnwrittenLaunch, Job

(* So no launch is refused by its row, and none adopted.                   *)
LEMMA NoneAdoptsKept == ASSUME CleanInv, NoFault, JobsLaunch, Next PROVE NoneAdopts'
<1>t. TypeInv /\ wk \in [Worker -> WorkerState] /\ NoRepeats /\ NothingDropped /\ LadderInv
  BY DEF CleanInv, TypeInv, TypeOK, NoFault
<1> SUFFICES ASSUME NEW w \in Worker, wk'[w].pc \in AdoptPc PROVE FALSE
  BY DEF NoneAdopts
<1>1. wk[w].pc \notin AdoptPc
  BY DEF JobsLaunch, NoneAdopts
<1>2. LauncherStep(w) \/ LauncherFault(w)
  BY <1>t, <1>1, WorkGoesOn
<1>3. wk[w].pc \in LaunchedPc /\ wk[w].pc \notin AdoptPc
  BY <1>t, <1>1, <1>2, LauncherPath DEF LaunchedPc, AdoptPc
<1>4. CASE wk[w].pc = "record"
  <2>1. row[JobOf(w).row].status = "launching"
    BY <1>4, AtLaunching DEF WrittenPc
  <2>2. RecordLaunch(w)
    BY <1>t, <1>2, <1>4, <2>1 DEF NoFault, NoRepeats, NothingDropped, LauncherStep, LauncherFault, Step, Receive,
       EnqueueRetry, LaunchSucceeds, PersistNew,
       TrackNew, RetryGuard, DenyInstance, LaunchFailsRetryably, LaunchRejected, PersistRetry,
       RecordRefused, ReadRun, AdoptRefused, UndoLaunch, UndoInstance, TrackAgain,
       FailInstance, FailRow, FailRowAgain, Ack, ReplyLost, UndoRejected, ResetStreak, GateDenies, CountFailure,
       AdoptLaunch, ReferenceTracking
  <2>3. wk'[w].pc = "reset"
    BY <1>t, <2>2 DEF RecordLaunch, Step, SetWorker, WorkerState
  <2>4. QED
    BY <2>3 DEF AdoptPc
<1>5. CASE wk[w].pc \in {"reset", "stats"}
  <2>1. WorkMoves
    BY <1>t, WorkMoved
  <2>2. QED
    BY <1>1, <1>5, <2>1 DEF WorkMoves, Takes, LetsGo, GoesOn, DonePc, AdoptPc
<1>6. QED
  BY <1>3, <1>4, <1>5 DEF LaunchedPc, AdoptPc

(* The launch of an instance item that names a Maestro instance.           *)
Persisted(w, i) ==
  /\ wk[w].pc = "persist" /\ row' = row
  /\ \A v \in Worker : v # w => wk'[v] = wk[v]
  /\ inst[i].mid = None

(* A launch is about to be recorded because it was, or was just persisted. *)
LEMMA RecordingMoved ==
  ASSUME CleanInv, NoFault, Next, NEW i \in Inst, NEW w \in Worker, Recording(w, i)'
  PROVE  Recording(w, i) \/ Persisted(w, i)
<1>t. TypeInv /\ NothingDropped /\ LadderInv /\ IdsKnown /\ wk \in [Worker -> WorkerState]
  BY DEF CleanInv, NoFault, TrackInv, TypeInv, TypeOK
<1>1. wk'[w] = wk[w] \/ LauncherStep(w) \/ LauncherFault(w)
  BY <1>t, WorkGoesOn
<1>2. CASE wk'[w] = wk[w]
  BY <1>2 DEF Recording
<1>3. CASE LauncherStep(w) \/ LauncherFault(w)
  <2>1. /\ \A v \in Worker : v # w => wk'[v] = wk[v]
        /\ PersistRetry(w) \/ \E j \in Inst : PersistNew(w, j)
    BY <1>t, <1>3, LauncherPath DEF Recording
  <2>2. CASE PersistRetry(w)
    <3>1. wk[w].pc = "persist" /\ IsRetry(w) /\ row' = row /\ wk'[w].inst = JobOf(w).inst
      BY <1>t, <2>2 DEF PersistRetry, SetWorker, WorkerState
    <3>2. inst[JobOf(w).inst].mid = None
      BY <3>1, HeldBears DEF LaunchedPc
    <3>3. QED
      BY <2>1, <3>1, <3>2 DEF Persisted, Recording
  <2>3. ASSUME NEW j \in Inst, PersistNew(w, j) PROVE Persisted(w, i)
    <3>1. wk[w].pc = "persist" /\ row' = row /\ wk'[w].inst = j /\ ~Exists(j)
      BY <1>t, <2>3 DEF PersistNew, SetWorker, WorkerState, FreshInst, Exists
    <3>2. QED
      BY <1>t, <2>1, <3>1 DEF Persisted, Recording, IdsKnown
  <2>4. QED
    BY <2>1, <2>2, <2>3
<1>4. QED
  BY <1>1, <1>2, <1>3

(* A launched row keeps its instance; a row comes to name one by the       *)
(* record of its launch.                                                   *)
RecordedBy(w, r, i) == Recording(w, i) /\ JobOf(w).row = r /\ ~Recording(w, i)'
(* An instance comes to be named by a row only by the record of its        *)
(* launch.                                                                 *)
LEMMA NamedMoved ==
  ASSUME CleanInv, NoFault, NoneAdopts, Next, NEW i \in Inst, NEW r \in Row, Names(r, i)'
  PROVE  Names(r, i) \/ \E w \in Worker : RecordedBy(w, r, i)
<1>t. TypeInv /\ RowsNoted
  BY DEF CleanInv, TrackInv
<1>m. NamesMove
  BY <1>t, NamesMoved
<1>1. CASE row[r].status = "launched"
  <2>1. Noted(r)
    BY <1>t, <1>1 DEF RowsNoted
  <2>2. /\ \A w \in Worker : ~WritesRow(w, r)
        /\ \A q \in Req : ~PutAnew(q, r)
    BY <2>1, SettledRow DEF Noted
  <2>3. row'[r].inst = row[r].inst
    BY <1>m, <2>2 DEF NamesMove
  <2>4. QED
    BY <1>1, <2>3 DEF Names
<1>2. ASSUME NEW w \in Worker, Records(w, r) PROVE RecordedBy(w, r, i)
  BY <1>2 DEF Records, RecordedBy, Recording, Names, NoneAdopts, AdoptPc
<1>3. QED
  BY <1>m, <1>1, <1>2 DEF NamesMove, Names

(* No two rows come to name one instance.                                  *)
LEMMA NamesDifferKept == ASSUME CleanInv, NoFault, NoneAdopts, NamesDiffer, Next PROVE NamesDiffer'
<1>t. RowsNoted /\ WorkersOnIds /\ None \notin Mid
  BY ConstantsAssumption DEF CleanInv, TrackInv
<1> SUFFICES ASSUME NEW i \in Inst
             PROVE  /\ \A r, s \in Row : Names(r, i)' /\ Names(s, i)' => r = s
                    /\ \A w \in Worker : Recording(w, i)' =>
                         (\A r \in Row : ~Names(r, i)') /\ \A v \in Worker : Recording(v, i)' => v = w
  BY DEF NamesDiffer
<1>d. /\ \A r, s \in Row : Names(r, i) /\ Names(s, i) => r = s
      /\ \A w \in Worker, r \in Row : Recording(w, i) => ~Names(r, i)
      /\ \A v, w \in Worker : Recording(w, i) /\ Recording(v, i) => v = w
  BY DEF NamesDiffer
<1>1. ASSUME NEW r \in Row, NEW s \in Row, Names(r, i)', Names(s, i)' PROVE r = s
  <2>1. Names(r, i) \/ \E w \in Worker : RecordedBy(w, r, i)
    BY <1>1, NamedMoved
  <2>2. Names(s, i) \/ \E w \in Worker : RecordedBy(w, s, i)
    BY <1>1, NamedMoved
  <2>3. QED
    BY <1>d, <2>1, <2>2 DEF RecordedBy
<1>2. ASSUME NEW w \in Worker, Recording(w, i)', NEW r \in Row, Names(r, i)' PROVE FALSE
  <2>1. Names(r, i) \/ \E v \in Worker : RecordedBy(v, r, i)
    BY <1>2, NamedMoved
  <2>2. Recording(w, i) \/ Persisted(w, i)
    BY <1>2, RecordingMoved
  <2>3. CASE Recording(w, i)
    BY <1>2, <1>d, <2>1, <2>3 DEF RecordedBy
  <2>4. CASE Persisted(w, i)
    <3>1. Names(r, i)
      BY <1>2, <2>4 DEF Names, Persisted
    <3>2. inst[i].mid # None
      BY <1>t, <3>1 DEF Names, RowsNoted, Noted
    <3>3. QED
      BY <2>4, <3>2 DEF Persisted
  <2>5. QED
    BY <2>2, <2>3, <2>4
<1>3. ASSUME NEW w \in Worker, Recording(w, i)', NEW v \in Worker, Recording(v, i)' PROVE v = w
  <2>1. /\ Recording(w, i) \/ Persisted(w, i)
        /\ Recording(v, i) \/ Persisted(v, i)
    BY <1>3, RecordingMoved
  <2>2. ASSUME NEW x \in Worker, Recording(x, i) PROVE inst[i].mid # None
    BY <1>t, <2>2 DEF Recording, WorkersOnIds, LaunchedPc
  <2>3. CASE Persisted(w, i) /\ Persisted(v, i)
    BY <1>3, <2>3 DEF Persisted, Recording
  <2>4. QED
    BY <1>d, <2>1, <2>2, <2>3 DEF Persisted
<1>4. QED
  BY <1>1, <1>2, <1>3

(* A launched row whose instance runs stays launched.                      *)
LEMMA RunningRowStays ==
  ASSUME CleanInv, NoFault, CancelsInOrder, Next, NEW r \in Row, row[r].status = "launched",
         inst[row[r].inst].status = "running"
  PROVE  row'[r].status = "launched" /\ row'[r].inst = row[r].inst
<1>1. TypeInv /\ Noted(r)
  BY DEF CleanInv, TrackInv, RowsNoted
<1>m. RowMoves /\ NamesMove
  BY <1>1, RowMoved, NamesMoved
<1>2. /\ \A w \in Worker : ~WritesRow(w, r)
      /\ \A w \in Worker : ~Worked(w, r)
      /\ \A q \in Req : ~PutAnew(q, r) /\ ~Cancelled(q, r)
  BY <1>1, SettledRow DEF Noted
<1>3. row'[r].inst = row[r].inst
  BY <1>2, <1>m DEF NamesMove
<1>4. ~Resolved(r)
  BY DEF Resolved, InstanceEnded, Terminal, CancelsInOrder
<1>5. row'[r].status = "launched"
  BY <1>m, <1>2, <1>4 DEF RowMoves, Swept, Claimed
<1>6. QED
  BY <1>3, <1>5

(* A launched workflow keeps the row that names it.                        *)
LEMMA RunningNamedKept ==
  ASSUME CleanInv, NoFault, JobsLaunch, CancelsInOrder, RunningIsNamed, Next PROVE RunningIsNamed'
<1>t. TypeInv /\ NothingDropped /\ LadderInv /\ wk \in [Worker -> WorkerState] /\ row \in [Row -> RowItem]
  BY DEF CleanInv, NoFault, TypeInv, TypeOK
<1>m. InstMoves
  BY <1>t, InstMoved
<1> SUFFICES ASSUME NEW i \in Inst, inst'[i].status = "running", inst'[i].mid # None
             PROVE  (\E r \in Row : Names(r, i)') \/ \E w \in Worker : Recording(w, i)'
  BY DEF RunningIsNamed
<1>1. CASE inst'[i] = inst[i]
  <2>1. ASSUME NEW r \in Row, Names(r, i) PROVE Names(r, i)'
    BY <1>1, <2>1, RunningRowStays DEF Names
  <2>2. ASSUME NEW w \in Worker, Recording(w, i) PROVE Recording(w, i)' \/ \E r \in Row : Names(r, i)'
    <3>1. CASE wk'[w] = wk[w]
      BY <2>2, <3>1 DEF Recording
    <3>2. CASE LauncherStep(w) \/ LauncherFault(w)
      <4>1. JobOf(w).row \in Row /\ row[JobOf(w).row].status = "launching"
        BY <2>2, AtLaunching DEF Recording, WrittenPc
      <4>2. ~TryFails(w) /\ ~WorkerCrashes(w) /\ ~FinalFails(w) /\ wk[w].pc = "record"
        BY <2>2 DEF NoFault, NoRepeats, NothingDropped, Recording
      <4>3. RecordLaunch(w)
        BY <3>2, <4>1, <4>2 DEF LauncherStep, LauncherFault, Step, Receive,
           EnqueueRetry, LaunchSucceeds, PersistNew,
           TrackNew, RetryGuard, DenyInstance, LaunchFailsRetryably, LaunchRejected, PersistRetry,
           RecordRefused, ReadRun, AdoptRefused, UndoLaunch, UndoInstance, TrackAgain,
           FailInstance, FailRow, FailRowAgain, Ack, ReplyLost, UndoRejected, ResetStreak, GateDenies, CountFailure,
           AdoptLaunch, ReferenceTracking
      <4>4. row'[JobOf(w).row].status = "launched" /\ row'[JobOf(w).row].inst = wk[w].inst
        BY <1>t, <4>1, <4>3 DEF RecordLaunch, RecordOn, RowItem
      <4>5. QED
        BY <2>2, <4>1, <4>4 DEF Names, Recording
    <3>3. QED
      BY <1>t, <3>1, <3>2, WorkGoesOn
  <2>3. QED
    BY <1>1, <2>1, <2>2 DEF RunningIsNamed
<1>2. ASSUME NEW w \in Worker, PersistNew(w, i) \/ (PersistRetry(w) /\ JobOf(w).inst = i) PROVE Recording(w, i)'
  BY <1>t, <1>2 DEF PersistNew, PersistRetry, SetWorker, WorkerState, Recording
<1>3. QED
  BY <1>m, <1>1, <1>2 DEF InstMoves, Terminal

(* An instance that was launched and cancelled stays cancelled.            *)
LEMMA CancelledStays ==
  ASSUME CleanInv, NoFault, Next, NEW i \in Inst, inst[i].mid # None, inst[i].status = "cancelled"
  PROVE  inst'[i].status = "cancelled"
<1>1. TypeInv
  BY DEF CleanInv
<1>2. InstMoves
  BY <1>1, InstMoved
<1>3. ASSUME NEW w \in Worker PROVE ~Dropped(w, i) /\ ~PersistNew(w, i) /\ ~TrackNew(w, i)
                                    /\ ~(PersistRetry(w) /\ JobOf(w).inst = i)
  <2>1. ~PersistNew(w, i) /\ ~TrackNew(w, i)
    BY DEF PersistNew, TrackNew, FreshInst
  <2>2. ASSUME wk[w].pc \in {"denyInst", "failInst", "persist"}, JobOf(w).inst = i PROVE FALSE
    <3>1. IsRetry(w)
      BY <2>2, ConstantsAssumption DEF IsRetry
    <3>2. QED
      BY <2>2, <3>1, HeldBears DEF LaunchedPc
  <2>3. QED
    BY <2>1, <2>2 DEF Dropped, PersistRetry
<1>4. ~Synced(i) /\ ~OnlyTracking(i)
  BY DEF Synced, OnlyTracking
<1>5. QED
  BY <1>2, <1>3, <1>4 DEF InstMoves

(* A cancel goes on in order.                                              *)
LEMMA CancelsKept == ASSUME CleanInv, NoFault, CancelsInOrder, Next PROVE CancelsInOrder'
<1>t. /\ TypeInv /\ RowsNoted /\ RequestsOnIds /\ None \notin Mid
      /\ inst \in [Inst -> InstItem] /\ \A q \in Req : req[q].todo \subseteq Row /\ req[q].live \subseteq Row
  BY ConstantsAssumption DEF CleanInv, TrackInv, TypeInv, TypeOK, ReqState
<1>m. RequestMoves /\ NamesMove
  BY <1>t, RequestMoved, NamesMoved
<1>s. ASSUME NEW r \in Row, Noted(r) PROVE Noted(r)' /\ row'[r].inst = row[r].inst
  <2>1. /\ \A w \in Worker : ~WritesRow(w, r)
        /\ \A q \in Req : ~PutAnew(q, r)
    BY <1>s, SettledRow DEF Noted
  <2>2. QED
    BY <1>s, <1>m, <2>1, NotedStays DEF NamesMove
<1> SUFFICES ASSUME NEW q \in Req, req'[q].pc \in {"maestro", "inst", "row"}
             PROVE  /\ \A r \in req'[q].todo : Noted(r)' /\ row'[r].inst = req'[q].inst
                    /\ req'[q].pc = "row" => /\ req'[q].inst \in Inst /\ inst'[req'[q].inst].mid # None
                                             /\ inst'[req'[q].inst].status = "cancelled"
  BY DEF CancelsInOrder
<1>1. CASE req'[q] = req[q]
  <2>1. \A r \in req[q].todo : Noted(r) /\ row[r].inst = req[q].inst
    BY <1>1 DEF CancelsInOrder
  <2>2. req[q].pc = "row" => /\ req[q].inst \in Inst /\ inst[req[q].inst].mid # None
                             /\ inst[req[q].inst].status = "cancelled"
    BY <1>1 DEF CancelsInOrder
  <2>3. req[q].pc = "row" => /\ req[q].inst \in Inst /\ inst'[req[q].inst].mid # None
                             /\ inst'[req[q].inst].status = "cancelled"
    BY <2>2, CancelledStays, IdsStay
  <2>4. QED
    BY <1>1, <1>t, <1>s, <2>1, <2>3
<1>2. CASE /\ CancelAtMaestro(q) /\ req[q].pc = "maestro" /\ req'[q].pc = "inst"
           /\ req'[q].inst = req[q].inst /\ req'[q].todo = req[q].todo
  <2>1. \A r \in req[q].todo : Noted(r) /\ row[r].inst = req[q].inst
    BY <1>2 DEF CancelsInOrder
  <2>2. QED
    BY <1>2, <1>t, <1>s, <2>1
<1>3. ASSUME NEW r \in Row, Picked(q, r)
      PROVE  /\ req'[q].todo = {r} /\ Noted(r)' /\ row'[r].inst = req'[q].inst /\ req'[q].pc # "row"
  BY <1>3, <1>t, <1>s DEF Picked, RowsNoted
<1>4. CASE CancelLocally(q) /\ req[q].pc = "inst" /\ req'[q].inst = req[q].inst /\ req'[q].todo = req[q].todo
  <2>1. /\ \A r \in req[q].todo : Noted(r) /\ row[r].inst = req[q].inst
        /\ req[q].inst \in Inst /\ inst[req[q].inst].mid # None
    BY <1>4, <1>t DEF CancelsInOrder, RequestsOnIds
  <2>2. inst'[req[q].inst].status = "cancelled" /\ inst'[req[q].inst].mid # None
    BY <1>4, <1>t, <2>1 DEF CancelLocally, SetInst, InstItem
  <2>3. QED
    BY <1>4, <1>t, <1>s, <2>1, <2>2
<1>5. QED
  BY <1>m, <1>1, <1>2, <1>3, <1>4 DEF RequestMoves

(* No launched row has a live instance; and what a pass or a cancel that   *)
(* is about to close the run has seen of that.                             *)
AllQuiet == \A r \in Row : row[r].status = "launched" => ~LiveRow(r)
LaunchedIn(R) == \A r \in Row : row[r].status = "launched" => r \in R
QuietAhead ==
  /\ \A d \in Tick : /\ tick[d].pc = "checkInst" => LaunchedIn(tick[d].todo)
                     /\ tick[d].pc = "complete" => AllQuiet
  /\ \A q \in Req : /\ req[q].pc = "recheckInst" /\ req[q].todo = {} => LaunchedIn(req[q].live)
                    /\ req[q].pc = "close" => AllQuiet
  /\ Closed => AllQuiet
  /\ run.status \in {"draft", "queued"} => LaunchedIn({})
NoneLaunching == \A r \in Row : row[r].status # "launching"

(* A row is launched only from being launching.                            *)
LEMMA LaunchedBefore ==
  ASSUME CleanInv, JobsLaunch, NoneLaunching, Next, NEW r \in Row, row'[r].status = "launched"
  PROVE  row[r].status = "launched"
<1>1. NamesMove
  BY NamesMoved DEF CleanInv
<1>2. ASSUME NEW w \in Worker, Records(w, r) PROVE FALSE
  <2>1. wk[w].pc = "record" /\ JobOf(w).row = r
    BY <1>2 DEF Records, JobsLaunch, NoneAdopts, AdoptPc
  <2>2. QED
    BY <2>1, AtLaunching DEF WrittenPc, NoneLaunching
<1>3. QED
  BY <1>1, <1>2 DEF NamesMove

(* So while none is launching, the launched rows become no more.           *)
LEMMA LaunchedStaysIn ==
  ASSUME CleanInv, JobsLaunch, NoneLaunching, Next, NEW R, LaunchedIn(R)
  PROVE  \A r \in Row : row'[r].status = "launched" => r \in R
BY LaunchedBefore DEF LaunchedIn

(* A launched instance that has ended stays so.                            *)
LEMMA EndedStays ==
  ASSUME CleanInv, NoFault, Next, NEW i \in Inst, inst[i].mid # None, inst[i].status \in Terminal
  PROVE  inst'[i].status \in Terminal
<1>1. TypeInv
  BY DEF CleanInv
<1>2. InstMoves
  BY <1>1, InstMoved
<1>3. ASSUME NEW w \in Worker PROVE ~PersistNew(w, i) /\ ~TrackNew(w, i) /\ ~(PersistRetry(w) /\ JobOf(w).inst = i)
  <2>1. ~PersistNew(w, i) /\ ~TrackNew(w, i)
    BY DEF PersistNew, TrackNew, FreshInst, Terminal
  <2>2. ASSUME PersistRetry(w), JobOf(w).inst = i PROVE FALSE
    BY <2>2, HeldBears DEF LaunchedPc, PersistRetry
  <2>3. QED
    BY <2>1, <2>2
<1>4. QED
  BY <1>2, <1>3 DEF InstMoves, Terminal

(* A launched row that is not live stays so.                               *)
LEMMA QuietRowStays ==
  ASSUME CleanInv, NoFault, Next, NEW r \in Row, row[r].status = "launched", ~LiveRow(r)
  PROVE  row'[r].inst = row[r].inst /\ ~LiveRow(r)'
<1>1. TypeInv /\ Noted(r)
  BY DEF CleanInv, TrackInv, RowsNoted
<1>m. NamesMove
  BY <1>1, NamesMoved
<1>2. /\ \A w \in Worker : ~WritesRow(w, r)
      /\ \A q \in Req : ~PutAnew(q, r)
  BY <1>1, SettledRow DEF Noted
<1>3. row'[r].inst = row[r].inst
  BY <1>2, <1>m DEF NamesMove
<1>4. row[r].inst \in Inst /\ inst[row[r].inst].mid # None /\ inst[row[r].inst].status \in Terminal
  BY <1>1, ConstantsAssumption DEF Noted, LiveRow
<1>5. inst'[row[r].inst].status \in Terminal
  BY <1>4, EndedStays
<1>6. QED
  BY <1>3, <1>5 DEF LiveRow

(* So a quiet run stays quiet while no row is being launched.              *)
LEMMA QuietStays ==
  ASSUME CleanInv, NoFault, JobsLaunch, NoneLaunching, AllQuiet, Next PROVE AllQuiet'
<1> SUFFICES ASSUME NEW r \in Row, row'[r].status = "launched" PROVE ~LiveRow(r)'
  BY DEF AllQuiet
<1>1. row[r].status = "launched"
  BY LaunchedBefore
<1>2. QED
  BY <1>1, QuietRowStays DEF AllQuiet

(* Who closes the run, and that no run becomes a draft or queued.          *)
LEMMA RunMoved ==
  ASSUME TypeOK, Next
  PROVE  /\ Closed' => \/ Closed \/ run.status = "queued"
                       \/ \E d \in Tick : tick[d].pc = "complete"
                       \/ \E q \in Req : req[q].pc = "close"
         /\ run'.status \in {"draft", "queued"} => run'.status = run.status
<1>1. CASE Environment
  BY <1>1, EnvironmentFrame DEF Closed
<1>2. ASSUME NEW d \in Tick, DispatcherStep(d) \/ DispatcherFault(d)
      PROVE  /\ Closed' => Closed \/ tick[d].pc = "complete"
             /\ run'.status \in {"draft", "queued"} => run'.status = run.status
  BY <1>2, DispatcherOnRun DEF Closed, RunKept, RunStopped, RunPromoted, RunFinished
<1>3. ASSUME NEW w \in Worker, LauncherStep(w) \/ LauncherFault(w) PROVE run'.status = run.status
  BY <1>3, LauncherFrame
<1>4. ASSUME NEW q \in Req, Load(q) \/ RequestProceeds(q)
      PROVE  /\ Closed' => Closed \/ run.status = "queued" \/ req[q].pc = "close"
             /\ run'.status \in {"draft", "queued"} => run'.status = run.status
  BY <1>4, RequestOnRun DEF Closed, RouteKept, RouteRuns, RoutePauses, RouteClaims, RouteCloses
<1>5. QED
  BY <1>1, <1>2, <1>3, <1>4 DEF Next, Closed

(* How a pass comes to the completion.                                     *)
LEMMA PassNears ==
  ASSUME TypeOK, NEW d \in Tick, DispatcherStep(d) \/ DispatcherFault(d)
  PROVE  /\ tick'[d].pc = "checkInst" =>
              tick'[d].todo = {r \in Row : row[r].status = "launched"} /\ row' = row
         /\ tick'[d].pc = "complete" => tick[d].pc = "checkInst" /\ ~StillRunning(tick[d].todo)
<1> USE DEF TickUnchanged
<1>t. tick \in [Tick -> TickState] /\ tick[d] \in TickState
  BY DEF TypeOK
<1>1. \A s : SetTick(d, s) => tick'[d] = s
  BY <1>t DEF SetTick
<1>2. ToHeld(d) => tick'[d].pc = "held"
  BY <1>1 DEF ToHeld, IdleTick
<1>3. CASE ScanRunning(d) \/ QueryLaunching(d)
  <2>1. tick'[d].pc \in {"dispatch", "held", "idle", "sweep"}
    <3>1. CASE ScanRunning(d)
      BY <1>t, <3>1 DEF ScanRunning, SetTick, IdleTick
    <3>2. CASE QueryLaunching(d)
      BY <1>t, <3>2 DEF QueryLaunching, SetTick, IdleTick
    <3>3. QED
      BY <1>3, <3>1, <3>2
  <2>2. QED
    BY <2>1
<1>4. CASE StopRun(d) \/ CompleteRun(d) \/ DispatchFails(d) \/ TickCrashes(d) \/ SweepDone(d)
  BY <1>1, <1>2, <1>4 DEF StopRun, CompleteRun, DispatchFails, TickCrashes, SweepDone, IdleTick
<1>5. CASE QueryQueuedRows(d) \/ ClaimLost(d) \/ SendJob(d)
  <2>1. tick'[d].pc = "release"
    BY <1>1, <1>t, <1>5 DEF QueryQueuedRows, ClaimLost, SendJob, TickState
  <2>2. QED
    BY <2>1
<1>6. CASE ClaimRow(d)
  BY <1>1, <1>t, <1>6 DEF ClaimRow, TickStep, TickState
<1>7. CASE AdvanceRelease(d)
  BY <1>1, <1>2, <1>t, <1>7 DEF AdvanceRelease, TickStep, TickState
<1>8. CASE CheckRows(d)
  <2>1. CASE ToHeld(d)
    BY <1>2, <2>1
  <2>2. CASE SetTick(d, [tick[d] EXCEPT !.pc = "checkInst", !.todo = {r \in Row : row[r].status = "launched"}])
    <3>1. tick'[d].pc = "checkInst" /\ tick'[d].todo = {r \in Row : row[r].status = "launched"}
      BY <1>1, <1>t, <2>2 DEF TickState
    <3>2. row' = row
      BY <1>8 DEF CheckRows
    <3>3. QED
      BY <3>1, <3>2
  <2>3. QED
    BY <1>8, <2>1, <2>2 DEF CheckRows
<1>9. CASE CheckInstances(d)
  <2>1. CASE ToHeld(d)
    BY <1>2, <2>1
  <2>2. ASSUME ~ToHeld(d) PROVE tick'[d].pc = "complete" /\ tick[d].pc = "checkInst" /\ ~StillRunning(tick[d].todo)
    <3>1. tick[d].pc = "checkInst" /\ ~StillRunning(tick[d].todo)
          /\ SetTick(d, [tick[d] EXCEPT !.pc = "complete", !.todo = {}])
      BY <1>9, <2>2 DEF CheckInstances
    <3>2. QED
      BY <1>1, <1>t, <3>1 DEF TickState
  <2>3. QED
    BY <2>1, <2>2
<1>10. CASE PromoteRun(d)
  BY <1>10 DEF PromoteRun
<1>11. CASE SweepRow(d) \/ SweepLost(d) \/ ResolveTracking(d)
  <2>1. tick'[d].pc \in {"sweep", "resolve"}
    BY <1>1, <1>t, <1>11 DEF SweepRow, SweepLost, ResolveTracking, TickState
  <2>2. QED
    BY <2>1
<1>12. QED
  BY <1>3, <1>4, <1>5, <1>6, <1>7, <1>8, <1>9, <1>10, <1>11 DEF DispatcherStep, DispatcherFault

(* How a cancel comes to the close.                                        *)
LEMMA CancelNears ==
  ASSUME TypeOK, NEW q \in Req, Load(q) \/ RequestProceeds(q)
  PROVE  /\ req'[q].pc = "recheckInst" =>
              req'[q].live = {r \in Row : row[r].status = "launched"} /\ row' = row
         /\ req'[q].pc = "close" =>
              req[q].pc = "recheckInst" /\ req[q].todo = {} /\ \A r \in req[q].live : ~LiveRow(r)
<1>t. req[q] \in ReqState
  BY DEF TypeOK
<1>1. \A t : SetReq(q, t) => req'[q] = t
  BY DEF SetReq, TypeOK
<1>2. \A a, b : ReqStep(q, a, b) => req'[q].pc = b
  BY <1>t, <1>1 DEF ReqStep, ReqState
<1>3. CASE Load(q)
  <2>1. req'[q].pc = FirstPc(Kind[q])
    BY <1>1, <1>3 DEF Load, IdleReq
  <2>2. QED
    BY <2>1 DEF FirstPc
<1>4. CASE PutRow(q) \/ CancelWaitingRow(q)
  <2>1. req'[q].pc \in {"put", "flip", "done"}
    BY <1>t, <1>1, <1>4 DEF PutRow, CancelWaitingRow, ReqState
  <2>2. QED
    BY <2>1
<1>5. CASE StartRun(q) \/ PauseRun(q) \/ ResumeRun(q) \/ ClaimQueued(q) \/ NoLiveRowLeft(q) \/ CloseRun(q)
             \/ CancelAtMaestro(q) \/ CancelLocally(q) \/ \E r \in Row : RowRefused(q, r)
  <2>1. req'[q].pc \in {"done", "rows", "recheck", "inst", "row"}
    BY <1>2, <1>5 DEF StartRun, PauseRun, ResumeRun, ClaimQueued, NoLiveRowLeft, CloseRun, RowRefused, CancelAtMaestro, CancelLocally
  <2>2. QED
    BY <2>1
<1>6. CASE ReadRows(q) \/ ResolveLive(q) \/ CancelLaunchedRow(q) \/ PickLiveRow(q)
           \/ \E r \in Row : PickWaitingRow(q, r) \/ PickLaunchedRow(q, r)
  <2>1. \A r : CancelInstanceOf(q, r) => req'[q].pc = "maestro"
    BY <1>t, <1>1 DEF CancelInstanceOf, ReqState
  <2>2. CASE ReadRows(q) \/ ResolveLive(q) \/ CancelLaunchedRow(q) \/ \E r \in Row : PickWaitingRow(q, r)
    <3>1. req'[q].pc \in {"flip", "recheck", "pick", "done"}
      BY <1>t, <1>1, <2>2 DEF ReadRows, ResolveLive, CancelLaunchedRow, PickWaitingRow, ReqState, IdleReq
    <3>2. QED
      BY <3>1
  <2>3. CASE PickLiveRow(q) \/ \E r \in Row : PickLaunchedRow(q, r)
    BY <2>1, <2>3 DEF PickLiveRow, PickLaunchedRow
  <2>4. QED
    BY <1>6, <2>2, <2>3
<1>7. CASE Reread(q)
  <2>1. SetReq(q, [req[q] EXCEPT !.pc = "recheckInst",
          !.todo = {r \in Row : row[r].status \in Unprocessed},
          !.live = {r \in Row : row[r].status = "launched"}]) /\ row' = row
    BY <1>7 DEF Reread, OnlyReq
  <2>2. req'[q].pc = "recheckInst" /\ req'[q].live = {r \in Row : row[r].status = "launched"}
    BY <1>t, <1>1, <2>1 DEF ReqState
  <2>3. QED
    BY <2>1, <2>2
<1>8. CASE RecheckInstances(q)
  <2> DEFINE active == req[q].todo # {} \/ \E r \in req[q].live : LiveRow(r)
  <2>1. req[q].pc = "recheckInst" /\ SetReq(q, [IdleReq EXCEPT !.pc = IF active THEN "done" ELSE "close"])
    BY <1>8 DEF RecheckInstances
  <2>2. req'[q].pc = IF active THEN "done" ELSE "close"
    BY <1>1, <2>1 DEF IdleReq
  <2>3. QED
    BY <2>1, <2>2
<1>9. QED
  BY <1>3, <1>4, <1>5, <1>6, <1>7, <1>8 DEF RequestProceeds, RowRequest

(* Only one pass, or one request, moves at a step.                         *)
LEMMA OneMoves ==
  ASSUME TypeOK, Next
  PROVE  /\ \A d \in Tick : tick'[d] = tick[d] \/ DispatcherStep(d) \/ DispatcherFault(d)
         /\ \A q \in Req : req'[q] = req[q] \/ Load(q) \/ RequestProceeds(q)
<1>1. CASE Environment
  BY <1>1, EnvironmentFrame
<1>2. ASSUME NEW d \in Tick, DispatcherStep(d) \/ DispatcherFault(d)
      PROVE  /\ \A e \in Tick : e # d => tick'[e] = tick[e]
             /\ req' = req
  BY <1>2, DispatcherOnRun
<1>3. ASSUME NEW w \in Worker, LauncherStep(w) \/ LauncherFault(w) PROVE tick' = tick /\ req' = req
  BY <1>3, LauncherFrame
<1>4. ASSUME NEW q \in Req, Load(q) \/ RequestProceeds(q)
      PROVE  /\ \A p \in Req : p # q => req'[p] = req[p]
             /\ tick' = tick
  BY <1>4, RequestOnRun
<1>5. QED
  BY <1>1, <1>2, <1>3, <1>4 DEF Next

(* Whoever is about to close the run finds it quiet.                       *)
LEMMA QuietKept ==
  ASSUME CleanInv, NoFault, JobsLaunch, OpenInv, QuietAhead, Next PROVE QuietAhead'
<1>t. TypeOK
  BY DEF CleanInv, TypeInv
<1>m. /\ \A d \in Tick : tick'[d] = tick[d] \/ DispatcherStep(d) \/ DispatcherFault(d)
      /\ \A q \in Req : req'[q] = req[q] \/ Load(q) \/ RequestProceeds(q)
  BY <1>t, OneMoves
<1>q. ASSUME NoneLaunching, AllQuiet PROVE AllQuiet'
  BY <1>q, QuietStays
<1>l. AllReleased => NoneLaunching
  BY DEF AllReleased, NoneLaunching
<1>1. ASSUME NEW d \in Tick, tick'[d].pc = "checkInst" PROVE LaunchedIn(tick[d].todo)'
  <2>1. CASE tick'[d] = tick[d]
    <3>1. LaunchedIn(tick[d].todo) /\ NoneLaunching
      BY <1>1, <1>l, <2>1 DEF QuietAhead, OpenInv, NothingLeft
    <3>2. \A r \in Row : row'[r].status = "launched" => r \in tick[d].todo
      BY <3>1, LaunchedStaysIn
    <3>3. QED
      BY <2>1, <3>2 DEF LaunchedIn
  <2>2. CASE DispatcherStep(d) \/ DispatcherFault(d)
    BY <1>t, <1>1, <2>2, PassNears DEF LaunchedIn
  <2>3. QED
    BY <1>m, <2>1, <2>2
<1>2. ASSUME NEW d \in Tick, tick'[d].pc = "complete" PROVE AllQuiet'
  <2>1. CASE tick'[d] = tick[d]
    BY <1>2, <1>l, <1>q, <2>1 DEF QuietAhead, OpenInv, NothingLeft
  <2>2. CASE DispatcherStep(d) \/ DispatcherFault(d)
    <3>1. tick[d].pc = "checkInst" /\ ~StillRunning(tick[d].todo)
      BY <1>t, <1>2, <2>2, PassNears
    <3>2. LaunchedIn(tick[d].todo) /\ NoneLaunching
      BY <1>l, <3>1 DEF QuietAhead, OpenInv, NothingLeft
    <3>3. AllQuiet
      BY <3>1, <3>2 DEF AllQuiet, LaunchedIn, StillRunning, LiveRow
    <3>4. QED
      BY <1>q, <3>2, <3>3
  <2>3. QED
    BY <1>m, <2>1, <2>2
<1>3. ASSUME NEW q \in Req, req'[q].pc = "recheckInst", req'[q].todo = {} PROVE LaunchedIn(req[q].live)'
  <2>1. CASE req'[q] = req[q]
    <3>1. LaunchedIn(req[q].live) /\ NoneLaunching
      BY <1>3, <1>l, <2>1 DEF QuietAhead, OpenInv, NothingLeft
    <3>2. \A r \in Row : row'[r].status = "launched" => r \in req[q].live
      BY <3>1, LaunchedStaysIn
    <3>3. QED
      BY <2>1, <3>2 DEF LaunchedIn
  <2>2. CASE Load(q) \/ RequestProceeds(q)
    BY <1>t, <1>3, <2>2, CancelNears DEF LaunchedIn
  <2>3. QED
    BY <1>m, <2>1, <2>2
<1>4. ASSUME NEW q \in Req, req'[q].pc = "close" PROVE AllQuiet'
  <2>1. CASE req'[q] = req[q]
    BY <1>4, <1>l, <1>q, <2>1 DEF QuietAhead, OpenInv, NothingLeft
  <2>2. CASE Load(q) \/ RequestProceeds(q)
    <3>1. req[q].pc = "recheckInst" /\ req[q].todo = {} /\ \A r \in req[q].live : ~LiveRow(r)
      BY <1>t, <1>4, <2>2, CancelNears
    <3>2. LaunchedIn(req[q].live) /\ NoneLaunching
      BY <1>l, <3>1 DEF QuietAhead, OpenInv, NothingLeft
    <3>3. AllQuiet
      BY <3>1, <3>2 DEF AllQuiet, LaunchedIn
    <3>4. QED
      BY <1>q, <3>2, <3>3
  <2>3. QED
    BY <1>m, <2>1, <2>2
<1>5. ASSUME Closed' PROVE AllQuiet'
  <2>1. \/ Closed \/ run.status = "queued"
        \/ \E d \in Tick : tick[d].pc = "complete"
        \/ \E q \in Req : req[q].pc = "close"
    BY <1>t, <1>5, RunMoved
  <2>2. ASSUME Closed \/ run.status = "queued" PROVE NoneLaunching /\ AllQuiet
    BY <2>2 DEF OpenInv, LaunchingOnlyInOpenRun, NoneLaunching, Closed, QuietAhead, LaunchedIn, AllQuiet
  <2>3. ASSUME \/ \E d \in Tick : tick[d].pc = "complete"
               \/ \E q \in Req : req[q].pc = "close"
        PROVE  NoneLaunching /\ AllQuiet
    BY <1>l, <2>3 DEF QuietAhead, OpenInv, NothingLeft
  <2>4. QED
    BY <1>q, <2>1, <2>2, <2>3
<1>6. ASSUME run'.status \in {"draft", "queued"} PROVE LaunchedIn({})'
  <2>1. run.status \in {"draft", "queued"}
    BY <1>t, <1>6, RunMoved
  <2>2. NoneLaunching /\ LaunchedIn({})
    BY <2>1 DEF OpenInv, LaunchingOnlyInOpenRun, NoneLaunching, QuietAhead
  <2>3. \A r \in Row : row'[r].status = "launched" => r \in {}
    BY <2>2, LaunchedStaysIn
  <2>4. QED
    BY <2>3 DEF LaunchedIn
<1>7. QED
  BY <1>1, <1>2, <1>3, <1>4, <1>5, <1>6 DEF QuietAhead

(* Without a fault of the launcher, and with launches that land, all the   *)
(* invariants go on together.                                              *)
LandedInv == CleanInv /\ OpenInv /\ JobsLaunch /\ NamesInv /\ QuietAhead

(* Before the first step nothing is launched.                              *)
LEMMA LandedInit == Init => LandedInv
<1> SUFFICES ASSUME Init PROVE LandedInv
  OBVIOUS
<1>1. CleanInv /\ OpenInv
  BY InitType, ReleaseInit, ChainInit, LadderInit, TrackInit, OpenInit DEF CleanInv
<1>2. \A r \in Row : row[r].status \in {"staged", "skipped", "queued"} /\ ~row[r].stale
  BY ConstantsAssumption DEF Init
<1>3. /\ \A m \in Msg : msg[m].state = "none"
      /\ \A w \in Worker : wk[w].pc = "idle"
      /\ \A d \in Tick : tick[d].pc = "idle"
      /\ \A q \in Req : req[q].pc = "idle"
      /\ \A i \in Inst : inst[i].status = "none"
  BY DEF Init, IdleWorker, IdleTick, IdleReq
<1>4. JobsLaunch
  BY <1>2, <1>3 DEF JobsLaunch, NoneStale, UnwrittenLaunch, SendersLaunch, NoneAdopts, Pending, Sending, AdoptPc
<1>5. NamesInv
  BY <1>2, <1>3 DEF NamesInv, NamesDiffer, RunningIsNamed, CancelsInOrder, Names, Recording
<1>6. QuietAhead
  BY <1>2, <1>3 DEF QuietAhead, LaunchedIn, AllQuiet
<1>7. QED
  BY <1>1, <1>4, <1>5, <1>6 DEF LandedInv

(* The inductive step.                                                     *)
LEMMA LandedStep ==
  ASSUME OneStart, StartAlone, LaunchesLand, LandedInv, [Next]_vars PROVE LandedInv'
<1>i. CleanInv /\ OpenInv /\ JobsLaunch /\ NamesInv /\ QuietAhead
  BY DEF LandedInv
<1>t. TypeInv /\ TypeOK /\ ReleaseInv /\ ChainInv /\ LadderInv /\ TrackInv
  BY <1>i DEF CleanInv, TypeInv
<1>n. NoFault /\ NothingDropped /\ NoRepeats
  BY LandsClean
<1>1. TypeInv' /\ ReleaseInv' /\ OpenInv'
  BY <1>t, <1>i, StepType, ReleaseStep, OpenStep
<1>2. ChainInv' /\ LadderInv'
  BY <1>t, <1>n, ChainStep, LadderStep
<1>3. CASE Next
  <2>1. BornByOne' /\ Unlaunched' /\ IdsKnown' /\ WorkersOnIds'
    BY <1>3, <1>i, <1>n, BornKept, UnlaunchedKept, IdsKept, OnIdsKept
  <2>2. RowsNoted' /\ RequestsOnIds' /\ Tracked'
    BY <1>3, <1>i, <1>n, RowsNotedKept, RequestIdsKept, TrackedKept
  <2>3. CleanInv'
    BY <1>1, <1>2, <2>1, <2>2 DEF CleanInv, TrackInv
  <2>4. NoneStale' /\ NoneAdopts' /\ UnwrittenLaunch' /\ SendersLaunch'
    BY <1>3, <1>i, <1>t, <1>n, FreshStays, NoneAdoptsKept, UnwrittenKept, SendersLaunchKept DEF JobsLaunch
  <2>5. NamesDiffer' /\ RunningIsNamed' /\ CancelsInOrder'
    BY <1>3, <1>i, <1>n, NamesDifferKept, RunningNamedKept, CancelsKept DEF NamesInv, JobsLaunch
  <2>6. QuietAhead'
    BY <1>3, <1>i, <1>n, QuietKept
  <2>7. QED
    BY <1>1, <2>3, <2>4, <2>5, <2>6 DEF LandedInv, JobsLaunch, NamesInv
<1>4. CASE UNCHANGED vars
  <2>1. TrackInv'
    BY <1>4, <1>t DEF vars, TrackInv, BornByOne, Unlaunched, IdsKnown, WorkersOnIds, RowsNoted, RequestsOnIds, Tracked,
       Bears, Begins, Going, Noted, Settled, DoneWith, Pending, LettingGo, Exists, OnlyTracking, IsRetry, JobOf
  <2>2. JobsLaunch'
    BY <1>4, <1>i DEF vars, JobsLaunch, NoneStale, UnwrittenLaunch, SendersLaunch, NoneAdopts, Pending, Sending, Written
  <2>3. NamesInv'
    BY <1>4, <1>i DEF vars, NamesInv, NamesDiffer, RunningIsNamed, CancelsInOrder, Names, Recording,
       Noted, Settled, DoneWith, Pending
  <2>4. QuietAhead'
    BY <1>4, <1>i DEF vars, QuietAhead, LaunchedIn, AllQuiet, LiveRow, Closed
  <2>5. QED
    BY <1>1, <1>2, <2>1, <2>2, <2>3, <2>4 DEF LandedInv, CleanInv
<1>5. QED
  BY <1>3, <1>4

(* "A completed/cancelled run can never accumulate live workflows": in a   *)
(* closed run no launched row has an instance that runs, and no workflow   *)
(* lives at Docusign but in the hands of a worker or a request - however   *)
(* many passes, workers and cancels take part and wherever passes crash,   *)
(* provided launches land (no worker is lost or repeats itself, none takes *)
(* the 90 minutes of the sweep), cancels arrive, and the run is not        *)
(* cancelled while it is started.                                          *)
THEOREM ClosedRunStaysQuiet == StartAlone /\ LaunchesLand => (Spec => []ClosedRunIsQuiet)
<1> SUFFICES ASSUME StartAlone, LaunchesLand PROVE Spec => []ClosedRunIsQuiet
  OBVIOUS
<1>s. OneStart
  BY DEF StartAlone, OneStart
<1>1. Init => LandedInv
  BY LandedInit
<1>2. LandedInv /\ [Next]_vars => LandedInv'
  BY <1>s, LandedStep
<1>3. LandedInv => ClosedRunIsQuiet
  <2> SUFFICES ASSUME LandedInv, Closed PROVE ClosedRunIsQuiet
    BY DEF ClosedRunIsQuiet
  <2>i. AllQuiet /\ Tracked /\ RunningIsNamed /\ WorkersOnIds
    BY DEF LandedInv, CleanInv, TrackInv, NamesInv, QuietAhead
  <2>1. ASSUME NEW k \in Mid, maestro[k] = "live" PROVE InHand(k)
    <3>1. CASE \E w \in Worker : wk[w].pc = "persist" /\ wk[w].mid = k
      BY <3>1 DEF InHand
    <3>2. ASSUME NEW i \in Inst, inst[i].mid = k, inst[i].status = "running" PROVE InHand(k)
      <4>1. k # None
        BY ConstantsAssumption
      <4>2. ASSUME NEW r \in Row, Names(r, i) PROVE FALSE
        BY <2>i, <3>2, <4>2, ConstantsAssumption DEF Names, AllQuiet, LiveRow, Terminal
      <4>3. PICK w \in Worker : Recording(w, i)
        BY <2>i, <3>2, <4>1, <4>2 DEF RunningIsNamed
      <4>4. wk[w].mid = k
        BY <2>i, <3>2, <4>3 DEF Recording, WorkersOnIds, LaunchedPc
      <4>5. QED
        BY <4>4 DEF InHand
    <3>3. QED
      BY <2>i, <2>1, <3>1, <3>2 DEF Tracked
  <2>2. QED
    BY <2>i, <2>1 DEF ClosedRunIsQuiet, AllQuiet
<1>4. QED
  BY <1>1, <1>2, <1>3, PTL DEF Spec

(* What one step writes: items that matter to no phase, one instance, one  *)
(* row, or the rows that are resolved.                                     *)
WritesNone    == row' = row /\ inst' = inst
StatusKept    == run'.status = run.status
WritesInst(i) == StatusKept /\ row' = row /\ \A j \in Inst : j # i => inst'[j] = inst[j]
WritesOne(r)  == StatusKept /\ inst' = inst /\ \A s \in Row : s # r => row'[s] = row[s]
WritesSome    == StatusKept /\ inst' = inst /\ \E R \in SUBSET Row : ResolveRows(R)
OneWrite ==
  \/ WritesNone \/ WritesSome
  \/ \E i \in Inst : WritesInst(i)
  \/ \E r \in Row : WritesOne(r)

(* The environment writes one of these.                                    *)
LEMMA EnvironmentWrites == ASSUME TypeOK, \A r \in Row : ~Age(r), Environment PROVE OneWrite
<1>1. CASE ViewRows
  BY <1>1 DEF ViewRows, OneWrite, WritesSome, StatusKept
<1>2. ASSUME NEW i \in Inst, SyncInstance(i) PROVE OneWrite
  <2>1. WritesInst(i)
    BY <1>2 DEF SyncInstance, SetInst, WritesInst, StatusKept, TypeOK
  <2>2. QED
    BY <2>1 DEF OneWrite
<1>3. CASE WritesNone
  BY <1>3 DEF OneWrite
<1>4. QED
  BY <1>1, <1>2, <1>3 DEF Environment, ReleaseTimeComes, Reappear, ReappearEarly, WorkflowEnds, WritesNone

(* So does a pass.                                                         *)
LEMMA DispatcherWrites ==
  ASSUME TypeOK, NEW d \in Tick, DispatcherStep(d) \/ DispatcherFault(d) PROVE OneWrite
<1> USE DEF TickUnchanged
<1>t. row \in [Row -> RowItem] /\ inst \in [Inst -> InstItem] /\ tick[d].todo \subseteq Row
  BY DEF TypeOK, TickState
<1>1. CASE ClaimRow(d)
  <2>1. PICK r \in Row : row' = [row EXCEPT ![r] = [@ EXCEPT !.status = "launching", !.stale = FALSE]]
    BY <1>t, <1>1 DEF ClaimRow
  <2>2. WritesOne(r)
    BY <1>t, <1>1, <2>1 DEF ClaimRow, WritesOne, StatusKept
  <2>3. QED
    BY <2>2 DEF OneWrite
<1>2. CASE SweepRow(d)
  <2>1. PICK r \in Row : SetRow(r, "failed")
    BY <1>t, <1>2 DEF SweepRow
  <2>2. WritesOne(r)
    BY <1>t, <1>2, <2>1 DEF SweepRow, SetRow, WritesOne, StatusKept
  <2>3. QED
    BY <2>2 DEF OneWrite
<1>3. CASE CheckInstances(d)
  BY <1>t, <1>3 DEF CheckInstances, OneWrite, WritesSome, StatusKept
<1>4. CASE ResolveTracking(d)
  <2>1. PICK r \in tick[d].todo : IF OnlyTracking(tick[d].ref[r]) THEN SetInst(tick[d].ref[r], "cancelled") ELSE UNCHANGED inst
    BY <1>4 DEF ResolveTracking
  <2>2. StatusKept /\ row' = row
    BY <1>4 DEF ResolveTracking, StatusKept
  <2>3. CASE inst' = inst
    BY <2>2, <2>3 DEF OneWrite, WritesNone
  <2>4. ASSUME SetInst(tick[d].ref[r], "cancelled") PROVE OneWrite
    <3>1. CASE tick[d].ref[r] \in Inst
      BY <1>t, <2>2, <2>4, <3>1 DEF SetInst, OneWrite, WritesInst
    <3>2. CASE tick[d].ref[r] \notin Inst
      <4>1. inst' = inst
        BY <1>t, <2>4, <3>2 DEF SetInst
      <4>2. QED
        BY <2>3, <4>1
    <3>3. QED
      BY <3>1, <3>2
  <2>5. QED
    BY <2>1, <2>3, <2>4
<1>5. CASE WritesNone
  BY <1>5 DEF OneWrite
<1>6. QED
  BY <1>1, <1>2, <1>3, <1>4, <1>5 DEF DispatcherStep, DispatcherFault, ScanRunning, StopRun, QueryQueuedRows,
     ClaimLost, SendJob, AdvanceRelease, CheckRows, CompleteRun, PromoteRun,
     QueryLaunching, SweepLost, SweepDone, DispatchFails, TickCrashes, WritesNone

(* So does a worker.                                                       *)
LEMMA LauncherWrites ==
  ASSUME TypeInv, LadderInv, WorkersOnIds, NEW w \in Worker, LauncherStep(w) \/ LauncherFault(w) PROVE OneWrite
<1>t. /\ row \in [Row -> RowItem] /\ inst \in [Inst -> InstItem] /\ wk \in [Worker -> WorkerState]
      /\ wk[w].pc # "idle" => JobOf(w).row \in Row /\ (IsRetry(w) => JobOf(w).inst \in Inst)
  BY HeldJob DEF TypeInv, BusyHoldsMessage, TypeOK, Message, Job, JobOf
<1>1. ASSUME NEW r \in Row, NEW v, row' = [row EXCEPT ![r] = v], inst' = inst, StatusKept PROVE OneWrite
  <2>1. WritesOne(r)
    BY <1>t, <1>1 DEF WritesOne
  <2>2. QED
    BY <2>1 DEF OneWrite
<1>2. ASSUME NEW i, NEW v, inst' = [inst EXCEPT ![i] = v], row' = row, StatusKept PROVE OneWrite
  <2>1. CASE i \in Inst
    <3>1. WritesInst(i)
      BY <1>t, <1>2, <2>1 DEF WritesInst
    <3>2. QED
      BY <2>1, <3>1 DEF OneWrite
  <2>2. CASE i \notin Inst
    BY <1>t, <1>2, <2>2 DEF OneWrite, WritesNone
  <2>3. QED
    BY <2>1, <2>2
<1>3. CASE GateDenies(w) \/ RecordLaunch(w) \/ AdoptLaunch(w) \/ FailRow(w) \/ ReferenceTracking(w)
  <2>1. JobOf(w).row \in Row /\ inst' = inst /\ StatusKept
    BY <1>t, <1>3 DEF GateDenies, RecordLaunch, AdoptLaunch, FailRow, ReferenceTracking, Step, StatusKept
  <2>2. \E v : row' = [row EXCEPT ![JobOf(w).row] = v]
    BY <1>3 DEF GateDenies, RecordLaunch, AdoptLaunch, FailRow, ReferenceTracking, SetRow, RecordOn
  <2>3. QED
    BY <1>1, <2>1, <2>2
<1>4. CASE DenyInstance(w) \/ UndoInstance(w) \/ FailInstance(w)
  <2>1. row' = row /\ StatusKept
    BY <1>4 DEF DenyInstance, UndoInstance, FailInstance, StatusKept
  <2>2. inst' = inst \/ \E i, v : inst' = [inst EXCEPT ![i] = v]
    BY <1>4 DEF DenyInstance, UndoInstance, FailInstance, SetInst
  <2>3. QED
    BY <1>2, <2>1, <2>2 DEF OneWrite, WritesNone
<1>5. CASE PersistRetry(w) \/ \E i \in Inst : PersistNew(w, i) \/ TrackNew(w, i)
  <2>1. row' = row /\ StatusKept
    BY <1>5 DEF PersistRetry, PersistNew, TrackNew, StatusKept
  <2>2. \E i, v : inst' = [inst EXCEPT ![i] = v]
    BY <1>5 DEF PersistRetry, PersistNew, TrackNew
  <2>3. QED
    BY <1>2, <2>1, <2>2
<1>6. CASE WritesNone
  BY <1>6 DEF OneWrite
<1>7. QED
  BY <1>3, <1>4, <1>5, <1>6 DEF LauncherStep, LauncherFault,
     Receive, EnqueueRetry, LaunchSucceeds, RetryGuard,
     LaunchFailsRetryably, LaunchRejected,
     RecordRefused, ReadRun, AdoptRefused, UndoLaunch, TrackAgain,
     FailRowAgain, Ack, ReplyLost, UndoRejected, TryFails,
     FinalFails, WorkerCrashes, ResetStreak, CountFailure, WritesNone

(* So does a route.                                                        *)
LEMMA RouteWrites ==
  ASSUME TypeOK, NEW q \in Req, Load(q) \/ RequestProceeds(q) PROVE OneWrite
<1>t. row \in [Row -> RowItem] /\ inst \in [Inst -> InstItem] /\ req[q].todo \subseteq Row /\ req[q].live \subseteq Row
  BY DEF TypeOK, ReqState
<1>1. ASSUME NEW r \in Row, NEW v, row' = [row EXCEPT ![r] = v], inst' = inst, StatusKept PROVE OneWrite
  <2>1. WritesOne(r)
    BY <1>t, <1>1 DEF WritesOne
  <2>2. QED
    BY <2>1 DEF OneWrite
<1>2. CASE WritesNone
  BY <1>2 DEF OneWrite
<1>3. CASE PutRow(q) \/ CancelWaitingRow(q) \/ CancelLaunchedRow(q)
  <2>1. inst' = inst /\ StatusKept
    BY <1>3 DEF PutRow, CancelWaitingRow, CancelLaunchedRow, StatusKept
  <2>2. row' = row \/ \E r \in Row : \E v : row' = [row EXCEPT ![r] = v]
    BY <1>t, <1>3 DEF PutRow, CancelWaitingRow, CancelLaunchedRow
  <2>3. QED
    BY <1>1, <1>2, <2>1, <2>2 DEF WritesNone
<1>4. CASE ResolveLive(q) \/ RecheckInstances(q)
  BY <1>t, <1>4 DEF ResolveLive, RecheckInstances, OneWrite, WritesSome, StatusKept
<1>5. CASE CancelLocally(q)
  <2>1. SetInst(req[q].inst, "cancelled") /\ row' = row /\ StatusKept
    BY <1>5 DEF CancelLocally, StatusKept
  <2>2. CASE req[q].inst \in Inst
    BY <1>t, <2>1, <2>2 DEF SetInst, OneWrite, WritesInst
  <2>3. CASE req[q].inst \notin Inst
    BY <1>t, <1>2, <2>1, <2>3 DEF SetInst, WritesNone
  <2>4. QED
    BY <2>2, <2>3
<1>6. QED
  BY <1>2, <1>3, <1>4, <1>5 DEF Load, RequestProceeds, StartRun, PauseRun, ResumeRun, ClaimQueued, OnlyReq,
     ReadRows, PickLiveRow, NoLiveRowLeft, RowRequest, PickWaitingRow, PickLaunchedRow,
     RowRefused, CancelAtMaestro, Reread, CloseRun, WritesNone

(* So does every step.                                                     *)
LEMMA OneWritten == ASSUME CleanInv, LaunchesLand, Next PROVE OneWrite
<1>1. TypeInv /\ TypeOK /\ LadderInv /\ WorkersOnIds /\ \A r \in Row : ~Age(r)
  BY LandsClean DEF CleanInv, TypeInv, TrackInv
<1>2. QED
  BY <1>1, EnvironmentWrites, DispatcherWrites, LauncherWrites, RouteWrites DEF Next

(* What the phase of a row is, by its status and that of its instance.     *)
InstFailed(r) == row[r].inst # None /\ inst[row[r].inst].status = "failed"
PhaseIsOfStatus(r) ==
  /\ row[r].status \in {"staged", "queued"} => PhaseOf(r) = "waiting"
  /\ row[r].status = "launching" => PhaseOf(r) = "launching"
  /\ row[r].status = "failed" => PhaseOf(r) = "failed"
  /\ row[r].status \in {"completed", "cancelled", "skipped"} => PhaseOf(r) = "settled"
PhaseIsOfInstance(r) ==
  row[r].status = "launched" =>
    /\ LiveRow(r) => PhaseOf(r) = "live"
    /\ ~LiveRow(r) /\ InstFailed(r) => PhaseOf(r) = "failed"
    /\ ~LiveRow(r) /\ ~InstFailed(r) => PhaseOf(r) = "settled"
(* The phase of a row, spelled out.                                        *)
LEMMA PhaseIs == \A r : PhaseIsOfStatus(r) /\ PhaseIsOfInstance(r)
<1> TAKE r
<1>1. PhaseIsOfStatus(r)
  BY DEF PhaseOf, PhaseIsOfStatus
<1>2. PhaseIsOfInstance(r)
  BY DEF PhaseOf, PhaseIsOfInstance, InstFailed, LiveRow, Terminal
<1>3. QED
  BY <1>1, <1>2

(* And after a step.                                                       *)
LEMMA PhaseIsNext == \A r : PhaseIsOfStatus(r)' /\ PhaseIsOfInstance(r)'
<1> TAKE r
<1>1. PhaseIsOfStatus(r)'
  BY DEF PhaseOf, PhaseIsOfStatus
<1>2. PhaseIsOfInstance(r)'
  BY DEF PhaseOf, PhaseIsOfInstance, InstFailed, LiveRow, Terminal
<1>3. QED
  BY <1>1, <1>2

(* What may become of the phase of a row.                                  *)
Onward(from, to) ==
  \/ to = from
  \/ ~Closed /\ from = "waiting" /\ to = "launching"
  \/ ~Closed /\ from = "launching" /\ to \in {"live", "failed", "settled"}
  \/ ~Closed /\ from = "live" /\ to \in {"failed", "settled"}
  \/ from \in {"waiting", "failed"} /\ to = "settled"
PhaseGoes(r) == Onward(PhaseOf(r), PhaseOf(r)')
PhaseStays(r) == PhaseOf(r)' = PhaseOf(r)

(* A row that is not written, nor its instance, stays in its phase.        *)
LEMMA UnwrittenPhase ==
  ASSUME NEW r \in Row, row'[r] = row[r],
         row[r].status = "launched" => inst'[row[r].inst].status = inst[row[r].inst].status
  PROVE  PhaseStays(r)
BY DEF PhaseStays, PhaseOf, LiveRow

(* Resolving a row leaves its phase alone.                                 *)
LEMMA ResolvedPhase ==
  ASSUME TypeInv, NEW R, ResolveRows(R), inst' = inst, NEW r \in Row PROVE PhaseStays(r)
<1>t. row \in [Row -> RowItem]
  BY DEF TypeInv, TypeOK
<1>1. CASE row'[r] = row[r]
  BY <1>1, UnwrittenPhase
<1>2. CASE row[r].status = "launched" /\ InstanceEnded(r) /\ row'[r].status = inst[row[r].inst].status
  <2>1. ~LiveRow(r) /\ row[r].inst # None
    BY <1>2 DEF LiveRow, InstanceEnded
  <2>2. inst[row[r].inst].status \in {"completed", "cancelled", "failed"}
    BY <1>2 DEF InstanceEnded, Terminal
  <2>3. CASE inst[row[r].inst].status = "failed"
    BY <1>2, <2>1, <2>3, PhaseIs, PhaseIsNext DEF PhaseIsOfStatus, PhaseIsOfInstance, InstFailed, PhaseStays
  <2>4. CASE inst[row[r].inst].status \in {"completed", "cancelled"}
    BY <1>2, <2>1, <2>4, PhaseIs, PhaseIsNext DEF PhaseIsOfStatus, PhaseIsOfInstance, InstFailed, PhaseStays
  <2>5. QED
    BY <2>2, <2>3, <2>4
<1>3. QED
  BY <1>t, <1>1, <1>2 DEF ResolveRows, RowItem

(* A write to one instance ends a live row, overrules a failed one, or     *)
(* leaves the phase of the row it is named by alone.                       *)
LEMMA InstancePhase ==
  ASSUME LandedInv, NoFault, Next, NEW i \in Inst, WritesInst(i), NEW r \in Row, Names(r, i)
  PROVE  PhaseGoes(r)
<1>i. CleanInv /\ NoneAdopts /\ QuietAhead
  BY DEF LandedInv, JobsLaunch
<1>t. TypeInv /\ Noted(r) /\ RequestsOnIds
  BY <1>i DEF CleanInv, TrackInv, RowsNoted, Names
<1>n. row[r].inst = i /\ inst[i].mid # None /\ row[r].status = "launched" /\ i # None
  BY <1>t, ConstantsAssumption DEF Noted, Names
<1>r. row'[r] = row[r]
  BY DEF WritesInst
<1>m. InstMoves
  BY <1>t, InstMoved
<1>1. ASSUME NEW w \in Worker
      PROVE  /\ ~Dropped(w, i) /\ ~Undone(w, i) /\ ~PersistNew(w, i) /\ ~TrackNew(w, i)
             /\ ~(PersistRetry(w) /\ JobOf(w).inst = i)
  <2>1. ~PersistNew(w, i) /\ ~TrackNew(w, i)
    BY <1>i, <1>n DEF PersistNew, TrackNew, FreshInst, CleanInv, TrackInv, IdsKnown, Exists
  <2>2. ASSUME wk[w].pc \in {"denyInst", "failInst", "persist"}, JobOf(w).inst = i PROVE FALSE
    <3>1. IsRetry(w)
      BY <2>2, <1>n DEF IsRetry
    <3>2. QED
      BY <1>i, <1>n, <2>2, <3>1, HeldBears DEF LaunchedPc
  <2>3. QED
    BY <1>i, <2>1, <2>2 DEF Dropped, PersistRetry, Undone, NoneAdopts, AdoptPc
<1>2. CASE inst'[i] = inst[i]
  BY <1>n, <1>r, <1>2, UnwrittenPhase DEF PhaseStays, PhaseGoes, Onward
<1>3. CASE Synced(i) /\ inst'[i].status \in Terminal
  <2>1. PhaseOf(r) = "live" /\ LiveRow(r)
    BY <1>n, <1>3, PhaseIs DEF Synced, LiveRow, Terminal, PhaseIsOfInstance
  <2>2. PhaseOf(r)' \in {"failed", "settled"}
    BY <1>n, <1>r, <1>3, PhaseIsNext DEF LiveRow, PhaseIsOfInstance
  <2>3. ~Closed
    BY <1>i, <1>n, <2>1 DEF QuietAhead, AllQuiet
  <2>4. QED
    BY <2>1, <2>2, <2>3 DEF PhaseGoes, Onward
<1>4. CASE inst'[i].status = "cancelled"
  <2>1. PhaseOf(r)' = "settled"
    BY <1>n, <1>r, <1>4, PhaseIsNext DEF LiveRow, PhaseIsOfInstance, InstFailed, Terminal
  <2>2. LiveRow(r) => ~Closed
    BY <1>i, <1>n DEF QuietAhead, AllQuiet
  <2>3. QED
    BY <1>n, <2>1, <2>2, PhaseIs DEF PhaseIsOfInstance, PhaseGoes, Onward
<1>5. QED
  BY <1>m, <1>n, <1>1, <1>2, <1>3, <1>4 DEF InstMoves, OnlyTracking

(* A write to one row goes on with its phase.                              *)
LEMMA RowPhase ==
  ASSUME StartUndisturbed, LandedInv, LandedInv', DraftIsStaged, NoFault, Next, NEW r \in Row, WritesOne(r)
  PROVE  PhaseGoes(r)
<1> USE DEF PhaseGoes, Onward
<1>i. /\ CleanInv /\ NoneAdopts /\ JobsLaunch /\ OpenInv /\ OpenInv' /\ NoneStale /\ CancelsInOrder
      /\ TypeInv /\ RowsNoted /\ row \in [Row -> RowItem]
  BY DEF LandedInv, JobsLaunch, NamesInv, CleanInv, TypeInv, TypeOK, TrackInv
<1>c. Closed' = Closed /\ inst' = inst
  BY DEF WritesOne, StatusKept, Closed
<1>m. RowMoves /\ NamesMove
  BY <1>i, RowMoved, NamesMoved
<1>1. CASE row'[r].status = row[r].status
  <2>1. CASE row[r].status = "launched"
    <3>1. /\ \A w \in Worker : ~WritesRow(w, r)
          /\ \A q \in Req : ~PutAnew(q, r)
      BY <1>i, <2>1, SettledRow DEF RowsNoted, Noted
    <3>2. row'[r].inst = row[r].inst
      BY <1>m, <3>1 DEF NamesMove
    <3>3. QED
      BY <1>1, <1>c, <3>2 DEF PhaseOf, LiveRow
  <2>2. CASE row[r].status # "launched"
    BY <1>1, <2>2 DEF PhaseOf
  <2>3. QED
    BY <2>1, <2>2
<1>2. CASE Resolved(r)
  <2>1. CASE InstanceEnded(r) /\ row'[r].status = inst[row[r].inst].status
    <3>1. ~LiveRow(r) /\ row[r].inst # None /\ row[r].status = "launched"
      BY <1>2, <2>1 DEF LiveRow, InstanceEnded, Resolved
    <3>2. inst[row[r].inst].status \in {"completed", "cancelled", "failed"}
      BY <2>1 DEF InstanceEnded, Terminal
    <3>3. CASE inst[row[r].inst].status = "failed"
      BY <2>1, <3>1, <3>3, PhaseIs, PhaseIsNext DEF PhaseIsOfStatus, PhaseIsOfInstance, InstFailed
    <3>4. CASE inst[row[r].inst].status \in {"completed", "cancelled"}
      BY <2>1, <3>1, <3>4, PhaseIs, PhaseIsNext DEF PhaseIsOfStatus, PhaseIsOfInstance, InstFailed
    <3>5. QED
      BY <3>2, <3>3, <3>4
  <2>2. ASSUME row'[r].status = "cancelled", NEW q \in Req, req[q].pc = "row", r \in req[q].todo
        PROVE  PhaseGoes(r)
    <3>1. row[r].inst \in Inst /\ inst[row[r].inst].status = "cancelled" /\ row[r].status = "launched"
      BY <1>i, <1>2, <2>2 DEF CancelsInOrder, Resolved
    <3>2. PhaseOf(r) = "settled" /\ PhaseOf(r)' = "settled"
      BY <2>2, <3>1, PhaseIs, PhaseIsNext DEF PhaseIsOfStatus, PhaseIsOfInstance, InstFailed, LiveRow, Terminal
    <3>3. QED
      BY <3>2
  <2>3. QED
    BY <1>2, <2>1, <2>2 DEF Resolved
<1>3. CASE Claimed(r)
  <2>1. ~Closed'
    BY <1>i, <1>3 DEF Claimed, OpenInv, LaunchingOnlyInOpenRun, Closed
  <2>2. QED
    BY <1>3, <1>c, <2>1, PhaseIs, PhaseIsNext DEF Claimed, PhaseIsOfStatus
<1>4. ASSUME NEW q \in Req, Cancelled(q, r) PROVE PhaseGoes(r)
  BY <1>4, PhaseIs, PhaseIsNext DEF Cancelled, Waiting, PhaseIsOfStatus
<1>5. ASSUME NEW q \in Req, PutAnew(q, r) PROVE PhaseGoes(r)
  <2>1. Kind[q] = "start"
    BY <1>i, <1>5 DEF PutAnew, OpenInv, RoutesInPlace
  <2>2. row[r].status = "staged"
    BY <1>5, <2>1 DEF PutAnew, DraftIsStaged
  <2>3. row'[r].status \in {"staged", "skipped", "queued"}
    BY <1>5, ConstantsAssumption DEF PutAnew
  <2>4. QED
    BY <2>2, <2>3, PhaseIs, PhaseIsNext DEF PhaseIsOfStatus
<1>6. ASSUME NEW w \in Worker, Worked(w, r) PROVE PhaseGoes(r)
  <2>1. wk[w].pc \notin WrittenPc \cup {"idle"}
    BY <1>6 DEF Worked, DonePc, WrittenPc
  <2>2. row[r].status = "launching"
    BY <1>i, <1>6, <2>1, AtLaunching DEF Worked
  <2>3. ~Closed
    BY <1>i, <2>2 DEF OpenInv, LaunchingOnlyInOpenRun, Closed
  <2>4. PhaseOf(r) = "launching"
    BY <2>2, PhaseIs DEF PhaseIsOfStatus
  <2>5. row'[r].status \in {"failed", "skipped", "launched"}
    BY <1>6 DEF Worked
  <2>6. PhaseOf(r)' \in {"live", "failed", "settled"}
    BY <2>5, PhaseIsNext DEF PhaseIsOfStatus, PhaseIsOfInstance
  <2>7. QED
    BY <2>3, <2>4, <2>6
<1>7. ~Swept(r)
  BY <1>i DEF Swept, NoneStale
<1>8. QED
  BY <1>m, <1>1, <1>2, <1>3, <1>4, <1>5, <1>6, <1>7 DEF RowMoves

Phases == [r \in Row |-> PhaseOf(r)]
Stutters == Closed' = Closed /\ Phases' = Phases

(* One row that goes on in an otherwise unmoved run is a step of the       *)
(* lifecycle.                                                              *)
LEMMA RowGoesOn ==
  ASSUME Closed' = Closed, NEW r \in Row, PhaseGoes(r), \A s \in Row : s # r => PhaseStays(s)
  PROVE  Lifecycle!Next \/ Stutters
<1> DEFINE from == PhaseOf(r)
           to   == PhaseOf(r)'
<1>p. Phases' = [Phases EXCEPT ![r] = to] /\ Phases[r] = from
  BY DEF Phases, PhaseStays
<1>m. Lifecycle!Move(r, from, to)
  BY <1>p DEF Lifecycle!Move, Phases
<1>o. Onward(from, to)
  BY DEF PhaseGoes
<1> HIDE DEF from, to
<1>1. CASE to = from
  BY <1>p, <1>1 DEF Stutters, Phases
<1>2. CASE ~Closed /\ from = "waiting" /\ to = "launching"
  <2>1. Lifecycle!Release(r)
    BY <1>m, <1>2 DEF Lifecycle!Release
  <2>2. QED
    BY <2>1 DEF Lifecycle!Next
<1>3. CASE ~Closed /\ from = "launching" /\ to \in {"live", "failed", "settled"}
  <2>1. Lifecycle!Launch(r) \/ Lifecycle!GiveUp(r)
    BY <1>m, <1>3 DEF Lifecycle!Launch, Lifecycle!GiveUp, Lifecycle!Over
  <2>2. QED
    BY <2>1 DEF Lifecycle!Next
<1>4. CASE ~Closed /\ from = "live" /\ to \in {"failed", "settled"}
  <2>1. Lifecycle!End(r)
    BY <1>m, <1>4 DEF Lifecycle!End, Lifecycle!Over
  <2>2. QED
    BY <2>1 DEF Lifecycle!Next
<1>5. CASE from \in {"waiting", "failed"} /\ to = "settled"
  <2>1. Lifecycle!Discard(r) \/ Lifecycle!Overrule(r)
    BY <1>m, <1>5 DEF Lifecycle!Discard, Lifecycle!Overrule
  <2>2. QED
    BY <2>1 DEF Lifecycle!Next
<1>6. QED
  BY <1>o, <1>1, <1>2, <1>3, <1>4, <1>5 DEF Onward

(* No route sets a closed run running or paused again.                     *)
NoReopen == \A q \in Req : Kind[q] \notin {"pause", "resume"}

(* Without a pause or a resume a closed run stays closed.                  *)
LEMMA ClosedStays ==
  ASSUME NoReopen, TypeOK, RoutesInPlace, Next, Closed PROVE Closed'
<1>1. CASE Environment
  BY <1>1, EnvironmentFrame DEF Closed
<1>2. ASSUME NEW d \in Tick, DispatcherStep(d) \/ DispatcherFault(d) PROVE Closed'
  BY <1>2, DispatcherOnRun DEF Closed, RunKept, RunStopped, RunPromoted, RunFinished
<1>3. ASSUME NEW w \in Worker, LauncherStep(w) \/ LauncherFault(w) PROVE Closed'
  BY <1>3, LauncherFrame DEF Closed
<1>4. ASSUME NEW q \in Req, Load(q) \/ RequestProceeds(q) PROVE Closed'
  BY <1>4, RequestOnRun DEF Closed, RouteKept, RouteRuns, RoutePauses, RouteClaims, RouteCloses, NoReopen, RoutesInPlace
<1>5. QED
  BY <1>1, <1>2, <1>3, <1>4 DEF Next

(* A run that closes has no row launching or live.                         *)
LEMMA ClosesQuiet ==
  ASSUME LandedInv, Next, ~Closed, Closed'
  PROVE  \A r \in Row : PhaseOf(r) \in {"failed", "settled", "waiting"}
<1>i. TypeOK /\ OpenInv /\ QuietAhead
  BY DEF LandedInv, CleanInv, TypeInv
<1>1. NoneLaunching /\ AllQuiet
  <2>1. \/ run.status = "queued"
        \/ \E d \in Tick : tick[d].pc = "complete"
        \/ \E q \in Req : req[q].pc = "close"
    BY <1>i, RunMoved
  <2>2. ASSUME run.status = "queued" PROVE NoneLaunching /\ AllQuiet
    BY <1>i, <2>2 DEF OpenInv, LaunchingOnlyInOpenRun, NoneLaunching, QuietAhead, LaunchedIn, AllQuiet
  <2>3. ASSUME (\E d \in Tick : tick[d].pc = "complete") \/ \E q \in Req : req[q].pc = "close"
        PROVE  AllReleased /\ AllQuiet
    BY <1>i, <2>3 DEF QuietAhead, OpenInv, NothingLeft
  <2>4. QED
    BY <2>1, <2>2, <2>3 DEF AllReleased, NoneLaunching
<1>2. ASSUME NEW r \in Row PROVE PhaseOf(r) \in {"failed", "settled", "waiting"}
  <2>1. row[r].status \in {"staged", "queued", "launched", "completed", "failed", "cancelled", "skipped"}
    BY <1>i, <1>1 DEF TypeOK, RowItem, RowStatus, NoneLaunching
  <2>2. QED
    BY <1>1, <2>1, PhaseIs DEF AllQuiet, PhaseIsOfStatus, PhaseIsOfInstance
<1>3. QED
  BY <1>2

(* Every step is a step of the lifecycle or none.                          *)
LEMMA LifecycleStep ==
  ASSUME StartUndisturbed, LaunchesLand, NoReopen, LandedInv, LandedInv', DraftIsStaged, Next
  PROVE  Lifecycle!Next \/ Stutters
<1>n. NoFault
  BY LandsClean
<1>i. /\ CleanInv /\ TypeInv /\ TypeOK /\ RoutesInPlace /\ NamesDiffer /\ RowsNoted
      /\ inst \in [Inst -> InstItem]
  BY DEF LandedInv, CleanInv, TypeInv, TypeOK, OpenInv, NamesInv, TrackInv
<1>w. OneWrite
  BY <1>i, OneWritten
<1>1. CASE WritesNone
  <2>1. \A r \in Row : PhaseStays(r)
    BY <1>1, UnwrittenPhase DEF WritesNone
  <2>2. Phases' = Phases
    BY <2>1 DEF Phases, PhaseStays
  <2>3. CASE Closed' = Closed
    BY <2>2, <2>3 DEF Stutters
  <2>4. CASE ~Closed /\ Closed'
    <3>1. \A r \in Row : PhaseOf(r) \in {"failed", "settled", "waiting"}
      BY <2>4, ClosesQuiet
    <3>2. Lifecycle!Close
      BY <2>2, <2>4, <3>1 DEF Lifecycle!Close, Lifecycle!Over, Phases
    <3>3. QED
      BY <3>2 DEF Lifecycle!Next
  <2>5. QED
    BY <1>i, <2>3, <2>4, ClosedStays DEF Closed
<1>2. CASE WritesSome
  <2>1. PICK R \in SUBSET Row : ResolveRows(R)
    BY <1>2 DEF WritesSome
  <2>2. \A r \in Row : PhaseStays(r)
    BY <1>i, <1>2, <2>1, ResolvedPhase DEF WritesSome
  <2>3. QED
    BY <1>2, <2>2 DEF Stutters, Phases, PhaseStays, WritesSome, StatusKept, Closed
<1>3. ASSUME NEW i \in Inst, WritesInst(i) PROVE Lifecycle!Next \/ Stutters
  <2>0. Closed' = Closed /\ row' = row
    BY <1>3 DEF WritesInst, StatusKept, Closed
  <2>1. ASSUME NEW r \in Row, ~Names(r, i) PROVE PhaseStays(r)
    <3>1. row[r].status = "launched" => row[r].inst \in Inst /\ row[r].inst # i
      BY <1>i, <2>1 DEF RowsNoted, Noted, Names
    <3>2. QED
      BY <1>3, <3>1, UnwrittenPhase DEF WritesInst
  <2>2. CASE \E r \in Row : Names(r, i)
    <3>1. PICK r \in Row : Names(r, i)
      BY <2>2
    <3>2. PhaseGoes(r)
      BY <1>n, <1>3, <3>1, InstancePhase
    <3>3. \A s \in Row : s # r => PhaseStays(s)
      BY <1>i, <2>1, <3>1 DEF NamesDiffer
    <3>4. QED
      BY <2>0, <3>2, <3>3, RowGoesOn
  <2>3. CASE \A r \in Row : ~Names(r, i)
    BY <2>0, <2>1, <2>3 DEF Stutters, Phases, PhaseStays
  <2>4. QED
    BY <2>2, <2>3
<1>4. ASSUME NEW r \in Row, WritesOne(r) PROVE Lifecycle!Next \/ Stutters
  <2>1. Closed' = Closed
    BY <1>4 DEF WritesOne, StatusKept, Closed
  <2>2. PhaseGoes(r)
    BY <1>n, <1>4, RowPhase
  <2>3. \A s \in Row : s # r => PhaseStays(s)
    BY <1>4, UnwrittenPhase DEF WritesOne
  <2>4. QED
    BY <2>1, <2>2, <2>3, RowGoesOn
<1>5. QED
  BY <1>w, <1>1, <1>2, <1>3, <1>4 DEF OneWrite

(* The run implements BulkLifecycle: whatever passes, workers and cancels  *)
(* do together, and wherever passes crash, no row is launched twice or     *)
(* after it has settled, no run closes over a row that is being launched   *)
(* or runs, and nothing moves in a closed run but a row still waiting -    *)
(* provided launches land, no other request touches a draft that is being  *)
(* started, and no pause or resume overtakes the close.                    *)
THEOREM RunImplementsLifecycle ==
  StartUndisturbed /\ LaunchesLand /\ NoReopen => (Spec => RunLifecycle)
<1> SUFFICES ASSUME StartUndisturbed, LaunchesLand, NoReopen PROVE Spec => RunLifecycle
  OBVIOUS
<1> DEFINE Inv == LandedInv /\ DraftIsStaged
<1>s. StartAlone /\ OneStart
  BY DEF StartUndisturbed, StartAlone, OneStart, IsCancel
<1>1. Init => Inv
  <2> SUFFICES ASSUME Init PROVE DraftIsStaged
    BY LandedInit
  <2>1. run.status = "draft" => \A r \in Row : row[r].status = "staged"
    BY DEF Init
  <2>2. \A q \in Req : req[q].pc = "idle"
    BY DEF Init, IdleReq
  <2>3. QED
    BY <2>1, <2>2 DEF DraftIsStaged
<1>2. Inv /\ [Next]_vars => Inv'
  <2> SUFFICES ASSUME Inv, [Next]_vars PROVE Inv'
    OBVIOUS
  <2>1. LandedInv'
    BY <1>s, LandedStep
  <2>2. CASE Next
    BY <2>1, <2>2, DraftKept DEF LandedInv, CleanInv
  <2>3. CASE UNCHANGED vars
    BY <2>1, <2>3 DEF vars, DraftIsStaged
  <2>4. QED
    BY <2>2, <2>3
<1>3. Init => Lifecycle!Init
  <2> SUFFICES ASSUME Init PROVE Lifecycle!Init
    OBVIOUS
  <2>1. \A r \in Row : row[r].status \in {"staged", "skipped", "queued"}
    BY ConstantsAssumption DEF Init
  <2>2. \A r \in Row : PhaseOf(r) \in {"waiting", "settled"}
    BY <2>1, PhaseIs DEF PhaseIsOfStatus
  <2>3. Phases \in [Row -> Lifecycle!Phase]
    BY <2>2 DEF Phases, Lifecycle!Phase
  <2>4. (~Closed) \in BOOLEAN
    BY DEF Closed
  <2>5. QED
    BY <2>3, <2>4 DEF Lifecycle!Init, Phases
<1>4. Inv /\ Inv' /\ [Next]_vars => [Lifecycle!Next]_<<~Closed, [r \in Row |-> PhaseOf(r)]>>
  <2> SUFFICES ASSUME Inv, Inv', [Next]_vars PROVE Lifecycle!Next \/ Stutters
    BY DEF Stutters, Phases
  <2>1. CASE Next
    BY <2>1, LifecycleStep
  <2>2. CASE UNCHANGED vars
    BY <2>2 DEF vars, Stutters, Phases, Closed, PhaseOf, LiveRow
  <2>3. QED
    BY <2>1, <2>2
<1>5. QED
  BY <1>1, <1>2, <1>3, <1>4, PTL DEF Spec, RunLifecycle, Lifecycle!Spec

(* A launching row is in somebody's hands.  What may interrupt a pass      *)
(* between the claim of a row and the send of its job, or a worker between *)
(* the end of its ladder and that of the row, is excluded: only the sweep  *)
(* helps the row then.                                                     *)
CarriersLand == {"dispatchError", "tickCrash", "workerCrash", "finalError"} \cap FaultKind = {}
PassesGoOn   == \A d \in Tick : ~DispatcherFault(d)

(* What may belong to a row: the instance it names, those of its jobs and  *)
(* of the workers at them, and the ones a sweep or a cancel has read.      *)
Held(w, r)    == wk[w].pc # "idle" /\ JobOf(w).row = r
OwnsRow(r, i)   == row[r].inst = i
OwnsJob(r, i)   == \E m \in Msg : msg[m].state # "none" /\ msg[m].job.row = r /\ msg[m].job.inst = i
OwnsWork(r, i)  == \E w \in Worker : Held(w, r) /\ wk[w].inst = i
OwnsSweep(r, i) ==
  \E d \in Tick : tick[d].pc \in {"sweep", "resolve"} /\ r \in tick[d].todo /\ tick[d].ref[r] = i
OwnsStop(r, i)  ==
  \E q \in Req : req[q].pc \in {"maestro", "inst"} /\ r \in req[q].todo /\ req[q].inst = i
Owns(r, i) == OwnsRow(r, i) \/ OwnsJob(r, i) \/ OwnsWork(r, i) \/ OwnsSweep(r, i) \/ OwnsStop(r, i)

(* The name of a row's instance is written by the start route, which       *)
(* erases it, and by a worker at a job of the row.                         *)
NamesGrow ==
  \A r \in Row :
    \/ row'[r].inst = row[r].inst
    \/ row'[r].inst = None /\ row'[r].status # "launching"
    \/ \E w \in Worker :
         /\ Held(w, r)
         /\ \/ row'[r].inst = JobOf(w).inst /\ row'[r].status # "launching"
            \/ row'[r].inst = wk[w].inst /\ (row'[r].status = "launching" => ReferenceTracking(w))

(* So it is at every step.                                                 *)
LEMMA NamesGrown == ASSUME TypeInv, Next PROVE NamesGrow
<1>t. /\ TypeOK /\ row \in [Row -> RowItem] /\ wk \in [Worker -> WorkerState]
  BY DEF TypeInv, TypeOK
<1>1. CASE \A r \in Row : row'[r].inst = row[r].inst
  BY <1>1 DEF NamesGrow
<1>2. ASSUME NEW R, ResolveRows(R) PROVE NamesGrow
  BY <1>t, <1>1, <1>2 DEF ResolveRows, RowItem
<1>3. ASSUME NEW s \in Row, NEW v, row' = [row EXCEPT ![s].status = v] PROVE NamesGrow
  BY <1>t, <1>1, <1>3 DEF RowItem
<1>4. CASE Environment
  <2>1. ASSUME NEW r \in Row, Age(r) PROVE NamesGrow
    BY <1>t, <1>1, <2>1 DEF Age, RowItem
  <2>2. CASE ViewRows
    BY <2>2, <1>2 DEF ViewRows
  <2>3. QED
    BY <1>1, <1>4, <2>1, <2>2 DEF Environment, ReleaseTimeComes, Reappear, ReappearEarly, WorkflowEnds, SyncInstance
<1>5. ASSUME NEW d \in Tick, DispatcherStep(d) \/ DispatcherFault(d) PROVE NamesGrow
  <2>0. tick[d].todo \subseteq Row
    BY <1>t DEF TypeOK, TickState
  <2>1. CASE ClaimRow(d)
    BY <1>t, <1>1, <2>0, <2>1 DEF ClaimRow, RowItem
  <2>2. CASE CheckInstances(d)
    BY <2>2, <1>2 DEF CheckInstances
  <2>3. CASE SweepRow(d)
    BY <1>3, <2>0, <2>3 DEF SweepRow, SetRow
  <2>4. QED
    BY <1>1, <1>5, <2>1, <2>2, <2>3 DEF DispatcherStep, DispatcherFault, ScanRunning, StopRun, QueryQueuedRows,
       ClaimLost, SendJob, AdvanceRelease, CheckRows, CompleteRun, PromoteRun,
       QueryLaunching, SweepLost, ResolveTracking, SweepDone, DispatchFails, TickCrashes
<1>6. ASSUME NEW w \in Worker, LauncherStep(w) \/ LauncherFault(w) PROVE NamesGrow
  <2> DEFINE r == JobOf(w).row
  <2>j. wk[w].pc # "idle" => r \in Row
    BY <1>t DEF TypeInv, BusyHoldsMessage, TypeOK, Message, Job, JobOf
  <2>h. ASSUME wk[w].pc # "idle", \A s \in Row : s # r => row'[s] = row[s],
               \/ row'[r].inst = row[r].inst
               \/ row'[r].inst = JobOf(w).inst /\ row'[r].status # "launching"
               \/ row'[r].inst = wk[w].inst /\ (row'[r].status = "launching" => ReferenceTracking(w))
        PROVE  NamesGrow
    <3>1. ASSUME NEW s \in Row, s = r
          PROVE  \/ row'[s].inst = row[s].inst
                 \/ \E v \in Worker :
                      /\ Held(v, s)
                      /\ \/ row'[s].inst = JobOf(v).inst /\ row'[s].status # "launching"
                         \/ row'[s].inst = wk[v].inst /\ (row'[s].status = "launching" => ReferenceTracking(v))
      BY <2>h, <3>1 DEF Held
    <3>2. QED
      BY <2>h, <3>1 DEF NamesGrow
  <2>1. CASE GateDenies(w)
    <3>1. wk[w].pc = "launch"
      BY <2>1 DEF GateDenies, Step
    <3>2. QED
      BY <1>3, <2>1, <2>j, <3>1 DEF GateDenies, SetRow, r
  <2>2. CASE RecordLaunch(w) \/ AdoptLaunch(w)
    <3>1. wk[w].pc # "idle"
      BY <2>2 DEF RecordLaunch, AdoptLaunch, Step
    <3>2. RecordOn(w) /\ r \in Row
      BY <2>2, <2>j, <3>1 DEF RecordLaunch, AdoptLaunch
    <3>3. /\ row'[r].inst = wk[w].inst /\ row'[r].status = "launched"
          /\ \A s \in Row : s # r => row'[s] = row[s]
      BY <1>t, <3>2 DEF RecordOn, RowItem, r
    <3> HIDE DEF r
    <3>4. QED
      BY <2>h, <3>1, <3>3
  <2>3. CASE FailRow(w)
    <3>1. wk[w].pc # "idle"
      BY <2>3 DEF FailRow, Step
    <3>2. /\ row'[r].status = "failed" /\ \A s \in Row : s # r => row'[s] = row[s]
          /\ row'[r].inst \in {row[r].inst, JobOf(w).inst}
      BY <1>t, <2>3, <2>j, <3>1 DEF FailRow, FailedRow, RowItem, r
    <3> HIDE DEF r
    <3>3. QED
      BY <2>h, <3>1, <3>2
  <2>4. CASE ReferenceTracking(w)
    <3>1. wk[w].pc # "idle"
      BY <2>4 DEF ReferenceTracking, Step
    <3>2. /\ row'[r].inst \in {row[r].inst, wk[w].inst} /\ \A s \in Row : s # r => row'[s] = row[s]
      BY <1>t, <2>4, <2>j, <3>1 DEF ReferenceTracking, RowItem, r
    <3> HIDE DEF r
    <3>3. QED
      BY <2>4, <2>h, <3>1, <3>2
  <2>5. CASE row' = row
    BY <1>1, <2>5
  <2>6. QED
    BY <1>6, <2>1, <2>2, <2>3, <2>4, <2>5 DEF LauncherStep, LauncherFault,
       Receive, EnqueueRetry, LaunchSucceeds, PersistNew, TrackNew, RetryGuard,
       DenyInstance, LaunchFailsRetryably, LaunchRejected, PersistRetry,
       RecordRefused, ReadRun, AdoptRefused, UndoLaunch, UndoInstance, TrackAgain,
       FailInstance, FailRowAgain, Ack, ReplyLost, UndoRejected, TryFails,
       FinalFails, WorkerCrashes, ResetStreak, CountFailure
<1>7. ASSUME NEW q \in Req, Load(q) \/ RequestProceeds(q) PROVE NamesGrow
  <2>0. req[q].todo \subseteq Row
    BY <1>t DEF TypeOK, ReqState
  <2>1. CASE PutRow(q)
    <3>1. PICK r \in req[q].todo : row' = [row EXCEPT ![r] = [status |-> Plan[r], inst |-> None, stale |-> FALSE]]
      BY <2>1 DEF PutRow
    <3>2. r \in Row /\ Plan[r] # "launching"
      BY <2>0, ConstantsAssumption
    <3>3. QED
      BY <1>t, <3>1, <3>2 DEF NamesGrow
  <2>2. CASE CancelWaitingRow(q)
    BY <1>1, <1>3, <2>0, <2>2 DEF CancelWaitingRow
  <2>3. CASE CancelLaunchedRow(q)
    BY <1>1, <1>3, <2>0, <2>3 DEF CancelLaunchedRow
  <2>4. CASE ResolveLive(q) \/ RecheckInstances(q)
    BY <1>2, <2>4 DEF ResolveLive, RecheckInstances
  <2>5. QED
    BY <1>1, <1>7, <2>1, <2>2, <2>3, <2>4 DEF Load, RequestProceeds, StartRun, PauseRun, ResumeRun, ClaimQueued, OnlyReq,
       ReadRows, PickLiveRow, NoLiveRowLeft, RowRequest, PickWaitingRow, PickLaunchedRow,
       RowRefused, CancelAtMaestro, CancelLocally, Reread, CloseRun
<1>8. QED
  BY <1>4, <1>5, <1>6, <1>7 DEF Next

(* Where a worker has found its row beyond the launch, or put it there;    *)
(* and where it is still at the launch, or at the end of its ladder.       *)
PastPc == {"denyInst", "readRun", "adopt", "undo", "undoInst", "reset", "stats", "count"}
AtItPc == {"launch", "persist", "record", "track", "reference", "enqueue", "failInst", "failRow"}

(* What a worker that is at a job does: the instance in its hands is the   *)
(* one it had, that of its job, or a new one; it leaves the launch when    *)
(* its row is no longer launching, and only the enqueue ends its ladder    *)
(* otherwise.                                                              *)
KeepsName(w) ==
  \/ wk'[w].inst \in {None, wk[w].inst, JobOf(w).inst}
  \/ \E i \in Inst : (PersistNew(w, i) \/ TrackNew(w, i)) /\ wk'[w].inst = i
RowLeft(w) == row'[JobOf(w).row].status # "launching"
Goes(w) ==
  /\ KeepsName(w)
  /\ wk'[w].pc # "guard"
  /\ wk'[w].pc \in PastPc => wk[w].pc \in PastPc \/ RowLeft(w)
  /\ wk[w].pc \in AtItPc => \/ wk'[w].pc \in AtItPc /\ wk[w].pc # "enqueue"
                            \/ \E n \in Msg : EnqueueRetry(w, n)
                            \/ RowLeft(w)

(* So it is at every step of a worker at a job.                            *)
LEMMA WorkerGoes ==
  ASSUME NothingDropped, TypeInv, NEW w \in Worker, LauncherStep(w) \/ LauncherFault(w), wk[w].pc # "idle"
  PROVE  Goes(w)
<1>t. /\ TypeOK /\ wk \in [Worker -> WorkerState] /\ wk[w] \in WorkerState /\ row \in [Row -> RowItem]
      /\ JobOf(w).row \in Row
  BY DEF TypeInv, BusyHoldsMessage, TypeOK, Message, Job, JobOf
<1>k. ASSUME NEW f, NEW p, Step(w, f, p)
      PROVE  wk[w].pc = f /\ wk'[w].pc = p /\ wk'[w].inst = wk[w].inst
  BY <1>t, <1>k DEF Step, SetWorker, WorkerState
<1>h. ASSUME NEW f, NEW p, Step(w, f, p), p # "guard",
             p \in PastPc => f \in PastPc \/ RowLeft(w),
             f \in AtItPc => (p \in AtItPc /\ f # "enqueue") \/ RowLeft(w)
      PROVE  Goes(w)
  BY <1>k, <1>h DEF Goes, KeepsName
<1>1. ASSUME NEW m \in Msg, EnqueueRetry(w, m) PROVE Goes(w)
  <2>1. Step(w, "enqueue", "ack")
    BY <1>1 DEF EnqueueRetry
  <2>2. QED
    BY <1>1, <1>k, <2>1 DEF Goes, KeepsName, PastPc
<1>2. ASSUME NEW k \in Mid, LaunchSucceeds(w, k) PROVE Goes(w)
  <2>1. wk[w].pc = "launch" /\ wk'[w].pc = "persist" /\ wk'[w].inst = wk[w].inst
    BY <1>t, <1>2 DEF LaunchSucceeds, SetWorker, WorkerState
  <2>2. QED
    BY <2>1 DEF Goes, KeepsName, PastPc, AtItPc
<1>3. ASSUME NEW i \in Inst, PersistNew(w, i) \/ TrackNew(w, i) PROVE Goes(w)
  <2>1. /\ wk[w].pc \in {"persist", "track"} /\ wk'[w].pc \in {"record", "reference"} /\ wk'[w].inst = i
    BY <1>t, <1>3 DEF PersistNew, TrackNew, SetWorker, WorkerState
  <2>2. KeepsName(w)
    BY <1>3, <2>1 DEF KeepsName
  <2>3. QED
    BY <2>1, <2>2 DEF Goes, PastPc, AtItPc
<1>4. CASE PersistRetry(w) \/ TrackAgain(w)
  <2>1. /\ wk[w].pc \in {"persist", "track"} /\ wk'[w].pc \in {"record", "reference"} /\ wk'[w].inst = JobOf(w).inst
    BY <1>t, <1>4 DEF PersistRetry, TrackAgain, SetWorker, WorkerState
  <2>2. QED
    BY <2>1 DEF Goes, KeepsName, PastPc, AtItPc
<1>5. CASE TryFails(w)
  <2>1. RetryOrFail(w) \in {"track", "failInst", "failRow"}
    BY DEF RetryOrFail, FinalPc
  <2>2. wk[w].pc # "enqueue" /\ wk'[w].pc = RetryOrFail(w) /\ wk'[w].inst = None
    BY <1>t, <1>5 DEF TryFails, TryPc, SetWorker, WorkerState
  <2>3. QED
    BY <2>1, <2>2 DEF Goes, KeepsName, PastPc, AtItPc
<1>6. CASE RetryGuard(w)
  <2>1. PICK p \in {"ack", "launch"} : Step(w, "guard", p)
    BY <1>6 DEF RetryGuard
  <2>2. QED
    BY <1>h, <2>1 DEF PastPc, AtItPc
<1>7. CASE GateDenies(w)
  <2>1. PICK p \in {"denyInst", "ack"} : Step(w, "launch", p)
    BY <1>7 DEF GateDenies
  <2>2. RowLeft(w)
    BY <1>t, <1>7 DEF GateDenies, SetRow, RowItem, RowLeft
  <2>3. QED
    BY <1>h, <2>1, <2>2
<1>8. CASE LaunchFailsRetryably(w) \/ LaunchRejected(w) \/ \E k \in Mid : ReplyLost(w, k)
  <2>1. PICK p \in {"track", "failInst", "failRow"} : Step(w, "launch", p)
    BY <1>8 DEF LaunchFailsRetryably, LaunchRejected, ReplyLost, RetryOrFail, FinalPc
  <2>2. QED
    BY <1>h, <2>1 DEF PastPc, AtItPc
<1>9. CASE RecordLaunch(w) \/ RecordRefused(w)
  <2>1. PICK p \in {"reset", "readRun"} : Step(w, "record", p)
    BY <1>9 DEF RecordLaunch, RecordRefused
  <2>2. RowLeft(w)
    <3>1. CASE RecordLaunch(w)
      <4>1. RecordOn(w)
        BY <3>1 DEF RecordLaunch
      <4>2. row'[JobOf(w).row].status = "launched"
        BY <1>t, <4>1 DEF RecordOn, RowItem
      <4>3. QED
        BY <4>2 DEF RowLeft
    <3>2. CASE RecordRefused(w)
      BY <3>2 DEF RecordRefused, RowLeft
    <3>3. QED
      BY <1>9, <3>1, <3>2
  <2>3. QED
    BY <1>h, <2>1, <2>2
<1>10. CASE \/ ReadRun(w) \/ AdoptLaunch(w) \/ AdoptRefused(w) \/ UndoLaunch(w) \/ UndoRejected(w)
            \/ UndoInstance(w) \/ ResetStreak(w)
  <2>1. PICK f \in {"readRun", "adopt", "undo", "undoInst", "reset"}, p \in {"adopt", "reset", "undo", "undoInst", "stats"} :
          Step(w, f, p)
    BY <1>10 DEF ReadRun, AdoptLaunch, AdoptRefused, UndoLaunch, UndoRejected, UndoInstance, ResetStreak
  <2>2. QED
    BY <1>h, <2>1 DEF PastPc, AtItPc
<1>11. CASE ReferenceTracking(w) \/ FailInstance(w)
  <2>1. Step(w, "reference", "enqueue") \/ Step(w, "failInst", "failRow")
    BY <1>11 DEF ReferenceTracking, FailInstance
  <2>2. QED
    BY <1>h, <2>1 DEF PastPc, AtItPc
<1>12. CASE FailRow(w) \/ FailRowAgain(w)
  <2>1. PICK p \in {"count", "ack"} : Step(w, "failRow", p)
    BY <1>12 DEF FailRow, FailRowAgain
  <2>2. RowLeft(w)
    BY <1>t, <1>12 DEF FailRow, FailRowAgain, FailedRow, NotYetFailed, RowItem, RowLeft
  <2>3. QED
    BY <1>h, <2>1, <2>2
<1>13. CASE CountFailure(w) \/ DenyInstance(w)
  <2>1. PICK f \in {"count", "denyInst"} : Step(w, f, "ack")
    BY <1>13 DEF CountFailure, DenyInstance
  <2>2. QED
    BY <1>h, <2>1 DEF PastPc, AtItPc
<1>14. CASE Ack(w)
  <2>1. wk[w].pc \in {"stats", "ack"} /\ wk'[w] = IdleWorker
    BY <1>t, <1>14 DEF Ack, SetWorker
  <2>2. QED
    BY <2>1 DEF IdleWorker, Goes, KeepsName, PastPc, AtItPc
<1>15. ASSUME NEW m \in Msg, Receive(w, m) PROVE FALSE
  BY <1>15 DEF Receive
<1>16. ~FinalFails(w) /\ ~WorkerCrashes(w)
  BY DEF NothingDropped
<1>17. QED
  BY <1>1, <1>2, <1>3, <1>4, <1>5, <1>6, <1>7, <1>8, <1>9, <1>10, <1>11, <1>12, <1>13, <1>14, <1>15, <1>16
     DEF LauncherStep, LauncherFault

(* A worker that takes up a job holds no instance, and goes to the retry   *)
(* guard with a retry only.                                                *)
LEMMA WorkerBegins ==
  ASSUME TypeInv, NEW w \in Worker, NEW m \in Msg, Receive(w, m)
  PROVE  /\ wk[w].pc = "idle" /\ wk'[w].pc \in {"guard", "launch"} /\ wk'[w].inst = None /\ wk'[w].msg = m
         /\ wk'[w].pc = "guard" => msg[m].job.inst # None
         /\ msg[m].state = "visible" /\ row' = row /\ inst' = inst
BY DEF TypeInv, TypeOK, Receive, SetWorker, IdleWorker, WorkerState

(* What is sent anew is a release or a retry.                              *)
LEMMA SentAnew ==
  ASSUME TypeInv, HeldIsSent, Next, NEW m \in Msg, msg[m].state = "none", msg'[m].state # "none"
  PROVE  (\E d \in Tick, r \in Row : Released(d, r, m)) \/ \E w \in Worker : Retried(w, m)
<1> DEFINE Anew == (\E d \in Tick, r \in Row : Released(d, r, m)) \/ \E w \in Worker : Retried(w, m)
<1>t. TypeOK /\ msg \in [Msg -> Message]
  BY DEF TypeInv, TypeOK
<1>1. msg' # msg
  OBVIOUS
<1>2. ASSUME NEW d \in Tick, SendJob(d) PROVE Anew
  <2>1. PICK r \in tick[d].todo, n \in Msg :
          /\ tick[d].pc = "send" /\ IsFirst(r, tick[d].todo)
          /\ Send(n, [row |-> r, attempt |-> 0, inst |-> None])
          /\ hist' = [hist EXCEPT !.released[r] = @ + 1]
    BY <1>2 DEF SendJob
  <2>2. r \in Row /\ Sending(d, r)
    BY <1>t, <2>1 DEF TypeOK, TickState, Sending
  <2>3. hist'.released[r] # 0
    BY <1>t, <2>1, <2>2 DEF TypeOK, History
  <2>4. wk' = wk /\ row' = row
    BY <1>2 DEF SendJob, TickUnchanged
  <2>5. /\ FreshMsg(n)
        /\ msg'[n] = [state |-> "visible", job |-> [row |-> r, attempt |-> 0, inst |-> None]]
        /\ \A k \in Msg : k # n => msg'[k] = msg[k]
    BY <1>t, <2>1 DEF Send
  <2>6. Released(d, r, m)
    BY <2>2, <2>3, <2>4, <2>5 DEF Released
  <2>7. QED
    BY <2>2, <2>6
<1>3. ASSUME NEW w \in Worker, NEW n \in Msg, EnqueueRetry(w, n) PROVE Anew
  <2> DEFINE job == NextAttempt(w)
  <2>1. Send(n, job)
    BY <1>3 DEF EnqueueRetry
  <2> HIDE DEF job
  <2>2. /\ FreshMsg(n) /\ msg'[n].state = "visible" /\ msg'[n].job = job
        /\ \A k \in Msg : k # n => msg'[k] = msg[k]
    BY <1>t, <2>1 DEF Send
  <2>3. Retried(w, m)
    BY <1>3, <2>2 DEF Retried, job
  <2>4. QED
    BY <2>3
<1>4. ASSUME NEW n, NEW s, msg[n].state # "none", msg' = [msg EXCEPT ![n].state = s] PROVE FALSE
  BY <1>t, <1>4 DEF Message
<1>5. ASSUME NEW w \in Worker, Ack(w) PROVE FALSE
  BY <1>4, <1>5 DEF Ack, HeldIsSent
<1> HIDE DEF Anew
<1>6. ASSUME Environment PROVE Anew
  <2>1. ASSUME NEW n \in Msg, Reappear(n) \/ ReappearEarly(n) PROVE FALSE
    BY <1>4, <2>1 DEF Reappear, ReappearEarly
  <2>2. QED
    BY <1>1, <1>6, <2>1 DEF Environment, ReleaseTimeComes, Age, WorkflowEnds, SyncInstance, ViewRows
<1>7. ASSUME NEW d \in Tick, DispatcherStep(d) \/ DispatcherFault(d) PROVE Anew
  BY <1>7, <1>1, <1>2 DEF DispatcherStep, DispatcherFault, ScanRunning, StopRun, QueryQueuedRows, ClaimRow,
     ClaimLost, AdvanceRelease, CheckRows, CheckInstances, CompleteRun, PromoteRun,
     QueryLaunching, SweepRow, SweepLost, ResolveTracking, SweepDone, DispatchFails, TickCrashes
<1>8. ASSUME NEW w \in Worker, LauncherStep(w) \/ LauncherFault(w) PROVE Anew
  <2>1. ASSUME NEW n \in Msg, Receive(w, n) PROVE FALSE
    BY <1>4, <2>1 DEF Receive
  <2>2. QED
    BY <1>8, <1>1, <1>3, <1>5, <2>1 DEF LauncherStep, LauncherFault, LaunchSucceeds, PersistNew, TrackNew, RetryGuard,
     DenyInstance, LaunchFailsRetryably, LaunchRejected, PersistRetry,
     RecordRefused, ReadRun, AdoptRefused, UndoLaunch, UndoInstance, TrackAgain,
     FailInstance, FailRowAgain, ReplyLost, UndoRejected, TryFails,
     FinalFails, WorkerCrashes, GateDenies, RecordLaunch, AdoptLaunch,
     ResetStreak, ReferenceTracking, FailRow, CountFailure
<1>9. ASSUME NEW q \in Req, Load(q) \/ RequestProceeds(q) PROVE Anew
  BY <1>9, <1>1 DEF Load, RequestProceeds, RowRequest, OnlyReq, ReqUnchanged, PutRow, StartRun, PauseRun, ResumeRun,
     ClaimQueued, ReadRows, CancelWaitingRow, ResolveLive, PickLiveRow, NoLiveRowLeft, PickWaitingRow,
     PickLaunchedRow, RowRefused, CancelAtMaestro, CancelLocally, CancelLaunchedRow, Reread, RecheckInstances, CloseRun
<1>10. Anew
  BY <1>6, <1>7, <1>8, <1>9 DEF Next
<1>11. QED
  BY <1>10 DEF Anew

(* The row a sweep has failed and is to cancel the tracking instance of.   *)
Sweeping(d, r) == tick[d].pc = "resolve" /\ IsFirst(r, tick[d].todo)

(* What ends a running instance that has no Maestro id: the sweep of its   *)
(* row, the worker of its job, or a cancel.                                *)
Ends(i) ==
  \/ \E d \in Tick, r \in Row : Sweeping(d, r) /\ tick[d].ref[r] = i
  \/ \E w \in Worker : \/ wk[w].pc = "denyInst" /\ JobOf(w).inst = i
                       \/ FailInstance(w) /\ JobOf(w).inst = i
                       \/ Undone(w, i)
  \/ \E q \in Req : Stopped(q, i)

(* So it is at every step.                                                 *)
LEMMA InstEnds ==
  ASSUME TypeInv, Next, NEW i \in Inst, inst[i].status = "running", inst'[i].status # "running"
  PROVE  inst[i].mid # None \/ Ends(i)
<1> DEFINE Goal == inst[i].mid # None \/ Ends(i)
<1>t. TypeOK /\ inst \in [Inst -> InstItem]
  BY DEF TypeInv, TypeOK
<1>0. inst' # inst
  OBVIOUS
<1>1. ASSUME NEW j, NEW s, SetInst(j, s) PROVE j = i
  BY <1>t, <1>1 DEF SetInst, InstItem
<1> HIDE DEF Goal
<1>2. ASSUME Environment PROVE Goal
  <2>1. ASSUME NEW j \in Inst, SyncInstance(j) PROVE Goal
    BY <1>1, <2>1 DEF SyncInstance, Goal
  <2>2. QED
    BY <1>0, <1>2, <2>1 DEF Environment, ReleaseTimeComes, Age, Reappear, ReappearEarly, WorkflowEnds, ViewRows, others
<1>3. ASSUME NEW d \in Tick, DispatcherStep(d) \/ DispatcherFault(d) PROVE Goal
  <2>1. CASE ResolveTracking(d)
    <3>1. PICK r \in tick[d].todo :
            /\ tick[d].pc = "resolve" /\ IsFirst(r, tick[d].todo)
            /\ LET j == tick[d].ref[r] IN IF OnlyTracking(j) THEN SetInst(j, "cancelled") ELSE UNCHANGED inst
      BY <2>1 DEF ResolveTracking
    <3>2. tick[d].ref[r] = i /\ r \in Row
      BY <1>0, <1>1, <1>t, <3>1 DEF TypeOK, TickState
    <3>3. QED
      BY <3>1, <3>2 DEF Goal, Ends, Sweeping
  <2>2. QED
    BY <1>0, <1>3, <2>1 DEF DispatcherStep, DispatcherFault, ScanRunning, StopRun, QueryQueuedRows, ClaimRow, SendJob,
     ClaimLost, AdvanceRelease, CheckRows, CheckInstances, CompleteRun, PromoteRun,
     QueryLaunching, SweepRow, SweepLost, SweepDone, DispatchFails, TickCrashes, TickUnchanged
<1>4. ASSUME NEW w \in Worker, LauncherStep(w) \/ LauncherFault(w) PROVE Goal
  <2>1. CASE DenyInstance(w)
    BY <1>0, <1>1, <2>1 DEF DenyInstance, Step, Goal, Ends
  <2>2. CASE FailInstance(w)
    <3>1. JobOf(w).inst = i
      BY <1>1, <2>2 DEF FailInstance
    <3>2. QED
      BY <2>2, <3>1 DEF Goal, Ends
  <2>3. CASE UndoInstance(w)
    <3>1. Undone(w, i)
      BY <1>1, <2>3 DEF UndoInstance, Step, Undone
    <3>2. QED
      BY <3>1 DEF Goal, Ends
  <2>4. ASSUME NEW j, NEW v, v.status = "running", inst' = [inst EXCEPT ![j] = v] PROVE FALSE
    BY <1>t, <2>4
  <2>5. ASSUME (\E j \in Inst : PersistNew(w, j) \/ TrackNew(w, j)) \/ PersistRetry(w) PROVE FALSE
    BY <2>4, <2>5 DEF PersistNew, PersistRetry, TrackNew
  <2>6. QED
    BY <1>0, <1>4, <2>1, <2>2, <2>3, <2>5 DEF LauncherStep, LauncherFault, Receive, EnqueueRetry, RetryGuard,
     LaunchFailsRetryably, LaunchRejected, Ack, LaunchSucceeds, ReplyLost, UndoRejected, UndoLaunch,
     RecordRefused, ReadRun, AdoptRefused, TrackAgain,
     FailRowAgain, TryFails, FinalFails, WorkerCrashes, GateDenies, RecordLaunch, AdoptLaunch,
     ResetStreak, ReferenceTracking, FailRow, CountFailure
<1>5. ASSUME NEW q \in Req, Load(q) \/ RequestProceeds(q) PROVE Goal
  <2>1. CASE CancelLocally(q)
    <3>1. Stopped(q, i)
      BY <1>1, <2>1 DEF CancelLocally, ReqStep, Stopped
    <3>2. QED
      BY <3>1 DEF Goal, Ends
  <2>2. QED
    BY <1>0, <1>5, <2>1 DEF Load, RequestProceeds, RowRequest, OnlyReq, PutRow, StartRun, PauseRun, ResumeRun,
     ClaimQueued, ReadRows, CancelWaitingRow, ResolveLive, PickLiveRow, NoLiveRowLeft, PickWaitingRow,
     PickLaunchedRow, RowRefused, CancelAtMaestro, CancelLaunchedRow, Reread, RecheckInstances, CloseRun
<1>6. Goal
  BY <1>2, <1>3, <1>4, <1>5 DEF Next
<1>7. QED
  BY <1>6 DEF Goal

(* What a pass that goes on does with a row it is to send, and with what   *)
(* it has read of the rows it sweeps.                                      *)
PassMoves(d) ==
  /\ \A r \in Row : Sending(d, r) => Sending(d, r)' \/ \E m \in Msg : Released(d, r, m)
  /\ tick'[d].pc \in {"sweep", "resolve"} =>
       \/ /\ tick[d].pc \in {"sweep", "resolve"}
          /\ tick'[d].todo \subseteq tick[d].todo /\ tick'[d].ref = tick[d].ref
       \/ \A r \in tick'[d].todo : tick'[d].ref[r] = row[r].inst
  /\ \A r \in Row : Sweeping(d, r)' =>
       \/ tick'[d] = tick[d]
       \/ row'[r].status # "launching" /\ tick'[d].ref[r] # None

(* A pass that does not move keeps what it has.                            *)
LEMMA PassRests ==
  ASSUME NEW d \in Tick, tick'[d] = tick[d] PROVE PassMoves(d)
BY DEF PassMoves, Sending

(* So it is at every step of a pass.                                       *)
LEMMA PassMoved ==
  ASSUME TypeInv, NEW d \in Tick, DispatcherStep(d), ~DispatcherFault(d)
  PROVE  PassMoves(d)
<1>t. /\ TypeOK /\ tick \in [Tick -> TickState] /\ tick[d] \in TickState /\ row \in [Row -> RowItem]
      /\ tick[d].todo \subseteq Row /\ msg \in [Msg -> Message]
  BY DEF TypeInv, TypeOK, TickState
<1>s. ASSUME NEW t, SetTick(d, t) PROVE tick'[d] = t
  BY <1>t, <1>s DEF SetTick
<1>h. ASSUME tick[d].pc # "send", tick'[d].pc \notin {"sweep", "resolve"} PROVE PassMoves(d)
  BY <1>h DEF PassMoves, Sending, Sweeping
<1>1. CASE ToHeld(d) /\ tick[d].pc # "send"
  BY <1>h, <1>s, <1>1 DEF ToHeld, IdleTick
<1>2. CASE ScanRunning(d)
  <2>1. tick'[d].pc \in {"dispatch", "held"} /\ tick[d].pc = "idle"
    BY <1>s, <1>2 DEF ScanRunning, IdleTick
  <2>2. QED
    BY <1>h, <2>1
<1>3. CASE StopRun(d) \/ CompleteRun(d)
  BY <1>1, <1>3 DEF StopRun, CompleteRun
<1>4. CASE QueryQueuedRows(d)
  <2>1. tick'[d].pc = "release" /\ tick[d].pc = "dispatch"
    BY <1>t, <1>s, <1>4 DEF QueryQueuedRows, TickState
  <2>2. QED
    BY <1>h, <2>1
<1>5. CASE ClaimRow(d) \/ ClaimLost(d)
  <2>1. tick'[d].pc \in {"send", "release"} /\ tick[d].pc = "release"
    BY <1>t, <1>s, <1>5 DEF ClaimRow, ClaimLost, TickStep, TickState
  <2>2. QED
    BY <1>h, <2>1
<1>6. CASE SendJob(d)
  <2>1. PICK s \in tick[d].todo, n \in Msg :
          /\ tick[d].pc = "send" /\ IsFirst(s, tick[d].todo)
          /\ Send(n, [row |-> s, attempt |-> 0, inst |-> None])
          /\ SetTick(d, [tick[d] EXCEPT !.pc = "release", !.todo = @ \ {s}, !.released = TRUE])
          /\ hist' = [hist EXCEPT !.released[s] = @ + 1]
    BY <1>6 DEF SendJob
  <2>2. tick'[d].pc = "release" /\ s \in Row
    BY <1>t, <1>s, <2>1 DEF TickState
  <2>3. hist'.released[s] # 0
    BY <1>t, <2>1, <2>2 DEF TypeOK, History
  <2>4. wk' = wk /\ row' = row
    BY <1>6 DEF SendJob, TickUnchanged
  <2>5. FreshMsg(n) /\ msg'[n] = [state |-> "visible", job |-> [row |-> s, attempt |-> 0, inst |-> None]]
    BY <1>t, <2>1 DEF Send
  <2>6. ASSUME NEW r \in Row, Sending(d, r) PROVE r = s
    BY <1>t, <2>1, <2>6, FirstIsOne DEF Sending
  <2>7. Sending(d, s) => Released(d, s, n)
    BY <2>3, <2>4, <2>5 DEF Released
  <2>8. QED
    BY <2>2, <2>6, <2>7 DEF PassMoves, Sweeping
<1>7. CASE AdvanceRelease(d) \/ CheckRows(d) \/ CheckInstances(d)
  <2>1. ASSUME NEW p \in {"checkRows", "checkInst", "complete"}, NEW t, SetTick(d, t), t.pc = p, tick[d].pc # "send"
        PROVE  PassMoves(d)
    BY <1>h, <1>s, <2>1
  <2>2. CASE TickStep(d, "release", "checkRows")
    <3>1. [tick[d] EXCEPT !.pc = "checkRows"].pc = "checkRows"
      BY <1>t DEF TickState
    <3>2. QED
      BY <2>1, <2>2, <3>1 DEF TickStep
  <2>3. \A R : /\ [tick[d] EXCEPT !.pc = "checkInst", !.todo = R].pc = "checkInst"
               /\ [tick[d] EXCEPT !.pc = "complete", !.todo = R].pc = "complete"
    BY <1>t DEF TickState
  <2>4. CASE AdvanceRelease(d)
    BY <1>1, <2>2, <2>4 DEF AdvanceRelease
  <2>5. CASE CheckRows(d)
    BY <1>1, <2>1, <2>3, <2>5 DEF CheckRows
  <2>6. CASE CheckInstances(d)
    BY <1>1, <2>1, <2>3, <2>6 DEF CheckInstances
  <2>7. QED
    BY <1>7, <2>4, <2>5, <2>6
<1>8. CASE PromoteRun(d)
  BY <1>8, PassRests DEF PromoteRun
<1>9. CASE QueryLaunching(d)
  <2>1. PICK S \in SUBSET Row :
          /\ tick[d].pc = "held"
          /\ SetTick(d, IF S = {} THEN IdleTick
                        ELSE [IdleTick EXCEPT
                          !.pc = "sweep", !.seen = tick[d].seen, !.todo = S,
                          !.ref = [r \in Row |-> IF r \in S THEN row[r].inst ELSE None]])
    <3>1. {r \in Row : SweepCandidate(d) /\ StaleRow(r)} \in SUBSET Row
      OBVIOUS
    <3>2. QED
      BY <1>9, <3>1 DEF QueryLaunching
  <2>2. CASE S = {}
    BY <1>h, <1>s, <2>1, <2>2 DEF IdleTick
  <2>3. CASE S # {}
    <3>1. /\ tick'[d].pc = "sweep" /\ tick'[d].todo = S
          /\ tick'[d].ref = [r \in Row |-> IF r \in S THEN row[r].inst ELSE None]
      BY <1>s, <2>1, <2>3 DEF IdleTick
    <3>2. \A r \in tick'[d].todo : tick'[d].ref[r] = row[r].inst
      BY <3>1
    <3>3. QED
      BY <2>1, <3>1, <3>2 DEF PassMoves, Sending, Sweeping
  <2>4. QED
    BY <2>2, <2>3
<1>10. CASE SweepRow(d)
  <2>1. PICK s \in tick[d].todo :
          /\ tick[d].pc = "sweep" /\ IsFirst(s, tick[d].todo)
          /\ SetRow(s, "failed")
          /\ SetTick(d, [tick[d] EXCEPT
               !.pc = IF tick[d].ref[s] # None THEN "resolve" ELSE "sweep",
               !.todo = IF tick[d].ref[s] # None THEN @ ELSE @ \ {s},
               !.swept = Saturate(@ + 1)])
    BY <1>10 DEF SweepRow
  <2>2. s \in Row /\ row'[s].status = "failed"
    BY <1>t, <2>1 DEF SetRow, RowItem
  <2>3. CASE tick[d].ref[s] # None
    <3>1. tick'[d].pc = "resolve" /\ tick'[d].todo = tick[d].todo /\ tick'[d].ref = tick[d].ref
      BY <1>t, <1>s, <2>1, <2>3 DEF TickState
    <3>2. ASSUME NEW r \in Row, IsFirst(r, tick'[d].todo) PROVE r = s
      BY <1>t, <2>1, <3>1, <3>2, FirstIsOne
    <3>3. QED
      BY <2>1, <2>2, <2>3, <3>1, <3>2 DEF PassMoves, Sending, Sweeping
  <2>4. CASE tick[d].ref[s] = None
    <3>1. tick'[d].pc = "sweep" /\ tick'[d].todo = tick[d].todo \ {s} /\ tick'[d].ref = tick[d].ref
      BY <1>t, <1>s, <2>1, <2>4 DEF TickState
    <3>2. QED
      BY <2>1, <3>1 DEF PassMoves, Sending, Sweeping
  <2>5. QED
    BY <2>3, <2>4
<1>11. CASE SweepLost(d) \/ ResolveTracking(d)
  <2>1. PICK s \in tick[d].todo :
          /\ tick[d].pc \in {"sweep", "resolve"}
          /\ \/ SetTick(d, [tick[d] EXCEPT !.todo = @ \ {s}]) /\ tick[d].pc = "sweep"
             \/ SetTick(d, [tick[d] EXCEPT !.pc = "sweep", !.todo = @ \ {s}])
    BY <1>11 DEF SweepLost, ResolveTracking
  <2>2. tick'[d].pc = "sweep" /\ tick'[d].todo = tick[d].todo \ {s} /\ tick'[d].ref = tick[d].ref
    BY <1>t, <1>s, <2>1 DEF TickState
  <2>3. QED
    BY <2>1, <2>2 DEF PassMoves, Sending, Sweeping
<1>12. CASE SweepDone(d)
  BY <1>h, <1>s, <1>12 DEF SweepDone, IdleTick
<1>13. QED
  BY <1>2, <1>3, <1>4, <1>5, <1>6, <1>7, <1>8, <1>9, <1>10, <1>11, <1>12 DEF DispatcherStep

(* Who claims a row has it in hand, and its instance is left as it was.    *)
LEMMA ClaimInHand ==
  ASSUME TypeInv, Next, NEW r \in Row, row[r].status = "queued", row'[r].status = "launching"
  PROVE  row'[r].inst = row[r].inst /\ \E d \in Tick : Sending(d, r)'
<1> DEFINE Goal == row'[r].inst = row[r].inst /\ \E d \in Tick : Sending(d, r)'
<1>t. TypeOK /\ row \in [Row -> RowItem] /\ tick \in [Tick -> TickState]
  BY DEF TypeInv, TypeOK
<1> HIDE DEF Goal
<1>1. ASSUME Settling PROVE FALSE
  BY <1>1 DEF Settling
<1>2. ASSUME NEW d \in Tick, ClaimRow(d) PROVE Goal
  <2>1. PICK s \in tick[d].todo :
          /\ IsFirst(s, tick[d].todo) /\ TickStep(d, "release", "send")
          /\ row' = [row EXCEPT ![s] = [@ EXCEPT !.status = "launching", !.stale = FALSE]]
    BY <1>2 DEF ClaimRow
  <2>2. s = r
    BY <1>t, <2>1
  <2>3. tick'[d].pc = "send" /\ tick'[d].todo = tick[d].todo
    BY <1>t, <2>1 DEF TickStep, SetTick, TickState
  <2>4. row'[r].inst = row[r].inst
    BY <1>t, <2>1, <2>2 DEF RowItem
  <2>5. Sending(d, r)'
    BY <2>1, <2>2, <2>3 DEF Sending
  <2>6. QED
    BY <2>4, <2>5 DEF Goal
<1>3. ASSUME NEW q \in Req, PutRow(q) PROVE FALSE
  <2>1. PICK s \in req[q].todo : row' = [row EXCEPT ![s] = [status |-> Plan[s], inst |-> None, stale |-> FALSE]]
    BY <1>3 DEF PutRow
  <2>2. Plan[s] # "launching"
    BY <1>3, <1>t, <2>1, ConstantsAssumption DEF TypeOK, ReqState
  <2>3. QED
    BY <1>t, <2>1, <2>2
<1>4. Goal
  BY <1>t, <1>1, <1>2, <1>3, EnvironmentSettles, LauncherSettles, DispatcherSettles, RouteSettles DEF Next
<1>5. QED
  BY <1>4 DEF Goal

(* LaunchingIsCarried is not inductive alone.  What belongs to a row       *)
(* belongs to no other, exists, and belongs to a row that was released, as *)
(* does every job that was sent.  A worker that has left the launch, a     *)
(* sweep that has failed the row, and a cancel that is under way all have  *)
(* a row that is not being launched, and will not be again.  A launching   *)
(* row whose retry is about to be enqueued names its instance; and an      *)
(* instance of a launching row ends only once it was launched, or at the   *)
(* hands of the worker that is to fail the row.                            *)
Past(r) == hist.released[r] # 0 /\ row[r].status # "launching"
OneOwner     == \A i \in Inst, r, s \in Row : Owns(r, i) /\ Owns(s, i) => r = s
OwnedIsKnown == \A i \in Inst, r \in Row : Owns(r, i) => Exists(i) /\ hist.released[r] # 0
LaunchedIsSent == \A r \in Row : row[r].status = "launched" => hist.released[r] # 0
GuardsRetry  == \A w \in Worker : wk[w].pc = "guard" => IsRetry(w)
WorkersPast  == \A w \in Worker : wk[w].pc \in PastPc => Past(JobOf(w).row)
SweepsPast   == \A d \in Tick, r \in Row : Sweeping(d, r) => Past(r)
StopsPast ==
  \A q \in Req :
    /\ \A r \in req[q].live : Past(r)
    /\ req[q].pc \in {"maestro", "inst"} => \E r \in Row : req[q].todo = {r} /\ Past(r)
EnqueueNamed ==
  \A w \in Worker : wk[w].pc = "enqueue" /\ row[JobOf(w).row].status = "launching"
                      => row[JobOf(w).row].inst # None
FailsRow(w, i) == wk[w].pc = "failRow" /\ JobOf(w).inst = i
EndedIsKnown ==
  \A r \in Row, i \in Inst :
    row[r].status = "launching" /\ Owns(r, i) /\ inst[i].status # "running"
      => inst[i].mid # None \/ \E w \in Worker : FailsRow(w, i)

(* And such a row is about to be sent or begun, or somebody climbs its     *)
(* ladder, or its workflow has been launched and has ended.                *)
BearsRow(m, r) == Pending(m) /\ ~LettingGo(m) /\ msg[m].job.row = r
Begun(r) ==
  \/ \E d \in Tick : Sending(d, r)
  \/ \E m \in Msg : BearsRow(m, r) /\ msg[m].job.inst = None
AtIt(w, r, i) ==
  /\ wk[w].pc \in AtItPc /\ JobOf(w).row = r
  /\ JobOf(w).inst = i \/ (wk[w].pc = "enqueue" /\ wk[w].inst = i)
Climbed(r, i) ==
  \/ \E w \in Worker : AtIt(w, r, i)
  \/ inst[i].status = "running" /\ \E m \in Msg : BearsRow(m, r) /\ msg[m].job.inst = i
  \/ inst[i].mid # None /\ inst[i].status # "running"
RowCarried ==
  \A r \in Row : row[r].status = "launching" =>
    /\ row[r].inst = None => Begun(r)
    /\ \A i \in Inst : row[r].inst = i => Climbed(r, i)

PastInv  == GuardsRetry /\ WorkersPast /\ SweepsPast /\ StopsPast
OwnInv   == OneOwner /\ OwnedIsKnown /\ SentIsReleased /\ LaunchedIsSent
CarryInv == OwnInv /\ PastInv /\ EnqueueNamed /\ EndedIsKnown /\ RowCarried

(* Before the first step nothing is being launched, sent or owned.         *)
LEMMA CarryInit == Init => CarryInv
<1> SUFFICES ASSUME Init PROVE CarryInv
  OBVIOUS
<1>1. \A r \in Row : row[r].inst = None /\ row[r].status \notin {"launching", "launched"}
  BY ConstantsAssumption DEF Init
<1>2. /\ \A m \in Msg : msg[m].state = "none"
      /\ \A w \in Worker : wk[w].pc = "idle"
      /\ \A d \in Tick : tick[d].pc = "idle"
      /\ \A q \in Req : req[q].pc = "idle" /\ req[q].live = {}
  BY DEF Init, IdleWorker, IdleTick, IdleReq
<1>3. \A i \in Inst, r \in Row : ~Owns(r, i)
  BY <1>1, <1>2, ConstantsAssumption DEF Owns, OwnsRow, OwnsJob, OwnsWork, OwnsSweep, OwnsStop, Held
<1>4. OwnInv
  BY <1>1, <1>2, <1>3 DEF OwnInv, OneOwner, OwnedIsKnown, SentIsReleased, LaunchedIsSent
<1>5. PastInv
  BY <1>2 DEF PastInv, GuardsRetry, WorkersPast, SweepsPast, StopsPast, PastPc, Sweeping
<1>6. EnqueueNamed /\ EndedIsKnown /\ RowCarried
  BY <1>1, <1>2 DEF EnqueueNamed, EndedIsKnown, RowCarried
<1>7. QED
  BY <1>4, <1>5, <1>6 DEF CarryInv

(* A worker's job is a job that was sent, of a row that was released.      *)
LEMMA HeldIsOwned ==
  ASSUME TypeInv, LadderInv, OwnInv, NEW w \in Worker, wk[w].pc # "idle"
  PROVE  /\ wk[w].msg \in Msg /\ msg[wk[w].msg].state # "none" /\ JobOf(w) = msg[wk[w].msg].job
         /\ JobOf(w).row \in Row /\ Held(w, JobOf(w).row)
         /\ hist.released[JobOf(w).row] # 0
         /\ JobOf(w).inst \in Inst \cup {None}
         /\ JobOf(w).inst # None => OwnsJob(JobOf(w).row, JobOf(w).inst)
         /\ OwnsWork(JobOf(w).row, wk[w].inst)
<1>1. wk[w].msg \in Msg /\ msg[wk[w].msg].state # "none"
  BY DEF TypeInv, BusyHoldsMessage, LadderInv, HeldIsSent
<1>2. JobOf(w) \in Job
  BY <1>1 DEF TypeInv, TypeOK, Message, JobOf
<1>3. QED
  BY <1>1, <1>2 DEF Job, JobOf, Held, OwnInv, SentIsReleased, OwnsJob, OwnsWork

(* What was sent stays so, and a worker that goes on with it has the same  *)
(* job.                                                                    *)
LEMMA JobStays ==
  ASSUME NothingDropped, TypeInv, LadderInv, OwnInv, Next
  PROVE  /\ \A m \in Msg : msg[m].state # "none" => msg'[m].state # "none" /\ msg'[m].job = msg[m].job
         /\ \A w \in Worker : wk[w].pc # "idle" /\ wk'[w].msg = wk[w].msg => JobOf(w)' = JobOf(w)
         /\ \A w \in Worker : wk'[w].pc # "idle" =>
              \/ wk'[w] = wk[w] /\ wk[w].pc # "idle" /\ JobOf(w)' = JobOf(w)
              \/ \E m \in Msg : Receive(w, m) /\ JobOf(w)' = msg[m].job
              \/ /\ LauncherStep(w) \/ LauncherFault(w)
                 /\ wk[w].pc # "idle" /\ wk'[w].msg = wk[w].msg /\ JobOf(w)' = JobOf(w)
<1>1. MessagesOnward
  BY MessageSteps DEF LadderInv
<1>2. \A m \in Msg : msg[m].state # "none" => msg'[m].state # "none" /\ msg'[m].job = msg[m].job
  BY <1>1 DEF MessagesOnward
<1>3. ASSUME NEW w \in Worker, wk[w].pc # "idle", wk'[w].msg = wk[w].msg PROVE JobOf(w)' = JobOf(w)
  BY <1>2, <1>3, HeldIsOwned DEF JobOf
<1>4. ASSUME NEW w \in Worker, NEW m \in Msg, Receive(w, m) PROVE JobOf(w)' = msg[m].job
  <2>1. wk'[w].msg = m /\ msg[m].state # "none"
    BY <1>4, WorkerBegins
  <2>2. QED
    BY <1>2, <2>1 DEF JobOf
<1>5. ASSUME NEW w \in Worker, wk'[w].pc # "idle"
      PROVE  \/ wk'[w] = wk[w] /\ wk[w].pc # "idle" /\ JobOf(w)' = JobOf(w)
             \/ \E m \in Msg : Receive(w, m) /\ JobOf(w)' = msg[m].job
             \/ /\ LauncherStep(w) \/ LauncherFault(w)
                /\ wk[w].pc # "idle" /\ wk'[w].msg = wk[w].msg /\ JobOf(w)' = JobOf(w)
  <2>1. CASE wk'[w] = wk[w]
    BY <1>3, <1>5, <2>1
  <2>2. CASE LauncherStep(w) \/ LauncherFault(w)
    <3>1. (\E m \in Msg : Receive(w, m)) \/ (wk[w].pc # "idle" /\ wk'[w].msg = wk[w].msg)
      BY <1>5, <2>2, LauncherPath
    <3>2. QED
      BY <1>3, <1>4, <2>2, <3>1
  <2>3. QED
    BY <2>1, <2>2, WorkGoesOn
<1>6. QED
  BY <1>2, <1>3, <1>5

(* A row that is past its launch stays so.                                 *)
LEMMA PastStays ==
  ASSUME TypeInv, ReleaseInv, Next, NEW r \in Row, Past(r) PROVE Past(r)'
<1>1. hist'.released[r] # 0
  BY FreshMoved DEF FreshMoves, Past
<1>2. ASSUME row'[r].status = "launching" PROVE FALSE
  <2>1. row[r].status # "launching" /\ hist.released[r] # 0
    BY DEF Past
  <2>2. row[r].status # "queued"
    BY <2>1 DEF ReleaseInv, QueuedIsFresh, Fresh
  <2>3. \A q \in Req : ~PutAnew(q, r)
    BY <1>2, ConstantsAssumption DEF PutAnew
  <2>4. QED
    BY <1>2, <2>1, <2>2, <2>3, RowMoved DEF RowMoves, Swept, Resolved, Claimed, Cancelled, Worked, Terminal
<1>3. QED
  BY <1>1, <1>2 DEF Past

(* So a launching row that was sent was launching before.                  *)
LEMMA LaunchingBefore ==
  ASSUME TypeInv, ReleaseInv, Next, NEW r \in Row, hist.released[r] # 0, row'[r].status = "launching"
  PROVE  row[r].status = "launching"
BY PastStays DEF Past

(* What belongs to a row belonged to it before, or a worker has just made  *)
(* it for the row.                                                         *)
MadeBy(w, r, i) == Held(w, r) /\ (PersistNew(w, i) \/ TrackNew(w, i))
(* So it is at every step.                                                 *)
LEMMA OwnsMoved ==
  ASSUME NothingDropped, TypeInv, LadderInv, OwnInv, Next, NEW r \in Row, NEW i \in Inst, Owns(r, i)'
  PROVE  Owns(r, i) \/ \E w \in Worker : MadeBy(w, r, i)
<1> DEFINE Goal == Owns(r, i) \/ \E w \in Worker : MadeBy(w, r, i)
<1>n. i # None
  BY ConstantsAssumption
<1>w. ASSUME NEW w \in Worker, wk[w].pc # "idle", JobOf(w).row = r, i \in {wk[w].inst, JobOf(w).inst} PROVE Goal
  BY <1>n, <1>w, HeldIsOwned DEF Owns
<1>1. CASE OwnsRow(r, i)'
  <2>1. row'[r].inst = i
    BY <1>1 DEF OwnsRow
  <2>2. CASE row[r].inst = i
    BY <2>2 DEF Owns, OwnsRow
  <2>3. CASE \E w \in Worker : Held(w, r) /\ i \in {wk[w].inst, JobOf(w).inst}
    BY <2>3, <1>w DEF Held
  <2>4. QED
    BY <1>n, <2>1, <2>2, <2>3, NamesGrown DEF NamesGrow
<1>2. CASE OwnsJob(r, i)'
  <2>1. PICK m \in Msg : msg'[m].state # "none" /\ msg'[m].job.row = r /\ msg'[m].job.inst = i
    BY <1>2 DEF OwnsJob
  <2>2. CASE msg[m].state # "none"
    BY <2>1, <2>2, JobStays DEF Owns, OwnsJob
  <2>3. CASE msg[m].state = "none"
    <3>1. ASSUME NEW d \in Tick, NEW s \in Row, Released(d, s, m) PROVE FALSE
      BY <1>n, <2>1, <3>1 DEF Released
    <3>2. PICK w \in Worker : Retried(w, m)
      BY <2>1, <2>3, <3>1, SentAnew DEF LadderInv
    <3>3. wk[w].pc = "enqueue" /\ msg'[m].job = NextAttempt(w)
      BY <3>2 DEF Retried, EnqueueRetry, Step
    <3>4. JobOf(w) \in Job
      BY <3>3 DEF TypeInv, TypeOK, BusyHoldsMessage, Message, JobOf
    <3>5. NextAttempt(w).row = JobOf(w).row /\ NextAttempt(w).inst = wk[w].inst
      BY <3>4 DEF NextAttempt, Job
    <3>6. QED
      BY <1>w, <2>1, <3>3, <3>5
  <2>4. QED
    BY <2>2, <2>3
<1>3. CASE OwnsWork(r, i)'
  <2>1. PICK w \in Worker : wk'[w].pc # "idle" /\ JobOf(w)'.row = r /\ wk'[w].inst = i
    BY <1>3 DEF OwnsWork, Held
  <2>2. CASE wk'[w] = wk[w] /\ wk[w].pc # "idle" /\ JobOf(w)' = JobOf(w)
    BY <1>w, <2>1, <2>2
  <2>3. ASSUME NEW m \in Msg, Receive(w, m) PROVE FALSE
    BY <1>n, <2>1, <2>3, WorkerBegins
  <2>4. CASE (LauncherStep(w) \/ LauncherFault(w)) /\ wk[w].pc # "idle" /\ JobOf(w)' = JobOf(w)
    <3>1. KeepsName(w)
      BY <2>4, WorkerGoes DEF Goes
    <3>2. ASSUME NEW j \in Inst, PersistNew(w, j) \/ TrackNew(w, j), wk'[w].inst = j PROVE Goal
      BY <2>1, <2>4, <3>2 DEF MadeBy, Held
    <3>3. QED
      BY <1>n, <1>w, <2>1, <2>4, <3>1, <3>2 DEF KeepsName
  <2>5. QED
    BY <2>1, <2>2, <2>3, <2>4, JobStays
<1>4. CASE OwnsSweep(r, i)'
  <2>1. PICK d \in Tick : tick'[d].pc \in {"sweep", "resolve"} /\ r \in tick'[d].todo /\ tick'[d].ref[r] = i
    BY <1>4 DEF OwnsSweep
  <2>2. CASE tick'[d] = tick[d]
    BY <2>1, <2>2 DEF Owns, OwnsSweep
  <2>3. CASE PassMoves(d)
    BY <2>1, <2>3 DEF PassMoves, Owns, OwnsSweep, OwnsRow
  <2>4. CASE DispatcherFault(d)
    <3>1. tick[d] \in TickState /\ tick \in [Tick -> TickState]
      BY DEF TypeInv, TypeOK
    <3>2. \A t : SetTick(d, t) => tick'[d] = t
      BY <3>1 DEF SetTick
    <3>3. ASSUME DispatchFails(d) PROVE tick'[d].pc = "held"
      BY <3>2, <3>3 DEF DispatchFails, ToHeld, IdleTick
    <3>4. ASSUME TickCrashes(d) PROVE tick'[d].pc = "idle"
      BY <3>2, <3>4 DEF TickCrashes, IdleTick
    <3>5. tick'[d].pc \in {"held", "idle"}
      BY <2>4, <3>3, <3>4 DEF DispatcherFault
    <3>6. QED
      BY <2>1, <3>5
  <2>5. QED
    BY <2>2, <2>3, <2>4, OneMoves, PassMoved DEF TypeInv
<1>5. CASE OwnsStop(r, i)'
  <2>1. PICK q \in Req : req'[q].pc \in {"maestro", "inst"} /\ r \in req'[q].todo /\ req'[q].inst = i
    BY <1>5 DEF OwnsStop
  <2>2. CASE req'[q] = req[q]
    BY <2>1, <2>2 DEF Owns, OwnsStop
  <2>3. CASE req[q].pc = "maestro" /\ req'[q].inst = req[q].inst /\ req'[q].todo = req[q].todo
    BY <2>1, <2>3 DEF Owns, OwnsStop
  <2>4. ASSUME NEW s \in Row, Picked(q, s) PROVE Goal
    <3>1. s = r /\ row[s].inst = i
      BY <2>1, <2>4 DEF Picked
    <3>2. QED
      BY <3>1 DEF Owns, OwnsRow
  <2>5. QED
    BY <2>1, <2>2, <2>3, <2>4, RequestMoved DEF RequestMoves
<1>6. QED
  BY <1>1, <1>2, <1>3, <1>4, <1>5 DEF Owns

(* What a worker makes is new, and runs.                                   *)
LEMMA MadeIsNew ==
  ASSUME TypeInv, NEW w \in Worker, NEW r \in Row, NEW i \in Inst, MadeBy(w, r, i)
  PROVE  /\ ~Exists(i) /\ Exists(i)' /\ inst'[i].status = "running"
         /\ wk'[w] # wk[w] /\ \A v \in Worker : v # w => wk'[v] = wk[v]
         /\ wk[w].pc # "idle" /\ JobOf(w).row = r
<1>t. wk \in [Worker -> WorkerState] /\ wk[w] \in WorkerState /\ inst \in [Inst -> InstItem]
  BY DEF TypeInv, TypeOK
<1>1. wk[w].pc # "idle" /\ JobOf(w).row = r
  BY DEF MadeBy, Held
<1>2. CASE PersistNew(w, i)
  BY <1>t, <1>1, <1>2 DEF PersistNew, SetWorker, WorkerState, FreshInst, Exists
<1>3. CASE TrackNew(w, i)
  BY <1>t, <1>1, <1>3 DEF TrackNew, SetWorker, WorkerState, FreshInst, Exists
<1>4. QED
  BY <1>2, <1>3 DEF MadeBy

(* What belongs to a row belongs to no other, exists, and was released.    *)
LEMMA OwnKept ==
  ASSUME NothingDropped, TypeInv, ReleaseInv, LadderInv, OwnInv, Next PROVE OwnInv'
<1>i. OneOwner /\ OwnedIsKnown /\ SentIsReleased /\ LaunchedIsSent
  BY DEF OwnInv
<1>o. InstancesOnward
  BY InstanceSteps DEF LadderInv
<1>r. \A r \in Row : hist.released[r] # 0 => hist'.released[r] # 0
  BY FreshMoved DEF FreshMoves
<1>1. ASSUME NEW i \in Inst, NEW r \in Row, Owns(r, i)' PROVE Exists(i)' /\ hist'.released[r] # 0
  <2>1. CASE Owns(r, i)
    BY <1>i, <1>o, <1>r, <2>1 DEF OwnedIsKnown, InstancesOnward
  <2>2. ASSUME NEW w \in Worker, MadeBy(w, r, i) PROVE Exists(i)' /\ hist'.released[r] # 0
    BY <1>r, <2>2, MadeIsNew, HeldIsOwned
  <2>3. QED
    BY <1>1, <2>1, <2>2, OwnsMoved
<1>2. ASSUME NEW i \in Inst, NEW r \in Row, NEW s \in Row, Owns(r, i)', Owns(s, i)' PROVE r = s
  <2>1. ASSUME NEW w \in Worker, NEW p \in Row, NEW q \in Row, MadeBy(w, p, i), Owns(q, i) PROVE FALSE
    BY <1>i, <2>1, MadeIsNew DEF OwnedIsKnown
  <2>2. ASSUME NEW w \in Worker, NEW v \in Worker, MadeBy(w, r, i), MadeBy(v, s, i) PROVE r = s
    <3>1. w = v
      BY <2>2, MadeIsNew
    <3>2. QED
      BY <2>2, <3>1 DEF MadeBy, Held
  <2>3. CASE Owns(r, i) /\ Owns(s, i)
    BY <1>i, <2>3 DEF OneOwner
  <2>4. QED
    BY <1>2, <2>1, <2>2, <2>3, OwnsMoved
<1>3. ASSUME NEW m \in Msg, msg'[m].state # "none" PROVE hist'.released[msg'[m].job.row] # 0
  <2>1. CASE msg[m].state # "none"
    <3>1. msg[m].job.row \in Row
      BY DEF TypeInv, TypeOK, Message, Job
    <3>2. QED
      BY <1>i, <1>r, <2>1, <3>1, JobStays DEF SentIsReleased
  <2>2. CASE msg[m].state = "none"
    <3>1. ASSUME NEW d \in Tick, NEW r \in Row, Released(d, r, m) PROVE hist'.released[msg'[m].job.row] # 0
      BY <3>1 DEF Released
    <3>2. ASSUME NEW w \in Worker, Retried(w, m) PROVE hist'.released[msg'[m].job.row] # 0
      <4>1. wk[w].pc # "idle" /\ msg'[m].job = NextAttempt(w)
        BY <3>2 DEF Retried, EnqueueRetry, Step
      <4>2. JobOf(w) \in Job
        BY <4>1 DEF TypeInv, TypeOK, BusyHoldsMessage, Message, JobOf
      <4>3. NextAttempt(w).row = JobOf(w).row
        BY <4>2 DEF NextAttempt, Job
      <4>4. QED
        BY <1>r, <4>1, <4>3, HeldIsOwned
    <3>3. QED
      BY <1>3, <2>2, <3>1, <3>2, SentAnew DEF LadderInv
  <2>3. QED
    BY <2>1, <2>2
<1>4. ASSUME NEW r \in Row, row'[r].status = "launched" PROVE hist'.released[r] # 0
  <2>1. ASSUME NEW w \in Worker, Records(w, r) PROVE hist.released[r] # 0
    BY <2>1, HeldIsOwned DEF Records
  <2>2. QED
    BY <1>4, <1>i, <1>r, <2>1, NamesMoved DEF NamesMove, LaunchedIsSent
<1>5. QED
  BY <1>1, <1>2, <1>3, <1>4 DEF OwnInv, OneOwner, OwnedIsKnown, SentIsReleased, LaunchedIsSent

(* Who is past the launch of a row knows it to be.                         *)
LEMMA PastKept ==
  ASSUME NothingDropped, TypeInv, ReleaseInv, LadderInv, OwnInv, PastInv, Next PROVE PastInv'
<1>i. /\ GuardsRetry /\ WorkersPast /\ SweepsPast /\ StopsPast
      /\ OneOwner /\ OwnedIsKnown /\ SentIsReleased /\ LaunchedIsSent
  BY DEF PastInv, OwnInv
<1>r. \A r \in Row : hist.released[r] # 0 => hist'.released[r] # 0
  BY FreshMoved DEF FreshMoves
<1>1. ASSUME NEW w \in Worker, wk'[w].pc = "guard" PROVE IsRetry(w)'
  <2>1. CASE wk'[w] = wk[w] /\ wk[w].pc # "idle" /\ JobOf(w)' = JobOf(w)
    BY <1>1, <1>i, <2>1 DEF GuardsRetry, IsRetry
  <2>2. ASSUME NEW m \in Msg, Receive(w, m), JobOf(w)' = msg[m].job PROVE IsRetry(w)'
    BY <1>1, <2>2, WorkerBegins DEF IsRetry
  <2>3. CASE (LauncherStep(w) \/ LauncherFault(w)) /\ wk[w].pc # "idle"
    BY <1>1, <2>3, WorkerGoes DEF Goes
  <2>4. QED
    BY <1>1, <2>1, <2>2, <2>3, JobStays
<1>2. ASSUME NEW w \in Worker, wk'[w].pc \in PastPc PROVE Past(JobOf(w).row)'
  <2>1. ASSUME wk[w].pc \in PastPc, JobOf(w)' = JobOf(w) PROVE Past(JobOf(w).row)'
    <3>1. Past(JobOf(w).row) /\ JobOf(w).row \in Row
      BY <1>i, <2>1, HeldIsOwned DEF WorkersPast, PastPc
    <3>2. hist'.released[JobOf(w).row] # 0 /\ row'[JobOf(w).row].status # "launching"
      BY <3>1, PastStays DEF Past
    <3>3. QED
      BY <2>1, <3>2 DEF Past
  <2>2. CASE wk'[w] = wk[w] /\ wk[w].pc # "idle" /\ JobOf(w)' = JobOf(w)
    BY <1>2, <2>1, <2>2
  <2>3. ASSUME NEW m \in Msg, Receive(w, m) PROVE FALSE
    BY <1>2, <2>3, WorkerBegins DEF PastPc
  <2>4. CASE (LauncherStep(w) \/ LauncherFault(w)) /\ wk[w].pc # "idle" /\ JobOf(w)' = JobOf(w)
    <3>1. wk[w].pc \in PastPc \/ RowLeft(w)
      BY <1>2, <2>4, WorkerGoes DEF Goes
    <3>2. ASSUME RowLeft(w) PROVE Past(JobOf(w).row)'
      BY <1>r, <2>4, <3>2, HeldIsOwned DEF RowLeft, Past
    <3>3. QED
      BY <2>1, <2>4, <3>1, <3>2
  <2>5. QED
    BY <1>2, <2>2, <2>3, <2>4, JobStays DEF PastPc
<1>3. ASSUME NEW d \in Tick, NEW r \in Row, Sweeping(d, r)' PROVE Past(r)'
  <2>1. CASE tick'[d] = tick[d]
    BY <1>3, <1>i, <2>1, PastStays DEF Sweeping, SweepsPast
  <2>2. CASE PassMoves(d) /\ tick'[d] # tick[d]
    <3>1. row'[r].status # "launching" /\ tick'[d].ref[r] # None
      BY <1>3, <2>2 DEF PassMoves
    <3>2. r \in tick'[d].todo /\ tick'[d].pc = "resolve"
      BY <1>3 DEF Sweeping, IsFirst
    <3>3. Owns(r, tick'[d].ref[r])
      BY <2>2, <3>2 DEF PassMoves, Owns, OwnsSweep, OwnsRow
    <3>4. tick'[d].ref[r] \in Inst
      BY <3>1, <3>2, <1>3, StepType DEF TypeInv, TypeOK, TickState
    <3>5. hist.released[r] # 0
      BY <1>i, <3>3, <3>4 DEF OwnedIsKnown
    <3>6. QED
      BY <1>r, <3>1, <3>5 DEF Past
  <2>3. CASE DispatcherFault(d)
    <3>1. tick \in [Tick -> TickState]
      BY DEF TypeInv, TypeOK
    <3>2. \A t : SetTick(d, t) => tick'[d] = t
      BY <3>1 DEF SetTick
    <3>3. ASSUME DispatchFails(d) PROVE tick'[d].pc = "held"
      BY <3>2, <3>3 DEF DispatchFails, ToHeld, IdleTick
    <3>4. ASSUME TickCrashes(d) PROVE tick'[d].pc = "idle"
      BY <3>2, <3>4 DEF TickCrashes, IdleTick
    <3>5. QED
      BY <1>3, <2>3, <3>3, <3>4 DEF DispatcherFault, Sweeping
  <2>4. QED
    BY <2>1, <2>2, <2>3, OneMoves, PassMoved DEF TypeInv
<1>4. ASSUME NEW q \in Req, NEW r \in req'[q].live PROVE Past(r)'
  <2>1. r \in Row /\ (r \in req[q].live \/ row[r].status = "launched")
    BY RequestMoved DEF RequestMoves
  <2>2. Past(r)
    BY <1>i, <2>1 DEF StopsPast, LaunchedIsSent, Past
  <2>3. QED
    BY <2>1, <2>2, PastStays
<1>5. ASSUME NEW q \in Req, req'[q].pc \in {"maestro", "inst"} PROVE \E r \in Row : req'[q].todo = {r} /\ Past(r)'
  <2>1. CASE req[q].pc \in {"maestro", "inst"} /\ req'[q].todo = req[q].todo
    BY <1>i, <2>1, PastStays DEF StopsPast
  <2>2. ASSUME NEW r \in Row, Picked(q, r) PROVE \E s \in Row : req'[q].todo = {s} /\ Past(s)'
    <3>1. Past(r) /\ req'[q].todo = {r}
      BY <1>i, <2>2 DEF Picked, StopsPast, LaunchedIsSent, Past
    <3>2. QED
      BY <3>1, PastStays
  <2>3. QED
    BY <1>5, <2>1, <2>2, RequestMoved DEF RequestMoves
<1>6. QED
  BY <1>1, <1>2, <1>3, <1>4, <1>5 DEF PastInv, GuardsRetry, WorkersPast, SweepsPast, StopsPast

(* A launching row whose retry is about to be enqueued names its instance. *)
LEMMA NamedKept ==
  ASSUME NothingDropped, TypeInv, ReleaseInv, LadderInv, OwnInv, EnqueueNamed, Next PROVE EnqueueNamed'
<1> SUFFICES ASSUME NEW w \in Worker, wk'[w].pc = "enqueue", row'[JobOf(w)'.row].status = "launching"
             PROVE  row'[JobOf(w)'.row].inst # None
  BY DEF EnqueueNamed
<1>t. /\ wk \in [Worker -> WorkerState] /\ row \in [Row -> RowItem] /\ None \notin Inst
  BY ConstantsAssumption DEF TypeInv, TypeOK
<1>1. CASE wk'[w] = wk[w] /\ wk[w].pc # "idle" /\ JobOf(w)' = JobOf(w)
  <2> DEFINE r == JobOf(w).row
  <2>1. r \in Row /\ hist.released[r] # 0 /\ row'[r].status = "launching"
    BY <1>1, HeldIsOwned
  <2>2. row[r].status = "launching"
    BY <2>1, LaunchingBefore
  <2>3. row[r].inst # None
    BY <1>1, <2>2 DEF EnqueueNamed
  <2>4. ASSUME NEW v \in Worker, ReferenceTracking(v) PROVE wk[v].inst # None
    BY <1>t, <2>4 DEF ReferenceTracking, Step, LadderInv, WorkersNameInstances
  <2>5. row'[r].inst # None
    BY <2>1, <2>3, <2>4, NamesGrown DEF NamesGrow
  <2>6. QED
    BY <1>1, <2>5
<1>2. ASSUME NEW m \in Msg, Receive(w, m) PROVE FALSE
  BY <1>2, WorkerBegins
<1>3. CASE (LauncherStep(w) \/ LauncherFault(w)) /\ wk[w].pc # "idle" /\ JobOf(w)' = JobOf(w)
  <2>1. ReferenceTracking(w)
    BY <1>3, LauncherPath
  <2>2. wk[w].inst \in Inst /\ JobOf(w).row \in Row
    BY <1>3, <2>1, HeldIsOwned DEF ReferenceTracking, Step, LadderInv, WorkersNameInstances
  <2>3. /\ row'[JobOf(w).row].status = row[JobOf(w).row].status
        /\ row[JobOf(w).row].status = "launching" => row'[JobOf(w).row].inst = wk[w].inst
    BY <1>t, <2>1, <2>2 DEF ReferenceTracking, RowItem
  <2>4. QED
    BY <1>t, <1>3, <2>2, <2>3
<1>4. QED
  BY <1>1, <1>2, <1>3, JobStays

(* An instance of a launching row ends once it was launched, or at the     *)
(* hands of the worker that is to fail the row.                            *)
LEMMA EndedKept ==
  ASSUME NothingDropped, TypeInv, ReleaseInv, LadderInv, OwnInv, PastInv, EndedIsKnown, Next PROVE EndedIsKnown'
<1>i. /\ GuardsRetry /\ WorkersPast /\ SweepsPast /\ StopsPast
      /\ OneOwner /\ OwnedIsKnown /\ SentIsReleased /\ LaunchedIsSent /\ MidInHand
  BY DEF PastInv, OwnInv, LadderInv
<1>t. /\ wk \in [Worker -> WorkerState] /\ row \in [Row -> RowItem] /\ inst \in [Inst -> InstItem]
  BY DEF TypeInv, TypeOK
<1> SUFFICES ASSUME NEW r \in Row, NEW i \in Inst,
                    row'[r].status = "launching", Owns(r, i)', inst'[i].status # "running"
             PROVE  inst'[i].mid # None \/ \E w \in Worker : FailsRow(w, i)'
  BY DEF EndedIsKnown
<1> DEFINE Goal == inst'[i].mid # None \/ \E w \in Worker : FailsRow(w, i)'
<1>1. Owns(r, i)
  BY OwnsMoved, MadeIsNew
<1>2. Exists(i) /\ hist.released[r] # 0
  BY <1>i, <1>1 DEF OwnedIsKnown
<1>3. row[r].status = "launching" /\ ~Past(r)
  BY <1>2, LaunchingBefore DEF Past
<1>m. inst[i].mid # None => inst'[i].mid # None
  <2>1. ASSUME NEW w \in Worker, TrackNew(w, i) PROVE FALSE
    BY <1>2, <2>1 DEF TrackNew, FreshInst, Exists
  <2>2. ASSUME NEW w \in Worker, PersistNew(w, i) \/ PersistRetry(w) PROVE wk[w].mid # None
    BY <1>i, <2>2 DEF PersistNew, PersistRetry, MidInHand
  <2>3. ASSUME NEW w \in Worker, inst'[i] = [status |-> "running", mid |-> wk[w].mid],
               PersistNew(w, i) \/ PersistRetry(w)
        PROVE  inst'[i].mid # None
    <3>1. wk[w].mid # None
      BY <2>2, <2>3
    <3>2. QED
      BY <2>3, <3>1
  <2>4. ASSUME inst'[i] = inst[i] \/ inst'[i].mid = inst[i].mid
        PROVE  inst[i].mid # None => inst'[i].mid # None
    BY <2>4
  <2>5. QED
    BY <2>1, <2>3, <2>4, InstMoved DEF InstMoves
<1> HIDE DEF Goal
<1>4. ASSUME inst[i].status # "running" PROVE Goal
  <2>1. CASE inst[i].mid # None
    BY <1>m, <2>1 DEF Goal
  <2>2. ASSUME NEW w \in Worker, FailsRow(w, i) PROVE Goal
    <3>1. wk[w].pc = "failRow" /\ JobOf(w).inst = i
      BY <2>2 DEF FailsRow
    <3>2. JobOf(w).row = r
      BY <1>1, <1>i, <3>1, HeldIsOwned, ConstantsAssumption DEF OneOwner, Owns
    <3>3. CASE wk'[w] = wk[w]
      <4>1. JobOf(w)' = JobOf(w)
        BY <3>1, <3>3, JobStays
      <4>2. FailsRow(w, i)'
        BY <3>1, <3>3, <4>1 DEF FailsRow
      <4>3. QED
        BY <4>2 DEF Goal
    <3>4. CASE LauncherStep(w) \/ LauncherFault(w)
      <4>1. wk[w].pc # "idle" /\ wk[w].pc \in AtItPc
        BY <3>1 DEF AtItPc
      <4>2. ~RowLeft(w)
        BY <3>2 DEF RowLeft
      <4>3. \A n \in Msg : ~EnqueueRetry(w, n)
        BY <3>1 DEF EnqueueRetry, Step
      <4>4. Goes(w) /\ wk'[w].pc \in AtItPc
        BY <3>4, <4>1, <4>2, <4>3, WorkerGoes DEF Goes
      <4>5. FailRow(w) \/ FailRowAgain(w)
        BY <3>1, <3>4
        DEF NothingDropped, LauncherStep, LauncherFault, LaunchSucceeds, PersistNew, TrackNew, RetryGuard,
     DenyInstance, LaunchFailsRetryably, LaunchRejected, PersistRetry, Receive, EnqueueRetry, Ack, Step,
     RecordRefused, ReadRun, AdoptRefused, UndoLaunch, UndoInstance, TrackAgain,
     FailInstance, ReplyLost, UndoRejected, TryFails, TryPc,
     FinalFails, WorkerCrashes, GateDenies, RecordLaunch, AdoptLaunch,
     ResetStreak, ReferenceTracking, CountFailure
      <4>6. wk'[w].pc \in {"count", "ack"}
        BY <1>t, <4>5 DEF FailRow, FailRowAgain, Step, SetWorker, WorkerState
      <4>7. QED
        BY <4>4, <4>6 DEF AtItPc
    <3>5. QED
      BY <3>3, <3>4, WorkGoesOn
  <2>3. QED
    BY <1>1, <1>3, <1>4, <2>1, <2>2 DEF EndedIsKnown
<1>5. ASSUME inst[i].status = "running", Ends(i) PROVE Goal
  <2>1. ASSUME NEW d \in Tick, NEW s \in Row, Sweeping(d, s), tick[d].ref[s] = i PROVE FALSE
    <3>1. Owns(s, i)
      BY <2>1 DEF Sweeping, IsFirst, Owns, OwnsSweep
    <3>2. s = r
      BY <1>1, <1>i, <3>1 DEF OneOwner
    <3>3. QED
      BY <1>3, <1>i, <2>1, <3>2 DEF SweepsPast
  <2>2. ASSUME NEW w \in Worker, wk[w].pc \in PastPc, i \in {JobOf(w).inst, wk[w].inst} PROVE FALSE
    <3>1. Owns(JobOf(w).row, i) /\ JobOf(w).row \in Row
      BY <2>2, HeldIsOwned, ConstantsAssumption DEF PastPc, Owns
    <3>2. JobOf(w).row = r
      BY <1>1, <1>i, <3>1 DEF OneOwner
    <3>3. QED
      BY <1>3, <1>i, <2>2, <3>2 DEF WorkersPast
  <2>3. ASSUME NEW w \in Worker, FailInstance(w), JobOf(w).inst = i PROVE Goal
    <3>1. wk[w].pc = "failInst" /\ wk'[w].pc = "failRow" /\ wk'[w].msg = wk[w].msg
      BY <1>t, <2>3 DEF FailInstance, Step, SetWorker, WorkerState
    <3>2. JobOf(w)' = JobOf(w)
      BY <3>1, JobStays
    <3>3. FailsRow(w, i)'
      BY <2>3, <3>1, <3>2 DEF FailsRow
    <3>4. QED
      BY <3>3 DEF Goal
  <2>4. ASSUME NEW q \in Req, Stopped(q, i) PROVE FALSE
    <3>1. PICK s \in Row : req[q].todo = {s} /\ Past(s)
      BY <1>i, <2>4 DEF Stopped, StopsPast
    <3>2. Owns(s, i)
      BY <2>4, <3>1 DEF Stopped, Owns, OwnsStop
    <3>3. s = r
      BY <1>1, <1>i, <3>2 DEF OneOwner
    <3>4. QED
      BY <1>3, <3>1, <3>3
  <2>5. QED
    BY <1>5, <2>1, <2>2, <2>3, <2>4 DEF Ends, Undone, PastPc
<1>6. Goal
  BY <1>m, <1>4, <1>5, InstEnds DEF Goal
<1>7. QED
  BY <1>6 DEF Goal

(* A worker at a row that is being launched goes on, or hands the ladder   *)
(* to the retry it enqueues.                                               *)
LEMMA AtItStays ==
  ASSUME NothingDropped, TypeInv, LadderInv, OwnInv, Next,
         NEW w \in Worker, NEW r \in Row, NEW i \in Inst, AtIt(w, r, i), row'[r].status = "launching"
  PROVE  AtIt(w, r, i)' \/ \E n \in Msg : EnqueueRetry(w, n)
<1>1. /\ wk[w].pc \in AtItPc /\ JobOf(w).row = r
      /\ JobOf(w).inst = i \/ (wk[w].pc = "enqueue" /\ wk[w].inst = i)
  BY DEF AtIt
<1>2. CASE wk'[w] = wk[w]
  <2>1. JobOf(w)' = JobOf(w)
    BY <1>1, <1>2, JobStays DEF AtItPc
  <2>2. QED
    BY <1>1, <1>2, <2>1 DEF AtIt
<1>3. CASE LauncherStep(w) \/ LauncherFault(w)
  <2>1. wk[w].pc # "idle" /\ ~RowLeft(w)
    BY <1>1 DEF AtItPc, RowLeft
  <2>2. (wk'[w].pc \in AtItPc /\ wk[w].pc # "enqueue") \/ \E n \in Msg : EnqueueRetry(w, n)
    BY <1>1, <1>3, <2>1, WorkerGoes DEF Goes
  <2>3. ASSUME wk'[w].pc \in AtItPc, wk[w].pc # "enqueue" PROVE AtIt(w, r, i)'
    <3>1. \A m \in Msg : ~Receive(w, m)
      BY <2>1, WorkerBegins
    <3>2. wk'[w].pc # "idle"
      BY <2>3 DEF AtItPc
    <3>3. JobOf(w)' = JobOf(w)
      BY <3>1, <3>2, JobStays
    <3>4. QED
      BY <1>1, <2>3, <3>3 DEF AtIt
  <2>4. QED
    BY <2>2, <2>3
<1>4. QED
  BY <1>2, <1>3, WorkGoesOn

(* What bears a row goes on to, unless the worker at it lets go of it.     *)
LEMMA RowBorne ==
  ASSUME NothingDropped, TypeInv, TypeInv', LadderInv, LadderInv', OwnInv, OwnInv', PastInv, PastInv', EnqueueNamed, Next,
         NEW m \in Msg, NEW r \in Row, BearsRow(m, r),
         row[r].status = "launching", row'[r].status = "launching"
  PROVE  \/ BearsRow(m, r)' /\ msg'[m].job = msg[m].job
         \/ \E w \in Worker : /\ wk[w].pc # "idle" /\ wk[w].msg = m /\ JobOf(w) = msg[m].job /\ IsRetry(w)
                              /\ RetryGuard(w) /\ Superseded(w)
         \/ \E w \in Worker, n \in Msg : wk[w].msg = m /\ JobOf(w) = msg[m].job /\ EnqueueRetry(w, n)
<1> DEFINE Goal ==
         \/ BearsRow(m, r)' /\ msg'[m].job = msg[m].job
         \/ \E w \in Worker : /\ wk[w].pc # "idle" /\ wk[w].msg = m /\ JobOf(w) = msg[m].job /\ IsRetry(w)
                              /\ RetryGuard(w) /\ Superseded(w)
         \/ \E w \in Worker, n \in Msg : wk[w].msg = m /\ JobOf(w) = msg[m].job /\ EnqueueRetry(w, n)
<1>t. row \in [Row -> RowItem]
  BY DEF TypeInv, TypeOK
<1>1. Pending(m) /\ ~LettingGo(m) /\ msg[m].job.row = r /\ msg[m].state # "none"
  BY DEF BearsRow, Pending
<1>2. Pending(m)' /\ msg'[m].job = msg[m].job
  BY <1>1, MessageSteps DEF MessagesOnward, LettingGo, Ack, LadderInv
<1>3. CASE ~LettingGo(m)'
  BY <1>1, <1>2, <1>3 DEF BearsRow
<1> HIDE DEF Goal
<1>4. ASSUME NEW w \in Worker, wk'[w].pc \in {"stats", "ack"}, wk'[w].msg = m PROVE Goal
  <2>1. wk'[w] # wk[w]
    BY <1>1, <1>4 DEF LettingGo
  <2>2. \A n \in Msg : ~Receive(w, n)
    BY <1>4, WorkerBegins
  <2>3. /\ LauncherStep(w) \/ LauncherFault(w)
        /\ wk[w].pc # "idle" /\ wk[w].msg = m /\ JobOf(w)' = JobOf(w)
    BY <1>4, <2>1, <2>2, JobStays
  <2>4. JobOf(w) = msg[m].job /\ JobOf(w).row = r
    BY <1>1, <2>3 DEF JobOf
  <2>5. wk'[w].pc \notin PastPc /\ wk[w].pc \notin PastPc
    <3>1. ASSUME wk[w].pc \in PastPc PROVE FALSE
      BY <2>4, <3>1 DEF PastInv, WorkersPast, Past
    <3>2. ASSUME wk'[w].pc \in PastPc PROVE FALSE
      <4>1. Past(JobOf(w).row)'
        BY <3>2 DEF PastInv, WorkersPast
      <4>2. row'[r].status # "launching"
        BY <2>3, <2>4, <4>1 DEF Past
      <4>3. QED
        BY <4>2
    <3>3. QED
      BY <3>1, <3>2
  <2>6. wk'[w].pc = "ack"
    BY <1>4, <2>5 DEF PastPc
  <2>7. ~DenyInstance(w) /\ ~CountFailure(w)
    BY <2>5 DEF DenyInstance, CountFailure, Step, PastPc
  <2>8. ~GateDenies(w)
    BY <1>t, <2>4 DEF GateDenies, SetRow, RowItem
  <2>9. ~FailRowAgain(w)
    BY <2>4 DEF FailRowAgain, NotYetFailed
  <2>10. ASSUME RetryGuard(w), Superseded(w) PROVE Goal
    <3>1. IsRetry(w)
      BY <2>10 DEF RetryGuard, Step, PastInv, GuardsRetry
    <3>2. QED
      BY <2>3, <2>4, <2>10, <3>1 DEF Goal
  <2>11. ASSUME NEW n \in Msg, EnqueueRetry(w, n) PROVE Goal
    BY <2>3, <2>4, <2>11 DEF Goal
  <2>12. QED
    BY <2>3, <2>6, <2>7, <2>8, <2>9, <2>10, <2>11, LauncherPath
<1>5. Goal
  BY <1>3, <1>4 DEF LettingGo, Goal
<1>6. QED
  BY <1>5 DEF Goal

(* The next attempt bears the row.                                         *)
LEMMA RetryBearsRow ==
  ASSUME NothingDropped, TypeInv, LadderInv, OwnInv, Next, NEW w \in Worker, NEW n \in Msg, EnqueueRetry(w, n),
         NEW r \in Row, JobOf(w).row = r
  PROVE  /\ BearsRow(n, r)' /\ msg'[n].job.inst = wk[w].inst
         /\ wk[w].inst \in Inst /\ (IsRetry(w) => wk[w].inst = JobOf(w).inst)
         /\ inst' = inst /\ row' = row
<1>1. wk[w].pc = "enqueue" /\ wk'[w].inst = wk[w].inst
  BY DEF EnqueueRetry, Step, SetWorker, TypeInv, TypeOK, WorkerState
<1>2. JobOf(w) \in Job
  BY <1>1 DEF TypeInv, TypeOK, BusyHoldsMessage, Message, JobOf
<1>3. NextAttempt(w).row = JobOf(w).row /\ NextAttempt(w).inst = wk[w].inst
  BY <1>2 DEF NextAttempt, Job
<1>4. msg'[n].job = NextAttempt(w)
  <2> DEFINE job == NextAttempt(w)
  <2>1. Send(n, job)
    BY DEF EnqueueRetry
  <2> HIDE DEF job
  <2>2. msg'[n].job = job
    BY <2>1 DEF Send, TypeInv, TypeOK
  <2>3. QED
    BY <2>2 DEF job
<1>5. Pending(n)' /\ ~LettingGo(n)'
  BY RetryBears DEF Bears
<1>6. BearsRow(n, r)'
  BY <1>3, <1>4, <1>5 DEF BearsRow
<1>7. QED
  BY <1>1, <1>3, <1>4, <1>6 DEF EnqueueRetry, LadderInv, WorkersNameInstances

(* The row that a worker references its tracking instance on is in its     *)
(* hands from then on.                                                     *)
LEMMA ReferenceClimbs ==
  ASSUME NothingDropped, TypeInv, LadderInv, OwnInv, Next, NEW w \in Worker, NEW r \in Row,
         Held(w, r), ReferenceTracking(w), NEW i \in Inst, i = wk[w].inst
  PROVE  Climbed(r, i)'
<1>1. wk[w].pc # "idle" /\ wk'[w].pc = "enqueue" /\ wk'[w].inst = wk[w].inst /\ wk'[w].msg = wk[w].msg
  BY DEF ReferenceTracking, Step, SetWorker, TypeInv, TypeOK, WorkerState
<1>2. JobOf(w)' = JobOf(w) /\ JobOf(w).row = r
  BY <1>1, JobStays DEF Held
<1>3. AtIt(w, r, i)'
  BY <1>1, <1>2 DEF AtIt, AtItPc
<1>4. QED
  BY <1>3 DEF Climbed

(* A row whose ladder has yet to begin goes on so, or names the instance   *)
(* that its first failure has made.                                        *)
LEMMA BegunKept ==
  ASSUME NothingDropped, PassesGoOn, TypeInv, TypeInv', ReleaseInv, LadderInv, LadderInv', OwnInv, OwnInv',
         PastInv, PastInv', EnqueueNamed, Next, NEW r \in Row,
         row[r].status = "launching", row'[r].status = "launching", row[r].inst = None, Begun(r)
  PROVE  /\ row'[r].inst = None => Begun(r)'
         /\ \A i \in Inst : row'[r].inst = i => Climbed(r, i)'
<1>1. ASSUME NEW i \in Inst, row'[r].inst = i PROVE Climbed(r, i)'
  <2>1. PICK w \in Worker : Held(w, r) /\ ReferenceTracking(w) /\ row'[r].inst = wk[w].inst
    BY <1>1, NamesGrown, ConstantsAssumption DEF NamesGrow
  <2>2. QED
    BY <1>1, <2>1, ReferenceClimbs
<1>2. ASSUME NEW d \in Tick, Sending(d, r) PROVE Begun(r)'
  <2>1. PassMoves(d)
    BY OneMoves, PassMoved, PassRests DEF PassesGoOn, TypeInv
  <2>2. CASE Sending(d, r)'
    BY <2>2 DEF Begun
  <2>3. ASSUME NEW m \in Msg, Released(d, r, m) PROVE Begun(r)'
    <3>1. /\ msg[m].state = "none" /\ wk' = wk
          /\ msg'[m].state = "visible" /\ msg'[m].job.row = r /\ msg'[m].job.inst = None
      BY <2>3 DEF Released, FreshMsg
    <3>2. ~LettingGo(m)'
      BY <3>1 DEF LettingGo, LadderInv, HeldIsSent
    <3>3. BearsRow(m, r)'
      BY <3>1, <3>2 DEF BearsRow, Pending
    <3>4. QED
      BY <3>1, <3>3 DEF Begun
  <2>4. QED
    BY <1>2, <2>1, <2>2, <2>3 DEF PassMoves
<1>3. ASSUME NEW m \in Msg, BearsRow(m, r), msg[m].job.inst = None PROVE Begun(r)'
  <2>1. CASE BearsRow(m, r)' /\ msg'[m].job = msg[m].job
    BY <1>3, <2>1 DEF Begun
  <2>2. ASSUME NEW w \in Worker, JobOf(w) = msg[m].job, IsRetry(w) PROVE FALSE
    BY <1>3, <2>2 DEF IsRetry
  <2>3. ASSUME NEW w \in Worker, NEW n \in Msg, JobOf(w) = msg[m].job, EnqueueRetry(w, n) PROVE FALSE
    BY <1>3, <2>3 DEF BearsRow, EnqueueRetry, Step, EnqueueNamed
  <2>4. QED
    BY <1>3, <2>1, <2>2, <2>3, RowBorne
<1>4. Begun(r)'
  BY <1>2, <1>3 DEF Begun
<1>5. QED
  BY <1>1, <1>4

(* A row whose ladder somebody climbs goes on so.                          *)
LEMMA ClimbedKept ==
  ASSUME NothingDropped, TypeInv, TypeInv', ReleaseInv, LadderInv, LadderInv', OwnInv, OwnInv',
         PastInv, PastInv', EnqueueNamed, EndedIsKnown, EndedIsKnown', Next, NEW r \in Row,
         row[r].status = "launching", row'[r].status = "launching", NEW x \in Inst, row[r].inst = x, Climbed(r, x)
  PROVE  row'[r].inst # None /\ \A i \in Inst : row'[r].inst = i => Climbed(r, i)'
<1>x. x \in Inst /\ Owns(r, x)
  BY DEF Owns, OwnsRow
<1>o. OneOwner /\ OneOwner' /\ Exists(x)
  BY <1>x DEF OwnInv, OwnedIsKnown
<1>1. ASSUME NEW w \in Worker, Held(w, r), ReferenceTracking(w), row'[r].inst = wk[w].inst
      PROVE  row'[r].inst # None /\ \A i \in Inst : row'[r].inst = i => Climbed(r, i)'
  <2>1. wk[w].inst \in Inst
    BY <1>1 DEF ReferenceTracking, Step, LadderInv, WorkersNameInstances
  <2>2. QED
    BY <1>1, <2>1, ReferenceClimbs, ConstantsAssumption
<1>2. ASSUME row'[r].inst = x PROVE Climbed(r, x)'
  <2>k. Owns(r, x)'
    BY <1>2 DEF Owns, OwnsRow
  <2>a. ASSUME NEW w \in Worker, AtIt(w, r, x)' PROVE Climbed(r, x)'
    BY <2>a DEF Climbed
  <2>e. ASSUME inst'[x].status # "running" PROVE Climbed(r, x)'
    <3>1. CASE inst'[x].mid # None
      BY <2>e, <3>1 DEF Climbed
    <3>2. ASSUME NEW w \in Worker, FailsRow(w, x)' PROVE Climbed(r, x)'
      <4>1. wk'[w].pc = "failRow" /\ JobOf(w)'.inst = x
        BY <3>2 DEF FailsRow
      <4>2. /\ wk'[w].msg \in Msg /\ msg'[wk'[w].msg].state # "none" /\ JobOf(w)' = msg'[wk'[w].msg].job
            /\ JobOf(w)'.row \in Row
        BY <4>1 DEF JobOf, TypeInv, TypeOK, BusyHoldsMessage, LadderInv, HeldIsSent, Message, Job
      <4>3. \A s \in Row : JobOf(w)'.row = s => Owns(s, x)'
        BY <4>1, <4>2 DEF Owns, OwnsJob
      <4>4. JobOf(w)'.row = r
        BY <1>x, <1>o, <2>k, <4>2, <4>3 DEF OneOwner
      <4>5. AtIt(w, r, x)'
        BY <4>1, <4>4 DEF AtIt, AtItPc
      <4>6. QED
        BY <2>a, <4>5
    <3>3. QED
      BY <1>x, <2>e, <2>k, <3>1, <3>2 DEF EndedIsKnown
  <2>r. ASSUME NEW w \in Worker, NEW n \in Msg, EnqueueRetry(w, n), JobOf(w).row = r,
               JobOf(w).inst = x \/ wk[w].inst = x
        PROVE  Climbed(r, x)'
    <3>1. JobOf(w).inst = x => IsRetry(w)
      BY <1>x, ConstantsAssumption DEF IsRetry
    <3>2. BearsRow(n, r)' /\ msg'[n].job.inst = x
      BY <2>r, <3>1, RetryBearsRow
    <3>3. CASE inst'[x].status = "running"
      BY <3>2, <3>3 DEF Climbed
    <3>4. QED
      BY <2>e, <3>3
  <2>1. ASSUME NEW w \in Worker, AtIt(w, r, x) PROVE Climbed(r, x)'
    <3>1. ASSUME NEW n \in Msg, EnqueueRetry(w, n) PROVE Climbed(r, x)'
      BY <2>1, <2>r, <3>1 DEF AtIt
    <3>2. QED
      BY <1>x, <2>1, <2>a, <3>1, AtItStays
  <2>2. ASSUME NEW m \in Msg, inst[x].status = "running", BearsRow(m, r), msg[m].job.inst = x PROVE Climbed(r, x)'
    <3>1. ASSUME BearsRow(m, r)', msg'[m].job = msg[m].job PROVE Climbed(r, x)'
      <4>1. CASE inst'[x].status = "running"
        BY <2>2, <3>1, <4>1 DEF Climbed
      <4>2. QED
        BY <2>e, <4>1
    <3>2. ASSUME NEW w \in Worker, JobOf(w) = msg[m].job, Superseded(w) PROVE FALSE
      BY <2>2, <3>2 DEF Superseded
    <3>3. ASSUME NEW w \in Worker, NEW n \in Msg, JobOf(w) = msg[m].job, EnqueueRetry(w, n) PROVE Climbed(r, x)'
      BY <2>2, <2>r, <3>3 DEF BearsRow
    <3>4. QED
      BY <2>2, <3>1, <3>2, <3>3, RowBorne
  <2>3. ASSUME inst[x].mid # None, inst[x].status # "running" PROVE Climbed(r, x)'
    <3>1. CASE inst'[x].status # "running"
      BY <2>e, <3>1
    <3>2. ASSUME NEW w \in Worker, PersistRetry(w), JobOf(w).inst = x PROVE Climbed(r, x)'
      <4>1. wk[w].pc # "idle" /\ wk'[w].pc = "record" /\ wk'[w].msg = wk[w].msg
        BY <3>2 DEF PersistRetry, SetWorker, TypeInv, TypeOK, WorkerState
      <4>2. JobOf(w)' = JobOf(w) /\ Owns(JobOf(w).row, x) /\ JobOf(w).row \in Row
        BY <1>x, <3>2, <4>1, JobStays, HeldIsOwned, ConstantsAssumption DEF Owns
      <4>3. JobOf(w).row = r
        BY <1>x, <1>o, <4>2 DEF OneOwner
      <4>4. AtIt(w, r, x)'
        BY <3>2, <4>1, <4>2, <4>3 DEF AtIt, AtItPc
      <4>5. QED
        BY <2>a, <4>4
    <3>3. ASSUME NEW w \in Worker, PersistNew(w, x) \/ TrackNew(w, x) PROVE FALSE
      BY <1>o, <3>3 DEF PersistNew, TrackNew, FreshInst, Exists
    <3>4. inst'[x] = inst[x] \/ inst'[x].status \in Terminal \/ \E w \in Worker : PersistRetry(w) /\ JobOf(w).inst = x
      BY <1>x, <3>3, InstMoved DEF InstMoves, Terminal
    <3>5. QED
      BY <2>3, <3>1, <3>2, <3>4 DEF Terminal
  <2>4. QED
    BY <2>1, <2>2, <2>3 DEF Climbed
<1>3. CASE row'[r].inst = x
  <2>1. x # None
    BY ConstantsAssumption
  <2>2. QED
    BY <1>2, <1>3, <2>1
<1>4. row'[r].inst = x \/ \E w \in Worker : Held(w, r) /\ ReferenceTracking(w) /\ row'[r].inst = wk[w].inst
  BY NamesGrown DEF NamesGrow
<1>5. QED
  BY <1>1, <1>3, <1>4

(* A row that is being launched is carried.                                *)
LEMMA CarriedKept ==
  ASSUME NothingDropped, PassesGoOn, TypeInv, TypeInv', ReleaseInv, LadderInv, LadderInv',
         CarryInv, OwnInv', PastInv', EndedIsKnown', Next
  PROVE  RowCarried'
<1> USE DEF CarryInv
<1> SUFFICES ASSUME NEW r \in Row, row'[r].status = "launching"
             PROVE  /\ row'[r].inst = None => Begun(r)'
                    /\ \A i \in Inst : row'[r].inst = i => Climbed(r, i)'
  BY DEF RowCarried
<1>1. CASE row[r].status = "launching" /\ row[r].inst = None
  BY <1>1, BegunKept DEF RowCarried
<1>2. ASSUME row[r].status = "launching", NEW x \in Inst, row[r].inst = x
      PROVE  row'[r].inst # None /\ \A i \in Inst : row'[r].inst = i => Climbed(r, i)'
  BY <1>2, ClimbedKept DEF RowCarried
<1>3. CASE row[r].status # "launching"
  <2>1. hist.released[r] = 0
    BY <1>3, LaunchingBefore
  <2>2. row[r].status = "queued"
    <3>1. \A w \in Worker : ~Worked(w, r)
      BY <2>1, HeldIsOwned DEF Worked
    <3>2. \A q \in Req : ~PutAnew(q, r)
      BY ConstantsAssumption DEF PutAnew
    <3>3. QED
      BY <1>3, <3>1, <3>2, RowMoved DEF RowMoves, Swept, Resolved, Claimed, Cancelled, Terminal
  <2>3. row'[r].inst = row[r].inst /\ Begun(r)'
    BY <2>2, ClaimInHand DEF Begun
  <2>4. row[r].inst = None
    BY <2>1 DEF OwnInv, OwnedIsKnown, Owns, OwnsRow, TypeInv, TypeOK, RowItem
  <2>5. QED
    BY <2>3, <2>4, ConstantsAssumption
<1>4. row[r].inst = None \/ row[r].inst \in Inst
  BY DEF TypeInv, TypeOK, RowItem
<1>5. QED
  BY <1>1, <1>2, <1>3, <1>4

(* The inductive step.                                                     *)
LEMMA CarryStep ==
  ASSUME OneStart, NothingDropped \/ UNCHANGED vars, PassesGoOn \/ UNCHANGED vars,
         TypeInv, ReleaseInv, LadderInv, CarryInv, [Next]_vars
  PROVE  CarryInv'
<1>1. CASE Next /\ NothingDropped /\ PassesGoOn
  <2>1. TypeInv' /\ ReleaseInv' /\ LadderInv'
    BY <1>1, StepType, ReleaseStep, LadderStep
  <2>2. OwnInv' /\ PastInv' /\ EnqueueNamed' /\ EndedIsKnown'
    BY <1>1, OwnKept, PastKept, NamedKept, EndedKept DEF CarryInv
  <2>3. QED
    BY <1>1, <2>1, <2>2, CarriedKept DEF CarryInv
<1>2. CASE UNCHANGED vars
  <2>1. OwnInv' /\ PastInv'
    BY <1>2 DEF vars, CarryInv, OwnInv, PastInv, OneOwner, OwnedIsKnown, SentIsReleased, LaunchedIsSent,
       GuardsRetry, WorkersPast, SweepsPast, StopsPast, Past, Sweeping, Exists, IsRetry, JobOf,
       Owns, OwnsRow, OwnsJob, OwnsWork, OwnsSweep, OwnsStop, Held
  <2>2. EnqueueNamed' /\ EndedIsKnown'
    BY <1>2 DEF vars, CarryInv, EnqueueNamed, EndedIsKnown, FailsRow, JobOf,
       Owns, OwnsRow, OwnsJob, OwnsWork, OwnsSweep, OwnsStop, Held
  <2>3. RowCarried'
    BY <1>2 DEF vars, CarryInv, RowCarried, Begun, Climbed, AtIt, BearsRow, Pending, LettingGo, Sending, JobOf
  <2>4. QED
    BY <2>1, <2>2, <2>3 DEF CarryInv
<1>3. QED
  BY <1>1, <1>2

(* "A stuck 'launching' row is a hard deadlock": every row that is being   *)
(* launched is about to be sent, or a message or a worker carries its job, *)
(* or its workflow was launched and has ended - however messages are       *)
(* delivered again, launches take too long and are swept, answers and      *)
(* writes of the try block are lost, and cancels fall between - provided a *)
(* run is started by one request, no pass breaks off between the claim of  *)
(* a row and its send, no worker dies over a job, and the writes of the    *)
(* catch block land: for what those leave there is only the sweep.         *)
THEOREM LaunchingIsInHand == OneStart /\ CarriersLand => (Spec => []LaunchingIsCarried)
<1> SUFFICES ASSUME OneStart, CarriersLand PROVE Spec => []LaunchingIsCarried
  OBVIOUS
<1> DEFINE Inv == TypeInv /\ ReleaseInv /\ LadderInv /\ CarryInv
<1>1. Init => Inv
  BY InitType, ReleaseInit, LadderInit, CarryInit
<1>2. Inv /\ [Next]_vars => Inv'
  <2>1. NothingDropped
    BY DEF NothingDropped, CarriersLand, FinalFails, WorkerCrashes, Fault
  <2>2. PassesGoOn
    BY DEF PassesGoOn, CarriersLand, DispatcherFault, DispatchFails, TickCrashes, Fault
  <2>3. QED
    BY <2>1, <2>2, StepType, ReleaseStep, LadderStep, CarryStep
<1>3. Inv => LaunchingIsCarried
  <2> SUFFICES ASSUME Inv, NEW r \in Row, row[r].status = "launching"
               PROVE  \/ \E d \in Tick : Sending(d, r)
                      \/ \E m \in Msg : Pending(m) /\ msg[m].job.row = r
                      \/ \E w \in Worker : wk[w].pc # "idle" /\ JobOf(w).row = r
                      \/ EndedUnrecorded(r)
    BY DEF LaunchingIsCarried, Sending, Pending
  <2>1. CASE row[r].inst = None
    BY <2>1 DEF CarryInv, RowCarried, Begun, BearsRow
  <2>2. ASSUME NEW x \in Inst, row[r].inst = x
        PROVE  \/ \E m \in Msg : Pending(m) /\ msg[m].job.row = r
               \/ \E w \in Worker : wk[w].pc # "idle" /\ JobOf(w).row = r
               \/ EndedUnrecorded(r)
    <3>1. x # None /\ Climbed(r, x)
      BY <2>2, ConstantsAssumption DEF CarryInv, RowCarried
    <3>2. CASE \E w \in Worker : AtIt(w, r, x)
      BY <3>2 DEF AtIt, AtItPc
    <3>3. CASE inst[x].mid # None /\ inst[x].status # "running"
      BY <2>2, <3>1, <3>3 DEF EndedUnrecorded
    <3>4. QED
      BY <3>1, <3>2, <3>3 DEF Climbed, BearsRow
  <2>3. row[r].inst = None \/ row[r].inst \in Inst
    BY DEF TypeInv, TypeOK, RowItem
  <2>4. QED
    BY <2>1, <2>2, <2>3
<1>4. QED
  BY <1>1, <1>2, <1>3, PTL DEF Spec
=============================================================================
