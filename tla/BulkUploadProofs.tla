-------------------------- MODULE BulkUploadProofs --------------------------
(***************************************************************************)
(* Theorems about BulkUpload, for every number of rows, passes, workers    *)
(* and requests and for every choice of faults.                            *)
(***************************************************************************)
EXTENDS BulkUpload, TLAPS

(* TypeOK is not inductive alone: a busy worker looks its job up by the    *)
(* message it holds, so it must hold one.                                  *)
BusyHoldsMessage == \A w \in Worker : wk[w].pc # "idle" => wk[w].msg \in Msg
TypeInv == TypeOK /\ BusyHoldsMessage

(* A freshly uploaded, legacy or just started run is well typed.           *)
LEMMA InitType == Init => TypeInv
  BY ConstantsAssumption
  DEF Init, TypeInv, TypeOK, BusyHoldsMessage, IdleWorker, IdleTick, IdleReq,
      RunStatus, RowStatus, RowItem, InstStatus, Job, Terminal, TickPc, WorkerPc, ReqPc,
      RunItem, InstItem, Message, MaestroState, WorkerState, TickState, ReqState, History

----------------------------------------------------------------------------
(* Time, Maestro, the instance sync and the rows view keep the types.      *)
LEMMA EnvironmentType ==
  ASSUME TypeInv, Environment PROVE TypeInv'
<1> USE DEF TypeInv, TypeOK, BusyHoldsMessage
<1>1. CASE ReleaseTimeComes
  BY <1>1 DEF ReleaseTimeComes, others, RunItem
<1>2. ASSUME NEW r \in Row, Age(r) PROVE TypeInv'
  BY <1>2 DEF Age, others, RowItem
<1>3. ASSUME NEW m \in Msg, Reappear(m) PROVE TypeInv'
  BY <1>3 DEF Reappear, others, Message
<1>4. ASSUME NEW m \in Msg, ReappearEarly(m) PROVE TypeInv'
  BY <1>4, ConstantsAssumption DEF ReappearEarly, Fault, Message
<1>5. ASSUME NEW k \in Mid, WorkflowEnds(k) PROVE TypeInv'
  BY <1>5, ConstantsAssumption DEF WorkflowEnds, others, MaestroState, Terminal
<1>6. ASSUME NEW i \in Inst, SyncInstance(i) PROVE TypeInv'
  BY <1>6 DEF SyncInstance, SetInst, others, InstItem, InstStatus
<1>7. CASE ViewRows
  BY <1>7 DEF ViewRows, ResolveRows, InstanceEnded, others, RowItem, RowStatus, Terminal
<1>8. QED
  BY <1>1, <1>2, <1>3, <1>4, <1>5, <1>6, <1>7 DEF Environment
----------------------------------------------------------------------------
(* Updating the fields of a dispatcher pass keeps it one.                  *)
LEMMA TickFields ==
  ASSUME NEW t \in TickState, NEW p \in TickPc, NEW R \in SUBSET Row, NEW n \in Nat
  PROVE  /\ [t EXCEPT !.pc = p] \in TickState
         /\ [t EXCEPT !.todo = R] \in TickState
         /\ [t EXCEPT !.pc = p, !.todo = R] \in TickState
         /\ [t EXCEPT !.pc = p, !.todo = R, !.released = TRUE] \in TickState
         /\ [t EXCEPT !.pc = p, !.todo = R, !.swept = n] \in TickState
  BY DEF TickState

(* The attribute updates of a batch-rows item keep it one.                 *)
LEMMA RowFields ==
  ASSUME NEW t \in RowItem, NEW s \in RowStatus, NEW i \in Inst \cup {None}
  PROVE  /\ [t EXCEPT !.status = s] \in RowItem
         /\ [t EXCEPT !.inst = i] \in RowItem
         /\ [t EXCEPT !.status = s, !.inst = i] \in RowItem
         /\ [t EXCEPT !.status = s, !.stale = FALSE] \in RowItem
  BY DEF RowItem

(* The attribute updates of the batch-runs item keep it one.               *)
LEMMA RunFields ==
  ASSUME NEW s \in RunStatus, NEW n \in Nat, NEW b \in BOOLEAN, run \in RunItem
  PROVE  /\ [run EXCEPT !.status = s] \in RunItem
         /\ [run EXCEPT !.streak = n] \in RunItem
         /\ [run EXCEPT !.due = b] \in RunItem
         /\ [run EXCEPT !.status = s, !.streak = n] \in RunItem
         /\ [run EXCEPT !.status = s, !.due = b, !.streak = n] \in RunItem
  BY DEF RunItem

(* Counting a release, a late release or a notice keeps the history.       *)
LEMMA HistFields ==
  ASSUME hist \in History, NEW r \in Row, NEW n \in Nat
  PROVE  /\ [hist EXCEPT !.released[r] = @ + 1] \in History
         /\ [hist EXCEPT !.late = @ + 1] \in History
         /\ [hist EXCEPT !.late = 0] \in History
         /\ [hist EXCEPT !.notices = @ + 1] \in History
  BY DEF History

----------------------------------------------------------------------------
(* Every step and failure of dispatchDueBatchRuns keeps the types.         *)
LEMMA DispatcherType ==
  ASSUME TypeInv, NEW d \in Tick, DispatcherStep(d) \/ DispatcherFault(d) PROVE TypeInv'
<1> USE ConstantsAssumption DEF TickUnchanged
<1>a. TypeOK /\ BusyHoldsMessage
  BY DEF TypeInv
<1>t. /\ tick \in [Tick -> TickState] /\ tick[d] \in TickState
      /\ tick[d].todo \in SUBSET Row /\ tick[d].swept \in Nat
      /\ \A r \in Row : row[r] \in RowItem
      /\ run \in RunItem /\ hist \in History
  BY <1>a DEF TypeOK, TickState
<1>i. IdleTick \in TickState
  BY DEF IdleTick, TickState, TickPc
<1>s. ASSUME NEW t \in TickState, SetTick(d, t) PROVE tick' \in [Tick -> TickState]
  BY <1>t, <1>s DEF SetTick
<1>h. ToHeld(d) => tick' \in [Tick -> TickState]
  <2>1. [IdleTick EXCEPT !.pc = "held", !.seen = tick[d].seen] \in TickState
    BY <1>t, <1>i DEF TickState, TickPc
  <2>2. QED
    BY <2>1, <1>s DEF ToHeld
<1>p. "release" \in TickPc /\ "send" \in TickPc /\ "checkRows" \in TickPc
      /\ "checkInst" \in TickPc /\ "complete" \in TickPc
      /\ "sweep" \in TickPc /\ "resolve" \in TickPc
  BY DEF TickPc
<1>1. CASE ScanRunning(d)
  <2>1. tick' \in [Tick -> TickState]
    BY <1>t, <1>i, <1>1 DEF ScanRunning, InRunningScan, SetTick, TickState, TickPc, RunItem
  <2>2. TypeOK'
    BY <1>a, <1>1, <2>1 DEF ScanRunning, TypeOK
  <2>3. QED
    BY <1>a, <1>1, <2>2 DEF ScanRunning, TypeInv, BusyHoldsMessage
<1>2. CASE StopRun(d)
  <2>1. tick' \in [Tick -> TickState]
    BY <1>h, <1>2 DEF StopRun
  <2>2. TypeOK'
    BY <1>a, <1>2, <2>1, <1>t, RunFields DEF StopRun, TypeOK, RunStatus
  <2>3. QED
    BY <1>a, <1>2, <2>2 DEF StopRun, TypeInv, BusyHoldsMessage
<1>3. CASE QueryQueuedRows(d)
  <2>1. tick' \in [Tick -> TickState]
    <3> DEFINE R == FirstRows(ReleaseLimit, {r \in Row : row[r].status = "queued"})
    <3>1. [tick[d] EXCEPT !.pc = "release", !.streak = 0, !.todo = R] \in TickState
      BY <1>t DEF FirstRows, TickState, TickPc
    <3>2. QED
      BY <3>1, <1>s, <1>3 DEF QueryQueuedRows
  <2>2. TypeOK'
    BY <1>a, <1>3, <2>1 DEF QueryQueuedRows, TypeOK
  <2>3. QED
    BY <1>a, <1>3, <2>2 DEF QueryQueuedRows, TypeInv, BusyHoldsMessage
<1>4. CASE ClaimRow(d)
  <2>1. tick' \in [Tick -> TickState]
    BY <1>t, <1>s, <1>p, TickFields, <1>4 DEF ClaimRow, TickStep
  <2>2. TypeOK'
    <3>1. PICK r \in tick[d].todo :
            /\ row' = [row EXCEPT ![r] = [@ EXCEPT !.status = "launching", !.stale = FALSE]]
            /\ hist' = IF run.status = "running" THEN hist ELSE [hist EXCEPT !.late = @ + 1]
      BY <1>4 DEF ClaimRow
    <3>2. row' \in [Row -> RowItem]
      BY <1>a, <1>t, <3>1, RowFields DEF TypeOK, RowStatus
    <3>3. hist' \in History
      BY <1>t, <3>1, HistFields
    <3>4. QED
      BY <1>a, <1>4, <2>1, <3>2, <3>3 DEF ClaimRow, TypeOK
  <2>3. QED
    BY <1>a, <1>4, <2>2 DEF ClaimRow, TypeInv, BusyHoldsMessage
<1>5. CASE ClaimLost(d)
  <2>1. tick' \in [Tick -> TickState]
    BY <1>t, <1>s, <1>p, TickFields, <1>5 DEF ClaimLost
  <2>2. TypeOK'
    BY <1>a, <1>5, <2>1 DEF ClaimLost, TypeOK
  <2>3. QED
    BY <1>a, <1>5, <2>2 DEF ClaimLost, TypeInv, BusyHoldsMessage
<1>6. CASE SendJob(d)
  <2>1. tick' \in [Tick -> TickState]
    BY <1>t, <1>s, <1>p, TickFields, <1>6 DEF SendJob
  <2>2. TypeOK'
    <3>1. PICK r \in tick[d].todo, m \in Msg :
            /\ Send(m, [row |-> r, attempt |-> 0, inst |-> None])
            /\ hist' = [hist EXCEPT !.released[r] = @ + 1]
      BY <1>6 DEF SendJob
    <3>2. r \in Row
      BY <1>t
    <3>3. msg' \in [Msg -> Message]
      BY <1>a, <3>1, <3>2 DEF TypeOK, Send, Message, Job
    <3>4. hist' \in History
      BY <1>t, <3>1, <3>2, HistFields
    <3>5. QED
      BY <1>a, <1>6, <2>1, <3>3, <3>4 DEF SendJob, TypeOK
  <2>3. QED
    BY <1>a, <1>6, <2>2 DEF SendJob, TypeInv, BusyHoldsMessage
<1>7. CASE AdvanceRelease(d)
  <2>1. tick' \in [Tick -> TickState]
    BY <1>t, <1>h, <1>s, <1>p, TickFields, <1>7 DEF AdvanceRelease, TickStep
  <2>2. TypeOK'
    <3>1. run' \in RunItem
      BY <1>t, <1>7 DEF AdvanceRelease, WithLaterRelease, RunItem
    <3>2. QED
      BY <1>a, <1>7, <2>1, <3>1 DEF AdvanceRelease, TypeOK
  <2>3. QED
    BY <1>a, <1>7, <2>2 DEF AdvanceRelease, TypeInv, BusyHoldsMessage
<1>8. CASE CheckRows(d)
  <2>1. tick' \in [Tick -> TickState]
    BY <1>t, <1>h, <1>s, <1>p, TickFields, <1>8 DEF CheckRows
  <2>2. TypeOK'
    BY <1>a, <1>8, <2>1 DEF CheckRows, TypeOK
  <2>3. QED
    BY <1>a, <1>8, <2>2 DEF CheckRows, TypeInv, BusyHoldsMessage
<1>9. CASE CheckInstances(d)
  <2>1. tick' \in [Tick -> TickState]
    BY <1>t, <1>h, <1>s, <1>p, TickFields, <1>9 DEF CheckInstances
  <2>2. TypeOK'
    BY <1>a, <1>9, <2>1
    DEF CheckInstances, TypeOK, ResolveRows, InstanceEnded, RowItem, RowStatus, Terminal
  <2>3. QED
    BY <1>a, <1>9, <2>2 DEF CheckInstances, TypeInv, BusyHoldsMessage
<1>10. CASE CompleteRun(d)
  <2>1. tick' \in [Tick -> TickState]
    BY <1>h, <1>10 DEF CompleteRun
  <2>2. TypeOK'
    BY <1>a, <1>10, <2>1, <1>t, RunFields, HistFields
    DEF CompleteRun, TypeOK, SetRun, RunStatus
  <2>3. QED
    BY <1>a, <1>10, <2>2 DEF CompleteRun, TypeInv, BusyHoldsMessage
<1>11. CASE PromoteRun(d)
  <2>1. tick' \in [Tick -> TickState]
    BY <1>t, <1>11 DEF PromoteRun
  <2>2. TypeOK'
    <3>1. CASE run' = [run EXCEPT !.status = "running", !.due = TRUE, !.streak = 0]
      BY <1>a, <1>t, <1>11, <2>1, <3>1 DEF PromoteRun, RunStatus, RunItem, TypeOK
    <3>2. CASE run' = [run EXCEPT !.status = "paused", !.streak = 0]
      BY <1>a, <1>t, <1>11, <2>1, <3>2 DEF PromoteRun, RunStatus, RunItem, TypeOK
    <3>3. QED
      BY <1>11, <3>1, <3>2 DEF PromoteRun
  <2>3. QED
    BY <1>a, <1>11, <2>2 DEF PromoteRun, TypeInv, BusyHoldsMessage
<1>12. CASE QueryLaunching(d)
  <2>1. tick' \in [Tick -> TickState]
    BY <1>a, <1>t, <1>s, <1>i, <1>p, <1>12 DEF QueryLaunching, TickState, RowItem
  <2>2. TypeOK'
    BY <1>a, <1>12, <2>1 DEF QueryLaunching, TypeOK
  <2>3. QED
    BY <1>a, <1>12, <2>2 DEF QueryLaunching, TypeInv, BusyHoldsMessage
<1>13. CASE SweepRow(d)
  <2>1. tick' \in [Tick -> TickState]
    <3>1. Saturate(tick[d].swept + 1) \in Nat
      BY <1>t DEF Saturate
    <3>2. QED
      BY <1>t, <1>s, <1>p, <1>13, <3>1, TickFields DEF SweepRow
  <2>2. TypeOK'
    <3>1. PICK r \in tick[d].todo : row' = [row EXCEPT ![r].status = "failed"]
      BY <1>13 DEF SweepRow, SetRow
    <3>2. r \in Row
      BY <1>t
    <3>3. row' \in [Row -> RowItem]
      BY <1>a, <3>1, <3>2 DEF TypeOK, RowItem, RowStatus, Terminal
    <3>4. QED
      BY <1>a, <1>13, <2>1, <3>3 DEF SweepRow, TypeOK
  <2>3. QED
    BY <1>a, <1>13, <2>2 DEF SweepRow, TypeInv, BusyHoldsMessage
<1>14. CASE SweepLost(d)
  <2>1. tick' \in [Tick -> TickState]
    BY <1>t, <1>s, <1>p, TickFields, <1>14 DEF SweepLost
  <2>2. TypeOK'
    BY <1>a, <1>14, <2>1 DEF SweepLost, TypeOK
  <2>3. QED
    BY <1>a, <1>14, <2>2 DEF SweepLost, TypeInv, BusyHoldsMessage
<1>15. CASE ResolveTracking(d)
  <2>1. tick' \in [Tick -> TickState]
    BY <1>t, <1>s, <1>p, TickFields, <1>15 DEF ResolveTracking
  <2>2. TypeOK'
    <3>1. inst' \in [Inst -> InstItem]
      BY <1>a, <1>15 DEF ResolveTracking, SetInst, TypeOK, InstItem, InstStatus, Terminal
    <3>2. QED
      BY <1>a, <1>15, <2>1, <3>1 DEF ResolveTracking, TypeOK
  <2>3. QED
    BY <1>a, <1>15, <2>2 DEF ResolveTracking, TypeInv, BusyHoldsMessage
<1>16. CASE SweepDone(d)
  <2>1. tick' \in [Tick -> TickState]
    BY <1>s, <1>i, <1>16 DEF SweepDone
  <2>2. TypeOK'
    <3>1. run' \in RunItem
      BY <1>t, <1>16 DEF SweepDone, AddFailures, Saturate, RunItem
    <3>2. QED
      BY <1>a, <1>16, <2>1, <3>1 DEF SweepDone, TypeOK
  <2>3. QED
    BY <1>a, <1>16, <2>2 DEF SweepDone, TypeInv, BusyHoldsMessage
<1>17. CASE DispatchFails(d)
  <2>1. tick' \in [Tick -> TickState]
    BY <1>h, <1>17 DEF DispatchFails
  <2>2. TypeOK'
    BY <1>a, <1>17, <2>1 DEF DispatchFails, TypeOK, Fault
  <2>3. QED
    BY <1>a, <1>17, <2>2 DEF DispatchFails, TypeInv, BusyHoldsMessage
<1>18. CASE TickCrashes(d)
  <2>1. tick' \in [Tick -> TickState]
    BY <1>s, <1>i, <1>18 DEF TickCrashes
  <2>2. TypeOK'
    BY <1>a, <1>18, <2>1 DEF TickCrashes, TypeOK, Fault
  <2>3. QED
    BY <1>a, <1>18, <2>2 DEF TickCrashes, TypeInv, BusyHoldsMessage
<1>q. QED
  BY <1>1, <1>2, <1>3, <1>4, <1>5, <1>6, <1>7, <1>8, <1>9, <1>10, <1>11, <1>12, <1>13,
     <1>14, <1>15, <1>16, <1>17, <1>18 DEF DispatcherStep, DispatcherFault

----------------------------------------------------------------------------
(* Updating the fields of a worker keeps it one, and its message.          *)
LEMMA WorkerFields ==
  ASSUME NEW t \in WorkerState, NEW p \in WorkerPc,
         NEW i \in Inst \cup {None}, NEW k \in Mid \cup {None}
  PROVE  /\ [t EXCEPT !.pc = p] \in WorkerState
         /\ [t EXCEPT !.pc = p, !.inst = i] \in WorkerState
         /\ [t EXCEPT !.pc = p, !.mid = k] \in WorkerState
         /\ [t EXCEPT !.pc = p, !.inst = i, !.mid = k] \in WorkerState
         /\ [t EXCEPT !.pc = p].msg = t.msg
         /\ [t EXCEPT !.pc = p, !.inst = i].msg = t.msg
         /\ [t EXCEPT !.pc = p, !.mid = k].msg = t.msg
         /\ [t EXCEPT !.pc = p, !.inst = i, !.mid = k].msg = t.msg
  BY DEF WorkerState

(* The job of the next attempt is a job.                                   *)
LEMMA JobFields ==
  ASSUME NEW job \in Job, NEW n \in Nat, NEW i \in Inst \cup {None}
  PROVE  [job EXCEPT !.attempt = n, !.inst = i] \in Job
  BY DEF Job

(* Writing a status, an item or an instance reference keeps the rows.      *)
LEMMA RowWrite ==
  ASSUME TypeOK, NEW r, NEW s \in RowStatus
  PROVE  /\ [row EXCEPT ![r].status = s] \in [Row -> RowItem]
         /\ \A v \in RowItem : [row EXCEPT ![r] = v] \in [Row -> RowItem]
         /\ \A i \in Inst \cup {None} : [row EXCEPT ![r].inst = i] \in [Row -> RowItem]
  BY DEF TypeOK, RowItem

(* Writing a status keeps the instance items.                              *)
LEMMA InstWrite ==
  ASSUME TypeOK, NEW i, NEW s \in InstStatus
  PROVE  [inst EXCEPT ![i].status = s] \in [Inst -> InstItem]
  BY DEF TypeOK, InstItem

(* Every step and failure of processWorkflowLaunchJob keeps the types.     *)
LEMMA LauncherType ==
  ASSUME TypeInv, NEW w \in Worker, LauncherStep(w) \/ LauncherFault(w) PROVE TypeInv'
<1> USE ConstantsAssumption DEF WorkerUnchanged
<1> DEFINE Typed == wk' \in [Worker -> WorkerState] /\ BusyHoldsMessage'
<1>a. TypeOK /\ BusyHoldsMessage
  BY DEF TypeInv
<1>t. /\ wk \in [Worker -> WorkerState] /\ wk[w] \in WorkerState
      /\ wk[w].inst \in Inst \cup {None} /\ wk[w].mid \in Mid \cup {None}
      /\ wk[w].pc # "idle" => wk[w].msg \in Msg
      /\ run \in RunItem
  BY <1>a DEF TypeOK, WorkerState, BusyHoldsMessage
<1>j. ASSUME wk[w].pc # "idle"
      PROVE  /\ JobOf(w) \in Job /\ JobOf(w).row \in Row /\ JobOf(w).attempt \in Nat
             /\ JobOf(w).inst \in Inst \cup {None} /\ row[JobOf(w).row] \in RowItem
  BY <1>a, <1>t, <1>j DEF TypeOK, JobOf, Message, Job
<1>i. IdleWorker \in WorkerState /\ IdleWorker.pc = "idle"
  BY DEF IdleWorker, WorkerState, WorkerPc
<1>s. ASSUME NEW t \in WorkerState, t.pc # "idle" => t.msg \in Msg, SetWorker(w, t)
      PROVE  Typed
  BY <1>a, <1>t, <1>s DEF SetWorker, BusyHoldsMessage
<1>k. ASSUME NEW f, f # "idle", NEW p \in WorkerPc, Step(w, f, p)
      PROVE  Typed
  <2>1. [wk[w] EXCEPT !.pc = p] \in WorkerState /\ [wk[w] EXCEPT !.pc = p].msg \in Msg
    BY <1>t, <1>k, WorkerFields DEF Step
  <2>2. QED
    BY <1>k, <1>s, <2>1 DEF Step
<1>e. ASSUME NEW p \in WorkerPc, NEW i \in Inst \cup {None}, NEW k \in Mid \cup {None},
             wk[w].pc # "idle"
      PROVE  /\ SetWorker(w, [wk[w] EXCEPT !.pc = p, !.inst = i]) => Typed
             /\ SetWorker(w, [wk[w] EXCEPT !.pc = p, !.inst = i, !.mid = k]) => Typed
  <2>1. /\ [wk[w] EXCEPT !.pc = p, !.inst = i] \in WorkerState
        /\ [wk[w] EXCEPT !.pc = p, !.inst = i, !.mid = k] \in WorkerState
    BY <1>t, <1>e, WorkerFields
  <2>2. /\ [wk[w] EXCEPT !.pc = p, !.inst = i].msg = wk[w].msg
        /\ [wk[w] EXCEPT !.pc = p, !.inst = i, !.mid = k].msg = wk[w].msg
    BY <1>t DEF WorkerState
  <2>3. QED
    BY <1>s, <1>t, <1>e, <2>1, <2>2
<1>p. \A p \in {"ack", "launch", "denyInst", "persist", "record", "readRun", "adopt", "undo",
              "undoInst", "reset", "stats", "track", "reference", "enqueue", "failInst",
              "failRow", "count"} : p \in WorkerPc
  BY DEF WorkerPc
<1>r. RetryOrFail(w) \in WorkerPc /\ FinalPc(w) \in WorkerPc
  BY <1>p DEF RetryOrFail, FinalPc
<1>1. ASSUME NEW m \in Msg, Receive(w, m) PROVE TypeInv'
  <2>1. Typed
    <3> DEFINE t == [IdleWorker EXCEPT
                   !.pc = IF msg[m].job.inst # None THEN "guard" ELSE "launch", !.msg = m]
    <3>1. t \in WorkerState /\ t.msg = m
      BY DEF IdleWorker, WorkerState, WorkerPc
    <3>2. QED
      BY <1>1, <1>s, <3>1 DEF Receive
  <2>2. TypeOK'
    <3>1. msg' \in [Msg -> Message]
      BY <1>a, <1>t, <1>1 DEF Receive, TypeOK, Message
    <3>2. QED
      BY <1>a, <1>1, <2>1, <3>1 DEF Receive, TypeOK, Fault
  <2>3. QED
    BY <2>1, <2>2 DEF TypeInv
<1>2. CASE RetryGuard(w)
  <2>1. Typed
    BY <1>2, <1>k, <1>p DEF RetryGuard
  <2>2. TypeOK'
    BY <1>a, <1>2, <2>1 DEF RetryGuard, TypeOK
  <2>3. QED
    BY <2>1, <2>2 DEF TypeInv
<1>3. CASE GateDenies(w)
  <2>1. Typed
    BY <1>3, <1>k, <1>p DEF GateDenies
  <2>2. TypeOK'
    <3>1. row' \in [Row -> RowItem]
      BY <1>a, <1>3, RowWrite DEF GateDenies, SetRow, RowStatus
    <3>2. QED
      BY <1>a, <1>3, <2>1, <3>1 DEF GateDenies, TypeOK
  <2>3. QED
    BY <2>1, <2>2 DEF TypeInv
<1>4. CASE DenyInstance(w)
  <2>1. Typed
    BY <1>4, <1>k, <1>p DEF DenyInstance
  <2>2. TypeOK'
    <3>1. inst' \in [Inst -> InstItem]
      BY <1>a, <1>t, <1>4 DEF DenyInstance, TypeOK, SetInst, InstItem, InstStatus, Terminal
    <3>2. QED
      BY <1>a, <1>4, <2>1, <3>1 DEF DenyInstance, TypeOK, Fault
  <2>3. QED
    BY <2>1, <2>2 DEF TypeInv
<1>5. ASSUME NEW k \in Mid, LaunchSucceeds(w, k) PROVE TypeInv'
  <2>1. Typed
    <3>1. /\ [wk[w] EXCEPT !.pc = "persist", !.mid = k] \in WorkerState
          /\ [wk[w] EXCEPT !.pc = "persist", !.mid = k].msg = wk[w].msg
      BY <1>t, <1>p, <1>r, WorkerFields DEF WorkerState
    <3>2. QED
      BY <1>5, <1>t, <1>s, <3>1 DEF LaunchSucceeds
  <2>2. TypeOK'
    <3>1. maestro' \in [Mid -> MaestroState]
      BY <1>a, <1>t, <1>5 DEF LaunchSucceeds, TypeOK, MaestroState, Terminal
    <3>2. QED
      BY <1>a, <1>5, <2>1, <3>1 DEF LaunchSucceeds, TypeOK, Fault
  <2>3. QED
    BY <2>1, <2>2 DEF TypeInv
<1>6. CASE LaunchFailsRetryably(w)
  <2>1. Typed
    BY <1>6, <1>k, <1>r DEF LaunchFailsRetryably
  <2>2. TypeOK'
    BY <1>a, <1>6, <2>1 DEF LaunchFailsRetryably, TypeOK
  <2>3. QED
    BY <2>1, <2>2 DEF TypeInv
<1>7. CASE LaunchRejected(w)
  <2>1. Typed
    BY <1>7, <1>k, <1>r DEF LaunchRejected
  <2>2. TypeOK'
    BY <1>a, <1>7, <2>1 DEF LaunchRejected, TypeOK
  <2>3. QED
    BY <2>1, <2>2 DEF TypeInv
<1>8. ASSUME NEW i \in Inst, PersistNew(w, i) PROVE TypeInv'
  <2>1. Typed
    <3>1. /\ [wk[w] EXCEPT !.pc = "record", !.inst = i] \in WorkerState
          /\ [wk[w] EXCEPT !.pc = "record", !.inst = i].msg = wk[w].msg
      BY <1>t, <1>p, <1>r, WorkerFields DEF WorkerState
    <3>2. QED
      BY <1>8, <1>t, <1>s, <3>1 DEF PersistNew
  <2>2. TypeOK'
    <3>1. inst' \in [Inst -> InstItem]
      BY <1>a, <1>t, <1>8 DEF PersistNew, TypeOK, InstItem, InstStatus, Terminal
    <3>2. QED
      BY <1>a, <1>8, <2>1, <3>1 DEF PersistNew, TypeOK, Fault
  <2>3. QED
    BY <2>1, <2>2 DEF TypeInv
<1>9. CASE PersistRetry(w)
  <2>1. Typed
    BY <1>9, <1>e, <1>j, <1>p DEF PersistRetry
  <2>2. TypeOK'
    <3>1. inst' \in [Inst -> InstItem]
      BY <1>a, <1>t, <1>9 DEF PersistRetry, TypeOK, InstItem, InstStatus, Terminal
    <3>2. QED
      BY <1>a, <1>9, <2>1, <3>1 DEF PersistRetry, TypeOK, Fault
  <2>3. QED
    BY <2>1, <2>2 DEF TypeInv
<1>10. CASE RecordLaunch(w)
  <2>1. Typed
    BY <1>10, <1>k, <1>p DEF RecordLaunch
  <2>2. TypeOK'
    <3>1. /\ wk[w].pc # "idle"
          /\ row' = [row EXCEPT ![JobOf(w).row] =
                        [@ EXCEPT !.status = "launched", !.inst = wk[w].inst]]
      BY <1>10 DEF RecordLaunch, Step, RecordOn
    <3>2. [row[JobOf(w).row] EXCEPT !.status = "launched", !.inst = wk[w].inst] \in RowItem
      BY <1>t, <1>j, <3>1, RowFields DEF RowStatus
    <3>3. row' \in [Row -> RowItem]
      BY <1>a, <3>1, <3>2, RowWrite DEF RowStatus
    <3>4. QED
      BY <1>a, <1>10, <2>1, <3>3 DEF RecordLaunch, TypeOK
  <2>3. QED
    BY <2>1, <2>2 DEF TypeInv
<1>11. CASE RecordRefused(w)
  <2>1. Typed
    BY <1>11, <1>k, <1>p DEF RecordRefused
  <2>2. TypeOK'
    BY <1>a, <1>11, <2>1 DEF RecordRefused, TypeOK
  <2>3. QED
    BY <2>1, <2>2 DEF TypeInv
<1>12. CASE ReadRun(w)
  <2>1. Typed
    BY <1>12, <1>k, <1>p DEF ReadRun
  <2>2. TypeOK'
    BY <1>a, <1>12, <2>1 DEF ReadRun, TypeOK
  <2>3. QED
    BY <2>1, <2>2 DEF TypeInv
<1>13. CASE AdoptLaunch(w)
  <2>1. Typed
    BY <1>13, <1>k, <1>p DEF AdoptLaunch
  <2>2. TypeOK'
    <3>1. /\ wk[w].pc # "idle"
          /\ row' = [row EXCEPT ![JobOf(w).row] =
                        [@ EXCEPT !.status = "launched", !.inst = wk[w].inst]]
      BY <1>13 DEF AdoptLaunch, Step, RecordOn
    <3>2. [row[JobOf(w).row] EXCEPT !.status = "launched", !.inst = wk[w].inst] \in RowItem
      BY <1>t, <1>j, <3>1, RowFields DEF RowStatus
    <3>3. row' \in [Row -> RowItem]
      BY <1>a, <3>1, <3>2, RowWrite DEF RowStatus
    <3>4. QED
      BY <1>a, <1>13, <2>1, <3>3 DEF AdoptLaunch, TypeOK
  <2>3. QED
    BY <2>1, <2>2 DEF TypeInv
<1>14. CASE AdoptRefused(w)
  <2>1. Typed
    BY <1>14, <1>k, <1>p DEF AdoptRefused
  <2>2. TypeOK'
    BY <1>a, <1>14, <2>1 DEF AdoptRefused, TypeOK
  <2>3. QED
    BY <2>1, <2>2 DEF TypeInv
<1>15. CASE UndoLaunch(w)
  <2>1. Typed
    BY <1>15, <1>k, <1>p DEF UndoLaunch
  <2>2. TypeOK'
    <3>1. maestro' \in [Mid -> MaestroState]
      BY <1>a, <1>t, <1>15 DEF UndoLaunch, TypeOK, MaestroState, Terminal
    <3>2. QED
      BY <1>a, <1>15, <2>1, <3>1 DEF UndoLaunch, TypeOK, Fault
  <2>3. QED
    BY <2>1, <2>2 DEF TypeInv
<1>16. CASE UndoInstance(w)
  <2>1. Typed
    BY <1>16, <1>k, <1>p DEF UndoInstance
  <2>2. TypeOK'
    <3>1. inst' \in [Inst -> InstItem]
      BY <1>a, <1>16, InstWrite DEF UndoInstance, SetInst, InstStatus, Terminal
    <3>2. QED
      BY <1>a, <1>16, <2>1, <3>1 DEF UndoInstance, TypeOK
  <2>3. QED
    BY <2>1, <2>2 DEF TypeInv
<1>17. CASE ResetStreak(w)
  <2>1. Typed
    BY <1>17, <1>k, <1>p DEF ResetStreak
  <2>2. TypeOK'
    <3>1. run' \in RunItem
      BY <1>a, <1>t, <1>17 DEF ResetStreak, TypeOK, RunItem
    <3>2. QED
      BY <1>a, <1>17, <2>1, <3>1 DEF ResetStreak, TypeOK, Fault
  <2>3. QED
    BY <2>1, <2>2 DEF TypeInv
<1>18. ASSUME NEW i \in Inst, TrackNew(w, i) PROVE TypeInv'
  <2>1. Typed
    <3>1. /\ [wk[w] EXCEPT !.pc = "reference", !.inst = i] \in WorkerState
          /\ [wk[w] EXCEPT !.pc = "reference", !.inst = i].msg = wk[w].msg
      BY <1>t, <1>p, <1>r, WorkerFields DEF WorkerState
    <3>2. QED
      BY <1>18, <1>t, <1>s, <3>1 DEF TrackNew
  <2>2. TypeOK'
    <3>1. inst' \in [Inst -> InstItem]
      BY <1>a, <1>t, <1>18 DEF TrackNew, TypeOK, InstItem, InstStatus, Terminal
    <3>2. QED
      BY <1>a, <1>18, <2>1, <3>1 DEF TrackNew, TypeOK, Fault
  <2>3. QED
    BY <2>1, <2>2 DEF TypeInv
<1>19. CASE TrackAgain(w)
  <2>1. Typed
    BY <1>19, <1>e, <1>j, <1>p DEF TrackAgain
  <2>2. TypeOK'
    BY <1>a, <1>19, <2>1 DEF TrackAgain, TypeOK
  <2>3. QED
    BY <2>1, <2>2 DEF TypeInv
<1>20. CASE ReferenceTracking(w)
  <2>1. Typed
    BY <1>20, <1>k, <1>p DEF ReferenceTracking
  <2>2. TypeOK'
    <3> DEFINE i == IF row[JobOf(w).row].status = "launching" THEN wk[w].inst
                    ELSE row[JobOf(w).row].inst
    <3>1. wk[w].pc # "idle" /\ row' = [row EXCEPT ![JobOf(w).row].inst = i]
      BY <1>20 DEF ReferenceTracking, Step
    <3>2. i \in Inst \cup {None}
      BY <1>t, <1>j, <3>1 DEF RowItem
    <3>3. row' \in [Row -> RowItem]
      BY <1>a, <3>1, <3>2, RowWrite DEF RowStatus
    <3>4. QED
      BY <1>a, <1>20, <2>1, <3>3 DEF ReferenceTracking, TypeOK
  <2>3. QED
    BY <2>1, <2>2 DEF TypeInv
<1>21. ASSUME NEW m \in Msg, EnqueueRetry(w, m) PROVE TypeInv'
  <2>1. Typed
    BY <1>21, <1>k, <1>p DEF EnqueueRetry
  <2>2. TypeOK'
    <3>1. /\ wk[w].pc # "idle"
          /\ msg' = [msg EXCEPT ![m] = [state |-> "visible", job |-> NextAttempt(w)]]
      BY <1>21 DEF EnqueueRetry, Step, Send
    <3>2. NextAttempt(w) \in Job
      <4>1. JobOf(w).attempt + 1 \in Nat
        BY <1>j, <3>1
      <4>2. QED
        BY <1>t, <1>j, <3>1, <4>1, JobFields DEF NextAttempt
    <3>3. msg' \in [Msg -> Message]
      BY <1>a, <3>1, <3>2 DEF TypeOK, Message
    <3>4. QED
      BY <1>a, <1>21, <2>1, <3>3 DEF EnqueueRetry, TypeOK
  <2>3. QED
    BY <2>1, <2>2 DEF TypeInv
<1>22. CASE FailInstance(w)
  <2>1. Typed
    BY <1>22, <1>k, <1>p DEF FailInstance
  <2>2. TypeOK'
    <3>1. inst' \in [Inst -> InstItem]
      BY <1>a, <1>22, InstWrite DEF FailInstance, SetInst, InstStatus, Terminal
    <3>2. QED
      BY <1>a, <1>22, <2>1, <3>1 DEF FailInstance, TypeOK
  <2>3. QED
    BY <2>1, <2>2 DEF TypeInv
<1>23. CASE FailRow(w)
  <2>1. Typed
    BY <1>23, <1>k, <1>p DEF FailRow
  <2>2. TypeOK'
    <3>1. wk[w].pc # "idle" /\ row' = [row EXCEPT ![JobOf(w).row] = FailedRow(w)]
      BY <1>23 DEF FailRow, Step
    <3>2. FailedRow(w) \in RowItem
      <4> DEFINE item == row[JobOf(w).row]
      <4>1. item \in RowItem /\ item.inst \in Inst \cup {None}
        BY <1>j, <3>1 DEF RowItem
      <4>2. QED
        BY <1>j, <3>1, <4>1, RowFields DEF FailedRow, RowStatus
    <3>3. row' \in [Row -> RowItem]
      BY <1>a, <3>1, <3>2, RowWrite DEF RowStatus
    <3>4. QED
      BY <1>a, <1>23, <2>1, <3>3 DEF FailRow, TypeOK
  <2>3. QED
    BY <2>1, <2>2 DEF TypeInv
<1>24. CASE FailRowAgain(w)
  <2>1. Typed
    BY <1>24, <1>k, <1>p DEF FailRowAgain
  <2>2. TypeOK'
    BY <1>a, <1>24, <2>1 DEF FailRowAgain, TypeOK
  <2>3. QED
    BY <2>1, <2>2 DEF TypeInv
<1>25. CASE CountFailure(w)
  <2>1. Typed
    BY <1>25, <1>k, <1>p DEF CountFailure
  <2>2. TypeOK'
    <3>1. run' \in RunItem
      BY <1>a, <1>t, <1>25 DEF CountFailure, TypeOK, AddFailures, Saturate, RunItem
    <3>2. QED
      BY <1>a, <1>25, <2>1, <3>1 DEF CountFailure, TypeOK, Fault
  <2>3. QED
    BY <2>1, <2>2 DEF TypeInv
<1>26. CASE Ack(w)
  <2>1. Typed
    BY <1>26, <1>i, <1>s DEF Ack
  <2>2. TypeOK'
    <3>1. msg' \in [Msg -> Message]
      BY <1>a, <1>t, <1>26 DEF Ack, TypeOK, Message
    <3>2. QED
      BY <1>a, <1>26, <2>1, <3>1 DEF Ack, TypeOK, Fault
  <2>3. QED
    BY <2>1, <2>2 DEF TypeInv
<1>27. ASSUME NEW k \in Mid, ReplyLost(w, k) PROVE TypeInv'
  <2>1. Typed
    BY <1>27, <1>k, <1>r DEF ReplyLost
  <2>2. TypeOK'
    <3>1. maestro' \in [Mid -> MaestroState]
      BY <1>a, <1>t, <1>27 DEF ReplyLost, TypeOK, MaestroState, Terminal
    <3>2. QED
      BY <1>a, <1>27, <2>1, <3>1 DEF ReplyLost, TypeOK, Fault
  <2>3. QED
    BY <2>1, <2>2 DEF TypeInv
<1>28. CASE UndoRejected(w)
  <2>1. Typed
    BY <1>28, <1>k, <1>p DEF UndoRejected
  <2>2. TypeOK'
    BY <1>a, <1>28, <2>1 DEF UndoRejected, Fault, TypeOK
  <2>3. QED
    BY <2>1, <2>2 DEF TypeInv
<1>29. CASE TryFails(w)
  <2>1. Typed
    BY <1>29, <1>e, <1>r DEF TryFails, TryPc
  <2>2. TypeOK'
    BY <1>a, <1>29, <2>1 DEF TryFails, TypeOK, Fault
  <2>3. QED
    BY <2>1, <2>2 DEF TypeInv
<1>30. CASE FinalFails(w)
  <2>1. Typed
    <3> DEFINE t == [wk[w] EXCEPT !.pc = AfterError(@)]
    <3>1. AfterError(wk[w].pc) \in WorkerPc
      BY <1>p DEF AfterError
    <3>2. t \in WorkerState /\ t.msg = wk[w].msg
      BY <1>t, <3>1, WorkerFields
    <3>3. QED
      BY <1>30, <1>t, <1>s, <3>2 DEF FinalFails
  <2>2. TypeOK'
    BY <1>a, <1>30, <2>1 DEF FinalFails, TypeOK, Fault
  <2>3. QED
    BY <2>1, <2>2 DEF TypeInv
<1>31. CASE WorkerCrashes(w)
  <2>1. Typed
    BY <1>31, <1>i, <1>s DEF WorkerCrashes
  <2>2. TypeOK'
    BY <1>a, <1>31, <2>1 DEF WorkerCrashes, Fault, TypeOK
  <2>3. QED
    BY <2>1, <2>2 DEF TypeInv
<1>q. QED
  BY <1>1, <1>2, <1>3, <1>4, <1>5, <1>6, <1>7, <1>8, <1>9, <1>10, <1>11, <1>12, <1>13,
     <1>14, <1>15, <1>16, <1>17, <1>18, <1>19, <1>20, <1>21, <1>22, <1>23, <1>24, <1>25,
     <1>26, <1>27, <1>28, <1>29, <1>30, <1>31
  DEF LauncherStep, LauncherFault

----------------------------------------------------------------------------
(* Updating the fields of a request keeps it one.                          *)
LEMMA ReqFields ==
  ASSUME NEW t \in ReqState, NEW p \in ReqPc, NEW R \in SUBSET Row, NEW S \in SUBSET Row
  PROVE  /\ [t EXCEPT !.pc = p] \in ReqState
         /\ [t EXCEPT !.todo = R] \in ReqState
         /\ [t EXCEPT !.pc = p, !.todo = R] \in ReqState
         /\ [t EXCEPT !.pc = p, !.live = S] \in ReqState
         /\ [t EXCEPT !.pc = p, !.todo = R, !.live = S] \in ReqState
  BY DEF ReqState

(* Choosing the launched row whose instance is cancelled keeps it one.     *)
LEMMA ReqTarget ==
  ASSUME NEW t \in ReqState, NEW R \in SUBSET Row,
         NEW i \in Inst \cup {None}, NEW k \in Mid \cup {None}
  PROVE  [t EXCEPT !.pc = "maestro", !.todo = R, !.inst = i, !.mid = k] \in ReqState
  BY DEF ReqState, ReqPc

(* resolveRowInstanceStatuses writes terminal statuses only, so the rows   *)
(* keep their type: a live instance never leaks its status into its row.   *)
LEMMA ResolveType ==
  ASSUME TypeOK, NEW R, ResolveRows(R) PROVE row' \in [Row -> RowItem]
<1>1. ASSUME NEW r \in Row, InstanceEnded(r)
      PROVE  [row[r] EXCEPT !.status = inst[row[r].inst].status] \in RowItem
  BY <1>1, RowFields DEF TypeOK, InstanceEnded, RowStatus, Terminal
<1>2. QED
  BY <1>1 DEF TypeOK, ResolveRows

(* Every step of a route keeps the types.                                  *)
LEMMA RequestsType ==
  ASSUME TypeInv, NEW q \in Req, Load(q) \/ RequestProceeds(q) PROVE TypeInv'
<1> USE ConstantsAssumption DEF ReqUnchanged, OnlyReq
<1>a. TypeOK /\ BusyHoldsMessage
  BY DEF TypeInv
<1>t. /\ req \in [Req -> ReqState] /\ req[q] \in ReqState
      /\ req[q].todo \in SUBSET Row /\ req[q].live \in SUBSET Row
      /\ run \in RunItem /\ hist \in History
      /\ \A r \in Row : row[r] \in RowItem /\ row[r].inst \in Inst \cup {None}
  BY <1>a DEF TypeOK, ReqState, RowItem
<1>i. IdleReq \in ReqState
  BY DEF IdleReq, ReqState, ReqPc
<1>s. ASSUME NEW t \in ReqState, SetReq(q, t) PROVE req' \in [Req -> ReqState]
  BY <1>t, <1>s DEF SetReq
<1>k. ASSUME NEW f, NEW p \in ReqPc, ReqStep(q, f, p) PROVE req' \in [Req -> ReqState]
  BY <1>t, <1>k, <1>s, ReqFields DEF ReqStep
<1>p. \A p \in {"put", "write", "claim", "rows", "flip", "pick", "maestro", "inst", "row",
                "recheck", "recheckInst", "close", "done"} : p \in ReqPc
  BY DEF ReqPc
<1>c. ASSUME NEW r \in Row, CancelInstanceOf(q, r) PROVE req' \in [Req -> ReqState]
  <2>1. MidOf(row[r].inst) \in Mid \cup {None}
    BY <1>a DEF MidOf, TypeOK, InstItem
  <2> DEFINE m == MidOf(row[r].inst)
             i == row[r].inst
  <2>2. [req[q] EXCEPT !.pc = "maestro", !.todo = {r}, !.inst = i, !.mid = m] \in ReqState
    <3>1. {r} \in SUBSET Row /\ i \in Inst \cup {None} /\ m \in Mid \cup {None}
      BY <1>t, <2>1
    <3> HIDE DEF m, i
    <3>2. QED
      BY <1>t, <3>1, ReqTarget
  <2>3. QED
    BY <1>c, <1>s, <2>2 DEF CancelInstanceOf
<1>1. CASE Load(q)
  <2>1. req' \in [Req -> ReqState]
    <3>1. [IdleReq EXCEPT !.pc = FirstPc(Kind[q]),
                     !.todo = IF Kind[q] = "start" THEN Row ELSE {}] \in ReqState
      BY <1>t, <1>p, <1>i, ReqFields DEF FirstPc
    <3>2. QED
      BY <1>1, <1>s, <3>1 DEF Load
  <2>2. TypeOK'
    BY <1>a, <1>1, <2>1 DEF Load, TypeOK
  <2>3. QED
    BY <1>a, <1>1, <2>2 DEF Load, TypeInv, BusyHoldsMessage
<1>2. CASE PutRow(q)
  <2>1. req' \in [Req -> ReqState]
    <3>1. PICK r \in req[q].todo : SetReq(q, [req[q] EXCEPT !.todo = @ \ {r}])
      BY <1>2 DEF PutRow
    <3>2. [req[q] EXCEPT !.todo = @ \ {r}] \in ReqState
      BY <1>t DEF ReqState
    <3>3. QED
      BY <1>s, <3>1, <3>2
  <2>2. TypeOK'
    <3>1. PICK r \in req[q].todo :
            row' = [row EXCEPT ![r] = [status |-> Plan[r], inst |-> None, stale |-> FALSE]]
      BY <1>2 DEF PutRow
    <3>2. [status |-> Plan[r], inst |-> None, stale |-> FALSE] \in RowItem
      BY <1>t DEF RowItem, RowStatus
    <3>3. row' \in [Row -> RowItem]
      BY <1>a, <3>1, <3>2, RowWrite DEF RowStatus
    <3>4. QED
      BY <1>a, <1>2, <2>1, <3>3 DEF PutRow, TypeOK
  <2>3. QED
    BY <1>a, <1>2, <2>2 DEF PutRow, TypeInv, BusyHoldsMessage
<1>3. CASE StartRun(q)
  <2>1. req' \in [Req -> ReqState]
    BY <1>3, <1>k, <1>p DEF StartRun
  <2>2. TypeOK'
    <3>1. run' \in RunItem /\ hist' \in History
      BY <1>t, <1>3, HistFields DEF StartRun, Running, NoneLate, History, RunItem, RunStatus
    <3>2. QED
      BY <1>a, <1>3, <2>1, <3>1 DEF StartRun, TypeOK
  <2>3. QED
    BY <1>a, <1>3, <2>2 DEF StartRun, TypeInv, BusyHoldsMessage
<1>4. CASE PauseRun(q)
  <2>1. req' \in [Req -> ReqState]
    BY <1>4, <1>k, <1>p DEF PauseRun
  <2>2. TypeOK'
    <3>1. run' \in RunItem /\ hist' \in History
      BY <1>t, <1>4, HistFields DEF PauseRun, SetRun, RunItem, RunStatus
    <3>2. QED
      BY <1>a, <1>4, <2>1, <3>1 DEF PauseRun, TypeOK
  <2>3. QED
    BY <1>a, <1>4, <2>2 DEF PauseRun, TypeInv, BusyHoldsMessage
<1>5. CASE ResumeRun(q)
  <2>1. req' \in [Req -> ReqState]
    BY <1>5, <1>k, <1>p DEF ResumeRun
  <2>2. TypeOK'
    <3>1. run' \in RunItem /\ hist' \in History
      BY <1>t, <1>5, HistFields
      DEF ResumeRun, Running, NoneLate, History, RunItem, RunStatus
    <3>2. QED
      BY <1>a, <1>5, <2>1, <3>1 DEF ResumeRun, TypeOK
  <2>3. QED
    BY <1>a, <1>5, <2>2 DEF ResumeRun, TypeInv, BusyHoldsMessage
<1>6. CASE ClaimQueued(q)
  <2>1. req' \in [Req -> ReqState]
    BY <1>6, <1>k, <1>p DEF ClaimQueued
  <2>2. TypeOK'
    <3>1. run' \in RunItem /\ hist' \in History
      BY <1>t, <1>6, HistFields DEF ClaimQueued, SetRun, RunItem, RunStatus
    <3>2. QED
      BY <1>a, <1>6, <2>1, <3>1 DEF ClaimQueued, TypeOK
  <2>3. QED
    BY <1>a, <1>6, <2>2 DEF ClaimQueued, TypeInv, BusyHoldsMessage
<1>7. CASE ReadRows(q)
  <2>1. req' \in [Req -> ReqState]
    <3>1. [req[q] EXCEPT !.pc = "flip",
            !.todo = {r \in Row : row[r].status \in Waiting},
            !.live = IF Kind[q] = "cancelAll"
                    THEN {r \in Row : row[r].status = "launched"} ELSE {}] \in ReqState
      BY <1>t, <1>p, <1>i, ReqFields
    <3>2. QED
      BY <1>7, <1>s, <3>1 DEF ReadRows
  <2>2. TypeOK'
    BY <1>a, <1>7, <2>1 DEF ReadRows, TypeOK
  <2>3. QED
    BY <1>a, <1>7, <2>2 DEF ReadRows, TypeInv, BusyHoldsMessage
<1>8. CASE CancelWaitingRow(q)
  <2>1. req' \in [Req -> ReqState]
    BY <1>8, <1>t, <1>s, <1>p, ReqFields DEF CancelWaitingRow
  <2>2. TypeOK'
    <3>1. PICK r \in req[q].todo :
            row' = IF row[r].status \in Waiting
                   THEN [row EXCEPT ![r].status = "cancelled"] ELSE row
      BY <1>8 DEF CancelWaitingRow
    <3>2. row' \in [Row -> RowItem]
      BY <1>a, <3>1, RowWrite DEF TypeOK, RowStatus, Terminal
    <3>3. QED
      BY <1>a, <1>8, <2>1, <3>2 DEF CancelWaitingRow, TypeOK
  <2>3. QED
    BY <1>a, <1>8, <2>2 DEF CancelWaitingRow, TypeInv, BusyHoldsMessage
<1>9. CASE ResolveLive(q)
  <2>1. req' \in [Req -> ReqState]
    <3> DEFINE p == IF req[q].live = {} THEN "recheck" ELSE "pick"
               R == {r \in req[q].live : LiveRow(r)}
    <3>1. SetReq(q, [req[q] EXCEPT !.pc = p, !.live = R])
      BY <1>9 DEF ResolveLive
    <3>2. [req[q] EXCEPT !.pc = p, !.live = R] \in ReqState
      BY <1>t, <1>p, ReqFields
    <3>3. QED
      BY <1>s, <3>1, <3>2
  <2>2. TypeOK'
    <3>1. row' \in [Row -> RowItem]
      BY <1>a, <1>9, ResolveType DEF ResolveLive
    <3>2. QED
      BY <1>a, <1>9, <2>1, <3>1 DEF ResolveLive, TypeOK
  <2>3. QED
    BY <1>a, <1>9, <2>2 DEF ResolveLive, TypeInv, BusyHoldsMessage
<1>10. CASE PickLiveRow(q)
  <2>1. req' \in [Req -> ReqState]
    BY <1>10, <1>t, <1>c DEF PickLiveRow
  <2>2. TypeOK'
    BY <1>a, <1>10, <2>1 DEF PickLiveRow, TypeOK
  <2>3. QED
    BY <1>a, <1>10, <2>2 DEF PickLiveRow, TypeInv, BusyHoldsMessage
<1>11. CASE NoLiveRowLeft(q)
  <2>1. req' \in [Req -> ReqState]
    BY <1>11, <1>k, <1>p DEF NoLiveRowLeft
  <2>2. TypeOK'
    BY <1>a, <1>11, <2>1 DEF NoLiveRowLeft, TypeOK
  <2>3. QED
    BY <1>a, <1>11, <2>2 DEF NoLiveRowLeft, TypeInv, BusyHoldsMessage
<1>12. ASSUME NEW r \in Row, PickWaitingRow(q, r) PROVE TypeInv'
  <2>1. req' \in [Req -> ReqState]
    BY <1>12, <1>t, <1>s, <1>p, ReqFields DEF PickWaitingRow
  <2>2. TypeOK'
    BY <1>a, <1>12, <2>1 DEF PickWaitingRow, TypeOK
  <2>3. QED
    BY <1>a, <1>12, <2>2 DEF PickWaitingRow, TypeInv, BusyHoldsMessage
<1>13. ASSUME NEW r \in Row, PickLaunchedRow(q, r) PROVE TypeInv'
  <2>1. req' \in [Req -> ReqState]
    BY <1>13, <1>c DEF PickLaunchedRow
  <2>2. TypeOK'
    BY <1>a, <1>13, <2>1 DEF PickLaunchedRow, TypeOK
  <2>3. QED
    BY <1>a, <1>13, <2>2 DEF PickLaunchedRow, TypeInv, BusyHoldsMessage
<1>14. ASSUME NEW r \in Row, RowRefused(q, r) PROVE TypeInv'
  <2>1. req' \in [Req -> ReqState]
    BY <1>14, <1>k, <1>p DEF RowRefused
  <2>2. TypeOK'
    BY <1>a, <1>14, <2>1 DEF RowRefused, TypeOK
  <2>3. QED
    BY <1>a, <1>14, <2>2 DEF RowRefused, TypeInv, BusyHoldsMessage
<1>15. CASE CancelAtMaestro(q)
  <2>1. req' \in [Req -> ReqState]
    BY <1>15, <1>k, <1>p DEF CancelAtMaestro
  <2>2. TypeOK'
    <3>1. maestro' \in [Mid -> MaestroState]
      BY <1>a, <1>t, <1>15 DEF CancelAtMaestro, TypeOK, MaestroState, Terminal
    <3>2. faults' \in 0 .. MaxFaults
      BY <1>a, <1>15, ConstantsAssumption DEF CancelAtMaestro, Fault, TypeOK
    <3>3. QED
      BY <1>a, <1>15, <2>1, <3>1, <3>2 DEF CancelAtMaestro, TypeOK
  <2>3. QED
    BY <1>a, <1>15, <2>2 DEF CancelAtMaestro, TypeInv, BusyHoldsMessage
<1>16. CASE CancelLocally(q)
  <2>1. req' \in [Req -> ReqState]
    BY <1>16, <1>k, <1>p DEF CancelLocally
  <2>2. TypeOK'
    <3>1. inst' \in [Inst -> InstItem]
      BY <1>a, <1>t, <1>16, InstWrite DEF CancelLocally, SetInst, InstStatus, Terminal
    <3>2. QED
      BY <1>a, <1>16, <2>1, <3>1 DEF CancelLocally, TypeOK
  <2>3. QED
    BY <1>a, <1>16, <2>2 DEF CancelLocally, TypeInv, BusyHoldsMessage
<1>17. CASE CancelLaunchedRow(q)
  <2>1. req' \in [Req -> ReqState]
    BY <1>17, <1>t, <1>s, <1>i, <1>p, ReqFields DEF CancelLaunchedRow
  <2>2. TypeOK'
    <3>1. PICK r \in req[q].todo :
            row' = IF row[r].status = "launched"
                   THEN [row EXCEPT ![r].status = "cancelled"] ELSE row
      BY <1>17 DEF CancelLaunchedRow
    <3>2. row' \in [Row -> RowItem]
      BY <1>a, <3>1, RowWrite DEF TypeOK, RowStatus, Terminal
    <3>3. QED
      BY <1>a, <1>17, <2>1, <3>2 DEF CancelLaunchedRow, TypeOK
  <2>3. QED
    BY <1>a, <1>17, <2>2 DEF CancelLaunchedRow, TypeInv, BusyHoldsMessage
<1>18. CASE Reread(q)
  <2>1. req' \in [Req -> ReqState]
    BY <1>18, <1>t, <1>s, <1>p, ReqFields DEF Reread
  <2>2. TypeOK'
    BY <1>a, <1>18, <2>1 DEF Reread, TypeOK
  <2>3. QED
    BY <1>a, <1>18, <2>2 DEF Reread, TypeInv, BusyHoldsMessage
<1>19. CASE RecheckInstances(q)
  <2>1. req' \in [Req -> ReqState]
    BY <1>19, <1>s, <1>i, <1>p, ReqFields DEF RecheckInstances
  <2>2. TypeOK'
    <3>1. row' \in [Row -> RowItem]
      BY <1>a, <1>19, ResolveType DEF RecheckInstances
    <3>2. QED
      BY <1>a, <1>19, <2>1, <3>1 DEF RecheckInstances, TypeOK
  <2>3. QED
    BY <1>a, <1>19, <2>2 DEF RecheckInstances, TypeInv, BusyHoldsMessage
<1>20. CASE CloseRun(q)
  <2>1. req' \in [Req -> ReqState]
    BY <1>20, <1>k, <1>p DEF CloseRun
  <2>2. TypeOK'
    <3>1. run' \in RunItem /\ hist' \in History
      BY <1>t, <1>20, HistFields DEF CloseRun, SetRun, Terminal, RunItem, RunStatus
    <3>2. QED
      BY <1>a, <1>20, <2>1, <3>1 DEF CloseRun, TypeOK
  <2>3. QED
    BY <1>a, <1>20, <2>2 DEF CloseRun, TypeInv, BusyHoldsMessage
<1>q. QED
  BY <1>1, <1>2, <1>3, <1>4, <1>5, <1>6, <1>7, <1>8, <1>9, <1>10, <1>11, <1>12, <1>13,
     <1>14, <1>15, <1>16, <1>17, <1>18, <1>19, <1>20
  DEF RequestProceeds, RowRequest

----------------------------------------------------------------------------
(* The inductive step of TypeCorrect.                                      *)
LEMMA StepType == ASSUME TypeInv, [Next]_vars PROVE TypeInv'
<1>1. CASE Next
  BY <1>1, EnvironmentType, DispatcherType, LauncherType, RequestsType DEF Next
<1>2. CASE UNCHANGED vars
  BY <1>2 DEF vars, TypeInv, TypeOK, BusyHoldsMessage
<1>3. QED
  BY <1>1, <1>2

(* Whatever interleaving of passes, workers, requests and faults, every    *)
(* item holds what its table says and every process is where the code can  *)
(* be.                                                                     *)
THEOREM TypeCorrect == Spec => []TypeOK
<1>1. TypeInv => TypeOK
  BY DEF TypeInv
<1>2. QED
  BY InitType, StepType, <1>1, PTL DEF Spec
============================================================================
