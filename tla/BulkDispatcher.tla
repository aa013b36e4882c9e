--------------------------- MODULE BulkDispatcher ---------------------------
(***************************************************************************)
(* dispatchDueBatchRuns for one run: a pass scans the running runs,        *)
(* releases or stops the due ones, completes a finished one, promotes a    *)
(* legacy queued run and sweeps stale 'launching' rows.  A pass works on   *)
(* the item it scanned, so what it read may be stale when it acts; passes  *)
(* of several pods overlap.  The processor's cap is infinite here.         *)
(* Definitions marked "faulty" stand before the one they are a bug of;     *)
(* no action uses them.                                                    *)
(***************************************************************************)
EXTENDS BulkStore

TickUnchanged == UNCHANGED <<inst, maestro, wk, req>>

SetTick(d, t) == tick' = [tick EXCEPT ![d] = t]

TickStep(d, from, to) ==
  /\ tick[d].pc = from
  /\ SetTick(d, [tick[d] EXCEPT !.pc = to])

(* On to the promotion and the sweep, which need only what was scanned.    *)
ToHeld(d) == SetTick(d, [IdleTick EXCEPT !.pc = "held", !.seen = tick[d].seen])

----------------------------------------------------------------------------
(* Scan and stop-after-failures guard                                      *)

InRunningOrPausedScan == run.status \in {"running", "paused"}   \* faulty
InRunningScan == run.status = "running"

(* scanRunsByStatus('running') and the nextReleaseAt filter.               *)
ScanRunning(d) ==
  /\ tick[d].pc = "idle"
  /\ SetTick(d, IF InRunningScan /\ run.due
                THEN [IdleTick EXCEPT !.pc = "dispatch", !.seen = TRUE, !.streak = run.streak]
                ELSE [IdleTick EXCEPT !.pc = "held", !.seen = InRunningScan])
  /\ TickUnchanged /\ UNCHANGED <<run, row, msg, faults, hist>>

StopRun(d) ==
  /\ tick[d].pc = "dispatch" /\ tick[d].streak >= StopAfter
  /\ ToHeld(d)
  /\ run' = IF run.status = "running" THEN [run EXCEPT !.status = "stopped"] ELSE run
  /\ TickUnchanged /\ UNCHANGED <<row, msg, faults, hist>>

----------------------------------------------------------------------------
(* Release                                                                 *)

ReleaseLimit == ReleaseCount
FirstRows(n, R) == {r \in R : Cardinality({s \in R : s < r}) < n}

QueryQueuedRows(d) ==
  /\ tick[d].pc = "dispatch" /\ tick[d].streak < StopAfter
  /\ SetTick(d, [tick[d] EXCEPT
       !.pc = "release", !.streak = 0,
       !.todo = FirstRows(ReleaseLimit, {r \in Row : row[r].status = "queued"})])
  /\ TickUnchanged /\ UNCHANGED <<run, row, msg, faults, hist>>

ClaimableAgain(r) == row[r].status \in {"queued", "launching"}   \* faulty
ClaimableAsRead(r) == TRUE                                       \* faulty: the read is trusted
Claimable(r) == row[r].status = "queued"

(* The conditional queued -> launching write, the double-release guard.    *)
ClaimRow(d) ==
  \E r \in tick[d].todo :
    /\ IsFirst(r, tick[d].todo) /\ Claimable(r)
    /\ TickStep(d, "release", "send")
    /\ row' = [row EXCEPT ![r] = [@ EXCEPT !.status = "launching", !.stale = FALSE]]
    /\ hist' = IF run.status = "running" THEN hist ELSE [hist EXCEPT !.late = @ + 1]
    /\ TickUnchanged /\ UNCHANGED <<run, msg, faults>>

ClaimLost(d) ==
  \E r \in tick[d].todo :
    /\ tick[d].pc = "release"
    /\ IsFirst(r, tick[d].todo) /\ ~Claimable(r)
    /\ SetTick(d, [tick[d] EXCEPT !.todo = @ \ {r}])
    /\ TickUnchanged /\ UNCHANGED <<run, row, msg, faults, hist>>

SendJob(d) ==
  \E r \in tick[d].todo, m \in Msg :
    /\ tick[d].pc = "send" /\ IsFirst(r, tick[d].todo)
    /\ Send(m, [row |-> r, attempt |-> 0, inst |-> None])
    /\ SetTick(d, [tick[d] EXCEPT !.pc = "release", !.todo = @ \ {r}, !.released = TRUE])
    /\ hist' = [hist EXCEPT !.released[r] = @ + 1]
    /\ TickUnchanged /\ UNCHANGED <<run, row, faults>>

(* nextReleaseAt is advanced whatever the run's status has become.         *)
WithLaterRelease == [run EXCEPT !.due = FALSE]

AdvanceRelease(d) ==
  /\ tick[d].pc = "release" /\ tick[d].todo = {}
  /\ IF tick[d].released THEN ToHeld(d) ELSE TickStep(d, "release", "checkRows")
  /\ run' = WithLaterRelease
  /\ TickUnchanged /\ UNCHANGED <<row, msg, faults, hist>>

----------------------------------------------------------------------------
(* completeRunIfFinished                                                   *)

OnlyQueued == {"queued"}                            \* faulty
UnreleasedOrFailed == {"queued", "launching", "failed"}   \* faulty
Unreleased == {"queued", "launching"}

CheckRows(d) ==
  /\ tick[d].pc = "checkRows"
  /\ IF \E r \in Row : row[r].status \in Unreleased
     THEN ToHeld(d)
     ELSE SetTick(d, [tick[d] EXCEPT !.pc = "checkInst",
                                     !.todo = {r \in Row : row[r].status = "launched"}])
  /\ TickUnchanged /\ UNCHANGED <<run, row, msg, faults, hist>>

NothingRunning(R) == FALSE   \* faulty: the instances are not looked at
StillRunning(R) ==
  \E r \in R : row[r].inst # None /\ inst[row[r].inst].status \notin Terminal

CheckInstances(d) ==
  /\ tick[d].pc = "checkInst"
  /\ IF StillRunning(tick[d].todo)
     THEN ToHeld(d)
     ELSE SetTick(d, [tick[d] EXCEPT !.pc = "complete", !.todo = {}])
  /\ ResolveRows(tick[d].todo)
  /\ TickUnchanged /\ UNCHANGED <<run, msg, faults, hist>>

(* The conditional flip to 'completed' and the notice that follows it.     *)
CompletableAnyway == TRUE   \* faulty: the flip is unconditional
Completable == run.status = "running"
CompleteRun(d) ==
  /\ tick[d].pc = "complete" /\ ToHeld(d)
  /\ IF Completable
     THEN SetRun("completed") /\ hist' = [hist EXCEPT !.notices = @ + 1]
     ELSE UNCHANGED <<run, hist>>
  /\ TickUnchanged /\ UNCHANGED <<row, msg, faults>>

----------------------------------------------------------------------------
(* promoteLegacyQueuedRuns and sweepStaleLaunchingRows                     *)

(* 'paused' when a sibling run of the processor is paused.                 *)
PromoteRun(d) ==
  /\ tick[d].pc = "held" /\ run.status = "queued"
  /\ \/ run' = [run EXCEPT !.status = "running", !.due = TRUE, !.streak = 0]
     \/ run' = [run EXCEPT !.status = "paused", !.streak = 0]
  /\ TickUnchanged /\ UNCHANGED <<row, msg, tick, faults, hist>>

SweptStatuses == {"paused", "stopped"}
HeldCandidate(d) == run.status \in SweptStatuses   \* faulty: running runs are forgotten
SweepCandidate(d) == tick[d].seen \/ run.status \in SweptStatuses
StaleRow(r) == row[r].status = "launching" /\ row[r].stale

(* queryLaunchingRows, with the rows younger than the cutoff left out; the *)
(* pass is over when there is none.                                        *)
QueryLaunching(d) ==
  /\ tick[d].pc = "held" /\ run.status # "queued"
  /\ LET stale == {r \in Row : SweepCandidate(d) /\ StaleRow(r)}
     IN  SetTick(d, IF stale = {} THEN IdleTick
                    ELSE [IdleTick EXCEPT
                      !.pc = "sweep", !.seen = tick[d].seen, !.todo = stale,
                      !.ref = [r \in Row |-> IF r \in stale THEN row[r].inst ELSE None]])
  /\ TickUnchanged /\ UNCHANGED <<run, row, msg, faults, hist>>

(* A stale row fails; "worker got there first" otherwise.  The tracking    *)
(* instance is the one the query saw.                                      *)
SweepRow(d) ==
  \E r \in tick[d].todo :
    /\ tick[d].pc = "sweep" /\ IsFirst(r, tick[d].todo) /\ StaleRow(r)
    /\ SetRow(r, "failed")
    /\ SetTick(d, [tick[d] EXCEPT
         !.pc = IF tick[d].ref[r] # None THEN "resolve" ELSE "sweep",
         !.todo = IF tick[d].ref[r] # None THEN @ ELSE @ \ {r},
         !.swept = Saturate(@ + 1)])
    /\ TickUnchanged /\ UNCHANGED <<run, msg, faults, hist>>

SweepLost(d) ==
  \E r \in tick[d].todo :
    /\ tick[d].pc = "sweep" /\ IsFirst(r, tick[d].todo) /\ ~StaleRow(r)
    /\ SetTick(d, [tick[d] EXCEPT !.todo = @ \ {r}])
    /\ TickUnchanged /\ UNCHANGED <<run, row, msg, faults, hist>>

(* A ladder's tracking instance has no maestroInstanceId: cancel it.       *)
OnlyTracking(i) == inst[i].status = "running" /\ inst[i].mid = None

ResolveTracking(d) ==
  \E r \in tick[d].todo :
    /\ tick[d].pc = "resolve" /\ IsFirst(r, tick[d].todo)
    /\ SetTick(d, [tick[d] EXCEPT !.pc = "sweep", !.todo = @ \ {r}])
    /\ LET i == tick[d].ref[r]
       IN  IF OnlyTracking(i) THEN SetInst(i, "cancelled") ELSE UNCHANGED inst
    /\ UNCHANGED <<run, row, maestro, msg, wk, req, faults, hist>>

(* Swept rows count as consecutive failures of a run scanned 'running'.    *)
SweepDone(d) ==
  /\ tick[d].pc = "sweep" /\ tick[d].todo = {}
  /\ IF tick[d].swept > 0 /\ tick[d].seen THEN AddFailures(tick[d].swept) ELSE UNCHANGED run
  /\ SetTick(d, IdleTick)
  /\ TickUnchanged /\ UNCHANGED <<row, msg, faults, hist>>

----------------------------------------------------------------------------
(* Failures: an error inside dispatchRun is caught and the pass goes on to *)
(* the sweep; the process may also die at any await.                       *)

DispatchPc == {"dispatch", "release", "send", "checkRows", "checkInst", "complete"}

DispatchFails(d) ==
  /\ tick[d].pc \in DispatchPc
  /\ Fault("dispatchError")
  /\ ToHeld(d)
  /\ TickUnchanged /\ UNCHANGED <<run, row, msg, hist>>

TickCrashes(d) ==
  /\ tick[d].pc # "idle"
  /\ Fault("tickCrash")
  /\ SetTick(d, IdleTick)
  /\ TickUnchanged /\ UNCHANGED <<run, row, msg, hist>>

DispatcherStep(d) ==
  \/ ScanRunning(d) \/ StopRun(d)
  \/ QueryQueuedRows(d) \/ ClaimRow(d) \/ ClaimLost(d) \/ SendJob(d) \/ AdvanceRelease(d)
  \/ CheckRows(d) \/ CheckInstances(d) \/ CompleteRun(d)
  \/ PromoteRun(d) \/ QueryLaunching(d)
  \/ SweepRow(d) \/ SweepLost(d) \/ ResolveTracking(d) \/ SweepDone(d)

DispatcherFault(d) == DispatchFails(d) \/ TickCrashes(d)
============================================================================
