---------------------------- MODULE BulkLauncher ----------------------------
(***************************************************************************)
(* processWorkflowLaunchJob for jobs that carry a `batch` reference, and   *)
(* the poll loop around it (workers/index.ts): receive, process, delete on *)
(* success.  Every await of the handler ends an action, so two deliveries  *)
(* of one job, the dispatcher's sweep and the HTTP requests interleave     *)
(* with it as they do in the program.                                      *)
(***************************************************************************)
EXTENDS BulkStore

JobOf(w) == msg[wk[w].msg].job

SetWorker(w, t) == wk' = [wk EXCEPT ![w] = t]

Step(w, from, to) == wk[w].pc = from /\ SetWorker(w, [wk[w] EXCEPT !.pc = to])

WorkerUnchanged == UNCHANGED <<tick, req, hist>>

IsRetry(w) == JobOf(w).inst # None

(* Where the catch block goes: another rung of the ladder, or final.       *)
CanRetry(w)    == JobOf(w).attempt < MaxAttempts
FinalLadderOnly(w) == IF IsRetry(w) THEN "failInst" ELSE "ack"   \* faulty: the row is forgotten
FinalPc(w)     == IF IsRetry(w) THEN "failInst" ELSE "failRow"
RetryOrFail(w) == IF CanRetry(w) THEN "track" ELSE FinalPc(w)

----------------------------------------------------------------------------
(* Receive, and the retry guard                                            *)

Receive(w, m) ==
  /\ wk[w].pc = "idle" /\ msg[m].state = "visible"
  /\ msg' = [msg EXCEPT ![m].state = "hidden"]
  /\ SetWorker(w, [IdleWorker EXCEPT
       !.pc = IF msg[m].job.inst # None THEN "guard" ELSE "launch", !.msg = m])
  /\ WorkerUnchanged /\ UNCHANGED <<run, row, inst, maestro, faults>>

Superseded(w) == inst[JobOf(w).inst].status # "running"

RetryGuard(w) ==
  /\ Step(w, "guard", IF Superseded(w) THEN "ack" ELSE "launch")
  /\ WorkerUnchanged /\ UNCHANGED <<run, row, inst, maestro, msg, faults>>

----------------------------------------------------------------------------
(* The launch                                                              *)

(* The relay gate denies: the row is 'skipped' whatever it is now, and a   *)
(* ladder's tracking instance is cancelled if it is still 'running'.       *)
GateDenies(w) ==
  /\ "denied" \in Outcome
  /\ Step(w, "launch", IF IsRetry(w) THEN "denyInst" ELSE "ack")
  /\ SetRow(JobOf(w).row, "skipped")
  /\ WorkerUnchanged /\ UNCHANGED <<run, inst, maestro, msg, faults>>

DenyInstance(w) ==
  /\ Step(w, "denyInst", "ack")
  /\ IF inst[JobOf(w).inst].status = "running"
     THEN SetInst(JobOf(w).inst, "cancelled") ELSE UNCHANGED inst
  /\ WorkerUnchanged /\ UNCHANGED <<run, row, maestro, msg, faults>>

LaunchSucceeds(w, k) ==
  /\ "ok" \in Outcome /\ wk[w].pc = "launch" /\ FreshMid(k)
  /\ maestro' = [maestro EXCEPT ![k] = "live"]
  /\ SetWorker(w, [wk[w] EXCEPT !.pc = "persist", !.mid = k])
  /\ WorkerUnchanged /\ UNCHANGED <<run, row, inst, msg, faults>>

(* The workflow, the connection or Maestro is unavailable, or 429/5xx.     *)
LaunchFailsRetryably(w) ==
  /\ "retryable" \in Outcome
  /\ Step(w, "launch", RetryOrFail(w))
  /\ WorkerUnchanged /\ UNCHANGED <<run, row, inst, maestro, msg, faults>>

(* categorizeError says 'auth' or 'validation'.                            *)
LaunchRejected(w) ==
  /\ "permanent" \in Outcome
  /\ Step(w, "launch", FinalPc(w))
  /\ WorkerUnchanged /\ UNCHANGED <<run, row, inst, maestro, msg, faults>>

(* Maestro launched it but the answer is lost (AbortSignal timeout).       *)
ReplyLost(w, k) ==
  /\ FreshMid(k) /\ Fault("lostReply")
  /\ Step(w, "launch", RetryOrFail(w))
  /\ maestro' = [maestro EXCEPT ![k] = "live"]
  /\ WorkerUnchanged /\ UNCHANGED <<run, row, inst, msg>>

----------------------------------------------------------------------------
(* After a launch: the instance item, the row, the failure streak          *)

PersistNew(w, i) ==
  /\ wk[w].pc = "persist" /\ ~IsRetry(w) /\ FreshInst(i)
  /\ inst' = [inst EXCEPT ![i] = [status |-> "running", mid |-> wk[w].mid]]
  /\ SetWorker(w, [wk[w] EXCEPT !.pc = "record", !.inst = i])
  /\ WorkerUnchanged /\ UNCHANGED <<run, row, maestro, msg, faults>>

PersistRetry(w) ==
  /\ wk[w].pc = "persist" /\ IsRetry(w)
  /\ inst' = [inst EXCEPT ![JobOf(w).inst] = [status |-> "running", mid |-> wk[w].mid]]
  /\ SetWorker(w, [wk[w] EXCEPT !.pc = "record", !.inst = JobOf(w).inst])
  /\ WorkerUnchanged /\ UNCHANGED <<run, row, maestro, msg, faults>>

(* recordLaunch(from): from -> launched on the row.                        *)
RecordOn(w) ==
  row' = [row EXCEPT ![JobOf(w).row] = [@ EXCEPT !.status = "launched", !.inst = wk[w].inst]]

RecordLaunch(w) ==
  /\ Step(w, "record", "reset")
  /\ row[JobOf(w).row].status = "launching"
  /\ RecordOn(w)
  /\ WorkerUnchanged /\ UNCHANGED <<run, inst, maestro, msg, faults>>

RecordRefused(w) ==
  /\ Step(w, "record", "readRun")
  /\ row[JobOf(w).row].status # "launching"
  /\ WorkerUnchanged /\ UNCHANGED <<run, row, inst, maestro, msg, faults>>

(* The late launch: may it stand?                                          *)
RunOpen == run.status \in {"running", "paused", "stopped", "queued"}

ReadRun(w) ==
  /\ Step(w, "readRun", IF RunOpen THEN "adopt" ELSE "undo")
  /\ WorkerUnchanged /\ UNCHANGED <<run, row, inst, maestro, msg, faults>>

Adoptable(r) == row[r].status = "failed"

AdoptLaunch(w) ==
  /\ Step(w, "adopt", "reset")
  /\ Adoptable(JobOf(w).row)
  /\ RecordOn(w)
  /\ WorkerUnchanged /\ UNCHANGED <<run, inst, maestro, msg, faults>>

AdoptRefused(w) ==
  /\ Step(w, "adopt", "undo")
  /\ ~Adoptable(JobOf(w).row)
  /\ WorkerUnchanged /\ UNCHANGED <<run, row, inst, maestro, msg, faults>>

(* cancelWorkflowInstance on the fresh instance: Maestro first (an error   *)
(* there is swallowed), the local item after.                              *)
UndoLocally(w) ==   \* faulty: Maestro is not told
  /\ Step(w, "undo", "undoInst")
  /\ WorkerUnchanged /\ UNCHANGED <<run, row, inst, maestro, msg, faults>>

UndoLaunch(w) ==
  /\ Step(w, "undo", "undoInst")
  /\ maestro' = [maestro EXCEPT ![wk[w].mid] = IF @ = "live" THEN "cancelled" ELSE @]
  /\ WorkerUnchanged /\ UNCHANGED <<run, row, inst, msg, faults>>

UndoRejected(w) ==
  /\ Fault("cancelRejected")
  /\ Step(w, "undo", "undoInst")
  /\ WorkerUnchanged /\ UNCHANGED <<run, row, inst, maestro, msg>>

UndoInstance(w) ==
  /\ Step(w, "undoInst", "stats")
  /\ SetInst(wk[w].inst, "cancelled")
  /\ WorkerUnchanged /\ UNCHANGED <<run, row, maestro, msg, faults>>

ResetStreak(w) ==
  /\ Step(w, "reset", "stats")
  /\ run' = [run EXCEPT !.streak = 0]
  /\ WorkerUnchanged /\ UNCHANGED <<row, inst, maestro, msg, faults>>

----------------------------------------------------------------------------
(* The catch block, retryable: track, reference, enqueue the next attempt  *)

(* The first failure creates a tracking instance without a Maestro id; a   *)
(* later one only updates its progress, never its status.                  *)
TrackNew(w, i) ==
  /\ wk[w].pc = "track" /\ ~IsRetry(w) /\ FreshInst(i)
  /\ inst' = [inst EXCEPT ![i] = [status |-> "running", mid |-> None]]
  /\ SetWorker(w, [wk[w] EXCEPT !.pc = "reference", !.inst = i])
  /\ WorkerUnchanged /\ UNCHANGED <<run, row, maestro, msg, faults>>

TrackAgain(w) ==
  /\ wk[w].pc = "track" /\ IsRetry(w)
  /\ SetWorker(w, [wk[w] EXCEPT !.pc = "reference", !.inst = JobOf(w).inst])
  /\ WorkerUnchanged /\ UNCHANGED <<run, row, inst, maestro, msg, faults>>

ReferenceTracking(w) ==
  /\ Step(w, "reference", "enqueue")
  /\ row' = [row EXCEPT ![JobOf(w).row].inst =
               IF row[JobOf(w).row].status = "launching" THEN wk[w].inst ELSE @]
  /\ WorkerUnchanged /\ UNCHANGED <<run, inst, maestro, msg, faults>>

NextAttemptAnew(w) == [JobOf(w) EXCEPT !.attempt = @ + 1]   \* faulty: drops the instance
NextAttempt(w) == [JobOf(w) EXCEPT !.attempt = @ + 1, !.inst = wk[w].inst]

EnqueueRetry(w, m) ==
  /\ Step(w, "enqueue", "ack")
  /\ Send(m, NextAttempt(w))
  /\ WorkerUnchanged /\ UNCHANGED <<run, row, inst, maestro, faults>>

----------------------------------------------------------------------------
(* The catch block, final                                                  *)

FailInstance(w) ==
  /\ Step(w, "failInst", "failRow")
  /\ SetInst(JobOf(w).inst, "failed")
  /\ WorkerUnchanged /\ UNCHANGED <<run, row, maestro, msg, faults>>

(* Conditional on "not failed yet": a redelivery is not counted again.     *)
NotYetFailed(r) == row[r].status # "failed"

FailedRow(w) ==
  LET item == row[JobOf(w).row]
  IN  [item EXCEPT !.status = "failed",
                   !.inst = IF IsRetry(w) THEN JobOf(w).inst ELSE item.inst]

FailRow(w) ==
  /\ Step(w, "failRow", "count")
  /\ NotYetFailed(JobOf(w).row)
  /\ row' = [row EXCEPT ![JobOf(w).row] = FailedRow(w)]
  /\ WorkerUnchanged /\ UNCHANGED <<run, inst, maestro, msg, faults>>

FailRowAgain(w) ==
  /\ Step(w, "failRow", "ack")
  /\ ~NotYetFailed(JobOf(w).row)
  /\ WorkerUnchanged /\ UNCHANGED <<run, row, inst, maestro, msg, faults>>

CountFailure(w) ==
  /\ Step(w, "count", "ack")
  /\ AddFailures(1)
  /\ WorkerUnchanged /\ UNCHANGED <<row, inst, maestro, msg, faults>>

----------------------------------------------------------------------------
(* The end of a job, and failures on the way                               *)

Ack(w) ==
  /\ wk[w].pc \in {"stats", "ack"}
  /\ msg' = [msg EXCEPT ![wk[w].msg].state = "deleted"]
  /\ SetWorker(w, IdleWorker)
  /\ WorkerUnchanged /\ UNCHANGED <<run, row, inst, maestro, faults>>

TryPc  == {"launch", "persist", "record", "readRun", "adopt", "reset", "stats"}

(* A DynamoDB error in the try block lands in the catch block as a         *)
(* retryable one, whether Maestro has launched the workflow or not.        *)
TryFails(w) ==
  /\ wk[w].pc \in TryPc
  /\ Fault("tryError")
  /\ SetWorker(w, [wk[w] EXCEPT !.pc = RetryOrFail(w), !.inst = None, !.mid = None])
  /\ WorkerUnchanged /\ UNCHANGED <<run, row, inst, maestro, msg>>

(* Errors of the best-effort writes are logged, and the job goes on        *)
(* without them.                                                           *)
AfterError(pc) == CASE pc = "failInst"  -> "failRow"
                    [] pc \in {"undo", "undoInst"} -> "stats"
                    [] pc = "reference" -> "enqueue"
                    [] OTHER            -> "ack"

FinalFails(w) ==
  /\ wk[w].pc \in {"denyInst", "undo", "undoInst", "reference", "failInst", "failRow", "count"}
  /\ Fault("finalError")
  /\ SetWorker(w, [wk[w] EXCEPT !.pc = AfterError(@)])
  /\ WorkerUnchanged /\ UNCHANGED <<run, row, inst, maestro, msg>>

(* The process dies, the delete fails or the catch block itself throws:    *)
(* the message stays and comes back after its visibility timeout.          *)
WorkerCrashes(w) ==
  /\ wk[w].pc # "idle"
  /\ Fault("workerCrash")
  /\ SetWorker(w, IdleWorker)
  /\ WorkerUnchanged /\ UNCHANGED <<run, row, inst, maestro, msg>>

LauncherStep(w) ==
  \/ \E m \in Msg : Receive(w, m) \/ EnqueueRetry(w, m)
  \/ \E k \in Mid : LaunchSucceeds(w, k)
  \/ \E i \in Inst : PersistNew(w, i) \/ TrackNew(w, i)
  \/ RetryGuard(w) \/ GateDenies(w) \/ DenyInstance(w)
  \/ LaunchFailsRetryably(w) \/ LaunchRejected(w)
  \/ PersistRetry(w) \/ RecordLaunch(w) \/ RecordRefused(w)
  \/ ReadRun(w) \/ AdoptLaunch(w) \/ AdoptRefused(w)
  \/ UndoLaunch(w) \/ UndoInstance(w) \/ ResetStreak(w)
  \/ TrackAgain(w) \/ ReferenceTracking(w)
  \/ FailInstance(w) \/ FailRow(w) \/ FailRowAgain(w) \/ CountFailure(w)
  \/ Ack(w)

LauncherFault(w) ==
  \/ \E k \in Mid : ReplyLost(w, k)
  \/ UndoRejected(w) \/ TryFails(w) \/ FinalFails(w) \/ WorkerCrashes(w)
============================================================================
