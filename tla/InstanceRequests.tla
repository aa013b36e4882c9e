-------------------------- MODULE InstanceRequests --------------------------
(***************************************************************************)
(* What else writes an instance item: the manual retry, the cancel and the *)
(* live view (src/baton/src/routes/instances.ts), and the scheduler's sync *)
(* of running instances (src/baton/src/lib/scheduler.ts).                  *)
(***************************************************************************)
EXTENDS LaunchLadder

jobs    == <<entry, seqs, wk, faults>>
Of(q)   == rq[q].inst
ToRq(q, pc) == rq' = [rq EXCEPT ![q].pc = pc]
Answer(q)   == rq' = [rq EXCEPT ![q] = [IdleReq EXCEPT !.pc = "done", !.kind = rq[q].kind, !.inst = Of(q)]]

(* Somebody holds a reading of instance i and is still to write: a retry   *)
(* or a cancel that lands now may be overwritten.                          *)
Past(w)   == wk[w].pc \notin {"idle", "guard", "ack", "failEntry", "count"}
Busy(i, q) ==
  \/ \E w \in Worker : Past(w) /\ wk[w].inst = i
  \/ \E p \in Req \ {q} : rq[p].pc \in {"act", "fetch", "write"} /\ rq[p].inst = i
  \/ sync.pc = "write" /\ sync.inst = i
Tear(i, q) == IF Busy(i, q) THEN hist.torn \cup {i} ELSE hist.torn

(* Each request first reads the instance; a retry refuses a completed one, *)
(* the live view has nothing to ask without a Maestro id.                  *)
Allowed(k, i) ==
  CASE k = "retry"  -> inst[i].status \in {"failed", "running", "cancelled"}
    [] k = "cancel" -> TRUE
    [] k = "live"   -> inst[i].mid # None
FirstPc(k, i) ==
  CASE k = "live"                           -> "fetch"
    [] k = "cancel" /\ inst[i].mid # None   -> "act"
    [] OTHER                                -> "write"
ReadInstance(q) ==
  /\ rq[q].pc = "idle" /\ Room
  /\ \E i \in Inst, k \in Kinds[q] :
       /\ inst[i].status # "none" /\ Allowed(k, i)
       /\ rq' = [rq EXCEPT ![q] = [pc |-> FirstPc(k, i), kind |-> k, inst |-> i, status |-> inst[i].status,
                                   mid |-> inst[i].mid, manual |-> inst[i].manual, seq |-> 0, seen |-> "none"]]
  /\ UNCHANGED <<inst, maestro, msg, jobs, sync, hist>>

(* Manual retry: a new sequence, whatever the instance has become since;   *)
(* then its launch job.  A Maestro instance that still runs is let go.     *)
RetryWrites(q) ==
  /\ rq[q].pc = "write" /\ rq[q].kind = "retry"
  /\ SetInst(Of(q), [inst[Of(q)] EXCEPT !.status = "running", !.seq = seqs + 1])
  /\ seqs' = seqs + 1
  /\ hist' = [hist EXCEPT !.torn = Tear(Of(q), q), !.cancelled = @ \ {Of(q)}, !.unended = @ \ {Of(q)},
                          !.lost = @ \cup Followed(inst[Of(q)].mid)]
  /\ rq' = [rq EXCEPT ![q].pc = "send", ![q].seq = seqs + 1]
  /\ UNCHANGED <<maestro, entry, msg, wk, faults, sync>>
SendRetry(q) ==
  /\ rq[q].pc = "send"
  /\ \E m \in Msg : Send(m, [FirstJob EXCEPT !.seq = rq[q].seq, !.inst = Of(q), !.entry = Of(q)])
  /\ Answer(q)
  /\ UNCHANGED <<inst, maestro, jobs, sync, hist>>

(* Cancel: at Maestro if an id was read, where a refusal is swallowed;     *)
(* then the local status, unconditionally.                                 *)
CancelAtMaestro(q) ==
  /\ rq[q].pc = "act"
  /\ maestro' = [maestro EXCEPT ![rq[q].mid] = IF @ = "live" THEN "cancelled" ELSE @]
  /\ ToRq(q, "write")
  /\ UNCHANGED <<inst, msg, jobs, sync, hist>>
CancelRejected(q) ==
  /\ rq[q].pc = "act" /\ Fault("cancelRejected")
  /\ hist' = [hist EXCEPT !.lost = @ \cup Followed(rq[q].mid)]
  /\ ToRq(q, "write")
  /\ UNCHANGED <<inst, maestro, entry, msg, seqs, wk, sync>>
CancelWrites(q) ==
  /\ rq[q].pc = "write" /\ rq[q].kind = "cancel"
  /\ SetInst(Of(q), [inst[Of(q)] EXCEPT !.status = "cancelled", !.manual = TRUE])
  /\ hist' = [hist EXCEPT !.torn = Tear(Of(q), q), !.cancelled = @ \cup {Of(q)},
                          !.lost = @ \cup (Followed(inst[Of(q)].mid) \ {rq[q].mid})]
  /\ Answer(q)
  /\ UNCHANGED <<maestro, msg, jobs, sync>>

(* The live view: Maestro's status is written over the local one if they   *)
(* differ and the instance, as read, was not cancelled by hand, or else if *)
(* the last completed step has moved.                                      *)
MaestroStatus(k) == IF maestro[k] = "live" THEN "running" ELSE maestro[k]
Fetch(q) ==
  /\ rq[q].pc = "fetch"
  /\ rq' = [rq EXCEPT ![q].pc = "write", ![q].seen = MaestroStatus(rq[q].mid)]
  /\ UNCHANGED <<inst, maestro, msg, jobs, sync, hist>>
ManualCancel(q)  == rq[q].status = "cancelled" /\ rq[q].manual
StatusChanged(q) == ~ManualCancel(q) /\ rq[q].seen # rq[q].status
Overrides(q)     == ManualCancel(q) /\ rq[q].seen # "cancelled"
LiveWrites(q) ==
  /\ rq[q].pc = "write" /\ rq[q].kind = "live"
  /\ \E stepChanged \in BOOLEAN :
       IF stepChanged \/ StatusChanged(q)
       THEN /\ SetInst(Of(q), [inst[Of(q)] EXCEPT !.status = rq[q].seen])
            /\ IF rq[q].seen = "completed" THEN ToRq(q, "count") ELSE Answer(q)
            /\ hist' = [hist EXCEPT !.polled = IF stepChanged THEN @ \cup {Of(q)} ELSE @,
                                    !.overridden = IF Overrides(q) THEN @ \cup {Of(q)} ELSE @]
       ELSE UNCHANGED <<inst, hist>> /\ Answer(q)
  /\ UNCHANGED <<maestro, msg, jobs, sync>>

(* countCompletionIfNeeded: once per instance, whoever sees it complete.   *)
Counted(i) == [hist EXCEPT !.completions[i] = IF inst[i].counted THEN @ ELSE @ + 1]
LeaveUncounted(i)  == UNCHANGED inst \* faulty: the flag is not set
MarkCounted(i)    == SetInst(i, [inst[i] EXCEPT !.counted = TRUE])
LiveCounts(q) ==
  /\ rq[q].pc = "count"
  /\ hist' = Counted(Of(q)) /\ MarkCounted(Of(q))
  /\ Answer(q)
  /\ UNCHANGED <<maestro, msg, jobs, sync>>

RequestStep(q) ==
  \/ RetryWrites(q) \/ SendRetry(q)
  \/ CancelAtMaestro(q) \/ CancelRejected(q) \/ CancelWrites(q)
  \/ Fetch(q) \/ LiveWrites(q) \/ LiveCounts(q)

(* The process dies under a request: a reopened instance has no job.       *)
RequestCrashes(q) ==
  /\ rq[q].pc \notin {"idle", "done"} /\ Fault("requestCrash")
  /\ hist' = [hist EXCEPT !.torn = @ \cup {Of(q)}, !.lost = @ \cup Followed(rq[q].mid)]
  /\ Answer(q)
  /\ UNCHANGED <<inst, maestro, entry, msg, seqs, wk, sync>>

----------------------------------------------------------------------------
(* The sync, one pass at a time (instanceSyncInFlight), followed at one of *)
(* the instances its scan found running.  Only an end is written, and that *)
(* is final: Maestro is asked where the answer is used, and a pass that    *)
(* finds the instance still live leaves no trace.                          *)
SyncScans ==
  /\ sync.pc = "idle"
  /\ \E i \in Inst :
       /\ inst[i].status = "running" /\ inst[i].mid # None /\ maestro[inst[i].mid] # "live"
       /\ sync' = [pc |-> "write", inst |-> i, mid |-> inst[i].mid, countedFailed |-> inst[i].countedFailed]
  /\ UNCHANGED <<inst, maestro, msg, jobs, rq, hist>>

StillRunning(i) == inst[i].status = "running" \* the ConditionExpression
NewFailure(status) == status = "failed" /\ ~sync.countedFailed
NextPc(status) == IF status = "completed" THEN "count" ELSE IF NewFailure(status) THEN "charge" ELSE "idle"
SyncWrites ==
  /\ sync.pc = "write"
  /\ LET i == sync.inst  status == MaestroStatus(sync.mid) IN
     IF StillRunning(i)
     THEN /\ SetInst(i, [inst[i] EXCEPT !.status = status, !.countedFailed = @ \/ NewFailure(status)])
          /\ sync' = IF NextPc(status) = "idle" THEN IdleSync ELSE [sync EXCEPT !.pc = NextPc(status)]
     ELSE UNCHANGED inst /\ sync' = IdleSync
  /\ UNCHANGED <<maestro, msg, jobs, rq, hist>>
SyncCounts ==
  /\ sync.pc = "count"
  /\ LET i == sync.inst IN
     /\ MarkCounted(i)
     /\ hist' = [Counted(i) EXCEPT !.pardoned[i] = IF sync.countedFailed THEN @ + 1 ELSE @]
  /\ sync' = IdleSync
  /\ UNCHANGED <<maestro, msg, jobs, rq>>
SyncCharges ==
  /\ sync.pc = "charge"
  /\ hist' = [hist EXCEPT !.charged[sync.inst] = @ + 1]
  /\ sync' = IdleSync
  /\ UNCHANGED <<inst, maestro, msg, jobs, rq>>

SyncStep == SyncWrites \/ SyncCounts \/ SyncCharges

(* A Maestro instance ends by itself.                                      *)
WorkflowEnds(k) ==
  /\ maestro[k] = "live"
  /\ \E status \in {"completed", "failed"} : maestro' = [maestro EXCEPT ![k] = status]
  /\ hist' = [hist EXCEPT !.lost = @ \ {k}]
  /\ UNCHANGED <<inst, msg, jobs, rq, sync>>
=============================================================================
