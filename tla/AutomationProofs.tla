------------------------- MODULE AutomationProofs --------------------------
(***************************************************************************)
(* What holds of the launch ladder of an automation, its requests and its  *)
(* sync for any number of workers, requests, instances, messages and       *)
(* faults.                                                                 *)
(***************************************************************************)
EXTENDS AutomationLaunch, FiniteSetTheorems, TLAPS

(* Which actions change what.                                              *)
LEMMA InstFrame ==
  ASSUME Next
  PROVE  \/ inst' = inst
         \/ \E w \in Worker : DenyInstance(w) \/ Persist(w) \/ Track(w) \/ FailInstance(w)
         \/ \E q \in Req : RetryWrites(q) \/ CancelWrites(q) \/ LiveWrites(q) \/ LiveCounts(q)
         \/ SyncWrites \/ SyncCounts
<1>1. ASSUME NEW w \in Worker, WorkerStep(w) \/ ReplyLost(w) \/ TryFails(w) \/ CatchFails(w) \/ WorkerCrashes(w)
      PROVE  inst' = inst \/ DenyInstance(w) \/ Persist(w) \/ Track(w) \/ FailInstance(w)
  BY <1>1 DEF WorkerStep, ReplyLost, TryFails, CatchFails, AfterSwallowed, WorkerCrashes, Receive, Repark, RetryGuard, GateDenies,
     LaunchSucceeds, LaunchFails, CompleteEntry, UpdateStats, ReportRetry, EnqueueRetry, ReadEntry, FailEntry,
     CountFailure, Ack
<1>2. ASSUME NEW q \in Req, ReadInstance(q) \/ RequestStep(q) \/ RequestCrashes(q)
      PROVE  inst' = inst \/ RetryWrites(q) \/ CancelWrites(q) \/ LiveWrites(q) \/ LiveCounts(q)
  BY <1>2 DEF ReadInstance, RequestStep, RequestCrashes, SendRetry, CancelAtMaestro, CancelRejected, Fetch
<1>3. QED
  BY <1>1, <1>2 DEF Next, Rest, vars, Reappear, ReappearEarly, SyncScans, SyncStep, SyncCharges, WorkflowEnds

(* What runs at Maestro changes by a launch, a cancel, or by itself.       *)
LEMMA MaestroFrame ==
  ASSUME Next
  PROVE  \/ maestro' = maestro
         \/ \E w \in Worker : LaunchSucceeds(w) \/ ReplyLost(w)
         \/ \E q \in Req : CancelAtMaestro(q)
         \/ \E k \in Mid : WorkflowEnds(k)
<1>1. ASSUME NEW w \in Worker, WorkerStep(w) \/ ReplyLost(w) \/ TryFails(w) \/ CatchFails(w) \/ WorkerCrashes(w)
      PROVE  maestro' = maestro \/ LaunchSucceeds(w) \/ ReplyLost(w)
  BY <1>1 DEF WorkerStep, TryFails, CatchFails, AfterSwallowed, WorkerCrashes, Receive, Repark, RetryGuard, GateDenies, DenyInstance,
     LaunchFails, Persist, CompleteEntry, UpdateStats, Track, ReportRetry, EnqueueRetry, ReadEntry,
     FailInstance, FailEntry, CountFailure, Ack
<1>2. ASSUME NEW q \in Req, ReadInstance(q) \/ RequestStep(q) \/ RequestCrashes(q)
      PROVE  maestro' = maestro \/ CancelAtMaestro(q)
  BY <1>2 DEF ReadInstance, RequestStep, RequestCrashes, RetryWrites, SendRetry, CancelRejected, CancelWrites,
     Fetch, LiveWrites, LiveCounts
<1>3. QED
  BY <1>1, <1>2 DEF Next, Rest, vars, Reappear, ReappearEarly, SyncScans, SyncStep, SyncWrites, SyncCounts, SyncCharges

(* The queue changes by a worker that receives, re-sends or deletes, by a  *)
(* visibility timeout, or by a retry request.                              *)
LEMMA MsgFrame ==
  ASSUME Next
  PROVE  \/ msg' = msg
         \/ \E w \in Worker : (\E m \in Msg : Receive(w, m)) \/ Repark(w) \/ EnqueueRetry(w) \/ Ack(w)
         \/ \E m \in Msg : Reappear(m) \/ ReappearEarly(m)
         \/ \E q \in Req : SendRetry(q)
<1>1. ASSUME NEW w \in Worker, WorkerStep(w) \/ ReplyLost(w) \/ TryFails(w) \/ CatchFails(w) \/ WorkerCrashes(w)
      PROVE  msg' = msg \/ (\E m \in Msg : Receive(w, m)) \/ Repark(w) \/ EnqueueRetry(w) \/ Ack(w)
  BY <1>1 DEF WorkerStep, TryFails, CatchFails, AfterSwallowed, WorkerCrashes, RetryGuard, GateDenies, DenyInstance, LaunchSucceeds, ReplyLost,
     LaunchFails, Persist, CompleteEntry, UpdateStats, Track, ReportRetry, ReadEntry,
     FailInstance, FailEntry, CountFailure
<1>2. ASSUME NEW q \in Req, ReadInstance(q) \/ RequestStep(q) \/ RequestCrashes(q)
      PROVE  msg' = msg \/ SendRetry(q)
  BY <1>2 DEF ReadInstance, RequestStep, RequestCrashes, RetryWrites, CancelAtMaestro, CancelRejected, CancelWrites,
     Fetch, LiveWrites, LiveCounts
<1>3. QED
  BY <1>1, <1>2 DEF Next, Rest, vars, SyncScans, SyncStep, SyncWrites, SyncCounts, SyncCharges, WorkflowEnds

(* A worker moves by a step of its own or by its death.                    *)
LEMMA WorkersFrame ==
  ASSUME Next
  PROVE  \/ wk' = wk
         \/ \E w \in Worker : WorkerStep(w) \/ ReplyLost(w) \/ TryFails(w) \/ CatchFails(w) \/ WorkerCrashes(w)
  BY DEF Next, Rest, vars, jobs, Reappear, ReappearEarly, ReadInstance, RequestStep, RequestCrashes,
     RetryWrites, SendRetry, CancelAtMaestro, CancelRejected, CancelWrites, Fetch, LiveWrites, LiveCounts,
     SyncScans, SyncStep, SyncWrites, SyncCounts, SyncCharges, WorkflowEnds

-----------------------------------------------------------------------------
(* What the automation's state is made of, and what its parts name.  An    *)
(* item, a sequence and a Maestro instance stay once they are there; the   *)
(* job of a message stays as long as a worker holds the message.           *)
SyncState == [pc : {"idle", "write", "count", "charge"}, inst : Inst \cup {None}, mid : Mid \cup {None},
              countedFailed : BOOLEAN]
History == [failures : [Entry -> Nat], charged : [Inst -> Nat], pardoned : [Inst -> Nat],
            completions : [Inst -> Nat], cancelled : SUBSET Inst, torn : SUBSET Inst, polled : SUBSET Inst,
            overridden : SUBSET Inst, lost : SUBSET Mid, unended : SUBSET Inst, unsettled : SUBSET Entry]
InstTyped    == inst \in [Inst -> InstanceState]
MaestroTyped == maestro \in [Mid -> {"none", "live"} \cup Terminal]
MsgTyped     == msg \in [Msg -> MessageState]
WkTyped      == wk \in [Worker -> WorkerState]
RqTyped      == rq \in [Req -> RequestState]
Typed ==
  /\ InstTyped /\ MaestroTyped /\ MsgTyped /\ WkTyped /\ RqTyped
  /\ entry \in [Entry -> EntryStatus] /\ seqs \in Nat /\ sync \in SyncState
  /\ faults \in 0 .. MaxFaults /\ hist \in History

Exists(i)   == inst[i].status # "none"
Numbered(i) == Exists(i) /\ inst[i].seq # 0
Launched(k) == maestro[k] # "none"
ItemsNamed  ==
  \A i \in Inst : (inst[i].mid # None => Launched(inst[i].mid)) /\ (inst[i].status = "none" => inst[i] = NoInst)
JobsNamed ==
  \A m \in Msg :
    /\ msg[m].state = "visible" => msg[m].received < MaxReceive
    /\ msg[m].job.inst # None => Numbered(msg[m].job.inst) /\ msg[m].job.seq # 0
WorkerOK(w) ==
  wk[w].pc # "idle" =>
    /\ wk[w].msg \in Msg
    /\ JobOf(w).inst # None => wk[w].inst = JobOf(w).inst /\ wk[w].seq = JobOf(w).seq
    /\ wk[w].inst # None => Numbered(wk[w].inst) /\ wk[w].seq # 0
    /\ wk[w].mid # None => Launched(wk[w].mid)
    /\ wk[w].pc \in {"persist", "complete", "stats"} => wk[w].mid # None
    /\ wk[w].pc \in {"track", "report", "enqueue"} => JobOf(w).attempt < MaxAttempts
    /\ wk[w].pc \in {"denyInst", "failInst"} => JobOf(w).inst # None
    /\ wk[w].pc \in {"report", "enqueue"} => wk[w].inst # None
    /\ wk[w].inst # None /\ JobOf(w).inst = None => wk[w].pc \in {"report", "enqueue", "ack"}
WorkersNamed == \A w \in Worker : WorkerOK(w)
RequestOK(q) ==
  rq[q].pc # "idle" =>
    /\ rq[q].inst \in Inst /\ Exists(rq[q].inst)
    /\ rq[q].mid # None => Launched(rq[q].mid)
    /\ rq[q].pc = "act" => rq[q].kind = "cancel" /\ rq[q].mid # None
    /\ rq[q].pc = "fetch" => rq[q].kind = "live" /\ rq[q].mid # None
    /\ rq[q].pc = "write" /\ rq[q].kind = "live" => rq[q].mid # None /\ rq[q].seen # "none"
    /\ rq[q].pc = "send" => rq[q].kind = "retry" /\ rq[q].seq # 0 /\ Numbered(rq[q].inst)
RequestsNamed == \A q \in Req : RequestOK(q)
SyncNamed ==
  sync.pc # "idle" => sync.inst \in Inst /\ Exists(sync.inst) /\ sync.mid \in Mid /\ maestro[sync.mid] \in Terminal
Shape == Typed /\ ItemsNamed /\ JobsNamed /\ WorkersNamed /\ RequestsNamed /\ SyncNamed

-----------------------------------------------------------------------------
(* How each part changes, once Shape is known.  An item that is written    *)
(* exists, keeps its number and names a Maestro instance that exists.      *)
Written(i, f) ==
  /\ i \in Inst /\ f \in InstanceState /\ inst' = [inst EXCEPT ![i] = f]
  /\ f.status # "none"
  /\ inst[i].seq # 0 => f.seq # 0
  /\ f.mid # None => Launched(f.mid)

(* What a worker writes is such an item.                                   *)
LEMMA WorkerWritesInst ==
  ASSUME Shape, NEW w \in Worker,
         DenyInstance(w) \/ Persist(w) \/ Track(w) \/ FailInstance(w)
  PROVE  inst' = inst \/ \E i \in Inst, f \in InstanceState : Written(i, f)
<1> USE DEF Shape, Typed
<1>1. WorkerOK(w) /\ wk[w] \in WorkerState /\ InstTyped /\ ItemsNamed /\ seqs \in Nat
  BY DEF WorkersNamed, WkTyped
<1>2. wk[w].pc # "idle" => JobOf(w) \in Job
  BY <1>1 DEF WorkerOK, JobOf, MsgTyped, MessageState
<1>3. JobOf(w).inst = None => wk[w].pc \notin {"denyInst", "failInst"}
  BY <1>1 DEF WorkerOK
<1>4. CASE DenyInstance(w)
  <2>1. JobOf(w).inst \in Inst /\ Exists(JobOf(w).inst)
    BY <1>1, <1>2, <1>3, <1>4 DEF DenyInstance, WorkerOK, Numbered, Job
  <2>2. inst[JobOf(w).inst] \in InstanceState
    BY <2>1 DEF InstTyped
  <2> DEFINE f == [inst[JobOf(w).inst] EXCEPT !.status = "cancelled"]
  <2>3. f \in InstanceState /\ f.status # "none" /\ f.seq = inst[JobOf(w).inst].seq
        /\ f.mid = inst[JobOf(w).inst].mid
    BY <2>2 DEF InstanceState, Terminal
  <2>4. inst' = inst \/ inst' = [inst EXCEPT ![JobOf(w).inst] = f]
    BY <1>4 DEF DenyInstance, SetInst
  <2> HIDE DEF f
  <2>5. QED
    BY <2>1, <2>3, <2>4, <1>1 DEF Written, ItemsNamed
<1>5. CASE FailInstance(w)
  <2>1. JobOf(w).inst \in Inst /\ Exists(JobOf(w).inst)
    BY <1>1, <1>2, <1>3, <1>5 DEF FailInstance, WorkerOK, Numbered, Job
  <2>2. inst[JobOf(w).inst] \in InstanceState
    BY <2>1 DEF InstTyped
  <2> DEFINE f == [inst[JobOf(w).inst] EXCEPT !.status = "failed"]
  <2>3. f \in InstanceState /\ f.status # "none" /\ f.seq = inst[JobOf(w).inst].seq
        /\ f.mid = inst[JobOf(w).inst].mid
    BY <2>2 DEF InstanceState, Terminal
  <2>4. inst' = [inst EXCEPT ![JobOf(w).inst] = f]
    BY <1>5 DEF FailInstance, SetInst
  <2> HIDE DEF f
  <2>5. QED
    BY <2>1, <2>3, <2>4, <1>1 DEF Written, ItemsNamed
<1>6. CASE Persist(w)
  <2>1. wk[w].mid \in Mid /\ Launched(wk[w].mid)
    BY <1>1, <1>6 DEF Persist, WorkerOK, WorkerState
  <2>2. CASE JobOf(w).inst = None
    <3>1. PICK i \in Inst : FreshInst(i) /\ SetInst(i, [NoInst EXCEPT !.status = "running", !.mid = wk[w].mid])
      BY <1>6, <2>2 DEF Persist
    <3> DEFINE f == [NoInst EXCEPT !.status = "running", !.mid = wk[w].mid]
    <3>2. f \in InstanceState /\ f.status # "none" /\ f.mid = wk[w].mid
      BY <2>1 DEF InstanceState, NoInst
    <3>4. inst' = [inst EXCEPT ![i] = f]
      BY <3>1 DEF SetInst
    <3>5. inst[i].seq = 0
      BY <3>1, <1>1 DEF FreshInst, ItemsNamed, NoInst
    <3> HIDE DEF f
    <3>6. QED
      BY <3>2, <3>4, <3>5, <2>1 DEF Written
  <2>3. CASE JobOf(w).inst # None
    <3>1. JobOf(w).inst \in Inst /\ Exists(JobOf(w).inst)
      BY <1>1, <1>2, <1>6, <2>3 DEF Persist, WorkerOK, Numbered, Job
    <3>2. inst[JobOf(w).inst] \in InstanceState
      BY <3>1 DEF InstTyped
    <3> DEFINE f == [inst[JobOf(w).inst] EXCEPT !.status = "running", !.mid = wk[w].mid]
    <3>3. f \in InstanceState /\ f.status # "none" /\ f.seq = inst[JobOf(w).inst].seq /\ f.mid = wk[w].mid
      BY <3>2, <2>1 DEF InstanceState
    <3>4. inst' = [inst EXCEPT ![JobOf(w).inst] = f]
      BY <1>6, <2>3 DEF Persist, SetInst
    <3> HIDE DEF f
    <3>5. QED
      BY <3>1, <3>3, <3>4, <2>1 DEF Written
  <2>4. QED
    BY <2>2, <2>3
<1>7. CASE Track(w)
  <2>1. CASE wk[w].inst = None
    <3>1. PICK i \in Inst : FreshInst(i) /\ SetInst(i, [NoInst EXCEPT !.status = "running", !.seq = seqs + 1])
      BY <1>7, <2>1 DEF Track
    <3> DEFINE f == [NoInst EXCEPT !.status = "running", !.seq = seqs + 1]
    <3>3. seqs + 1 \in Nat /\ seqs + 1 # 0
      BY <1>1
    <3>2. f \in InstanceState /\ f.status # "none" /\ f.seq # 0 /\ f.mid = None
      BY <3>3 DEF InstanceState, NoInst
    <3>4. inst' = [inst EXCEPT ![i] = f]
      BY <3>1 DEF SetInst
    <3> HIDE DEF f
    <3>6. QED
      BY <3>2, <3>4 DEF Written
  <2>2. CASE wk[w].inst # None
    <3>1. wk[w].inst \in Inst /\ Exists(wk[w].inst) /\ wk[w].seq # 0 /\ wk[w].seq \in Nat
      BY <1>1, <1>7, <2>2 DEF Track, WorkerOK, Numbered, WorkerState
    <3>2. inst[wk[w].inst] \in InstanceState
      BY <3>1 DEF InstTyped
    <3> DEFINE f == [inst[wk[w].inst] EXCEPT !.seq = wk[w].seq]
    <3>3. f \in InstanceState /\ f.status = inst[wk[w].inst].status /\ f.seq # 0
          /\ f.mid = inst[wk[w].inst].mid
      BY <3>1, <3>2 DEF InstanceState
    <3>4. inst' = [inst EXCEPT ![wk[w].inst] = f]
      BY <1>7, <2>2 DEF Track, SetInst
    <3> HIDE DEF f
    <3>5. QED
      BY <3>1, <3>3, <3>4, <1>1 DEF Written, ItemsNamed, Exists
  <2>3. QED
    BY <2>1, <2>2
<1>8. QED
  BY <1>4, <1>5, <1>6, <1>7

(* The same of what the requests and the sync write.                       *)
LEMMA RequestWritesInst ==
  ASSUME Shape, NEW q \in Req,
         RetryWrites(q) \/ CancelWrites(q) \/ LiveWrites(q) \/ LiveCounts(q)
  PROVE  inst' = inst \/ \E i \in Inst, f \in InstanceState : Written(i, f)
<1>1. RequestOK(q) /\ rq[q] \in RequestState /\ InstTyped /\ ItemsNamed /\ seqs \in Nat /\ rq[q].pc # "idle"
  BY DEF RequestsNamed, RqTyped, Shape, Typed, RetryWrites, CancelWrites, LiveWrites, LiveCounts
<1>2. Of(q) \in Inst /\ Exists(Of(q)) /\ inst[Of(q)] \in InstanceState
  BY <1>1 DEF RequestOK, Of, InstTyped
<1>3. inst[Of(q)].status # "none" /\ (inst[Of(q)].mid # None => Launched(inst[Of(q)].mid))
  BY <1>1, <1>2 DEF Exists, ItemsNamed
<1>4. CASE RetryWrites(q)
  <2> DEFINE f == [inst[Of(q)] EXCEPT !.status = "running", !.seq = seqs + 1]
  <2>0. seqs + 1 \in Nat /\ seqs + 1 # 0
    BY <1>1
  <2>1. f \in InstanceState /\ f.status # "none" /\ f.seq # 0 /\ f.mid = inst[Of(q)].mid
    BY <2>0, <1>2 DEF InstanceState
  <2>2. inst' = [inst EXCEPT ![Of(q)] = f]
    BY <1>4 DEF RetryWrites, SetInst
  <2> HIDE DEF f
  <2>3. QED
    BY <1>2, <1>3, <2>1, <2>2 DEF Written
<1>5. CASE CancelWrites(q)
  <2> DEFINE f == [inst[Of(q)] EXCEPT !.status = "cancelled", !.manual = TRUE]
  <2>1. f \in InstanceState /\ f.status # "none" /\ f.seq = inst[Of(q)].seq /\ f.mid = inst[Of(q)].mid
    BY <1>2 DEF InstanceState, Terminal
  <2>2. inst' = [inst EXCEPT ![Of(q)] = f]
    BY <1>5 DEF CancelWrites, SetInst
  <2> HIDE DEF f
  <2>3. QED
    BY <1>2, <1>3, <2>1, <2>2 DEF Written
<1>6. CASE LiveWrites(q)
  <2> DEFINE f == [inst[Of(q)] EXCEPT !.status = rq[q].seen]
  <2>1. rq[q].seen \in {"running"} \cup Terminal
    BY <1>1, <1>6 DEF LiveWrites, RequestOK, RequestState
  <2>2. f \in InstanceState /\ f.status # "none" /\ f.seq = inst[Of(q)].seq /\ f.mid = inst[Of(q)].mid
    BY <1>2, <2>1 DEF InstanceState, Terminal
  <2>3. inst' = inst \/ inst' = [inst EXCEPT ![Of(q)] = f]
    BY <1>6 DEF LiveWrites, SetInst
  <2> HIDE DEF f
  <2>4. QED
    BY <1>2, <1>3, <2>2, <2>3 DEF Written
<1>7. CASE LiveCounts(q)
  <2> DEFINE f == [inst[Of(q)] EXCEPT !.counted = TRUE]
  <2>1. f \in InstanceState /\ f.status = inst[Of(q)].status /\ f.seq = inst[Of(q)].seq /\ f.mid = inst[Of(q)].mid
    BY <1>2 DEF InstanceState
  <2>2. inst' = [inst EXCEPT ![Of(q)] = f]
    BY <1>7 DEF LiveCounts, MarkCounted, SetInst
  <2> HIDE DEF f
  <2>3. QED
    BY <1>2, <1>3, <2>1, <2>2 DEF Written
<1>8. QED
  BY <1>4, <1>5, <1>6, <1>7

(* So is what the sync writes.                                             *)
LEMMA SyncWritesInst ==
  ASSUME Shape, SyncWrites \/ SyncCounts
  PROVE  inst' = inst \/ \E i \in Inst, f \in InstanceState : Written(i, f)
<1>1. sync.pc # "idle" /\ InstTyped /\ ItemsNamed /\ SyncNamed /\ MaestroTyped
  BY DEF Shape, Typed, SyncWrites, SyncCounts
<1> DEFINE i == sync.inst
<1>2. i \in Inst /\ inst[i].status # "none" /\ inst[i] \in InstanceState
      /\ (inst[i].mid # None => Launched(inst[i].mid))
  BY <1>1 DEF SyncNamed, InstTyped, Exists, ItemsNamed
<1>3. CASE SyncWrites
  <2> DEFINE b == inst[i].countedFailed \/ NewFailure(MaestroStatus(sync.mid))
             f == [inst[i] EXCEPT !.status = MaestroStatus(sync.mid), !.countedFailed = b]
  <2>1. MaestroStatus(sync.mid) \in Terminal
    BY <1>1 DEF SyncNamed, MaestroStatus, Terminal
  <2>2. b \in BOOLEAN
    BY <1>2 DEF InstanceState, NewFailure
  <2>3. inst' = inst \/ inst' = [inst EXCEPT ![i] = f]
    BY <1>3 DEF SyncWrites, SetInst
  <2> HIDE DEF b
  <2>4. f \in InstanceState /\ f.status # "none" /\ f.seq = inst[i].seq /\ f.mid = inst[i].mid
    BY <1>2, <2>1, <2>2 DEF InstanceState, Terminal
  <2> HIDE DEF f
  <2>5. QED
    BY <1>2, <2>3, <2>4 DEF Written
<1>4. CASE SyncCounts
  <2> DEFINE f == [inst[i] EXCEPT !.counted = TRUE]
  <2>1. f \in InstanceState /\ f.status = inst[i].status /\ f.seq = inst[i].seq /\ f.mid = inst[i].mid
    BY <1>2 DEF InstanceState
  <2>2. inst' = [inst EXCEPT ![i] = f]
    BY <1>4 DEF SyncCounts, MarkCounted, SetInst
  <2> HIDE DEF f
  <2>3. QED
    BY <1>2, <2>1, <2>2 DEF Written
<1>5. QED
  BY <1>3, <1>4

(* Every step leaves the items alone or writes one of them.                *)
LEMMA InstChange ==
  ASSUME Shape, Next
  PROVE  inst' = inst \/ \E i \in Inst, f \in InstanceState : Written(i, f)
BY InstFrame, WorkerWritesInst, RequestWritesInst, SyncWritesInst

(* Of the Maestro instances: one that exists stays, an end is final.       *)
LEMMA MaestroChange ==
  ASSUME Shape, Next
  PROVE  /\ MaestroTyped'
         /\ \A k \in Mid : (Launched(k) => Launched(k)') /\ (maestro[k] \in Terminal => maestro'[k] = maestro[k])
<1>1. MaestroTyped /\ RequestsNamed /\ RqTyped
  BY DEF Shape, Typed
<1>2. CASE maestro' = maestro
  BY <1>1, <1>2 DEF MaestroTyped, Launched
<1>3. ASSUME NEW w \in Worker, LaunchSucceeds(w) \/ ReplyLost(w)
      PROVE  \E k \in Mid : FreshMid(k) /\ maestro' = [maestro EXCEPT ![k] = "live"]
  BY <1>3 DEF LaunchSucceeds, ReplyLost
<1>4. ASSUME NEW k \in Mid, FreshMid(k), maestro' = [maestro EXCEPT ![k] = "live"]
      PROVE  MaestroTyped' /\ \A j \in Mid : (Launched(j) => Launched(j)')
                                             /\ (maestro[j] \in Terminal => maestro'[j] = maestro[j])
  BY <1>1, <1>4 DEF FreshMid, MaestroTyped, Launched, Terminal
<1>5. ASSUME NEW q \in Req, CancelAtMaestro(q)
      PROVE  \E k \in Mid : maestro' = [maestro EXCEPT ![k] = IF @ = "live" THEN "cancelled" ELSE @]
  <2>1. rq[q].mid \in Mid
    BY <1>1, <1>5 DEF CancelAtMaestro, RequestsNamed, RequestOK, RqTyped, RequestState
  <2>2. QED
    BY <2>1, <1>5 DEF CancelAtMaestro
<1>6. ASSUME NEW k \in Mid, maestro' = [maestro EXCEPT ![k] = IF @ = "live" THEN "cancelled" ELSE @]
      PROVE  MaestroTyped' /\ \A j \in Mid : (Launched(j) => Launched(j)')
                                             /\ (maestro[j] \in Terminal => maestro'[j] = maestro[j])
  BY <1>1, <1>6 DEF MaestroTyped, Launched, Terminal
<1>7. ASSUME NEW k \in Mid, WorkflowEnds(k)
      PROVE  MaestroTyped' /\ \A j \in Mid : (Launched(j) => Launched(j)')
                                             /\ (maestro[j] \in Terminal => maestro'[j] = maestro[j])
  BY <1>1, <1>7 DEF MaestroTyped, Launched, Terminal, WorkflowEnds
<1>8. QED
  BY <1>2, <1>3, <1>4, <1>5, <1>6, <1>7, MaestroFrame

(* Of the items: one that exists stays, one that is numbered stays so.     *)
LEMMA Grows ==
  ASSUME Shape, Next
  PROVE  /\ InstTyped' /\ ItemsNamed'
         /\ \A i \in Inst : (Exists(i) => Exists(i)') /\ (Numbered(i) => Numbered(i)')
<1>1. InstTyped /\ ItemsNamed
  BY DEF Shape, Typed
<1>2. \A k \in Mid : Launched(k) => Launched(k)'
  BY MaestroChange
<1>3. CASE inst' = inst
  <2>1. \A i \in Inst : inst[i].mid # None => inst[i].mid \in Mid
    BY <1>1 DEF InstTyped, InstanceState
  <2>2. QED
    BY <1>1, <1>2, <1>3, <2>1 DEF InstTyped, ItemsNamed, Exists, Numbered
<1>4. ASSUME NEW i \in Inst, NEW f \in InstanceState, Written(i, f)
      PROVE  /\ InstTyped' /\ ItemsNamed'
             /\ \A j \in Inst : (Exists(j) => Exists(j)') /\ (Numbered(j) => Numbered(j)')
  <2>1. inst' = [inst EXCEPT ![i] = f]
    BY <1>4 DEF Written
  <2>2. InstTyped' /\ inst'[i] = f /\ \A j \in Inst : j # i => inst'[j] = inst[j]
    BY <2>1, <1>1 DEF InstTyped
  <2>3. \A j \in Inst : inst[j].mid # None => inst[j].mid \in Mid
    BY <1>1 DEF InstTyped, InstanceState
  <2>4. f.mid # None => f.mid \in Mid
    BY DEF InstanceState
  <2>5. f.status # "none" /\ (inst[i].seq # 0 => f.seq # 0) /\ (f.mid # None => Launched(f.mid))
    BY <1>4 DEF Written
  <2>6. ASSUME NEW j \in Inst
        PROVE  (inst'[j].mid # None => maestro'[inst'[j].mid] # "none") /\ (inst'[j].status = "none" => inst'[j] = NoInst)
    <3>1. CASE j = i
      BY <3>1, <2>2, <2>4, <2>5, <1>2 DEF Launched
    <3>2. CASE j # i
      <4>1. inst'[j] = inst[j]
        BY <3>2, <2>2
      <4>2. QED
        BY <4>1, <2>3, <1>1, <1>2 DEF ItemsNamed, Launched
    <3>3. QED
      BY <3>1, <3>2
  <2>7. ItemsNamed'
    BY <2>6 DEF ItemsNamed, NoInst, Launched
  <2>8. QED
    BY <2>2, <2>5, <2>7 DEF Exists, Numbered
<1>5. QED
  BY <1>3, <1>4, InstChange

(* A worker's step is its own: the others stay where they are, and one that *)
(* keeps its message keeps that message's job.                             *)
WorkerActs(w) == WorkerStep(w) \/ ReplyLost(w) \/ TryFails(w) \/ CatchFails(w) \/ WorkerCrashes(w)

(* In one step one worker moves at most.                                   *)
LEMMA OneWorkerMoves ==
  ASSUME Typed, Next, NEW v \in Worker, wk'[v] # wk[v]
  PROVE  WorkerActs(v)
<1>1. PICK w \in Worker : WorkerActs(w)
  BY WorkersFrame DEF WorkerActs
<1>2. \E new : wk' = [wk EXCEPT ![w] = new]
  BY <1>1 DEF WorkerActs, WorkerStep, ReplyLost, TryFails, CatchFails, AfterSwallowed, WorkerCrashes, Receive, Repark, RetryGuard, GateDenies,
     DenyInstance, LaunchSucceeds, LaunchFails, Persist, CompleteEntry, UpdateStats, Track, ReportRetry,
     EnqueueRetry, ReadEntry, FailInstance, FailEntry, CountFailure, Ack, Step, Leave
<1>3. v = w
  BY <1>2 DEF Typed, WkTyped
<1>4. QED
  BY <1>1, <1>3

(* Of the messages: one changes, in a form that JobsNamed allows; its job  *)
(* changes only if nobody is at it, or nobody is any more.                 *)
JobNamed(x) ==
  /\ x.state = "visible" => x.received < MaxReceive
  /\ x.job.inst # None => Numbered(x.job.inst) /\ x.job.seq # 0
Kept(m) == \A w \in Worker : wk[w].pc # "idle" /\ wk[w].msg = m => wk'[w].pc = "idle"
MsgWritten(m, x) ==
  /\ m \in Msg /\ x \in MessageState /\ msg' = [msg EXCEPT ![m] = x] /\ JobNamed(x)
  /\ x.job = msg[m].job \/ ~Held(m) \/ Kept(m)

(* A send writes one message, with a job that names what exists.           *)
LEMMA SendWrites ==
  ASSUME Shape, NEW m \in Msg, NEW job \in Job, Send(m, job), job.inst # None => Numbered(job.inst) /\ job.seq # 0
  PROVE  \E x \in MessageState : MsgWritten(m, x)
<1> DEFINE x == [state |-> "visible", received |-> 0, job |-> job]
<1>1. MaxReceive \in Nat /\ MaxReceive > 0
  BY LadderAssumption
<1>2. x \in MessageState /\ x.received < MaxReceive /\ x.job = job
  BY <1>1 DEF MessageState
<1>3. msg' = [msg EXCEPT ![m] = x] /\ ~Held(m)
  BY DEF Send, FreshMsg, Unused
<1> HIDE DEF x
<1>4. QED
  BY <1>2, <1>3 DEF MsgWritten, JobNamed

(* What a worker does to the queue is such a write.                        *)
LEMMA WorkerWritesMsg ==
  ASSUME Shape, NEW w \in Worker, (\E m \in Msg : Receive(w, m)) \/ Repark(w) \/ EnqueueRetry(w) \/ Ack(w)
  PROVE  \E m \in Msg, x \in MessageState : MsgWritten(m, x)
<1>1. MsgTyped /\ WkTyped /\ JobsNamed /\ WorkerOK(w) /\ MaxReceive \in Nat /\ MaxReceive > 0 /\ MaxAttempts \in Nat
  BY LadderAssumption DEF Shape, Typed, WorkersNamed
<1>2. CASE \E m \in Msg : Receive(w, m)
  <2>1. PICK m \in Msg : Receive(w, m)
    BY <1>2
  <2> DEFINE x == [msg[m] EXCEPT !.state = "hidden", !.received = @ + 1]
  <2>2. msg[m] \in MessageState /\ msg[m].received < MaxReceive
    BY <1>1, <2>1 DEF MsgTyped, JobsNamed, Receive
  <2>3. msg[m].received + 1 \in 0 .. MaxReceive
    BY <1>1, <2>2 DEF MessageState
  <2>4. x \in MessageState /\ x.state = "hidden" /\ x.job = msg[m].job
    BY <2>2, <2>3 DEF MessageState
  <2>5. msg' = [msg EXCEPT ![m] = x]
    BY <2>1, <1>1 DEF Receive, MsgTyped
  <2> HIDE DEF x
  <2>6. QED
    BY <2>4, <2>5, <1>1 DEF MsgWritten, JobNamed, JobsNamed
<1>3. CASE Repark(w)
  <2>1. wk[w].msg \in Msg /\ JobOf(w) \in Job
    BY <1>1, <1>3 DEF Repark, WorkerOK, JobOf, MsgTyped, MessageState
  <2> DEFINE job == [JobOf(w) EXCEPT !.early = FALSE]
  <2>2. job \in Job /\ job.inst = JobOf(w).inst /\ job.seq = JobOf(w).seq
    BY <2>1 DEF Job
  <2>3. PICK m \in Msg : Send(m, job)
    BY <1>3 DEF Repark
  <2> HIDE DEF job
  <2>4. QED
    BY <2>1, <2>2, <2>3, <1>1, SendWrites DEF JobsNamed, JobOf
<1>4. CASE EnqueueRetry(w)
  <2>1. wk[w].msg \in Msg /\ JobOf(w) \in Job /\ wk[w] \in WorkerState
    BY <1>1, <1>4 DEF EnqueueRetry, WorkerOK, JobOf, MsgTyped, MessageState, WkTyped
  <2>2. JobOf(w).attempt < MaxAttempts /\ wk[w].inst \in Inst /\ Numbered(wk[w].inst) /\ wk[w].seq # 0 /\ wk[w].seq \in Nat
    BY <1>1, <1>4, <2>1 DEF EnqueueRetry, WorkerOK, WorkerState
  <2> DEFINE a == JobOf(w).attempt + 1
             late == a \in Deferred
             job == [JobOf(w) EXCEPT !.attempt = a, !.inst = wk[w].inst, !.seq = wk[w].seq, !.early = late]
  <2>3. a \in 0 .. MaxAttempts /\ late \in BOOLEAN
    BY <1>1, <2>1, <2>2 DEF Job
  <2>4. PICK m \in Msg : Send(m, job)
    BY <1>4 DEF EnqueueRetry
  <2> HIDE DEF a, late
  <2>5. job \in Job /\ job.inst = wk[w].inst /\ job.seq = wk[w].seq
    BY <2>1, <2>2, <2>3 DEF Job
  <2> HIDE DEF job
  <2>6. QED
    BY <2>2, <2>4, <2>5, SendWrites
<1>5. CASE Ack(w)
  <2> DEFINE m == wk[w].msg
             x == IF Shared(w) THEN [msg[m] EXCEPT !.state = "none"] ELSE NoMsg
  <2>1. m \in Msg /\ msg[m] \in MessageState
    BY <1>1, <1>5 DEF Ack, WorkerOK, MsgTyped
  <2>2. NoMsg \in MessageState /\ NoMsg.job.inst = None /\ NoMsg.state = "none"
    BY <1>1 DEF NoMsg, FirstJob, MessageState, Job, Entry
  <2>3. x \in MessageState /\ x.state = "none" /\ (x.job.inst # None => x.job = msg[m].job)
    BY <2>1, <2>2 DEF MessageState
  <2>4. msg' = [msg EXCEPT ![m] = x]
    BY <1>5 DEF Ack
  <2>5. x.job = msg[m].job \/ Kept(m)
    <3>1. CASE Shared(w)
      BY <3>1, <2>1 DEF MessageState
    <3>2. CASE ~Shared(w)
      <4>1. wk'[w].pc = "idle"
        BY <1>5, <1>1 DEF Ack, Leave, IdleWorker, WkTyped
      <4>2. QED
        BY <3>2, <4>1 DEF Shared, Kept
    <3>3. QED
      BY <3>1, <3>2
  <2> HIDE DEF x
  <2>6. QED
    BY <2>1, <2>3, <2>4, <2>5, <1>1 DEF MsgWritten, JobNamed, JobsNamed
<1>6. QED
  BY <1>2, <1>3, <1>4, <1>5

(* So is what a visibility timeout or a retry request does to it.          *)
LEMMA OtherWritesMsg ==
  ASSUME Shape, (\E m \in Msg : Reappear(m) \/ ReappearEarly(m)) \/ (\E q \in Req : SendRetry(q))
  PROVE  \E m \in Msg, x \in MessageState : MsgWritten(m, x)
<1>1. MsgTyped /\ JobsNamed /\ MaxReceive \in Nat /\ MaxAttempts \in Nat
  BY LadderAssumption DEF Shape, Typed
<1>2. ASSUME NEW m \in Msg, Reappear(m) \/ ReappearEarly(m)
      PROVE  \E x \in MessageState : MsgWritten(m, x)
  <2> DEFINE x == [msg[m] EXCEPT !.state = IF msg[m].received < MaxReceive THEN "visible" ELSE "dead"]
  <2>1. x \in MessageState /\ (x.state = "visible" => x.received < MaxReceive) /\ x.job = msg[m].job
    BY <1>1 DEF MsgTyped, MessageState
  <2>2. msg' = [msg EXCEPT ![m] = x]
    BY <1>2 DEF Reappear, ReappearEarly
  <2> HIDE DEF x
  <2>3. QED
    BY <2>1, <2>2, <1>1 DEF MsgWritten, JobNamed, JobsNamed
<1>3. ASSUME NEW q \in Req, SendRetry(q)
      PROVE  \E m \in Msg, x \in MessageState : MsgWritten(m, x)
  <2> DEFINE job == [FirstJob EXCEPT !.seq = rq[q].seq, !.inst = Of(q), !.entry = Of(q)]
  <2>1. rq[q].seq \in Nat /\ rq[q].seq # 0 /\ Of(q) \in Inst /\ Numbered(Of(q))
    BY <1>3 DEF SendRetry, Shape, Typed, RequestsNamed, RequestOK, RqTyped, RequestState, Of
  <2>2. FirstJob \in Job
    BY <1>1 DEF FirstJob, Job, Entry
  <2>4. Of(q) \in Entry
    BY <2>1 DEF Entry
  <2>5. job \in Job /\ job.inst = Of(q) /\ job.seq = rq[q].seq
    BY <2>1, <2>2, <2>4 DEF Job
  <2>3. PICK m \in Msg : Send(m, job)
    BY <1>3 DEF SendRetry
  <2> HIDE DEF job
  <2>6. QED
    BY <2>1, <2>5, <2>3, SendWrites
<1>4. QED
  BY <1>2, <1>3

(* Every step leaves the queue alone or writes one message.                *)
LEMMA MsgChange ==
  ASSUME Shape, Next
  PROVE  msg' = msg \/ \E m \in Msg, x \in MessageState : MsgWritten(m, x)
BY MsgFrame, WorkerWritesMsg, OtherWritesMsg

(* Of the jobs: what a worker works on does not change under it.           *)
LEMMA JobsStand ==
  ASSUME Shape, Next
  PROVE  /\ MsgTyped' /\ JobsNamed'
         /\ \A w \in Worker : wk[w].pc # "idle" /\ wk'[w].pc # "idle" /\ wk'[w].msg = wk[w].msg => JobOf(w)' = JobOf(w)
<1>1. MsgTyped /\ JobsNamed /\ WkTyped /\ WorkersNamed
  BY DEF Shape, Typed
<1>2. \A i \in Inst : Numbered(i) => Numbered(i)'
  BY Grows
<1>3. \A m \in Msg : msg[m].job.inst # None => msg[m].job.inst \in Inst
  BY <1>1 DEF MsgTyped, MessageState, Job
<1>4. CASE msg' = msg
  <2>1. JobsNamed'
    BY <1>1, <1>2, <1>3, <1>4 DEF JobsNamed
  <2>2. QED
    BY <1>1, <1>4, <2>1 DEF MsgTyped, JobOf
<1>5. ASSUME NEW m \in Msg, NEW x \in MessageState, MsgWritten(m, x)
      PROVE  /\ MsgTyped' /\ JobsNamed'
             /\ \A w \in Worker : wk[w].pc # "idle" /\ wk'[w].pc # "idle" /\ wk'[w].msg = wk[w].msg => JobOf(w)' = JobOf(w)
  <2>1. MsgTyped' /\ msg'[m] = x /\ \A n \in Msg : n # m => msg'[n] = msg[n]
    BY <1>1, <1>5 DEF MsgWritten, MsgTyped
  <2>2. JobNamed(x) /\ (x.job.inst # None => x.job.inst \in Inst) /\ (x.job = msg[m].job \/ ~Held(m) \/ Kept(m))
    BY <1>5 DEF MsgWritten, MessageState, Job
  <2>3. ASSUME NEW n \in Msg
        PROVE  /\ msg'[n].state = "visible" => msg'[n].received < MaxReceive
               /\ msg'[n].job.inst # None =>
                    inst'[msg'[n].job.inst].status # "none" /\ inst'[msg'[n].job.inst].seq # 0 /\ msg'[n].job.seq # 0
    <3>1. CASE n = m
      BY <3>1, <2>1, <2>2, <1>2 DEF JobNamed, Numbered, Exists
    <3>2. CASE n # m
      <4>1. msg'[n] = msg[n]
        BY <3>2, <2>1
      <4>2. QED
        BY <4>1, <1>1, <1>2, <1>3 DEF JobsNamed, Numbered, Exists
    <3>3. QED
      BY <3>1, <3>2
  <2>4. JobsNamed'
    BY <2>3 DEF JobsNamed, Numbered, Exists
  <2>5. ASSUME NEW w \in Worker, wk[w].pc # "idle", wk'[w].pc # "idle", wk'[w].msg = wk[w].msg
        PROVE  JobOf(w)' = JobOf(w)
    <3>1. wk[w].msg \in Msg
      BY <1>1, <2>5 DEF WorkersNamed, WorkerOK
    <3>2. CASE wk[w].msg = m
      <4>1. x.job = msg[m].job
        BY <2>2, <2>5, <3>2 DEF Held, Kept
      <4>2. QED
        BY <4>1, <2>1, <2>5, <3>2 DEF JobOf
    <3>3. CASE wk[w].msg # m
      BY <3>1, <3>3, <2>1, <2>5 DEF JobOf
    <3>4. QED
      BY <3>2, <3>3
  <2>6. QED
    BY <2>1, <2>4, <2>5
<1>6. QED
  BY <1>4, <1>5, MsgChange

-----------------------------------------------------------------------------
(* Shape is kept: first the workers.  The steps of one leave the others as *)
(* they are.                                                               *)
LEMMA OthersStay ==
  ASSUME Shape, Next, NEW w \in Worker, NEW x \in WorkerState, wk' = [wk EXCEPT ![w] = x], WorkerOK(w)'
  PROVE  WkTyped' /\ WorkersNamed'
<1>1. WkTyped /\ WorkersNamed /\ MsgTyped
  BY DEF Shape, Typed
<1>2. WkTyped' /\ \A v \in Worker : v # w => wk'[v] = wk[v]
  BY <1>1 DEF WkTyped
<1>3. ASSUME NEW v \in Worker, v # w
      PROVE  WorkerOK(v)'
  <2>1. wk'[v] = wk[v] /\ WorkerOK(v) /\ wk[v] \in WorkerState
    BY <1>1, <1>2, <1>3 DEF WorkersNamed, WkTyped
  <2>2. wk[v].pc # "idle" => JobOf(v)' = JobOf(v)
    BY <2>1, JobsStand
  <2>3. wk[v].inst # None /\ Numbered(wk[v].inst) => inst'[wk[v].inst].status # "none" /\ inst'[wk[v].inst].seq # 0
    BY <2>1, Grows DEF WorkerState, Numbered, Exists
  <2>4. wk[v].mid # None /\ Launched(wk[v].mid) => maestro'[wk[v].mid] # "none"
    BY <2>1, MaestroChange DEF WorkerState, Launched
  <2>5. QED
    BY <2>1, <2>2, <2>3, <2>4 DEF WorkerOK, Numbered, Exists, Launched
<1>4. QED
  BY <1>2, <1>3 DEF WorkersNamed

(* A worker that only goes on to another place.                            *)
Places == {"idle", "guard", "launch", "denyInst", "persist", "complete", "stats", "track", "report", "enqueue",
           "final", "failInst", "failEntry", "count", "ack"}
MayGoTo(w, pc) ==
  /\ pc \in {"persist", "complete", "stats"} => wk[w].mid # None
  /\ pc \in {"track", "report", "enqueue"} => JobOf(w).attempt < MaxAttempts
  /\ pc \in {"denyInst", "failInst"} => JobOf(w).inst # None
  /\ pc \in {"report", "enqueue"} => wk[w].inst # None
  /\ wk[w].pc \in {"report", "enqueue", "ack"} => pc \in {"enqueue", "ack"}

(* A worker that only moves on stays well-formed if its new place asks for *)
(* nothing it has not got.                                                 *)
LEMMA StepKeeps ==
  ASSUME Shape, Next, NEW w \in Worker, NEW pc \in Places, wk[w].pc # "idle", Step(w, pc), MayGoTo(w, pc)
  PROVE  WkTyped' /\ WorkersNamed'
<1>1. wk[w] \in WorkerState /\ WorkerOK(w) /\ WkTyped
  BY DEF Shape, Typed, WkTyped, WorkersNamed
<1> DEFINE x == [wk[w] EXCEPT !.pc = pc]
<1>2. x \in WorkerState /\ x.pc = pc /\ x.msg = wk[w].msg /\ x.inst = wk[w].inst /\ x.seq = wk[w].seq /\ x.mid = wk[w].mid
  BY <1>1 DEF WorkerState, Places
<1>3. wk' = [wk EXCEPT ![w] = x] /\ wk'[w] = x
  BY <1>1 DEF Step, WkTyped
<1> HIDE DEF x
<1>4. x.pc # "idle" => JobOf(w)' = JobOf(w)
  BY <1>2, <1>3, JobsStand
<1>5. x.inst # None /\ Numbered(x.inst) => inst'[x.inst].status # "none" /\ inst'[x.inst].seq # 0
  BY <1>2, Grows DEF WorkerState, Numbered, Exists
<1>6. x.mid # None /\ Launched(x.mid) => maestro'[x.mid] # "none"
  BY <1>2, MaestroChange DEF WorkerState, Launched
<1>7. WorkerOK(w)'
  BY <1>1, <1>2, <1>3, <1>4, <1>5, <1>6 DEF WorkerOK, MayGoTo, Numbered, Exists, Launched
<1>8. QED
  BY <1>2, <1>3, <1>7, OthersStay

(* A worker that ends its job, or goes on.                                 *)
LEMMA LeaveKeeps ==
  ASSUME Shape, Next, NEW w \in Worker, NEW pc \in {"idle", "ack"}, wk[w].pc # "idle", Leave(w, pc)
  PROVE  WkTyped' /\ WorkersNamed'
<1>1. CASE pc = "ack"
  BY <1>1, StepKeeps DEF Leave, Step, Places, MayGoTo
<1>2. CASE pc = "idle"
  <2>1. wk' = [wk EXCEPT ![w] = IdleWorker] /\ WkTyped
    BY <1>2 DEF Leave, Shape, Typed
  <2>2. IdleWorker \in WorkerState
    BY DEF IdleWorker, WorkerState
  <2>3. WorkerOK(w)'
    BY <2>1 DEF WorkerOK, WkTyped, IdleWorker
  <2>4. QED
    BY <2>1, <2>2, <2>3, OthersStay
<1>3. QED
  BY <1>1, <1>2

(* Workers stay well-formed.                                               *)
LEMMA WorkersKept ==
  ASSUME Shape, Next
  PROVE  WkTyped' /\ WorkersNamed'
<1> DEFINE Goal == WkTyped' /\ WorkersNamed'
<1>1. MaxAttempts \in Nat /\ WkTyped /\ WorkersNamed /\ MsgTyped /\ JobsNamed /\ MaestroTyped /\ seqs \in Nat
      /\ \A w \in Worker : WorkerOK(w) /\ wk[w] \in WorkerState
  BY LadderAssumption DEF Shape, Typed, WkTyped, WorkersNamed
<1>2. CASE wk' = wk
  <2>1. WkTyped'
    BY <1>1, <1>2 DEF WkTyped
  <2>2. ASSUME NEW w \in Worker
        PROVE  WorkerOK(w)'
    <3>1. wk[w].pc # "idle" => JobOf(w)' = JobOf(w)
      BY <1>2, JobsStand
    <3>2. wk[w].inst # None /\ Numbered(wk[w].inst) => inst'[wk[w].inst].status # "none" /\ inst'[wk[w].inst].seq # 0
      BY <1>1, Grows DEF WorkerState, Numbered, Exists
    <3>3. wk[w].mid # None /\ Launched(wk[w].mid) => maestro'[wk[w].mid] # "none"
      BY <1>1, MaestroChange DEF WorkerState, Launched
    <3>4. QED
      BY <1>1, <1>2, <3>1, <3>2, <3>3 DEF WorkerOK, Numbered, Exists, Launched
  <2>3. QED
    BY <2>1, <2>2 DEF WorkersNamed
<1>3. ASSUME NEW w \in Worker, WorkerActs(w)
      PROVE  Goal
  <2>1. wk[w] \in WorkerState /\ WorkerOK(w)
    BY <1>1
  <2>2. CASE \E m \in Msg : Receive(w, m)
    <3>1. PICK m \in Msg : Receive(w, m)
      BY <2>2
    <3> DEFINE x == [IdleWorker EXCEPT !.pc = "guard", !.msg = m, !.inst = msg[m].job.inst, !.seq = msg[m].job.seq]
    <3>2. msg[m] \in MessageState /\ (msg[m].job.inst # None => Numbered(msg[m].job.inst) /\ msg[m].job.seq # 0)
      BY <1>1 DEF MsgTyped, JobsNamed
    <3>3. x \in WorkerState /\ x.pc = "guard" /\ x.msg = m /\ x.mid = None /\ x.inst = msg[m].job.inst
          /\ x.seq = msg[m].job.seq
      BY <3>2 DEF IdleWorker, WorkerState, MessageState, Job
    <3>4. wk' = [wk EXCEPT ![w] = x] /\ wk'[w] = x
      BY <3>1, <1>1 DEF Receive, WkTyped
    <3>5. msg'[m].job = msg[m].job
      BY <3>1, <1>1 DEF Receive, MsgTyped, MessageState
    <3>6. x.inst # None => inst'[x.inst].status # "none" /\ inst'[x.inst].seq # 0
      BY <3>2, <3>3, Grows DEF MessageState, Job, Numbered, Exists
    <3> HIDE DEF x
    <3>7. WorkerOK(w)'
      BY <3>2, <3>3, <3>4, <3>5, <3>6 DEF WorkerOK, JobOf, Numbered, Exists
    <3>8. QED
      BY <3>3, <3>4, <3>7, OthersStay
  <2>3. CASE Repark(w) \/ RetryGuard(w) \/ GateDenies(w) \/ DenyInstance(w) \/ UpdateStats(w) \/ EnqueueRetry(w)
    <3>1. wk[w].pc # "idle" /\ \E pc \in {"ack", "launch", "denyInst"} : Step(w, pc) /\ (pc = "denyInst" => JobOf(w).inst # None)
                                /\ (wk[w].pc \in {"report", "enqueue", "ack"} => pc = "ack")
      BY <2>3 DEF Repark, RetryGuard, GateDenies, DenyInstance, UpdateStats, EnqueueRetry
    <3>2. QED
      BY <3>1, StepKeeps DEF Places, MayGoTo
  <2>4. CASE LaunchFails(w) \/ ReplyLost(w) \/ TryFails(w)
    <3>1. wk[w].pc \in {"launch", "persist", "complete", "stats"} /\ \E pc \in {"track", "final"} : Step(w, pc) /\ (pc = "track" => JobOf(w).attempt < MaxAttempts)
      BY <2>4 DEF LaunchFails, ReplyLost, TryFails, AfterError
    <3>2. QED
      BY <3>1, StepKeeps DEF Places, MayGoTo
  <2>5. CASE Persist(w) \/ CompleteEntry(w) \/ ReportRetry(w) \/ FailInstance(w) \/ FailEntry(w)
    <3>1. wk[w].pc # "idle" /\ \E pc \in {"complete", "stats", "enqueue", "failEntry", "count"} :
            Step(w, pc) /\ (pc = "complete" => wk[w].pc = "persist") /\ (pc = "stats" => wk[w].pc = "complete")
                       /\ (pc = "enqueue" => wk[w].pc = "report") /\ (pc # "enqueue" => wk[w].pc \notin {"report", "enqueue", "ack"})
      BY <2>5 DEF Persist, CompleteEntry, ReportRetry, FailInstance, FailEntry
    <3>2. PICK pc \in {"complete", "stats", "enqueue", "failEntry", "count"} :
            Step(w, pc) /\ (pc = "complete" => wk[w].pc = "persist") /\ (pc = "stats" => wk[w].pc = "complete")
                       /\ (pc = "enqueue" => wk[w].pc = "report") /\ (pc # "enqueue" => wk[w].pc \notin {"report", "enqueue", "ack"})
      BY <3>1
    <3>3. MayGoTo(w, pc) /\ pc \in Places
      BY <3>1, <3>2, <2>1 DEF MayGoTo, WorkerOK, Places
    <3>4. QED
      BY <3>1, <3>2, <3>3, StepKeeps
  <2>6. CASE CountFailure(w) \/ Ack(w) \/ WorkerCrashes(w)
    <3>1. wk[w].pc # "idle" /\ \E pc \in {"idle", "ack"} : Leave(w, pc)
      BY <2>6 DEF CountFailure, Ack, WorkerCrashes
    <3>2. QED
      BY <3>1, LeaveKeeps
  <2>7. CASE LaunchSucceeds(w)
    <3>1. PICK k \in Mid : FreshMid(k) /\ maestro' = [maestro EXCEPT ![k] = "live"]
                            /\ wk' = [wk EXCEPT ![w] = [wk[w] EXCEPT !.pc = "persist", !.mid = k]]
      BY <2>7 DEF LaunchSucceeds
    <3> DEFINE x == [wk[w] EXCEPT !.pc = "persist", !.mid = k]
    <3>2. x \in WorkerState /\ x.pc = "persist" /\ x.msg = wk[w].msg /\ x.inst = wk[w].inst /\ x.seq = wk[w].seq /\ x.mid = k
      BY <2>1 DEF WorkerState
    <3>3. wk' = [wk EXCEPT ![w] = x] /\ wk'[w] = x /\ wk[w].pc = "launch"
      BY <3>1, <1>1, <2>7 DEF WkTyped, LaunchSucceeds
    <3> HIDE DEF x
    <3>4. JobOf(w)' = JobOf(w)
      BY <3>2, <3>3, JobsStand
    <3>5. x.inst # None /\ Numbered(x.inst) => inst'[x.inst].status # "none" /\ inst'[x.inst].seq # 0
      BY <3>2, Grows DEF WorkerState, Numbered, Exists
    <3>6. k # None /\ maestro'[k] # "none"
      BY <3>1, <1>1, LadderAssumption DEF MaestroTyped
    <3>7. WorkerOK(w)'
      BY <2>1, <3>2, <3>3, <3>4, <3>5, <3>6 DEF WorkerOK, Numbered, Exists, Launched
    <3>8. QED
      BY <3>2, <3>3, <3>7, OthersStay
  <2>8. CASE ReadEntry(w)
    <3> DEFINE a == entry[JobOf(w).entry] = "failed"
               pc == IF JobOf(w).inst = None THEN "failEntry" ELSE "failInst"
               x == [wk[w] EXCEPT !.again = a, !.pc = pc]
    <3>0. a \in BOOLEAN /\ pc \in {"failEntry", "failInst"} /\ (pc = "failInst" => JobOf(w).inst # None)
      OBVIOUS
    <3>1. wk' = [wk EXCEPT ![w] = x] /\ wk[w].pc = "final"
      BY <2>8 DEF ReadEntry
    <3> HIDE DEF a, pc
    <3>2. x \in WorkerState /\ x.pc = pc /\ x.msg = wk[w].msg /\ x.inst = wk[w].inst /\ x.seq = wk[w].seq /\ x.mid = wk[w].mid
      BY <2>1, <3>0 DEF WorkerState
    <3>3. wk'[w] = x
      BY <3>1, <1>1 DEF WkTyped
    <3> HIDE DEF x
    <3>4. JobOf(w)' = JobOf(w)
      BY <3>0, <3>1, <3>2, <3>3, JobsStand
    <3>5. x.inst # None /\ Numbered(x.inst) => inst'[x.inst].status # "none" /\ inst'[x.inst].seq # 0
      BY <3>2, Grows DEF WorkerState, Numbered, Exists
    <3>6. x.mid # None /\ Launched(x.mid) => maestro'[x.mid] # "none"
      BY <3>2, MaestroChange DEF WorkerState, Launched
    <3>7. WorkerOK(w)'
      BY <2>1, <3>0, <3>1, <3>2, <3>3, <3>4, <3>5, <3>6 DEF WorkerOK, Numbered, Exists, Launched
    <3>8. QED
      BY <3>1, <3>2, <3>7, OthersStay
  <2>9. CASE Track(w)
    <3>1. CASE wk[w].inst # None
      <4>1. Step(w, "report") /\ wk[w].pc = "track"
        BY <2>9, <3>1 DEF Track
      <4>2. MayGoTo(w, "report")
        BY <4>1, <2>1, <3>1 DEF MayGoTo, WorkerOK
      <4>3. QED
        BY <4>1, <4>2, StepKeeps DEF Places
    <3>2. CASE wk[w].inst = None
      <4>1. PICK i \in Inst : FreshInst(i) /\ SetInst(i, [NoInst EXCEPT !.status = "running", !.seq = seqs + 1])
                               /\ wk' = [wk EXCEPT ![w] = [wk[w] EXCEPT !.pc = "report", !.inst = i, !.seq = seqs + 1]]
        BY <2>9, <3>2 DEF Track
      <4> DEFINE x == [wk[w] EXCEPT !.pc = "report", !.inst = i, !.seq = seqs + 1]
      <4>11. i # None
        BY LadderAssumption
      <4>12. seqs + 1 \in Nat /\ seqs + 1 # 0
        BY <1>1
      <4>2. seqs + 1 \in Nat /\ seqs + 1 # 0 /\ i # None /\ wk[w].pc = "track"
        BY <4>11, <4>12, <2>9 DEF Track
      <4>3. x \in WorkerState /\ x.pc = "report" /\ x.msg = wk[w].msg /\ x.inst = i /\ x.seq = seqs + 1 /\ x.mid = wk[w].mid
        BY <2>1, <4>2 DEF WorkerState
      <4>4. wk' = [wk EXCEPT ![w] = x] /\ wk'[w] = x
        BY <4>1, <1>1 DEF WkTyped
      <4> HIDE DEF x
      <4>5. JobOf(w)' = JobOf(w) /\ JobOf(w).inst = None /\ JobOf(w).attempt < MaxAttempts
        BY <4>2, <4>3, <4>4, <3>2, <2>1, JobsStand DEF WorkerOK
      <4>6. inst'[i] = [NoInst EXCEPT !.status = "running", !.seq = seqs + 1]
        BY <4>1 DEF SetInst, Shape, Typed, InstTyped
      <4>7. Numbered(i)'
        BY <4>6, <4>2 DEF Numbered, Exists, NoInst
      <4>8. x.mid # None /\ Launched(x.mid) => maestro'[x.mid] # "none"
        BY <4>3, MaestroChange DEF WorkerState, Launched
      <4>9. WorkerOK(w)'
        BY <2>1, <4>2, <4>3, <4>4, <4>5, <4>7, <4>8 DEF WorkerOK, Numbered, Exists, Launched
      <4>10. QED
        BY <4>3, <4>4, <4>9, OthersStay
    <3>3. QED
      BY <3>1, <3>2
  <2>10. CASE CatchFails(w)
    <3>1. wk[w].pc \in BestEffort /\ Leave(w, AfterSwallowed(w))
      BY <2>10 DEF CatchFails
    <3>2. CASE AfterSwallowed(w) \in {"idle", "ack"}
      BY <3>1, <3>2, LeaveKeeps DEF BestEffort
    <3>3. CASE AfterSwallowed(w) \notin {"idle", "ack"}
      <4> DEFINE pc == AfterSwallowed(w)
      <4>1. pc \in {"enqueue", "failInst", "failEntry"} /\ (pc = "enqueue" <=> wk[w].pc = "report")
            /\ (pc = "failInst" => JobOf(w).inst # None)
        BY <3>1, <3>3 DEF AfterSwallowed, BestEffort, Rethrown
      <4> HIDE DEF pc
      <4>2. Step(w, pc) /\ pc \in Places /\ wk[w].pc # "idle"
        BY <3>1, <4>1 DEF Leave, Step, Places, BestEffort, pc
      <4>3. MayGoTo(w, pc)
        BY <2>1, <3>1, <4>1 DEF MayGoTo, WorkerOK, BestEffort
      <4>4. QED
        BY <4>2, <4>3, StepKeeps
    <3>4. QED
      BY <3>2, <3>3
  <2>11. QED
    BY <1>3, <2>2, <2>3, <2>4, <2>5, <2>6, <2>7, <2>8, <2>9, <2>10 DEF WorkerActs, WorkerStep
<1>4. QED
  BY <1>2, <1>3, WorkersFrame DEF WorkerActs

(* Then the requests.                                                      *)
RequestActs(q) == ReadInstance(q) \/ RequestStep(q) \/ RequestCrashes(q)

(* A request moves by a step of its own or by its death.                   *)
LEMMA RequestsFrame ==
  ASSUME Next
  PROVE  rq' = rq \/ \E q \in Req : RequestActs(q)
<1>1. ASSUME NEW w \in Worker, WorkerActs(w)
      PROVE  rq' = rq
  BY <1>1 DEF WorkerActs, WorkerStep, ReplyLost, TryFails, CatchFails, AfterSwallowed, WorkerCrashes, Receive, Repark, RetryGuard, GateDenies,
     DenyInstance, LaunchSucceeds, LaunchFails, Persist, CompleteEntry, UpdateStats, Track, ReportRetry,
     EnqueueRetry, ReadEntry, FailInstance, FailEntry, CountFailure, Ack, others
<1>2. QED
  BY <1>1 DEF Next, Rest, vars, Reappear, ReappearEarly, SyncScans, SyncStep, SyncWrites, SyncCounts,
     SyncCharges, WorkflowEnds, RequestActs, WorkerActs, others

(* A request that does not move stays well-formed: items and launches do   *)
(* not vanish.                                                             *)
LEMMA OtherRequestsStay ==
  ASSUME Shape, Next, NEW q \in Req, NEW x \in RequestState, rq' = [rq EXCEPT ![q] = x], RequestOK(q)'
  PROVE  RqTyped' /\ RequestsNamed'
<1>1. RqTyped /\ RequestsNamed
  BY DEF Shape, Typed
<1>2. RqTyped' /\ \A p \in Req : p # q => rq'[p] = rq[p]
  BY <1>1 DEF RqTyped
<1>3. ASSUME NEW p \in Req, p # q
      PROVE  RequestOK(p)'
  <2>1. rq'[p] = rq[p] /\ RequestOK(p) /\ rq[p] \in RequestState
    BY <1>1, <1>2, <1>3 DEF RequestsNamed, RqTyped
  <2>2. rq[p].inst \in Inst =>
          /\ Exists(rq[p].inst) => inst'[rq[p].inst].status # "none"
          /\ Numbered(rq[p].inst) => inst'[rq[p].inst].status # "none" /\ inst'[rq[p].inst].seq # 0
    BY Grows DEF Exists, Numbered
  <2>3. rq[p].mid # None /\ Launched(rq[p].mid) => maestro'[rq[p].mid] # "none"
    BY <2>1, MaestroChange DEF RequestState, Launched
  <2>4. QED
    BY <2>1, <2>2, <2>3 DEF RequestOK, Exists, Numbered, Launched
<1>4. QED
  BY <1>2, <1>3 DEF RequestsNamed

(* A request that answers, or goes on with what it has read.               *)
LEMMA AnswerKeeps ==
  ASSUME Shape, Next, NEW q \in Req, rq[q].pc # "idle", Answer(q)
  PROVE  RqTyped' /\ RequestsNamed'
<1>1. rq[q] \in RequestState /\ RequestOK(q) /\ RqTyped
  BY DEF Shape, Typed, RqTyped, RequestsNamed
<1> DEFINE x == [IdleReq EXCEPT !.pc = "done", !.kind = rq[q].kind, !.inst = Of(q)]
<1>2. x \in RequestState /\ x.pc = "done" /\ x.inst = rq[q].inst /\ x.mid = None
  BY <1>1 DEF RequestState, IdleReq, Of
<1>3. rq' = [rq EXCEPT ![q] = x] /\ rq'[q] = x
  BY <1>1 DEF Answer, RqTyped
<1>4. rq[q].inst \in Inst /\ inst'[rq[q].inst].status # "none"
  BY <1>1, Grows DEF RequestOK, Exists
<1> HIDE DEF x
<1>5. RequestOK(q)'
  BY <1>2, <1>3, <1>4 DEF RequestOK, Exists
<1>6. QED
  BY <1>2, <1>3, <1>5, OtherRequestsStay

(* A request that only moves on stays well-formed likewise.                *)
LEMMA ToRqKeeps ==
  ASSUME Shape, Next, NEW q \in Req, rq[q].pc # "idle", NEW pc \in {"write", "count"}, ToRq(q, pc), rq[q].kind # "live" \/ pc = "count"
  PROVE  RqTyped' /\ RequestsNamed'
<1>1. rq[q] \in RequestState /\ RequestOK(q) /\ RqTyped
  BY DEF Shape, Typed, RqTyped, RequestsNamed
<1> DEFINE x == [rq[q] EXCEPT !.pc = pc]
<1>2. x \in RequestState /\ x.pc = pc /\ x.inst = rq[q].inst /\ x.mid = rq[q].mid /\ x.kind = rq[q].kind
  BY <1>1 DEF RequestState
<1>3. rq' = [rq EXCEPT ![q] = x] /\ rq'[q] = x
  BY <1>1 DEF ToRq, RqTyped
<1>4. rq[q].inst \in Inst /\ inst'[rq[q].inst].status # "none"
  BY <1>1, Grows DEF RequestOK, Exists
<1>5. rq[q].mid # None => maestro'[rq[q].mid] # "none"
  BY <1>1, MaestroChange DEF RequestOK, RequestState, Launched
<1> HIDE DEF x
<1>6. RequestOK(q)'
  BY <1>2, <1>3, <1>4, <1>5 DEF RequestOK, Exists, Launched
<1>7. QED
  BY <1>2, <1>3, <1>6, OtherRequestsStay

(* Requests stay well-formed.                                              *)
LEMMA RequestsKept ==
  ASSUME Shape, Next
  PROVE  RqTyped' /\ RequestsNamed'
<1>1. /\ RqTyped /\ RequestsNamed /\ MaestroTyped /\ InstTyped /\ ItemsNamed /\ seqs \in Nat
      /\ \A q \in Req : rq[q] \in RequestState /\ RequestOK(q)
      /\ Kinds \in [Req -> SUBSET {"retry", "cancel", "live"}]
  BY LadderAssumption DEF Shape, Typed, RqTyped, RequestsNamed
<1>2. CASE rq' = rq
  <2>1. RqTyped'
    BY <1>1, <1>2 DEF RqTyped
  <2>2. ASSUME NEW p \in Req
        PROVE  RequestOK(p)'
    <3>1. rq[p].inst \in Inst =>
            /\ Exists(rq[p].inst) => inst'[rq[p].inst].status # "none"
            /\ Numbered(rq[p].inst) => inst'[rq[p].inst].status # "none" /\ inst'[rq[p].inst].seq # 0
      BY Grows DEF Exists, Numbered
    <3>2. rq[p].mid # None /\ Launched(rq[p].mid) => maestro'[rq[p].mid] # "none"
      BY <1>1, MaestroChange DEF RequestState, Launched
    <3>3. QED
      BY <1>1, <1>2, <3>1, <3>2 DEF RequestOK, Exists, Numbered, Launched
  <2>3. QED
    BY <2>1, <2>2 DEF RequestsNamed
<1>3. ASSUME NEW q \in Req, RequestActs(q)
      PROVE  RqTyped' /\ RequestsNamed'
  <2>1. rq[q] \in RequestState /\ RequestOK(q)
    BY <1>1
  <2>2. CASE ReadInstance(q)
    <3>1. PICK i \in Inst, k \in Kinds[q] :
            /\ inst[i].status # "none" /\ Allowed(k, i)
            /\ rq' = [rq EXCEPT ![q] = [pc |-> FirstPc(k, i), kind |-> k, inst |-> i, status |-> inst[i].status,
                                        mid |-> inst[i].mid, manual |-> inst[i].manual, seq |-> 0, seen |-> "none"]]
      BY <2>2 DEF ReadInstance
    <3>2. k \in {"retry", "cancel", "live"} /\ inst[i] \in InstanceState
      BY <1>1 DEF InstTyped
    <3>3. /\ FirstPc(k, i) \in {"fetch", "act", "write"}
          /\ FirstPc(k, i) = "fetch" => k = "live" /\ inst[i].mid # None
          /\ FirstPc(k, i) = "act" => k = "cancel" /\ inst[i].mid # None
          /\ FirstPc(k, i) = "write" => k # "live"
      BY <3>1, <3>2 DEF FirstPc, Allowed
    <3> DEFINE pc == FirstPc(k, i)
               x == [pc |-> pc, kind |-> k, inst |-> i, status |-> inst[i].status, mid |-> inst[i].mid,
                     manual |-> inst[i].manual, seq |-> 0, seen |-> "none"]
    <3> HIDE DEF pc
    <3>4. x \in RequestState /\ x.pc = pc /\ x.kind = k /\ x.inst = i /\ x.mid = inst[i].mid
      BY <3>2, <3>3 DEF RequestState, InstanceState, pc
    <3>5. rq' = [rq EXCEPT ![q] = x] /\ rq'[q] = x
      BY <3>1, <1>1 DEF RqTyped, pc
    <3>6. inst'[i].status # "none"
      BY <3>1, Grows DEF Exists
    <3>7. inst[i].mid # None => maestro'[inst[i].mid] # "none"
      BY <3>2, <1>1, MaestroChange DEF ItemsNamed, InstanceState, Launched
    <3> HIDE DEF x
    <3>8. RequestOK(q)'
      BY <3>3, <3>4, <3>5, <3>6, <3>7 DEF RequestOK, Exists, Launched, pc
    <3>9. QED
      BY <3>4, <3>5, <3>8, OtherRequestsStay
  <2>3. CASE RetryWrites(q)
    <3> DEFINE x == [rq[q] EXCEPT !.pc = "send", !.seq = seqs + 1]
    <3>1. seqs + 1 \in Nat /\ seqs + 1 # 0
      BY <1>1
    <3>2. x \in RequestState /\ x.pc = "send" /\ x.kind = rq[q].kind /\ x.inst = rq[q].inst /\ x.mid = rq[q].mid /\ x.seq = seqs + 1
      BY <2>1, <3>1 DEF RequestState
    <3>3. rq' = [rq EXCEPT ![q] = x] /\ rq'[q] = x /\ rq[q].pc = "write" /\ rq[q].kind = "retry"
      BY <2>3, <1>1 DEF RetryWrites, RqTyped
    <3>4. rq[q].inst \in Inst
      BY <2>1, <3>3 DEF RequestOK
    <3>5. inst'[rq[q].inst] = [inst[rq[q].inst] EXCEPT !.status = "running", !.seq = seqs + 1]
      BY <2>3, <3>4, <1>1 DEF RetryWrites, SetInst, Of, InstTyped
    <3>6. inst'[rq[q].inst].status # "none" /\ inst'[rq[q].inst].seq # 0
      BY <3>1, <3>4, <3>5, <1>1 DEF InstTyped, InstanceState
    <3>7. rq[q].mid # None => maestro'[rq[q].mid] # "none"
      BY <2>1, <3>3, MaestroChange DEF RequestOK, RequestState, Launched
    <3> HIDE DEF x
    <3>8. RequestOK(q)'
      BY <3>1, <3>2, <3>3, <3>4, <3>6, <3>7 DEF RequestOK, Exists, Numbered, Launched
    <3>9. QED
      BY <3>2, <3>3, <3>8, OtherRequestsStay
  <2>4. CASE SendRetry(q) \/ CancelWrites(q) \/ LiveCounts(q) \/ RequestCrashes(q)
    BY <2>4, AnswerKeeps DEF SendRetry, CancelWrites, LiveCounts, RequestCrashes
  <2>5. CASE CancelAtMaestro(q) \/ CancelRejected(q)
    <3>1. rq[q].pc = "act" /\ ToRq(q, "write")
      BY <2>5 DEF CancelAtMaestro, CancelRejected
    <3>2. rq[q].kind # "live"
      BY <3>1, <2>1 DEF RequestOK
    <3>3. QED
      BY <3>1, <3>2, ToRqKeeps
  <2>6. CASE LiveWrites(q)
    <3>1. rq[q].pc # "idle" /\ (ToRq(q, "count") \/ Answer(q))
      BY <2>6 DEF LiveWrites
    <3>2. QED
      BY <3>1, ToRqKeeps, AnswerKeeps
  <2>7. CASE Fetch(q)
    <3> DEFINE seen == MaestroStatus(rq[q].mid)
               x == [rq[q] EXCEPT !.pc = "write", !.seen = seen]
    <3>1. rq[q].pc = "fetch" /\ rq[q].mid \in Mid /\ Launched(rq[q].mid) /\ rq[q].mid # None /\ rq[q].inst \in Inst /\ Exists(rq[q].inst)
      BY <2>7, <2>1 DEF Fetch, RequestOK, RequestState
    <3>2. seen \in {"running"} \cup Terminal /\ seen # "none"
      BY <3>1, <1>1 DEF MaestroStatus, MaestroTyped, Launched, Terminal
    <3>3. rq' = [rq EXCEPT ![q] = x] /\ rq'[q] = x
      BY <2>7, <1>1 DEF Fetch, RqTyped
    <3> HIDE DEF seen
    <3>4. x \in RequestState /\ x.pc = "write" /\ x.seen = seen /\ x.inst = rq[q].inst /\ x.mid = rq[q].mid
      BY <2>1, <3>2 DEF RequestState
    <3>5. inst'[rq[q].inst].status # "none" /\ maestro'[rq[q].mid] # "none"
      BY <3>1, Grows, MaestroChange DEF Exists, Launched
    <3> HIDE DEF x
    <3>6. RequestOK(q)'
      BY <3>1, <3>2, <3>3, <3>4, <3>5 DEF RequestOK, Exists, Launched
    <3>7. QED
      BY <3>3, <3>4, <3>6, OtherRequestsStay
  <2>8. QED
    BY <1>3, <2>2, <2>3, <2>4, <2>5, <2>6, <2>7 DEF RequestActs, RequestStep
<1>4. QED
  BY <1>2, <1>3, RequestsFrame

(* Then the sync, the entries and the numbers.                             *)
LEMMA SyncFrame ==
  ASSUME Next
  PROVE  sync' = sync \/ SyncScans \/ SyncStep
<1>1. ASSUME NEW w \in Worker, WorkerActs(w)
      PROVE  sync' = sync
  BY <1>1 DEF WorkerActs, WorkerStep, ReplyLost, TryFails, CatchFails, AfterSwallowed, WorkerCrashes, Receive, Repark, RetryGuard, GateDenies,
     DenyInstance, LaunchSucceeds, LaunchFails, Persist, CompleteEntry, UpdateStats, Track, ReportRetry,
     EnqueueRetry, ReadEntry, FailInstance, FailEntry, CountFailure, Ack, others
<1>2. ASSUME NEW q \in Req, RequestActs(q)
      PROVE  sync' = sync
  BY <1>2 DEF RequestActs, ReadInstance, RequestStep, RequestCrashes, RetryWrites, SendRetry, CancelAtMaestro,
     CancelRejected, CancelWrites, Fetch, LiveWrites, LiveCounts
<1>3. QED
  BY <1>1, <1>2 DEF Next, Rest, vars, Reappear, ReappearEarly, WorkflowEnds, others, WorkerActs, RequestActs

(* The sync keeps to an item that exists and to a Maestro instance that    *)
(* has ended.                                                              *)
LEMMA SyncKept ==
  ASSUME Shape, Next
  PROVE  sync' \in SyncState /\ SyncNamed'
<1>1. sync \in SyncState /\ SyncNamed /\ InstTyped /\ MaestroTyped /\ ItemsNamed
  BY DEF Shape, Typed
<1>2. CASE sync' = sync
  <2>1. sync.pc # "idle" => inst'[sync.inst].status # "none" /\ maestro'[sync.mid] \in Terminal
    BY <1>1, Grows, MaestroChange DEF SyncNamed, Exists
  <2>2. QED
    BY <1>1, <1>2, <2>1 DEF SyncNamed, Exists
<1>3. IdleSync \in SyncState /\ IdleSync.pc = "idle"
  BY DEF IdleSync, SyncState
<1>4. CASE sync' = IdleSync
  BY <1>3, <1>4 DEF SyncNamed
<1>5. CASE SyncScans
  <2>1. PICK i \in Inst : /\ inst[i].status = "running" /\ inst[i].mid # None /\ maestro[inst[i].mid] # "live"
                          /\ sync' = [pc |-> "write", inst |-> i, mid |-> inst[i].mid, countedFailed |-> inst[i].countedFailed]
    BY <1>5 DEF SyncScans
  <2>2. inst[i] \in InstanceState /\ inst[i].mid \in Mid /\ maestro[inst[i].mid] \in Terminal
    BY <2>1, <1>1 DEF InstTyped, InstanceState, MaestroTyped, ItemsNamed, Launched
  <2>3. inst'[i].status # "none" /\ maestro'[inst[i].mid] \in Terminal
    BY <2>1, <2>2, Grows, MaestroChange DEF Exists
  <2>4. QED
    BY <2>1, <2>2, <2>3 DEF SyncState, InstanceState, SyncNamed, Exists
<1>6. CASE \E pc \in {"count", "charge"} : sync.pc # "idle" /\ sync' = [sync EXCEPT !.pc = pc]
  <2>1. sync' \in SyncState /\ sync'.inst = sync.inst /\ sync'.mid = sync.mid /\ sync.pc # "idle"
    BY <1>1, <1>6 DEF SyncState
  <2>2. inst'[sync.inst].status # "none" /\ maestro'[sync.mid] \in Terminal
    BY <2>1, <1>1, Grows, MaestroChange DEF SyncNamed, Exists
  <2>3. QED
    BY <1>1, <2>1, <2>2 DEF SyncNamed, Exists
<1>7. CASE SyncStep
  BY <1>4, <1>6, <1>7 DEF SyncStep, SyncWrites, SyncCounts, SyncCharges, NextPc
<1>8. QED
  BY <1>2, <1>5, <1>7, SyncFrame

(* Entries, sequence numbers and faults stay in their ranges.              *)
LEMMA NumbersKept ==
  ASSUME Shape, Next
  PROVE  entry' \in [Entry -> EntryStatus] /\ seqs' \in Nat /\ faults' \in 0 .. MaxFaults
<1>1. entry \in [Entry -> EntryStatus] /\ seqs \in Nat /\ faults \in 0 .. MaxFaults /\ MaxFaults \in Nat
  BY LadderAssumption DEF Shape, Typed
<1>2. ASSUME NEW w \in Worker, WorkerActs(w)
      PROVE  /\ entry' = entry \/ \E s \in EntryStatus : entry' = [entry EXCEPT ![JobOf(w).entry] = s]
             /\ seqs' = seqs \/ seqs' = seqs + 1
             /\ faults' = faults \/ (faults < MaxFaults /\ faults' = faults + 1)
  BY <1>2 DEF WorkerActs, WorkerStep, ReplyLost, TryFails, CatchFails, AfterSwallowed, WorkerCrashes, Receive, Repark, RetryGuard, GateDenies,
     DenyInstance, LaunchSucceeds, LaunchFails, Persist, CompleteEntry, UpdateStats, Track, ReportRetry,
     EnqueueRetry, ReadEntry, FailInstance, FailEntry, CountFailure, Ack, EntryStatus, Fault
<1>3. ASSUME NEW q \in Req, RequestActs(q)
      PROVE  entry' = entry /\ (seqs' = seqs \/ seqs' = seqs + 1)
             /\ (faults' = faults \/ (faults < MaxFaults /\ faults' = faults + 1))
  BY <1>3 DEF RequestActs, ReadInstance, RequestStep, RequestCrashes, RetryWrites, SendRetry, CancelAtMaestro,
     CancelRejected, CancelWrites, Fetch, LiveWrites, LiveCounts, jobs, Fault
<1>4. ASSUME NEW m \in Msg, Reappear(m) \/ ReappearEarly(m)
      PROVE  entry' = entry /\ seqs' = seqs /\ (faults' = faults \/ (faults < MaxFaults /\ faults' = faults + 1))
  BY <1>4 DEF Reappear, ReappearEarly, Fault
<1>5. CASE Rest \/ SyncScans \/ SyncStep \/ \E k \in Mid : WorkflowEnds(k)
  BY <1>1, <1>5 DEF Rest, vars, SyncScans, SyncStep, SyncWrites, SyncCounts, SyncCharges, WorkflowEnds, jobs
<1>6. \A w \in Worker, s \in EntryStatus : [entry EXCEPT ![JobOf(w).entry] = s] \in [Entry -> EntryStatus]
  BY <1>1
<1>7. ASSUME faults' = faults \/ (faults < MaxFaults /\ faults' = faults + 1)
      PROVE  faults' \in 0 .. MaxFaults
  BY <1>1, <1>7
<1>8. ASSUME NEW w \in Worker, WorkerActs(w)
      PROVE  entry' \in [Entry -> EntryStatus] /\ seqs' \in Nat /\ faults' \in 0 .. MaxFaults
  BY <1>1, <1>2, <1>6, <1>7, <1>8
<1>9. ASSUME NEW q \in Req, RequestActs(q)
      PROVE  entry' \in [Entry -> EntryStatus] /\ seqs' \in Nat /\ faults' \in 0 .. MaxFaults
  BY <1>1, <1>3, <1>7, <1>9
<1>10. ASSUME NEW m \in Msg, Reappear(m) \/ ReappearEarly(m)
       PROVE  entry' \in [Entry -> EntryStatus] /\ seqs' \in Nat /\ faults' \in 0 .. MaxFaults
  BY <1>1, <1>4, <1>7, <1>10
<1>11. QED
  BY <1>5, <1>8, <1>9, <1>10 DEF Next, WorkerActs, RequestActs

(* Last the history.                                                       *)
LEMMA HistoryOfWorkers ==
  ASSUME Shape, NEW w \in Worker, WorkerActs(w)
  PROVE  hist' \in History
<1>1. hist \in History /\ InstTyped /\ wk[w] \in WorkerState /\ WorkerOK(w) /\ MsgTyped
  BY DEF Shape, Typed, WkTyped, WorkersNamed
<1>2. CASE hist' = hist
  BY <1>1, <1>2
<1>3. ASSUME NEW n \in Nat, NEW U \in SUBSET Entry,
             \/ hist' = [hist EXCEPT !.failures[JobOf(w).entry] = n]
             \/ hist' = [hist EXCEPT !.failures[JobOf(w).entry] = n, !.unsettled = U]
      PROVE  hist' \in History
  <2>1. [hist.failures EXCEPT ![JobOf(w).entry] = n] \in [Entry -> Nat]
    BY <1>1 DEF History
  <2>2. \/ hist' = [hist EXCEPT !.failures = [hist.failures EXCEPT ![JobOf(w).entry] = n]]
        \/ hist' = [hist EXCEPT !.failures = [hist.failures EXCEPT ![JobOf(w).entry] = n], !.unsettled = U]
    BY <1>3
  <2>3. QED
    BY <1>1, <2>1, <2>2 DEF History
<1>4. ASSUME NEW T \in SUBSET Inst, NEW L \in SUBSET Mid, hist' = [hist EXCEPT !.lost = L, !.torn = T]
      PROVE  hist' \in History
  BY <1>1, <1>4 DEF History
<1>5. CASE ReportRetry(w) \/ CountFailure(w)
  <2>1. wk[w].pc # "idle"
    BY <1>5 DEF ReportRetry, CountFailure
  <2>2. JobOf(w).entry \in Entry
    BY <1>1, <2>1 DEF WorkerOK, MsgTyped, MessageState, Job, JobOf
  <2>3. hist.failures[JobOf(w).entry] + 1 \in Nat
    BY <1>1, <2>2 DEF History
  <2>4. \/ hist' = hist
        \/ hist' = [hist EXCEPT !.failures[JobOf(w).entry] = 0, !.unsettled = hist.unsettled \ {JobOf(w).entry}]
        \/ hist' = [hist EXCEPT !.failures[JobOf(w).entry] = hist.failures[JobOf(w).entry] + 1]
    BY <1>1, <1>5, <2>2 DEF ReportRetry, CountFailure, History
  <2>5. hist.unsettled \in SUBSET Entry /\ hist.unsettled \ {JobOf(w).entry} \in SUBSET Entry
    BY <1>1 DEF History
  <2>6. QED
    BY <1>2, <1>3, <2>3, <2>4, <2>5
<1>6. CASE ReplyLost(w)
  <2>1. PICK k \in Mid : hist' = [hist EXCEPT !.lost = @ \cup {k}]
    BY <1>6 DEF ReplyLost
  <2>2. QED
    BY <1>1, <2>1 DEF History
<1>7. CASE TryFails(w)
  BY <1>1, <1>7 DEF TryFails, Followed, History
<1>8. CASE WorkerCrashes(w)
  BY <1>1, <1>8 DEF WorkerCrashes, Unsaved, Exposed, History
<1>9. CASE Persist(w)
  <2>1. wk[w].pc # "idle"
    BY <1>9 DEF Persist
  <2>2. JobOf(w).inst # None => JobOf(w).inst \in Inst
    BY <1>1, <2>1 DEF WorkerOK, MsgTyped, MessageState, Job, JobOf
  <2>3. \/ hist' = hist
        \/ \E i \in Inst : \E k \in {inst[i].mid} : hist' = [hist EXCEPT !.torn = @ \cup {i}, !.lost = @ \cup Followed(k)]
    BY <1>9, <2>2 DEF Persist
  <2>4. ASSUME NEW i \in Inst, NEW k, hist' = [hist EXCEPT !.torn = @ \cup {i}, !.lost = @ \cup Followed(k)]
        PROVE  hist' \in History
    <3>1. Followed(k) \in SUBSET Mid
      BY DEF Followed
    <3>2. QED
      BY <1>1, <2>4, <3>1 DEF History
  <2>5. QED
    BY <1>1, <2>3, <2>4
<1>10. CASE UNCHANGED hist
  BY <1>1, <1>10
<1>11. CASE CatchFails(w)
  BY <1>1, <1>11 DEF CatchFails, History
<1>12. QED
  BY <1>5, <1>6, <1>7, <1>8, <1>9, <1>10, <1>11 DEF WorkerActs, WorkerStep, Receive, Repark, RetryGuard, GateDenies,
     DenyInstance, LaunchSucceeds, LaunchFails, CompleteEntry, UpdateStats, Track,
     EnqueueRetry, ReadEntry, FailInstance, FailEntry, Ack

(* What requests note in the history is well-typed.                        *)
LEMMA HistoryOfRequests ==
  ASSUME Shape, NEW q \in Req, RequestActs(q)
  PROVE  hist' \in History
<1>1. hist \in History /\ InstTyped /\ rq[q] \in RequestState /\ RequestOK(q) /\ InstTyped
  BY DEF Shape, Typed, RqTyped, RequestsNamed
<1>2. CASE UNCHANGED hist
  BY <1>1, <1>2
<1>3. rq[q].pc # "idle" => Of(q) \in Inst
  BY <1>1 DEF RequestOK, Of
<1>4. CASE RetryWrites(q) \/ CancelWrites(q) \/ CancelRejected(q) \/ RequestCrashes(q)
  <2>1. Of(q) \in Inst
    BY <1>3, <1>4 DEF RetryWrites, CancelWrites, CancelRejected, RequestCrashes
  <2>2. Tear(Of(q), q) \in SUBSET Inst /\ hist.torn \cup {Of(q)} \in SUBSET Inst /\ hist.torn \in SUBSET Inst
    BY <1>1, <2>1 DEF Tear, History
  <2>3. hist.cancelled \ {Of(q)} \in SUBSET Inst /\ hist.cancelled \cup {Of(q)} \in SUBSET Inst /\ hist.cancelled \in SUBSET Inst
    BY <1>1, <2>1 DEF History
  <2>4. /\ hist.lost \cup Followed(inst[Of(q)].mid) \in SUBSET Mid
        /\ hist.lost \cup Followed(rq[q].mid) \in SUBSET Mid
        /\ hist.lost \cup (Followed(inst[Of(q)].mid) \ {rq[q].mid}) \in SUBSET Mid
    BY <1>1 DEF History, Followed
  <2>5. CASE RetryWrites(q)
    <3>1. hist.unended \ {Of(q)} \in SUBSET Inst
      BY <1>1 DEF History
    <3>2. QED
      BY <2>5, <3>1, <1>1, <2>2, <2>3, <2>4 DEF RetryWrites, History
  <2>6. CASE CancelWrites(q)
    BY <2>6, <1>1, <2>2, <2>3, <2>4 DEF CancelWrites, History
  <2>7. CASE CancelRejected(q)
    BY <2>7, <1>1, <2>2, <2>3, <2>4 DEF CancelRejected, History
  <2>8. CASE RequestCrashes(q)
    BY <2>8, <1>1, <2>2, <2>3, <2>4 DEF RequestCrashes, History
  <2>9. QED
    BY <1>4, <2>5, <2>6, <2>7, <2>8
<1>5. CASE LiveWrites(q)
  <2>1. Of(q) \in Inst
    BY <1>3, <1>5 DEF LiveWrites
  <2>2. \E P \in SUBSET Inst, O \in SUBSET Inst : hist' = hist \/ hist' = [hist EXCEPT !.polled = P, !.overridden = O]
    <3>1. hist.polled \cup {Of(q)} \in SUBSET Inst /\ hist.overridden \cup {Of(q)} \in SUBSET Inst
          /\ hist.polled \in SUBSET Inst /\ hist.overridden \in SUBSET Inst
      BY <1>1, <2>1 DEF History
    <3>2. QED
      BY <3>1, <1>5 DEF LiveWrites
  <2>3. QED
    BY <1>1, <2>2 DEF History
<1>6. CASE LiveCounts(q)
  <2>1. hist' = Counted(Of(q)) /\ Of(q) \in Inst
    BY <1>3, <1>6 DEF LiveCounts
  <2> DEFINE n == IF inst[Of(q)].counted THEN hist.completions[Of(q)] ELSE hist.completions[Of(q)] + 1
             c == [hist.completions EXCEPT ![Of(q)] = n]
  <2>2. n \in Nat
    BY <1>1, <2>1 DEF History
  <2>3. c \in [Inst -> Nat]
    BY <1>1, <2>2 DEF History
  <2>4. hist' = [hist EXCEPT !.completions = c]
    BY <2>1, <1>1 DEF Counted
  <2> HIDE DEF c
  <2>5. QED
    BY <1>1, <2>3, <2>4 DEF History
<1>7. QED
  BY <1>2, <1>4, <1>5, <1>6 DEF RequestActs, RequestStep, ReadInstance, SendRetry, CancelAtMaestro, Fetch

(* So is the whole history.                                                *)
LEMMA HistoryKept ==
  ASSUME Shape, Next
  PROVE  hist' \in History
<1>1. hist \in History /\ SyncNamed /\ InstTyped /\ MsgTyped
  BY DEF Shape, Typed
<1>2. CASE UNCHANGED hist
  BY <1>1, <1>2
<1>3. CASE SyncCounts
  <2> DEFINE i == sync.inst
             n == IF inst[i].counted THEN hist.completions[i] ELSE hist.completions[i] + 1
             c == [hist.completions EXCEPT ![i] = n]
             k == IF sync.countedFailed THEN hist.pardoned[i] + 1 ELSE hist.pardoned[i]
             p == [hist.pardoned EXCEPT ![i] = k]
  <2>1. hist' = [Counted(i) EXCEPT !.pardoned[i] = IF sync.countedFailed THEN @ + 1 ELSE @] /\ i \in Inst
    BY <1>1, <1>3 DEF SyncCounts, SyncNamed
  <2>2. n \in Nat /\ k \in Nat
    BY <1>1, <2>1 DEF History
  <2>3. c \in [Inst -> Nat] /\ p \in [Inst -> Nat]
    BY <1>1, <2>2 DEF History
  <2>4. hist' = [hist EXCEPT !.completions = c, !.pardoned = p]
    BY <2>1, <1>1 DEF Counted, History
  <2> HIDE DEF c, p
  <2>5. QED
    BY <1>1, <2>3, <2>4 DEF History
<1>4. CASE SyncCharges
  <2> DEFINE c == [hist.charged EXCEPT ![sync.inst] = @ + 1]
  <2>1. c \in [Inst -> Nat]
    BY <1>1, <1>4 DEF SyncCharges, SyncNamed, History
  <2>2. hist' = [hist EXCEPT !.charged = c]
    BY <1>4 DEF SyncCharges
  <2> HIDE DEF c
  <2>3. QED
    BY <1>1, <2>1, <2>2 DEF History
<1>5. CASE \E k \in Mid : WorkflowEnds(k)
  BY <1>1, <1>5 DEF WorkflowEnds, History
<1>6. ASSUME NEW m \in Msg, ReappearEarly(m)
      PROVE  hist' \in History
  <2>1. {msg[m].job.inst} \ {None} \in SUBSET Inst
    BY <1>1 DEF MsgTyped, MessageState, Job
  <2>2. QED
    BY <1>1, <1>6, <2>1 DEF ReappearEarly, History
<1>7. QED
  BY <1>2, <1>3, <1>4, <1>5, <1>6, HistoryOfWorkers, HistoryOfRequests DEF Next, WorkerActs, RequestActs, Rest, vars,
     Reappear, SyncScans, SyncStep, SyncWrites

(* Shape is an invariant.                                                  *)
LEMMA ShapeHoldsAtFirst == Init => Shape
<1> SUFFICES ASSUME Init PROVE Shape
  OBVIOUS
<1>1. FirstJob \in Job /\ FirstJob.inst = None
  BY LadderAssumption DEF FirstJob, Job, Entry
<1>2. MaxReceive \in Nat /\ MaxReceive > 0 /\ MaxFaults \in Nat
  BY LadderAssumption
<1>3. NoMsg \in MessageState /\ NoMsg.job = FirstJob /\ NoMsg.state = "none"
      /\ [NoMsg EXCEPT !.state = "visible"] \in MessageState
      /\ [NoMsg EXCEPT !.state = "visible"].job = FirstJob /\ [NoMsg EXCEPT !.state = "visible"].received = 0
  BY <1>1, <1>2 DEF NoMsg, MessageState
<1>4. MsgTyped /\ JobsNamed
  BY <1>1, <1>2, <1>3 DEF Init, MsgTyped, JobsNamed
<1>5. NoInst \in InstanceState /\ NoInst.mid = None
  BY DEF NoInst, InstanceState
<1>6. InstTyped /\ ItemsNamed
  BY <1>5 DEF Init, InstTyped, ItemsNamed
<1>7. WkTyped /\ WorkersNamed
  BY DEF Init, WkTyped, WorkersNamed, WorkerOK, IdleWorker, WorkerState
<1>8. RqTyped /\ RequestsNamed
  BY DEF Init, RqTyped, RequestsNamed, RequestOK, IdleReq, RequestState
<1>9. sync \in SyncState /\ SyncNamed /\ MaestroTyped
  BY DEF Init, SyncNamed, IdleSync, SyncState, MaestroTyped
<1>10. entry \in [Entry -> EntryStatus] /\ seqs \in Nat /\ faults \in 0 .. MaxFaults
  BY <1>2 DEF Init, EntryStatus
<1>11. hist \in History
  BY DEF Init, History
<1>12. QED
  BY <1>4, <1>6, <1>7, <1>8, <1>9, <1>10, <1>11 DEF Shape, Typed

(* Every step keeps Shape.                                                 *)
LEMMA ShapeKept == Shape /\ [Next]_vars => Shape'
<1>1. ASSUME Shape, Next
      PROVE  Shape'
  BY <1>1, Grows, MaestroChange, JobsStand, WorkersKept, RequestsKept, SyncKept, NumbersKept, HistoryKept
     DEF Shape, Typed
<1>2. ASSUME Shape, UNCHANGED vars
      PROVE  Shape'
  <2>1. Typed' /\ ItemsNamed' /\ JobsNamed'
    BY <1>2 DEF Shape, vars, Typed, InstTyped, MaestroTyped, MsgTyped, WkTyped, RqTyped, ItemsNamed, JobsNamed,
       Launched, Numbered, Exists
  <2>2. WorkersNamed'
    BY <1>2 DEF Shape, vars, WorkersNamed, WorkerOK, JobOf, Launched, Numbered, Exists
  <2>3. RequestsNamed' /\ SyncNamed'
    BY <1>2 DEF Shape, vars, RequestsNamed, RequestOK, SyncNamed, Launched, Numbered, Exists
  <2>4. QED
    BY <2>1, <2>2, <2>3 DEF Shape
<1>3. QED
  BY <1>1, <1>2

(* Items, messages, workers and requests hold what the code gives them,    *)
(* and the Maestro id of an item names an instance that exists, whatever   *)
(* is lost, delivered twice or done at the same time.                      *)
THEOREM AutomationTyped == Spec => []TypeOK
<1>1. Shape => TypeOK
  BY DEF Shape, Typed, InstTyped, MaestroTyped, MsgTyped, WkTyped, RqTyped, ItemsNamed, Launched, TypeOK
<1>2. QED
  BY <1>1, ShapeHoldsAtFirst, ShapeKept, PTL DEF Spec

-----------------------------------------------------------------------------
(* What becomes of one item, by whom.                                      *)
Rewritten(i) ==
  \/ \E w \in Worker :
       \/ DenyInstance(w) /\ JobOf(w).inst = i /\ inst'[i] = [inst[i] EXCEPT !.status = "cancelled"] /\ inst[i].status = "running"
       \/ FailInstance(w) /\ JobOf(w).inst = i /\ inst'[i] = [inst[i] EXCEPT !.status = "failed"]
       \/ Persist(w) /\ JobOf(w).inst = None /\ inst[i] = NoInst
                     /\ inst'[i] = [NoInst EXCEPT !.status = "running", !.mid = wk[w].mid]
       \/ Persist(w) /\ JobOf(w).inst = i /\ inst'[i] = [inst[i] EXCEPT !.status = "running", !.mid = wk[w].mid]
       \/ Track(w) /\ wk[w].inst = None /\ inst[i] = NoInst /\ wk' = [wk EXCEPT ![w].pc = "report", ![w].inst = i, ![w].seq = seqs + 1]
                   /\ inst'[i] = [NoInst EXCEPT !.status = "running", !.seq = seqs + 1]
       \/ Track(w) /\ wk[w].inst = i /\ inst'[i] = [inst[i] EXCEPT !.seq = wk[w].seq]
  \/ \E q \in Req :
       \/ RetryWrites(q) /\ Of(q) = i /\ inst'[i] = [inst[i] EXCEPT !.status = "running", !.seq = seqs + 1]
       \/ CancelWrites(q) /\ Of(q) = i /\ inst'[i] = [inst[i] EXCEPT !.status = "cancelled", !.manual = TRUE]
       \/ LiveWrites(q) /\ Of(q) = i /\ inst'[i] = [inst[i] EXCEPT !.status = rq[q].seen]
       \/ LiveCounts(q) /\ Of(q) = i /\ inst'[i] = [inst[i] EXCEPT !.counted = TRUE]
  \/ SyncWrites /\ sync.inst = i /\ inst[i].status = "running"
                /\ inst'[i] = [inst[i] EXCEPT !.status = MaestroStatus(sync.mid), !.countedFailed = @ \/ NewFailure(MaestroStatus(sync.mid))]
  \/ SyncCounts /\ sync.inst = i /\ inst'[i] = [inst[i] EXCEPT !.counted = TRUE]

(* Completions.                                                            *)
OnceCounted ==
  \A i \in Inst : hist.completions[i] <= 1 /\ (hist.completions[i] = 1 => inst[i].counted)

(* Charges.                                                                *)
Charging(i) == sync.pc = "charge" /\ sync.inst = i
ChargesMarked ==
  /\ \A i \in Inst :
       /\ hist.charged[i] <= 1
       /\ inst[i].countedFailed <=> hist.charged[i] = 1 \/ Charging(i)
       /\ Charging(i) => hist.charged[i] = 0
       /\ hist.pardoned[i] > 0 => hist.charged[i] = 1
  /\ sync.pc # "idle" /\ sync.countedFailed => hist.charged[sync.inst] = 1
  /\ sync.pc = "write" /\ ~sync.countedFailed => ~inst[sync.inst].countedFailed

(* Sequences.                                                              *)
PastIsLatest ==
  \A w \in Worker : Past(w) /\ wk[w].inst # None /\ wk[w].inst \notin hist.torn => inst[wk[w].inst].seq = wk[w].seq
SeqsBegun ==
  /\ \A m \in Msg : msg[m].job.seq <= seqs
  /\ \A w \in Worker : wk[w].seq <= seqs
  /\ \A q \in Req : rq[q].seq <= seqs
  /\ \A i \in Inst : inst[i].seq <= seqs

(* Cancels.                                                                *)
CancelKnown ==
  /\ \A i \in hist.cancelled : Exists(i) /\ inst[i].manual
  /\ \A i \in hist.cancelled \ (hist.torn \cup hist.polled) :
       /\ inst[i].status = "cancelled"
       /\ \A w \in Worker : Past(w) => wk[w].inst # i
       /\ \A q \in Req : rq[q].pc \in {"fetch", "write"} /\ rq[q].kind = "live" /\ rq[q].inst = i => ManualCancel(q)

(* The ladder.                                                             *)
Alive(m)    == msg[m].state \in {"visible", "hidden", "dead"}
Acked(m)    == \E w \in Worker : wk[w].pc = "ack" /\ wk[w].msg = m
Pending(m, i) == Alive(m) /\ ~Acked(m) /\ msg[m].job.inst = i /\ msg[m].job.seq = inst[i].seq
Queueing(w, i) == wk[w].pc \in {"report", "enqueue"} /\ JobOf(w).inst = None /\ wk[w].inst = i /\ wk[w].seq = inst[i].seq
Sending(q, i)  == rq[q].pc = "send" /\ rq[q].inst = i /\ rq[q].seq = inst[i].seq
Borne(i) ==
  \/ \E m \in Msg : Pending(m, i)
  \/ \E w \in Worker : Queueing(w, i)
  \/ \E q \in Req : Sending(q, i)
LadderBorne == \A i \in Inst : OnlyTracking(i) => Borne(i) \/ i \in hist.torn \cup hist.unended
RunHasId ==
  /\ \A w \in Worker : wk[w].pc \in {"complete", "stats"} /\ JobOf(w).inst # None => inst[JobOf(w).inst].mid # None
  /\ \A w \in Worker : wk[w].pc \in {"failEntry", "count"} /\ JobOf(w).inst # None /\ JobOf(w).inst \notin hist.torn \cup hist.unended =>
       ~OnlyTracking(JobOf(w).inst) \/ inst[JobOf(w).inst].seq # JobOf(w).seq
  /\ \A q \in Req : rq[q].pc \in {"fetch", "write"} /\ rq[q].kind = "live" => inst[rq[q].inst].mid # None

-----------------------------------------------------------------------------
(* An item that changes is one of those.                                   *)
LEMMA FreshIsBlank ==
  ASSUME Shape, NEW i \in Inst, FreshInst(i)
  PROVE  inst[i] = NoInst
BY DEF Shape, ItemsNamed, FreshInst

(* An item that changes is rewritten in one of the ways above.             *)
LEMMA ItemWrites ==
  ASSUME Shape, Next, NEW i \in Inst
  PROVE  inst'[i] = inst[i] \/ Rewritten(i)
<1>1. InstTyped /\ \A j \in Inst : \A f : SetInst(j, f) => inst'[j] = f /\ (j # i => inst'[i] = inst[i])
  BY DEF Shape, Typed, SetInst, InstTyped
<1>2. ASSUME NEW w \in Worker, DenyInstance(w) \/ FailInstance(w)
      PROVE  inst'[i] = inst[i] \/ Rewritten(i)
  <2>1. WorkerOK(w) /\ wk[w].pc \in {"denyInst", "failInst"} /\ wk[w].pc # "idle"
    BY <1>2 DEF Shape, WorkersNamed, DenyInstance, FailInstance
  <2>2. JobOf(w).inst \in Inst
    BY <2>1 DEF WorkerOK, Shape, Typed, MsgTyped, MessageState, Job, JobOf
  <2>3. QED
    BY <1>1, <1>2, <2>2 DEF DenyInstance, FailInstance, Rewritten
<1>3. ASSUME NEW w \in Worker, Persist(w)
      PROVE  inst'[i] = inst[i] \/ Rewritten(i)
  <2>1. WorkerOK(w) /\ wk[w].pc # "idle"
    BY <1>3 DEF Shape, WorkersNamed, Persist
  <2>2. JobOf(w).inst # None => JobOf(w).inst \in Inst
    BY <2>1 DEF WorkerOK, Shape, Typed, MsgTyped, MessageState, Job, JobOf
  <2>3. CASE JobOf(w).inst = None
    <3>1. PICK j \in Inst : FreshInst(j) /\ SetInst(j, [NoInst EXCEPT !.status = "running", !.mid = wk[w].mid])
      BY <1>3, <2>3 DEF Persist
    <3>2. QED
      BY <1>1, <1>3, <2>3, <3>1, FreshIsBlank DEF Rewritten
  <2>4. CASE JobOf(w).inst # None
    <3>1. SetInst(JobOf(w).inst, [inst[JobOf(w).inst] EXCEPT !.status = "running", !.mid = wk[w].mid])
      BY <1>3, <2>4 DEF Persist
    <3>2. QED
      BY <1>1, <1>3, <2>2, <2>4, <3>1 DEF Rewritten
  <2>5. QED
    BY <2>3, <2>4
<1>4. ASSUME NEW w \in Worker, Track(w)
      PROVE  inst'[i] = inst[i] \/ Rewritten(i)
  <2>1. wk[w].inst # None => wk[w].inst \in Inst
    BY DEF Shape, Typed, WkTyped, WorkerState
  <2>2. CASE wk[w].inst = None
    <3>1. PICK j \in Inst : FreshInst(j) /\ SetInst(j, [NoInst EXCEPT !.status = "running", !.seq = seqs + 1])
                            /\ wk' = [wk EXCEPT ![w].pc = "report", ![w].inst = j, ![w].seq = seqs + 1]
      BY <1>4, <2>2 DEF Track
    <3>2. QED
      BY <1>1, <1>4, <2>2, <3>1, FreshIsBlank DEF Rewritten
  <2>3. CASE wk[w].inst # None
    <3>1. SetInst(wk[w].inst, [inst[wk[w].inst] EXCEPT !.seq = wk[w].seq])
      BY <1>4, <2>3 DEF Track
    <3>2. QED
      BY <1>1, <1>4, <2>1, <2>3, <3>1 DEF Rewritten
  <2>4. QED
    BY <2>2, <2>3
<1>5. ASSUME NEW q \in Req, RetryWrites(q) \/ CancelWrites(q) \/ LiveWrites(q) \/ LiveCounts(q)
      PROVE  inst'[i] = inst[i] \/ Rewritten(i)
  <2>1. Of(q) \in Inst
    BY <1>5 DEF Shape, RequestsNamed, RequestOK, Of, RetryWrites, CancelWrites, LiveWrites, LiveCounts
  <2>2. QED
    BY <1>1, <1>5, <2>1 DEF RetryWrites, CancelWrites, LiveWrites, LiveCounts, MarkCounted, Rewritten
<1>6. ASSUME SyncWrites \/ SyncCounts
      PROVE  inst'[i] = inst[i] \/ Rewritten(i)
  <2>1. sync.inst \in Inst
    BY <1>6 DEF Shape, SyncNamed, SyncWrites, SyncCounts
  <2>2. CASE SyncCounts
    BY <1>1, <2>1, <2>2 DEF SyncCounts, MarkCounted, Rewritten
  <2>3. CASE SyncWrites
    BY <1>1, <2>1, <2>3 DEF SyncWrites, StillRunning, Rewritten
  <2>4. QED
    BY <1>6, <2>2, <2>3
<1>7. QED
  BY <1>2, <1>3, <1>4, <1>5, <1>6, InstFrame

(* Completions and charges: who notes them.                                *)
LEMMA CountsFrame ==
  ASSUME Shape, Next
  PROVE  \/ hist'.completions = hist.completions /\ hist'.charged = hist.charged /\ hist'.pardoned = hist.pardoned
         \/ \E q \in Req : LiveCounts(q)
         \/ SyncCounts \/ SyncCharges
<1>1. hist \in History
  BY DEF Shape, Typed
<1>2. ASSUME NEW w \in Worker, WorkerActs(w)
      PROVE  hist'.completions = hist.completions /\ hist'.charged = hist.charged /\ hist'.pardoned = hist.pardoned
  BY <1>1, <1>2 DEF WorkerActs, WorkerStep, ReplyLost, TryFails, CatchFails, AfterSwallowed, WorkerCrashes, Receive, Repark, RetryGuard, GateDenies,
     DenyInstance, LaunchSucceeds, LaunchFails, Persist, CompleteEntry, UpdateStats, Track, ReportRetry,
     EnqueueRetry, ReadEntry, FailInstance, FailEntry, CountFailure, Ack, History
<1>3. ASSUME NEW q \in Req, RequestActs(q)
      PROVE  \/ LiveCounts(q)
             \/ hist'.completions = hist.completions /\ hist'.charged = hist.charged /\ hist'.pardoned = hist.pardoned
  BY <1>1, <1>3 DEF RequestActs, ReadInstance, RequestStep, RequestCrashes, RetryWrites, SendRetry, CancelAtMaestro,
     CancelRejected, CancelWrites, Fetch, LiveWrites, History
<1>4. QED
  BY <1>1, <1>2, <1>3 DEF Next, Rest, vars, Reappear, ReappearEarly, SyncScans, SyncStep, SyncWrites, WorkflowEnds,
     History, WorkerActs, RequestActs

(* An item, once there, keeps what is marked on it.                        *)
LEMMA MarksStand ==
  ASSUME Shape, Next, NEW i \in Inst
  PROVE  /\ inst[i] = NoInst \/ (inst[i].counted => inst'[i].counted)
         /\ inst[i] = NoInst \/ (inst[i].manual => inst'[i].manual)
         /\ inst[i] = NoInst \/ (inst[i].mid # None => inst'[i].mid # None)
         /\ \/ inst'[i].countedFailed = inst[i].countedFailed
            \/ SyncWrites /\ sync.inst = i /\ inst[i].status = "running"
               /\ inst'[i].countedFailed = (inst[i].countedFailed \/ NewFailure(MaestroStatus(sync.mid)))
<1>1. inst[i] \in InstanceState
  BY DEF Shape, Typed, InstTyped
<1>2. CASE inst'[i] = inst[i]
  BY <1>2
<1>3. ASSUME NEW w \in Worker, Persist(w)
      PROVE  wk[w].mid # None
  BY <1>3 DEF Shape, WorkersNamed, WorkerOK, Persist
<1>4. CASE Rewritten(i)
  BY <1>1, <1>3, <1>4 DEF Rewritten, InstanceState, NoInst
<1>5. QED
  BY <1>2, <1>4, ItemWrites

(* However many observe it, a completion is counted once: whoever counts   *)
(* it marks the item, and finds the mark.                                  *)
LEMMA OnceCountedKept == Shape /\ OnceCounted /\ [Next]_vars => OnceCounted'
<1> SUFFICES ASSUME Shape, OnceCounted, [Next]_vars PROVE OnceCounted'
  OBVIOUS
<1>1. hist \in History /\ InstTyped /\ \A i \in Inst : hist.completions[i] \in Nat /\ inst[i].counted \in BOOLEAN
  BY DEF Shape, Typed, History, InstTyped, InstanceState
<1>2. ASSUME NEW i \in Inst, Next, hist'.completions = hist.completions
      PROVE  hist'.completions[i] <= 1 /\ (hist'.completions[i] = 1 => inst'[i].counted)
  BY <1>1, <1>2, MarksStand DEF OnceCounted, NoInst
<1>3. ASSUME NEW j \in Inst, hist'.completions = [hist.completions EXCEPT ![j] = IF inst[j].counted THEN @ ELSE @ + 1],
             SetInst(j, [inst[j] EXCEPT !.counted = TRUE]), NEW i \in Inst
      PROVE  hist'.completions[i] <= 1 /\ (hist'.completions[i] = 1 => inst'[i].counted)
  <2>1. inst' = [inst EXCEPT ![j] = [inst[j] EXCEPT !.counted = TRUE]]
    BY <1>3 DEF SetInst
  <2>2. inst[j] \in InstanceState /\ hist.completions \in [Inst -> Nat]
    BY <1>1 DEF InstTyped, History
  <2>3. CASE i = j
    BY <1>1, <1>3, <2>1, <2>2, <2>3 DEF OnceCounted, InstTyped, InstanceState
  <2>4. CASE i # j
    <3>1. inst'[i] = inst[i] /\ hist'.completions[i] = hist.completions[i]
      BY <1>1, <1>3, <2>1, <2>2, <2>4 DEF InstTyped
    <3>2. QED
      BY <3>1 DEF OnceCounted
  <2>5. QED
    BY <2>3, <2>4
<1>4. ASSUME NEW q \in Req, LiveCounts(q)
      PROVE  \E j \in Inst : /\ hist'.completions = [hist.completions EXCEPT ![j] = IF inst[j].counted THEN @ ELSE @ + 1]
                              /\ SetInst(j, [inst[j] EXCEPT !.counted = TRUE])
  <2>1. Of(q) \in Inst
    BY <1>4 DEF LiveCounts, Shape, RequestsNamed, RequestOK, Of
  <2>2. QED
    BY <1>1, <1>4, <2>1 DEF LiveCounts, Counted, MarkCounted, History
<1>5. ASSUME SyncCounts
      PROVE  \E j \in Inst : /\ hist'.completions = [hist.completions EXCEPT ![j] = IF inst[j].counted THEN @ ELSE @ + 1]
                              /\ SetInst(j, [inst[j] EXCEPT !.counted = TRUE])
  <2>1. sync.inst \in Inst
    BY <1>5 DEF SyncCounts, Shape, SyncNamed
  <2>2. QED
    BY <1>1, <1>5, <2>1 DEF SyncCounts, Counted, MarkCounted, History
<1>6. CASE UNCHANGED vars
  BY <1>6 DEF vars, OnceCounted
<1>7. CASE Next
  <2>1. CASE hist'.completions = hist.completions
    BY <1>2, <1>7, <2>1 DEF OnceCounted
  <2>2. CASE (\E q \in Req : LiveCounts(q)) \/ SyncCounts
    BY <1>3, <1>4, <1>5, <2>2 DEF OnceCounted
  <2>3. CASE SyncCharges
    BY <1>1, <1>2, <1>7, <2>3 DEF SyncCharges, History, OnceCounted
  <2>4. QED
    BY <1>7, <2>1, <2>2, <2>3, CountsFrame
<1>8. QED
  BY <1>6, <1>7

(* However many observers there are, requests and the sync, a completion   *)
(* is counted once: who counts it marks the item in the same write, and    *)
(* the mark stays.                                                         *)
THEOREM CompletionsCountOnce == Spec => []CompletionCountedOnce
<1>1. Init => OnceCounted
  BY DEF Init, OnceCounted, NoInst
<1>2. OnceCounted => CompletionCountedOnce
  BY DEF OnceCounted, CompletionCountedOnce
<1>3. QED
  BY <1>1, <1>2, OnceCountedKept, ShapeHoldsAtFirst, ShapeKept, PTL DEF Spec

(* What the sync charges and takes back is marked on the item, and the     *)
(* sync, one pass at a time, knows the mark.                               *)
LEMMA ChargesMarkedKept == Shape /\ ChargesMarked /\ [Next]_vars => ChargesMarked'
<1> SUFFICES ASSUME Shape, ChargesMarked, [Next]_vars PROVE ChargesMarked'
  OBVIOUS
<1>1. /\ hist \in History /\ InstTyped /\ sync \in SyncState /\ SyncNamed
      /\ \A i \in Inst : hist.charged[i] \in Nat /\ hist.pardoned[i] \in Nat /\ inst[i].countedFailed \in BOOLEAN
  BY DEF Shape, Typed, History, InstTyped, InstanceState
<1>2. ASSUME Next, NEW i \in Inst
      PROVE  \/ inst'[i].countedFailed = inst[i].countedFailed
             \/ SyncWrites /\ sync.inst = i /\ inst[i].status = "running"
                /\ inst'[i].countedFailed = (inst[i].countedFailed \/ NewFailure(MaestroStatus(sync.mid)))
  BY <1>2, MarksStand
<1>3. CASE UNCHANGED vars
  BY <1>3 DEF vars, ChargesMarked, Charging
<1>4. ASSUME Next, sync' = sync, ~SyncWrites, ~SyncCounts, ~SyncCharges
      PROVE  ChargesMarked'
  <2>1. \A i \in Inst : inst'[i].countedFailed = inst[i].countedFailed
    BY <1>2, <1>4
  <2>2. hist'.charged = hist.charged /\ hist'.pardoned = hist.pardoned
    <3>1. ASSUME NEW q \in Req, LiveCounts(q)
          PROVE  hist'.charged = hist.charged /\ hist'.pardoned = hist.pardoned
      BY <1>1, <3>1 DEF LiveCounts, Counted, History
    <3>2. QED
      BY <1>4, <3>1, CountsFrame
  <2>3. sync.pc # "idle" => sync.inst \in Inst
    BY <1>1 DEF SyncNamed
  <2>4. QED
    BY <1>4, <2>1, <2>2, <2>3 DEF ChargesMarked, Charging
<1>5. CASE SyncScans
  <2>1. PICK j \in Inst : sync' = [pc |-> "write", inst |-> j, mid |-> inst[j].mid, countedFailed |-> inst[j].countedFailed]
    BY <1>5 DEF SyncScans
  <2>2. sync.pc = "idle" /\ inst' = inst /\ hist' = hist
    BY <1>5 DEF SyncScans
  <2>3. QED
    BY <1>1, <2>1, <2>2 DEF ChargesMarked, Charging
<1>6. CASE SyncWrites
  <2> DEFINE i == sync.inst
             new == NewFailure(MaestroStatus(sync.mid))
  <2>1. i \in Inst /\ hist' = hist /\ sync.pc = "write"
    BY <1>1, <1>6 DEF SyncWrites, SyncNamed
  <2>2. CASE inst[i].status = "running"
    <3>1. inst' = [inst EXCEPT ![i] = [inst[i] EXCEPT !.status = MaestroStatus(sync.mid), !.countedFailed = inst[i].countedFailed \/ new]]
      BY <1>1, <1>6, <2>1, <2>2 DEF SyncWrites, StillRunning, SetInst, InstTyped, InstanceState
    <3>2. inst'[i].countedFailed = (inst[i].countedFailed \/ new) /\ \A j \in Inst : j # i => inst'[j] = inst[j]
      BY <1>1, <2>1, <3>1 DEF InstTyped, InstanceState
    <3>3. \/ ~new /\ (sync' = IdleSync \/ sync' = [sync EXCEPT !.pc = "count"])
          \/ new /\ sync' = [sync EXCEPT !.pc = "charge"]
      BY <1>6, <2>2 DEF SyncWrites, StillRunning, NextPc, NewFailure
    <3>4. new => ~sync.countedFailed
      BY DEF NewFailure
    <3>5. CASE ~new /\ (sync' = IdleSync \/ sync' = [sync EXCEPT !.pc = "count"])
      <4>1. sync'.pc \in {"idle", "count"} /\ (sync'.pc # "idle" => sync'.inst = i /\ sync'.countedFailed = sync.countedFailed)
        BY <1>1, <3>5 DEF IdleSync, SyncState
      <4>2. \A j \in Inst : inst'[j].countedFailed = inst[j].countedFailed
        BY <1>1, <2>1, <3>2, <3>5
      <4> HIDE DEF new
      <4>3. QED
        BY <2>1, <4>1, <4>2 DEF ChargesMarked, Charging
    <3>6. CASE new /\ sync' = [sync EXCEPT !.pc = "charge"]
      <4>1. sync'.pc = "charge" /\ sync'.inst = i /\ ~sync'.countedFailed
        BY <1>1, <3>4, <3>6 DEF SyncState
      <4>2. hist.charged[i] = 0 /\ ~inst[i].countedFailed
        BY <1>1, <2>1, <3>4, <3>6 DEF ChargesMarked
      <4>3. inst'[i].countedFailed
        BY <3>2, <3>6
      <4>4. \A j \in Inst : (j # i => inst'[j] = inst[j]) /\ ~Charging(j)
        BY <2>1, <3>2 DEF Charging
      <4> HIDE DEF i, new
      <4>5. QED
        BY <2>1, <4>1, <4>2, <4>3, <4>4 DEF ChargesMarked, Charging
    <3>7. QED
      BY <3>3, <3>5, <3>6
  <2>3. CASE inst[i].status # "running"
    <3>1. inst' = inst /\ sync' = IdleSync
      BY <1>6, <2>3 DEF SyncWrites, StillRunning
    <3>2. sync'.pc = "idle"
      BY <3>1 DEF IdleSync
    <3>3. QED
      BY <2>1, <3>1, <3>2 DEF ChargesMarked, Charging
  <2>4. QED
    BY <2>2, <2>3
<1>7. CASE SyncCounts
  <2>1. sync.inst \in Inst /\ sync' = IdleSync /\ sync.pc = "count" /\ IdleSync.pc = "idle"
    BY <1>1, <1>7 DEF SyncCounts, SyncNamed, IdleSync
  <2>2. \A i \in Inst : inst'[i].countedFailed = inst[i].countedFailed
    BY <1>1, <1>7, <2>1 DEF SyncCounts, MarkCounted, SetInst, InstTyped, InstanceState
  <2>3. /\ hist'.charged = hist.charged
        /\ \A i \in Inst : hist'.pardoned[i] > 0 => hist.pardoned[i] > 0 \/ (i = sync.inst /\ sync.countedFailed)
    BY <1>1, <1>7, <2>1 DEF SyncCounts, Counted, History
  <2>4. QED
    BY <1>1, <2>1, <2>2, <2>3 DEF ChargesMarked, Charging
<1>8. CASE SyncCharges
  <2>1. sync.inst \in Inst /\ sync' = IdleSync /\ sync.pc = "charge" /\ IdleSync.pc = "idle" /\ inst' = inst
    BY <1>1, <1>8 DEF SyncCharges, SyncNamed, IdleSync
  <2>2. /\ hist'.pardoned = hist.pardoned
        /\ \A i \in Inst : hist'.charged[i] = IF i = sync.inst THEN hist.charged[i] + 1 ELSE hist.charged[i]
    BY <1>1, <1>8, <2>1 DEF SyncCharges, History
  <2>3. hist.charged[sync.inst] = 0
    BY <2>1 DEF ChargesMarked, Charging
  <2>4. QED
    BY <1>1, <2>1, <2>2, <2>3 DEF ChargesMarked, Charging
<1>9. QED
  BY <1>3, <1>4, <1>5, <1>6, <1>7, <1>8, SyncFrame DEF SyncStep

(* An instance that failed at Maestro is charged to the rule once, and     *)
(* nothing is taken back for one that was not, for any number of workers   *)
(* and requests: what FailuresCountedOnce says of an instance.             *)
THEOREM ChargesCountOnce ==
  Spec => [](\A i \in Inst : hist.charged[i] <= 1 /\ (hist.pardoned[i] > 0 => hist.charged[i] = 1))
<1>1. Init => ChargesMarked
  BY DEF Init, ChargesMarked, Charging, NoInst, IdleSync
<1>2. ChargesMarked => \A i \in Inst : hist.charged[i] <= 1 /\ (hist.pardoned[i] > 0 => hist.charged[i] = 1)
  BY DEF ChargesMarked
<1>3. QED
  BY <1>1, <1>2, ChargesMarkedKept, ShapeHoldsAtFirst, ShapeKept, PTL DEF Spec

-----------------------------------------------------------------------------
(* What becomes of one message, by whom.                                   *)
Sent(m, i, s, e) ==
  /\ msg[m].state = "none" /\ ~Held(m)
  /\ msg'[m].state = "visible" /\ msg'[m].job.inst = i /\ msg'[m].job.seq = s /\ msg'[m].job.entry = e
Moved(m) ==
  \/ \E w \in Worker :
       \/ Receive(w, m) /\ msg'[m] = [msg[m] EXCEPT !.state = "hidden", !.received = @ + 1]
       \/ Repark(w) /\ Sent(m, JobOf(w).inst, JobOf(w).seq, JobOf(w).entry)
       \/ EnqueueRetry(w) /\ Sent(m, wk[w].inst, wk[w].seq, JobOf(w).entry)
       \/ Ack(w) /\ wk[w].msg = m /\ Shared(w) /\ msg'[m] = [msg[m] EXCEPT !.state = "none"]
       \/ Ack(w) /\ wk[w].msg = m /\ ~Shared(w) /\ msg'[m] = NoMsg
  \/ \E s \in {"visible", "dead"} : Reappear(m) /\ msg'[m] = [msg[m] EXCEPT !.state = s]
  \/ ReappearEarly(m) /\ msg'[m] = [msg[m] EXCEPT !.state = "visible"]
  \/ \E q \in Req : SendRetry(q) /\ Sent(m, Of(q), rq[q].seq, Of(q))

(* A message that changes is one of those.                                 *)
LEMMA MsgMoves ==
  ASSUME Shape, Next, NEW m \in Msg
  PROVE  msg'[m] = msg[m] \/ Moved(m)
<1>1. MsgTyped /\ msg[m] \in MessageState
  BY DEF Shape, Typed, MsgTyped
<1>2. ASSUME NEW n \in Msg, NEW job, Send(n, job)
      PROVE  msg'[m] = msg[m] \/ Sent(m, job.inst, job.seq, job.entry)
  BY <1>1, <1>2 DEF Send, FreshMsg, Unused, Sent, MsgTyped
<1>10. ASSUME NEW w \in Worker, wk[w].pc # "idle"
       PROVE  JobOf(w) \in Job
  BY <1>10 DEF Shape, Typed, WorkersNamed, WorkerOK, JobOf, MsgTyped, MessageState
<1>3. ASSUME NEW w \in Worker, NEW n \in Msg, Receive(w, n)
      PROVE  msg'[m] = msg[m] \/ Moved(m)
  BY <1>1, <1>3 DEF Receive, MsgTyped, MessageState, Moved
<1>4. ASSUME NEW w \in Worker, Repark(w)
      PROVE  msg'[m] = msg[m] \/ Moved(m)
  <2> DEFINE job == [JobOf(w) EXCEPT !.early = FALSE]
  <2>1. PICK n \in Msg : Send(n, job)
    BY <1>4 DEF Repark
  <2>2. job.inst = JobOf(w).inst /\ job.seq = JobOf(w).seq /\ job.entry = JobOf(w).entry
    BY <1>4, <1>10 DEF Repark, Job
  <2> HIDE DEF job
  <2>3. QED
    BY <1>2, <1>4, <2>1, <2>2 DEF Moved
<1>5. ASSUME NEW w \in Worker, EnqueueRetry(w)
      PROVE  msg'[m] = msg[m] \/ Moved(m)
  <2> DEFINE a == JobOf(w).attempt + 1
             b == a \in Deferred
             job == [JobOf(w) EXCEPT !.attempt = a, !.inst = wk[w].inst, !.seq = wk[w].seq, !.early = b]
  <2>1. PICK n \in Msg : Send(n, job)
    BY <1>5 DEF EnqueueRetry
  <2>2. job.inst = wk[w].inst /\ job.seq = wk[w].seq /\ job.entry = JobOf(w).entry
    BY <1>5, <1>10 DEF EnqueueRetry, Job
  <2> HIDE DEF job
  <2>3. QED
    BY <1>2, <1>5, <2>1, <2>2 DEF Moved
<1>6. ASSUME NEW w \in Worker, Ack(w)
      PROVE  msg'[m] = msg[m] \/ Moved(m)
  BY <1>1, <1>6 DEF Ack, MsgTyped, Moved
<1>7. ASSUME NEW n \in Msg, Reappear(n) \/ ReappearEarly(n)
      PROVE  msg'[m] = msg[m] \/ Moved(m)
  BY <1>1, <1>7 DEF Reappear, ReappearEarly, MsgTyped, Moved
<1>8. ASSUME NEW q \in Req, SendRetry(q)
      PROVE  msg'[m] = msg[m] \/ Moved(m)
  <2> DEFINE job == [FirstJob EXCEPT !.seq = rq[q].seq, !.inst = Of(q), !.entry = Of(q)]
  <2>1. PICK n \in Msg : Send(n, job)
    BY <1>8 DEF SendRetry
  <2>2. FirstJob \in Job
    BY LadderAssumption DEF FirstJob, Job, Entry
  <2>3. job.inst = Of(q) /\ job.seq = rq[q].seq /\ job.entry = Of(q)
    BY <2>2 DEF Job
  <2> HIDE DEF job
  <2>4. QED
    BY <1>2, <1>8, <2>1, <2>3 DEF Moved
<1>9. QED
  BY <1>3, <1>4, <1>5, <1>6, <1>7, <1>8, MsgFrame

(* A worker's job never leaves its message, and where a worker goes.       *)
Ends(w) ==
  /\ wk'[w] = IdleWorker
  /\ \/ Ack(w) \/ WorkerCrashes(w)
     \/ CountFailure(w) /\ Rethrown(w)
     \/ CatchFails(w) /\ wk[w].pc \in {"failEntry", "count"} /\ Rethrown(w)
Swallows(w, pc) == CatchFails(w) /\ AfterSwallowed(w) = pc /\ wk'[w] = [wk[w] EXCEPT !.pc = pc]
Goes(w) ==
  \/ Ends(w)
  \/ \E m \in Msg : Receive(w, m) /\ wk'[w] = [IdleWorker EXCEPT !.pc = "guard", !.msg = m, !.inst = msg[m].job.inst, !.seq = msg[m].job.seq]
  \/ Repark(w) /\ wk'[w] = [wk[w] EXCEPT !.pc = "ack"]
  \/ RetryGuard(w) /\ wk'[w] = [wk[w] EXCEPT !.pc = IF Superseded(w) THEN "ack" ELSE "launch"]
  \/ GateDenies(w) /\ wk'[w] = [wk[w] EXCEPT !.pc = IF JobOf(w).inst = None THEN "ack" ELSE "denyInst"]
  \/ DenyInstance(w) /\ wk'[w] = [wk[w] EXCEPT !.pc = "ack"]
  \/ \E k \in Mid : LaunchSucceeds(w) /\ FreshMid(k) /\ maestro' = [maestro EXCEPT ![k] = "live"]
                    /\ wk'[w] = [wk[w] EXCEPT !.pc = "persist", !.mid = k]
  \/ \E pc \in {"track", "final"} : (LaunchFails(w) \/ ReplyLost(w) \/ TryFails(w)) /\ wk'[w] = [wk[w] EXCEPT !.pc = pc]
  \/ Persist(w) /\ wk'[w] = [wk[w] EXCEPT !.pc = "complete"]
  \/ CompleteEntry(w) /\ wk'[w] = [wk[w] EXCEPT !.pc = "stats"]
  \/ UpdateStats(w) /\ wk'[w] = [wk[w] EXCEPT !.pc = "ack"]
  \/ Track(w) /\ wk[w].inst # None /\ wk'[w] = [wk[w] EXCEPT !.pc = "report"]
  \/ \E i \in Inst : Track(w) /\ wk[w].inst = None /\ inst[i] = NoInst /\ inst' = [inst EXCEPT ![i] = [NoInst EXCEPT !.status = "running", !.seq = seqs + 1]]
                              /\ wk'[w] = [wk[w] EXCEPT !.pc = "report", !.inst = i, !.seq = seqs + 1]
  \/ ReportRetry(w) /\ wk'[w] = [wk[w] EXCEPT !.pc = "enqueue"]
  \/ EnqueueRetry(w) /\ wk'[w] = [wk[w] EXCEPT !.pc = "ack"]
  \/ \E b \in BOOLEAN : ReadEntry(w) /\ wk'[w] = [wk[w] EXCEPT !.again = b, !.pc = IF JobOf(w).inst = None THEN "failEntry" ELSE "failInst"]
  \/ FailInstance(w) /\ wk'[w] = [wk[w] EXCEPT !.pc = "failEntry"]
  \/ FailEntry(w) /\ wk'[w] = [wk[w] EXCEPT !.pc = "count"]
  \/ CountFailure(w) /\ ~Rethrown(w) /\ wk'[w] = [wk[w] EXCEPT !.pc = "ack"]
  \/ \E pc \in {"ack", "enqueue", "failInst", "failEntry"} : Swallows(w, pc)

(* After a failed best-effort write a worker goes on, or its first attempt *)
(* is thrown back to SQS all the same.                                     *)
LEMMA CatchGoes ==
  ASSUME Shape, NEW w \in Worker, CatchFails(w)
  PROVE  \/ wk'[w] = IdleWorker /\ wk'[w].pc = "idle" /\ wk[w].pc \in {"failEntry", "count"} /\ Rethrown(w)
         \/ \E pc \in {"ack", "enqueue", "failInst", "failEntry"} : Swallows(w, pc)
<1>1. wk' = [wk EXCEPT ![w] = IF AfterSwallowed(w) = "idle" THEN IdleWorker ELSE [wk[w] EXCEPT !.pc = AfterSwallowed(w)]]
      /\ wk[w].pc \in BestEffort /\ WkTyped
  BY DEF CatchFails, Leave, Shape, Typed
<1>2. CASE AfterSwallowed(w) = "idle"
  <2>1. wk'[w] = IdleWorker
    BY <1>1, <1>2 DEF WkTyped
  <2>2. wk[w].pc \in {"failEntry", "count"} /\ Rethrown(w)
    BY <1>1, <1>2 DEF AfterSwallowed, BestEffort
  <2>3. QED
    BY <2>1, <2>2 DEF IdleWorker
<1>3. CASE AfterSwallowed(w) # "idle"
  <2>1. wk'[w] = [wk[w] EXCEPT !.pc = AfterSwallowed(w)]
    BY <1>1, <1>3 DEF WkTyped
  <2>2. AfterSwallowed(w) \in {"ack", "enqueue", "failInst", "failEntry"}
    BY <1>1, <1>3 DEF AfterSwallowed, BestEffort
  <2>3. QED
    BY <2>1, <2>2 DEF Swallows
<1>4. QED
  BY <1>2, <1>3

(* It keeps its job, and whoever is past the guard then was so before.     *)
LEMMA SwallowedStays ==
  ASSUME Shape, NEW w \in Worker, NEW pc \in {"ack", "enqueue", "failInst", "failEntry"}, Swallows(w, pc)
  PROVE  /\ wk'[w].msg = wk[w].msg /\ wk'[w].inst = wk[w].inst /\ wk'[w].seq = wk[w].seq /\ wk'[w].pc = pc
         /\ wk'[w].pc \in {"enqueue", "failInst"} => wk[w].pc \in {"report", "final"}
<1>1. wk[w] \in WorkerState /\ wk'[w] = [wk[w] EXCEPT !.pc = pc] /\ wk[w].pc \in BestEffort /\ AfterSwallowed(w) = pc
  BY DEF Shape, Typed, WkTyped, Swallows, CatchFails
<1>2. wk'[w].pc = pc
  BY <1>1 DEF WorkerState
<1>3. pc \in {"enqueue", "failInst"} => wk[w].pc \in {"report", "final"}
  BY <1>1 DEF AfterSwallowed, BestEffort
<1>4. QED
  BY <1>1, <1>2, <1>3 DEF WorkerState

(* A worker that moves goes one of these ways.                             *)
LEMMA WorkerGoes ==
  ASSUME Shape, Next, NEW w \in Worker
  PROVE  wk'[w] = wk[w] \/ Goes(w)
<1>1. WkTyped /\ wk[w] \in WorkerState
  BY DEF Shape, Typed, WkTyped
<1>2. CASE ~WorkerActs(w)
  BY <1>2, OneWorkerMoves DEF Shape
<1>3. CASE \E m \in Msg : Receive(w, m)
  BY <1>1, <1>3 DEF Receive, WkTyped, Goes
<1>4. CASE Repark(w) \/ RetryGuard(w) \/ GateDenies(w) \/ DenyInstance(w) \/ Persist(w) \/ CompleteEntry(w) \/ UpdateStats(w)
  <2>1. CASE Repark(w)
    BY <1>1, <2>1 DEF Repark, Step, WkTyped, Goes
  <2>2. CASE RetryGuard(w)
    BY <1>1, <2>2 DEF RetryGuard, Step, WkTyped, Goes
  <2>3. CASE GateDenies(w)
    BY <1>1, <2>3 DEF GateDenies, Step, WkTyped, Goes
  <2>4. CASE DenyInstance(w)
    BY <1>1, <2>4 DEF DenyInstance, Step, WkTyped, Goes
  <2>5. CASE Persist(w) \/ CompleteEntry(w) \/ UpdateStats(w)
    BY <1>1, <2>5 DEF Persist, CompleteEntry, UpdateStats, Step, WkTyped, Goes
  <2>6. QED
    BY <1>4, <2>1, <2>2, <2>3, <2>4, <2>5
<1>5. CASE ReportRetry(w) \/ EnqueueRetry(w) \/ FailInstance(w) \/ FailEntry(w)
  BY <1>1, <1>5 DEF ReportRetry, EnqueueRetry, FailInstance, FailEntry, Step, WkTyped, Goes
<1>6. CASE LaunchFails(w) \/ ReplyLost(w) \/ TryFails(w)
  BY <1>1, <1>6 DEF LaunchFails, ReplyLost, TryFails, AfterError, Step, WkTyped, Goes
<1>7. CASE LaunchSucceeds(w)
  <2>1. PICK k \in Mid : FreshMid(k) /\ maestro' = [maestro EXCEPT ![k] = "live"] /\ wk' = [wk EXCEPT ![w].pc = "persist", ![w].mid = k]
    BY <1>7 DEF LaunchSucceeds
  <2>2. wk'[w] = [wk[w] EXCEPT !.pc = "persist", !.mid = k]
    BY <1>1, <2>1 DEF WkTyped
  <2>3. QED
    BY <1>7, <2>1, <2>2 DEF Goes
<1>8. CASE Track(w)
  <2>1. CASE wk[w].inst = None
    <3>1. PICK i \in Inst : FreshInst(i) /\ SetInst(i, [NoInst EXCEPT !.status = "running", !.seq = seqs + 1])
                            /\ wk' = [wk EXCEPT ![w].pc = "report", ![w].inst = i, ![w].seq = seqs + 1]
      BY <1>8, <2>1 DEF Track
    <3>2. wk'[w] = [wk[w] EXCEPT !.pc = "report", !.inst = i, !.seq = seqs + 1]
      BY <1>1, <3>1 DEF WkTyped
    <3>3. QED
      BY <1>8, <2>1, <3>1, <3>2, FreshIsBlank DEF Goes, SetInst
  <2>2. CASE wk[w].inst # None
    BY <1>1, <1>8, <2>2 DEF Track, Step, WkTyped, Goes
  <2>3. QED
    BY <2>1, <2>2
<1>9. CASE ReadEntry(w)
  <2> DEFINE b == entry[JobOf(w).entry] = "failed"
             pc == IF JobOf(w).inst = None THEN "failEntry" ELSE "failInst"
  <2>1. wk' = [wk EXCEPT ![w] = [wk[w] EXCEPT !.again = b, !.pc = pc]]
    BY <1>9 DEF ReadEntry
  <2>2. b \in BOOLEAN
    OBVIOUS
  <2> HIDE DEF b
  <2>3. wk'[w] = [wk[w] EXCEPT !.again = b, !.pc = pc]
    BY <1>1, <2>1 DEF WkTyped
  <2>4. QED
    BY <1>9, <2>2, <2>3 DEF Goes
<1>10. CASE CountFailure(w) \/ Ack(w) \/ WorkerCrashes(w)
  <2>1. CASE Ack(w) \/ WorkerCrashes(w)
    <3>1. wk' = [wk EXCEPT ![w] = IdleWorker]
      BY <2>1 DEF Ack, WorkerCrashes, Leave
    <3>2. wk'[w] = IdleWorker
      BY <1>1, <3>1 DEF WkTyped
    <3>3. QED
      BY <2>1, <3>2 DEF Goes, Ends
  <2>2. CASE CountFailure(w) /\ Rethrown(w)
    <3>1. wk' = [wk EXCEPT ![w] = IdleWorker]
      BY <2>2 DEF CountFailure, Leave
    <3>2. QED
      BY <1>1, <2>2, <3>1 DEF WkTyped, Goes, Ends
  <2>3. CASE CountFailure(w) /\ ~Rethrown(w)
    <3>1. wk' = [wk EXCEPT ![w] = [wk[w] EXCEPT !.pc = "ack"]]
      BY <2>3 DEF CountFailure, Leave
    <3>2. QED
      BY <1>1, <2>3, <3>1 DEF WkTyped, Goes
  <2>4. QED
    BY <1>10, <2>1, <2>2, <2>3
<1>11. CASE CatchFails(w)
  BY <1>11, CatchGoes DEF Goes, Ends
<1>12. QED
  BY <1>2, <1>3, <1>4, <1>5, <1>6, <1>7, <1>8, <1>9, <1>10, <1>11 DEF WorkerActs, WorkerStep

(* A history of races only grows.                                          *)
LEMMA TornGrows ==
  ASSUME Shape, Next
  PROVE  hist.torn \subseteq hist'.torn /\ hist.polled \subseteq hist'.polled
<1>1. hist \in History
  BY DEF Shape, Typed
<1>2. ASSUME NEW w \in Worker, WorkerActs(w)
      PROVE  hist.torn \subseteq hist'.torn /\ hist.polled \subseteq hist'.polled
  BY <1>1, <1>2 DEF WorkerActs, WorkerStep, ReplyLost, TryFails, CatchFails, AfterSwallowed, WorkerCrashes, Receive, Repark, RetryGuard, GateDenies,
     DenyInstance, LaunchSucceeds, LaunchFails, Persist, CompleteEntry, UpdateStats, Track, ReportRetry,
     EnqueueRetry, ReadEntry, FailInstance, FailEntry, CountFailure, Ack, History
<1>3. ASSUME NEW q \in Req, RequestActs(q)
      PROVE  hist.torn \subseteq hist'.torn /\ hist.polled \subseteq hist'.polled
  <2>1. CASE LiveWrites(q)
    <3>1. hist' = hist \/ \E P \in {hist.polled, hist.polled \cup {Of(q)}} :
                            \E O \in {hist.overridden, hist.overridden \cup {Of(q)}} :
                              hist' = [hist EXCEPT !.polled = P, !.overridden = O]
      BY <2>1 DEF LiveWrites
    <3>2. CASE hist' = hist
      BY <3>2
    <3>3. ASSUME NEW P \in {hist.polled, hist.polled \cup {Of(q)}}, NEW O, hist' = [hist EXCEPT !.polled = P, !.overridden = O]
          PROVE  hist.torn \subseteq hist'.torn /\ hist.polled \subseteq hist'.polled
      BY <1>1, <3>3 DEF History
    <3>4. QED
      BY <3>1, <3>2, <3>3
  <2>2. CASE LiveCounts(q)
    BY <1>1, <2>2 DEF LiveCounts, Counted, History
  <2>3. CASE RetryWrites(q) \/ CancelWrites(q) \/ CancelRejected(q) \/ RequestCrashes(q)
    BY <1>1, <2>3 DEF RetryWrites, CancelWrites, CancelRejected, RequestCrashes, Tear, History
  <2>4. QED
    BY <1>3, <2>1, <2>2, <2>3 DEF RequestActs, ReadInstance, RequestStep, SendRetry, CancelAtMaestro, Fetch
<1>4. CASE SyncCounts \/ SyncCharges
  BY <1>1, <1>4 DEF SyncCounts, Counted, SyncCharges, History
<1>5. ASSUME NEW m \in Msg, ReappearEarly(m)
      PROVE  hist.torn \subseteq hist'.torn /\ hist.polled \subseteq hist'.polled
  BY <1>1, <1>5 DEF ReappearEarly, History
<1>6. ASSUME NEW k \in Mid, WorkflowEnds(k)
      PROVE  hist.torn \subseteq hist'.torn /\ hist.polled \subseteq hist'.polled
  BY <1>1, <1>6 DEF WorkflowEnds, History
<1>7. QED
  BY <1>2, <1>3, <1>4, <1>5, <1>6 DEF Next, Rest, vars, Reappear, SyncScans, SyncStep, SyncWrites,
     WorkerActs, RequestActs

-----------------------------------------------------------------------------
(* Sequence numbers are drawn in order: none is in use that was not begun. *)
LEMMA SeqsGrow ==
  ASSUME Shape, Next
  PROVE  seqs' = seqs \/ seqs' = seqs + 1
<1>1. ASSUME NEW w \in Worker, WorkerActs(w)
      PROVE  seqs' = seqs \/ seqs' = seqs + 1
  BY <1>1 DEF WorkerActs, WorkerStep, ReplyLost, TryFails, CatchFails, AfterSwallowed, WorkerCrashes, Receive, Repark, RetryGuard, GateDenies,
     DenyInstance, LaunchSucceeds, LaunchFails, Persist, CompleteEntry, UpdateStats, Track, ReportRetry,
     EnqueueRetry, ReadEntry, FailInstance, FailEntry, CountFailure, Ack
<1>2. ASSUME NEW q \in Req, RequestActs(q)
      PROVE  seqs' = seqs \/ seqs' = seqs + 1
  BY <1>2 DEF RequestActs, ReadInstance, RequestStep, RequestCrashes, RetryWrites, SendRetry, CancelAtMaestro,
     CancelRejected, CancelWrites, Fetch, LiveWrites, LiveCounts, jobs
<1>3. QED
  BY <1>1, <1>2 DEF Next, Rest, vars, Reappear, ReappearEarly, SyncScans, SyncStep, SyncWrites, SyncCounts,
     SyncCharges, WorkflowEnds, jobs, WorkerActs, RequestActs

(* Every step keeps SeqsBegun.                                             *)
LEMMA SeqsBegunKept == Shape /\ SeqsBegun /\ [Next]_vars => SeqsBegun'
<1> SUFFICES ASSUME Shape, SeqsBegun, [Next]_vars PROVE SeqsBegun'
  OBVIOUS
<1>1. CASE UNCHANGED vars
  BY <1>1 DEF vars, SeqsBegun
<1>2. CASE Next
  <2>1. seqs \in Nat /\ (seqs' = seqs \/ seqs' = seqs + 1) /\ \A n \in Nat : n <= seqs => n <= seqs'
    BY <1>2, SeqsGrow DEF Shape, Typed
  <2>2. /\ \A m \in Msg : msg[m] \in MessageState /\ msg[m].job.seq \in Nat /\ msg[m].job.seq <= seqs
        /\ \A w \in Worker : wk[w] \in WorkerState /\ wk[w].seq \in Nat /\ wk[w].seq <= seqs
        /\ \A q \in Req : rq[q] \in RequestState /\ rq[q].seq \in Nat /\ rq[q].seq <= seqs
        /\ \A i \in Inst : inst[i] \in InstanceState /\ inst[i].seq \in Nat /\ inst[i].seq <= seqs
    BY DEF SeqsBegun, Shape, Typed, MsgTyped, MessageState, Job, WkTyped, WorkerState, RqTyped, RequestState,
       InstTyped, InstanceState
  <2>3. ASSUME NEW m \in Msg
        PROVE  msg'[m].job.seq <= seqs'
    <3>1. \/ msg'[m].job = msg[m].job \/ msg'[m] = NoMsg
          \/ \E w \in Worker : wk[w].pc # "idle" /\ msg'[m].job.seq \in {JobOf(w).seq, wk[w].seq}
          \/ \E q \in Req : msg'[m].job.seq = rq[q].seq
      <4>1. CASE msg'[m] = msg[m] \/ msg'[m] = NoMsg
        BY <4>1
      <4>2. CASE \E s : msg'[m] = [msg[m] EXCEPT !.state = s]
        BY <2>2, <4>2 DEF MessageState
      <4>3. CASE \E w \in Worker : Receive(w, m) /\ msg'[m] = [msg[m] EXCEPT !.state = "hidden", !.received = @ + 1]
        BY <2>2, <4>3 DEF MessageState
      <4>4. CASE \E w \in Worker : (Repark(w) /\ Sent(m, JobOf(w).inst, JobOf(w).seq, JobOf(w).entry))
                                \/ (EnqueueRetry(w) /\ Sent(m, wk[w].inst, wk[w].seq, JobOf(w).entry))
        BY <4>4 DEF Sent, Repark, EnqueueRetry
      <4>5. CASE \E q \in Req : SendRetry(q) /\ Sent(m, Of(q), rq[q].seq, Of(q))
        BY <4>5 DEF Sent
      <4>6. QED
        BY <1>2, <4>1, <4>2, <4>3, <4>4, <4>5, MsgMoves DEF Moved
    <3>2. ASSUME NEW w \in Worker, wk[w].pc # "idle"
          PROVE  JobOf(w).seq \in Nat /\ JobOf(w).seq <= seqs
      BY <2>2, <3>2 DEF JobOf, Shape, WorkersNamed, WorkerOK
    <3>3. NoMsg.job.seq = 0
      BY DEF NoMsg, FirstJob
    <3>4. QED
      BY <2>1, <2>2, <3>1, <3>2, <3>3
  <2>4. ASSUME NEW w \in Worker
        PROVE  wk'[w].seq <= seqs'
    <3>1. \/ wk'[w].seq = wk[w].seq \/ wk'[w].seq = 0
          \/ \E m \in Msg : wk'[w].seq = msg[m].job.seq
          \/ wk'[w].seq = seqs + 1 /\ wk[w].inst = None /\ Track(w)
      <4>1. CASE wk'[w] = wk[w] \/ Ends(w)
        BY <4>1 DEF Ends, IdleWorker
      <4>2. CASE Goes(w) /\ ~Ends(w)
        BY <2>2, <4>2 DEF Goes, Swallows, IdleWorker, WorkerState
      <4>3. QED
        BY <1>2, <4>1, <4>2, WorkerGoes
    <3>2. wk[w].inst = None /\ Track(w) => seqs' = seqs + 1
      BY DEF Track
    <3>3. QED
      BY <2>1, <2>2, <3>1, <3>2
  <2>5. ASSUME NEW q \in Req
        PROVE  rq'[q].seq <= seqs'
    <3>1. rq'[q].seq = rq[q].seq \/ rq'[q].seq = 0 \/ (rq'[q].seq = seqs + 1 /\ seqs' = seqs + 1)
      <4>1. CASE rq' = rq
        BY <4>1
      <4>2. ASSUME NEW p \in Req, RequestActs(p)
            PROVE  rq'[q].seq = rq[q].seq \/ rq'[q].seq = 0 \/ (rq'[q].seq = seqs + 1 /\ seqs' = seqs + 1)
        <5>1. CASE ReadInstance(p)
          BY <2>2, <5>1 DEF ReadInstance, RequestState, Shape, Typed, RqTyped
        <5>2. CASE RetryWrites(p)
          BY <2>2, <5>2 DEF RetryWrites, RequestState, Shape, Typed, RqTyped
        <5>3. CASE Answer(p)
          BY <2>2, <5>3 DEF Answer, IdleReq, RequestState, Shape, Typed, RqTyped
        <5>4. CASE \E pc : ToRq(p, pc)
          BY <2>2, <5>4 DEF ToRq, RequestState, Shape, Typed, RqTyped
        <5>5. CASE Fetch(p)
          BY <2>2, <5>5 DEF Fetch, RequestState, Shape, Typed, RqTyped
        <5>6. QED
          BY <4>2, <5>1, <5>2, <5>3, <5>4, <5>5 DEF RequestActs, RequestStep, SendRetry, CancelAtMaestro, CancelRejected,
             CancelWrites, LiveWrites, LiveCounts, RequestCrashes
      <4>3. QED
        BY <1>2, <4>1, <4>2, RequestsFrame
    <3>2. QED
      BY <2>1, <2>2, <3>1
  <2>6. ASSUME NEW i \in Inst
        PROVE  inst'[i].seq <= seqs'
    <3>1. \/ inst'[i].seq = inst[i].seq \/ inst'[i].seq = 0
          \/ \E w \in Worker : inst'[i].seq = wk[w].seq
          \/ inst'[i].seq = seqs + 1 /\ \E q \in Req : RetryWrites(q)
          \/ inst'[i].seq = seqs + 1 /\ \E w \in Worker : Track(w) /\ wk[w].inst = None
      <4>1. CASE inst'[i] = inst[i]
        BY <4>1
      <4>2. CASE Rewritten(i)
        BY <2>2, <4>2 DEF Rewritten, InstanceState, NoInst
      <4>3. QED
        BY <1>2, <4>1, <4>2, ItemWrites
    <3>2. (\E q \in Req : RetryWrites(q)) \/ (\E w \in Worker : Track(w) /\ wk[w].inst = None) => seqs' = seqs + 1
      BY DEF RetryWrites, Track
    <3>3. QED
      BY <2>1, <2>2, <3>1, <3>2
  <2>7. QED
    BY <2>3, <2>4, <2>5, <2>6 DEF SeqsBegun
<1>3. QED
  BY <1>1, <1>2

(* The number of an item changes only by a retry by hand, and that tears   *)
(* the item if a worker is past the guard with it.                         *)
Retried(i) == \E q \in Req : RetryWrites(q) /\ Of(q) = i /\ inst'[i] = [inst[i] EXCEPT !.status = "running", !.seq = seqs + 1]

(* An item that is not torn keeps its number or is retried by hand, with   *)
(* nobody past the guard.                                                  *)
LEMMA SeqStands ==
  ASSUME Shape, PastIsLatest, Next, NEW i \in Inst, i \notin hist'.torn, Exists(i)
  PROVE  inst'[i].seq = inst[i].seq \/ (Retried(i) /\ \A w \in Worker : Past(w) => wk[w].inst # i)
<1>1. inst[i] # NoInst /\ inst[i] \in InstanceState /\ i \notin hist.torn
  BY TornGrows DEF Exists, NoInst, Shape, Typed, InstTyped
<1>2. CASE inst'[i] = inst[i]
  BY <1>2
<1>3. ASSUME NEW w \in Worker, Track(w), wk[w].inst = i
      PROVE  inst[i].seq = wk[w].seq
  <2>1. Past(w) /\ wk[w].inst # None
    BY <1>3, LadderAssumption DEF Past, Track
  <2>2. QED
    BY <1>1, <1>3, <2>1 DEF PastIsLatest
<1>4. ASSUME NEW q \in Req, RetryWrites(q), Of(q) = i
      PROVE  \A w \in Worker : Past(w) => wk[w].inst # i
  BY <1>4 DEF RetryWrites, Tear, Busy, Shape, Typed, History
<1>5. CASE Rewritten(i)
  BY <1>1, <1>3, <1>4, <1>5 DEF Rewritten, Retried, InstanceState
<1>6. QED
  BY <1>2, <1>5, ItemWrites

(* The mark of a swallowed end stays with an item until it is retried by   *)
(* hand, and with an entry until a worker reports that it is retried.      *)
LEMMA MarksOfSwallowed ==
  ASSUME Shape, Next
  PROVE  /\ \A i \in Inst : i \in hist.unended => i \in hist'.unended \/ \E q \in Req : RetryWrites(q) /\ Of(q) = i
         /\ Match \in hist.unsettled => Match \in hist'.unsettled \/ \E w \in Worker : ReportRetry(w) /\ JobOf(w).entry = Match
<1> DEFINE Stays == hist.unended \subseteq hist'.unended /\ hist.unsettled \subseteq hist'.unsettled
<1>1. hist \in History
  BY DEF Shape, Typed
<1>2. ASSUME NEW w \in Worker, WorkerActs(w), ~ReportRetry(w)
      PROVE  Stays
  BY <1>1, <1>2 DEF WorkerActs, WorkerStep, ReplyLost, TryFails, CatchFails, WorkerCrashes, Receive, Repark, RetryGuard, GateDenies,
     DenyInstance, LaunchSucceeds, LaunchFails, Persist, CompleteEntry, UpdateStats, Track,
     EnqueueRetry, ReadEntry, FailInstance, FailEntry, CountFailure, Ack, History
<1>3. ASSUME NEW w \in Worker, ReportRetry(w)
      PROVE  hist'.unended = hist.unended /\ hist'.unsettled = hist.unsettled \ {JobOf(w).entry}
  BY <1>1, <1>3 DEF ReportRetry, History
<1>4. ASSUME NEW q \in Req, RequestActs(q), ~RetryWrites(q)
      PROVE  Stays
  <2>1. CASE LiveWrites(q)
    <3>1. hist' = hist \/ \E P, O : hist' = [hist EXCEPT !.polled = P, !.overridden = O]
      BY <2>1 DEF LiveWrites
    <3>2. QED
      BY <1>1, <3>1 DEF History
  <2>2. CASE LiveCounts(q)
    BY <1>1, <2>2 DEF LiveCounts, Counted, History
  <2>3. CASE CancelWrites(q) \/ CancelRejected(q) \/ RequestCrashes(q)
    BY <1>1, <2>3 DEF CancelWrites, CancelRejected, RequestCrashes, Tear, History
  <2>4. QED
    BY <1>4, <2>1, <2>2, <2>3 DEF RequestActs, ReadInstance, RequestStep, SendRetry, CancelAtMaestro, Fetch
<1>5. ASSUME NEW q \in Req, RetryWrites(q)
      PROVE  hist'.unended = hist.unended \ {Of(q)} /\ hist'.unsettled = hist.unsettled
  BY <1>1, <1>5 DEF RetryWrites, History
<1>6. CASE SyncCounts \/ SyncCharges
  BY <1>1, <1>6 DEF SyncCounts, Counted, SyncCharges, History
<1>7. ASSUME NEW m \in Msg, ReappearEarly(m)
      PROVE  Stays
  BY <1>1, <1>7 DEF ReappearEarly, History
<1>8. ASSUME NEW k \in Mid, WorkflowEnds(k)
      PROVE  Stays
  BY <1>1, <1>8 DEF WorkflowEnds, History
<1>9. CASE UNCHANGED hist
  BY <1>9
<1>10. QED
  BY <1>2, <1>3, <1>4, <1>5, <1>6, <1>7, <1>8, <1>9 DEF Next, Rest, vars, Reappear, SyncScans, SyncStep, SyncWrites,
     WorkerActs, RequestActs

(* Every step keeps PastIsLatest.                                          *)
LEMMA PastIsLatestKept == Shape /\ PastIsLatest /\ [Next]_vars => PastIsLatest'
<1> SUFFICES ASSUME Shape, PastIsLatest, [Next]_vars PROVE PastIsLatest'
  OBVIOUS
<1>1. CASE UNCHANGED vars
  BY <1>1 DEF vars, PastIsLatest, Past
<1>2. ASSUME Next, NEW w \in Worker, Past(w)', wk'[w].inst # None, wk'[w].inst \notin hist'.torn
      PROVE  inst'[wk'[w].inst].seq = wk'[w].seq
  <2>1. wk[w] \in WorkerState /\ WorkerOK(w) /\ (wk[w].pc # "idle" => JobOf(w) \in Job)
    BY DEF Shape, Typed, WkTyped, WorkersNamed, WorkerOK, JobOf, MsgTyped, MessageState
  <2>2. CASE Past(w) /\ wk'[w].inst = wk[w].inst /\ wk'[w].seq = wk[w].seq
    <3>1. wk[w].inst \in Inst /\ Exists(wk[w].inst) /\ wk[w].inst \notin hist.torn
      BY <1>2, <2>1, <2>2, TornGrows DEF WorkerState, WorkerOK, Past, Numbered
    <3>2. inst[wk[w].inst].seq = wk[w].seq
      BY <1>2, <2>2, <3>1 DEF PastIsLatest
    <3>3. QED
      BY <1>2, <2>2, <3>1, <3>2, SeqStands
  <2>3. CASE RetryGuard(w) /\ ~Superseded(w) /\ wk'[w] = [wk[w] EXCEPT !.pc = "launch"]
    <3>1. inst' = inst /\ wk'[w].inst = wk[w].inst /\ wk'[w].seq = wk[w].seq /\ wk[w].pc = "guard"
      BY <2>1, <2>3 DEF RetryGuard, WorkerState
    <3>2. CASE JobOf(w).inst # None
      <4>1. wk[w].inst = JobOf(w).inst /\ wk[w].seq = JobOf(w).seq /\ inst[wk[w].inst].seq # 0
        BY <2>1, <3>1, <3>2, <1>2 DEF WorkerOK, Numbered
      <4>2. QED
        BY <2>3, <3>1, <3>2, <4>1 DEF Superseded
    <3>3. CASE JobOf(w).inst = None
      <4>1. wk[w].inst = None
        BY <2>1, <3>1, <3>3 DEF WorkerOK
      <4>2. QED
        BY <4>1, <3>1, <1>2
    <3>4. QED
      BY <3>2, <3>3
  <2>4. ASSUME NEW i \in Inst, inst[i] = NoInst, inst' = [inst EXCEPT ![i] = [NoInst EXCEPT !.status = "running", !.seq = seqs + 1]],
               wk'[w] = [wk[w] EXCEPT !.pc = "report", !.inst = i, !.seq = seqs + 1]
        PROVE  inst'[wk'[w].inst].seq = wk'[w].seq
    BY <2>1, <2>4 DEF Shape, Typed, InstTyped, NoInst, WorkerState
  <2>5. CASE wk'[w] = wk[w]
    BY <1>2, <2>2, <2>5 DEF Past
  <2>6. CASE Goes(w)
    <3>1. \/ Past(w) /\ wk'[w].inst = wk[w].inst /\ wk'[w].seq = wk[w].seq
          \/ RetryGuard(w) /\ ~Superseded(w) /\ wk'[w] = [wk[w] EXCEPT !.pc = "launch"]
          \/ \E i \in Inst : /\ inst[i] = NoInst /\ inst' = [inst EXCEPT ![i] = [NoInst EXCEPT !.status = "running", !.seq = seqs + 1]]
                            /\ wk'[w] = [wk[w] EXCEPT !.pc = "report", !.inst = i, !.seq = seqs + 1]
      <4>4. wk'[w].pc \notin {"idle", "guard", "ack", "failEntry", "count"}
        BY <1>2 DEF Past
      <4>1. ASSUME Ends(w)
            PROVE  FALSE
        <5>1. wk'[w].pc = "idle"
          BY <4>1 DEF Ends, IdleWorker
        <5>2. QED
          BY <4>4, <5>1
      <4>5. ASSUME NEW m \in Msg, wk'[w] = [IdleWorker EXCEPT !.pc = "guard", !.msg = m, !.inst = msg[m].job.inst, !.seq = msg[m].job.seq]
            PROVE  FALSE
        <5>1. wk'[w].pc = "guard"
          BY <4>5 DEF IdleWorker
        <5>2. QED
          BY <4>4, <5>1
      <4>2. CASE RetryGuard(w) /\ wk'[w] = [wk[w] EXCEPT !.pc = IF Superseded(w) THEN "ack" ELSE "launch"]
        BY <1>2, <2>1, <4>2 DEF Past, WorkerState
      <4>6. ASSUME NEW pc \in {"ack", "enqueue", "failInst", "failEntry"}, Swallows(w, pc)
            PROVE  Past(w) /\ wk'[w].inst = wk[w].inst /\ wk'[w].seq = wk[w].seq
        BY <4>4, <4>6, SwallowedStays DEF Past
      <4>3. QED
        BY <1>2, <2>1, <2>6, <4>1, <4>2, <4>5, <4>6 DEF Goes, Past, WorkerState, Repark, GateDenies, DenyInstance, LaunchSucceeds, LaunchFails,
           ReplyLost, TryFails, Persist, CompleteEntry, UpdateStats, Track, ReportRetry, EnqueueRetry, ReadEntry, FailInstance,
           FailEntry, CountFailure
    <3>2. QED
      BY <2>2, <2>3, <2>4, <3>1
  <2>7. QED
    BY <1>2, <2>5, <2>6, WorkerGoes
<1>3. QED
  BY <1>1, <1>2 DEF PastIsLatest

(* Of the retry sequences of an instance only the latest launches, unless  *)
(* a retry by hand met a worker that was past the guard: whoever passes    *)
(* the guard has the number of the item, and keeps it until it is done.    *)
THEOREM OnlyTheLatestLaunches == Spec => []OnlyLatestLaunches
<1>1. Init => PastIsLatest
  BY DEF Init, PastIsLatest, Past, IdleWorker
<1>2. Shape /\ PastIsLatest => OnlyLatestLaunches
  <2> SUFFICES ASSUME Shape, PastIsLatest, NEW w \in Worker, wk[w].pc = "launch", JobOf(w).inst # None, JobOf(w).inst \notin hist.torn
               PROVE  inst[JobOf(w).inst].seq = JobOf(w).seq
    BY DEF OnlyLatestLaunches
  <2>1. wk[w].inst = JobOf(w).inst /\ wk[w].seq = JobOf(w).seq /\ Past(w)
    BY DEF Shape, WorkersNamed, WorkerOK, Past
  <2>2. QED
    BY <2>1 DEF PastIsLatest
<1>3. QED
  BY <1>1, <1>2, PastIsLatestKept, ShapeHoldsAtFirst, ShapeKept, PTL DEF Spec

-----------------------------------------------------------------------------
(* Cancels by hand: who notes them, and what becomes of a cancelled item.  *)
LEMMA CancelsFrame ==
  ASSUME Shape, Next
  PROVE  \/ hist'.cancelled = hist.cancelled
         \/ \E q \in Req : RetryWrites(q) /\ hist'.cancelled = hist.cancelled \ {Of(q)}
         \/ \E q \in Req : CancelWrites(q) /\ hist'.cancelled = hist.cancelled \cup {Of(q)}
<1>1. hist \in History
  BY DEF Shape, Typed
<1>2. ASSUME NEW w \in Worker, WorkerActs(w)
      PROVE  hist'.cancelled = hist.cancelled
  BY <1>1, <1>2 DEF WorkerActs, WorkerStep, ReplyLost, TryFails, CatchFails, AfterSwallowed, WorkerCrashes, Receive, Repark, RetryGuard, GateDenies,
     DenyInstance, LaunchSucceeds, LaunchFails, Persist, CompleteEntry, UpdateStats, Track, ReportRetry,
     EnqueueRetry, ReadEntry, FailInstance, FailEntry, CountFailure, Ack, History
<1>3. ASSUME NEW q \in Req, RequestActs(q), ~RetryWrites(q), ~CancelWrites(q)
      PROVE  hist'.cancelled = hist.cancelled
  <2>1. CASE LiveWrites(q)
    <3>1. hist' = hist \/ \E P, O : hist' = [hist EXCEPT !.polled = P, !.overridden = O]
      BY <2>1 DEF LiveWrites
    <3>2. QED
      BY <1>1, <3>1 DEF History
  <2>2. CASE LiveCounts(q)
    BY <1>1, <2>2 DEF LiveCounts, Counted, History
  <2>3. CASE CancelRejected(q) \/ RequestCrashes(q)
    BY <1>1, <2>3 DEF CancelRejected, RequestCrashes, History
  <2>4. QED
    BY <1>3, <2>1, <2>2, <2>3 DEF RequestActs, ReadInstance, RequestStep, SendRetry, CancelAtMaestro, Fetch
<1>4. CASE \E q \in Req : RetryWrites(q) \/ CancelWrites(q)
  BY <1>1, <1>4 DEF RetryWrites, CancelWrites, History
<1>5. CASE SyncCounts \/ SyncCharges
  BY <1>1, <1>5 DEF SyncCounts, Counted, SyncCharges, History
<1>6. ASSUME NEW m \in Msg, ReappearEarly(m)
      PROVE  hist'.cancelled = hist.cancelled
  BY <1>1, <1>6 DEF ReappearEarly, History
<1>7. ASSUME NEW k \in Mid, WorkflowEnds(k)
      PROVE  hist'.cancelled = hist.cancelled
  BY <1>1, <1>7 DEF WorkflowEnds, History
<1>8. QED
  BY <1>2, <1>3, <1>4, <1>5, <1>6, <1>7 DEF Next, Rest, vars, Reappear, SyncScans, SyncStep, SyncWrites,
     WorkerActs, RequestActs

(* Where a request goes, and a request that does not move.                 *)
LEMMA RequestGoes ==
  ASSUME Shape, Next, NEW q \in Req
  PROVE  \/ rq'[q] = rq[q]
         \/ rq'[q].pc \in {"done", "count"} /\ RequestActs(q)
         \/ rq'[q].pc = "write" /\ (CancelAtMaestro(q) \/ CancelRejected(q)) /\ rq[q].pc = "act" /\ rq'[q] = [rq[q] EXCEPT !.pc = "write"]
         \/ rq'[q].pc = "write" /\ Fetch(q) /\ rq'[q] = [rq[q] EXCEPT !.pc = "write", !.seen = MaestroStatus(rq[q].mid)]
         \/ rq'[q].pc = "send" /\ RetryWrites(q) /\ rq'[q] = [rq[q] EXCEPT !.pc = "send", !.seq = seqs + 1]
         \/ \E i \in Inst, k \in Kinds[q] :
              /\ ReadInstance(q) /\ inst[i].status # "none" /\ Allowed(k, i)
              /\ rq'[q] = [pc |-> FirstPc(k, i), kind |-> k, inst |-> i, status |-> inst[i].status,
                           mid |-> inst[i].mid, manual |-> inst[i].manual, seq |-> 0, seen |-> "none"]
<1>1. RqTyped /\ rq[q] \in RequestState
  BY DEF Shape, Typed, RqTyped
<1>2. CASE rq' = rq
  BY <1>2
<1>3. ASSUME NEW p \in Req, RequestActs(p), p # q
      PROVE  rq'[q] = rq[q]
  BY <1>1, <1>3 DEF RequestActs, ReadInstance, RequestStep, RequestCrashes, RetryWrites, SendRetry, CancelAtMaestro,
     CancelRejected, CancelWrites, Fetch, LiveWrites, LiveCounts, Answer, ToRq, RqTyped
<1>4. ASSUME Answer(q) \/ ToRq(q, "count")
      PROVE  rq'[q].pc \in {"done", "count"}
  <2>1. CASE Answer(q)
    <3>1. rq' = [rq EXCEPT ![q] = [IdleReq EXCEPT !.pc = "done", !.kind = rq[q].kind, !.inst = Of(q)]]
      BY <2>1 DEF Answer
    <3>2. rq'[q] = [IdleReq EXCEPT !.pc = "done", !.kind = rq[q].kind, !.inst = Of(q)]
      BY <1>1, <3>1 DEF RqTyped
    <3>3. QED
      BY <3>2 DEF IdleReq
  <2>2. CASE ToRq(q, "count")
    BY <1>1, <2>2 DEF ToRq, RqTyped, RequestState
  <2>3. QED
    BY <1>4, <2>1, <2>2
<1>5. CASE SendRetry(q) \/ CancelWrites(q) \/ LiveWrites(q) \/ LiveCounts(q) \/ RequestCrashes(q)
  <2>1. Answer(q) \/ ToRq(q, "count")
    BY <1>5 DEF SendRetry, CancelWrites, LiveWrites, LiveCounts, RequestCrashes
  <2>2. QED
    BY <1>4, <1>5, <2>1 DEF RequestActs, RequestStep
<1>6. CASE CancelAtMaestro(q) \/ CancelRejected(q)
  BY <1>1, <1>6 DEF CancelAtMaestro, CancelRejected, ToRq, RqTyped, RequestState
<1>7. CASE Fetch(q)
  BY <1>1, <1>7 DEF Fetch, RqTyped, RequestState
<1>8. CASE RetryWrites(q)
  BY <1>1, <1>8 DEF RetryWrites, RqTyped, RequestState
<1>9. CASE ReadInstance(q)
  <2>1. PICK i \in Inst, k \in Kinds[q] :
          /\ inst[i].status # "none" /\ Allowed(k, i)
          /\ rq' = [rq EXCEPT ![q] = [pc |-> FirstPc(k, i), kind |-> k, inst |-> i, status |-> inst[i].status,
                                      mid |-> inst[i].mid, manual |-> inst[i].manual, seq |-> 0, seen |-> "none"]]
    BY <1>9 DEF ReadInstance
  <2>2. QED
    BY <1>1, <1>9, <2>1 DEF RqTyped
<1>10. QED
  BY <1>2, <1>3, <1>5, <1>6, <1>7, <1>8, <1>9, RequestsFrame DEF RequestActs, RequestStep

(* Nobody else has a reading of the item when it is cancelled by hand, or  *)
(* else the item is torn; and whoever reads it later finds it cancelled.   *)
LEMMA CancelTears ==
  ASSUME Shape, NEW q \in Req, CancelWrites(q), Of(q) \notin hist'.torn
  PROVE  /\ \A w \in Worker : Past(w) => wk[w].inst # Of(q)
         /\ \A p \in Req : p # q /\ rq[p].pc \in {"act", "fetch", "write"} => rq[p].inst # Of(q)
<1>1. hist'.torn = Tear(Of(q), q)
  BY DEF CancelWrites, Shape, Typed, History
<1>2. QED
  BY <1>1 DEF Tear, Busy

(* Every step keeps CancelKnown.                                           *)
LEMMA CancelKnownKept == Shape /\ CancelKnown /\ [Next]_vars => CancelKnown'
<1> SUFFICES ASSUME Shape, CancelKnown, [Next]_vars PROVE CancelKnown'
  OBVIOUS
<1>1. CASE UNCHANGED vars
  BY <1>1 DEF vars, CancelKnown, Past, ManualCancel, Exists
<1>2. ASSUME Next, NEW i \in Inst, i \in hist'.cancelled
      PROVE  Exists(i)' /\ inst'[i].manual
  <2>1. CASE i \in hist.cancelled
    <3>1. Exists(i) /\ inst[i].manual
      BY <2>1 DEF CancelKnown
    <3>2. inst[i] # NoInst
      BY <3>1 DEF Exists, NoInst
    <3>3. QED
      BY <1>2, <3>1, <3>2, Grows, MarksStand
  <2>2. CASE i \notin hist.cancelled
    <3>1. PICK q \in Req : CancelWrites(q) /\ Of(q) = i
      BY <1>2, <2>2, CancelsFrame
    <3>2. inst' = [inst EXCEPT ![i] = [inst[i] EXCEPT !.status = "cancelled", !.manual = TRUE]]
      BY <3>1 DEF CancelWrites, SetInst
    <3>3. QED
      BY <3>2 DEF Shape, Typed, InstTyped, InstanceState, Exists
  <2>3. QED
    BY <2>1, <2>2
<1>3. ASSUME Next, NEW i \in Inst, i \in hist'.cancelled, i \notin hist'.torn, i \notin hist'.polled
      PROVE  /\ inst'[i].status = "cancelled"
             /\ \A w \in Worker : Past(w)' => wk'[w].inst # i
             /\ \A q \in Req : rq'[q].pc \in {"fetch", "write"} /\ rq'[q].kind = "live" /\ rq'[q].inst = i => ManualCancel(q)'
  <2>1. i \notin hist.torn /\ i \notin hist.polled
    BY <1>3, TornGrows
  <2>2. inst[i] \in InstanceState /\ InstTyped
    BY DEF Shape, Typed, InstTyped
  <2>3. \/ i \in hist.cancelled /\ ~(\E q \in Req : RetryWrites(q) /\ Of(q) = i)
        \/ \E q \in Req : CancelWrites(q) /\ Of(q) = i
    <3>1. CASE \E q \in Req : RetryWrites(q) /\ Of(q) = i
      <4>1. PICK q \in Req : RetryWrites(q) /\ Of(q) = i
        BY <3>1
      <4>2. hist'.cancelled = hist.cancelled \ {i}
        BY <4>1 DEF RetryWrites, Shape, Typed, History
      <4>3. QED
        BY <1>3, <4>2
    <3>2. CASE \E q \in Req : CancelWrites(q) /\ Of(q) = i
      BY <3>2
    <3>3. CASE ~(\E q \in Req : CancelWrites(q) /\ Of(q) = i) /\ ~(\E q \in Req : RetryWrites(q) /\ Of(q) = i)
      BY <1>3, <3>3, CancelsFrame
    <3>4. QED
      BY <3>1, <3>2, <3>3
  <2>4. CASE \E q \in Req : CancelWrites(q) /\ Of(q) = i
    <3>1. PICK q \in Req : CancelWrites(q) /\ Of(q) = i
      BY <2>4
    <3>2. inst'[i].status = "cancelled" /\ wk' = wk
      BY <3>1, <2>2 DEF CancelWrites, SetInst, InstTyped, InstanceState, jobs
    <3>3. \A w \in Worker : Past(w) => wk[w].inst # i
      BY <1>3, <3>1, CancelTears
    <3>4. \A p \in Req : p # q => rq'[p] = rq[p] /\ (rq[p].pc \in {"fetch", "write"} => rq[p].inst # i)
      BY <1>3, <3>1, CancelTears DEF CancelWrites, Answer, Shape, Typed, RqTyped
    <3>5. rq'[q].pc = "done"
      BY <3>1 DEF CancelWrites, Answer, IdleReq, Shape, Typed, RqTyped
    <3>6. QED
      BY <3>2, <3>3, <3>4, <3>5 DEF Past
  <2>5. CASE i \in hist.cancelled /\ ~(\E q \in Req : RetryWrites(q) /\ Of(q) = i) /\ ~(\E q \in Req : CancelWrites(q) /\ Of(q) = i)
    <3>1. inst[i].status = "cancelled" /\ inst[i].manual /\ inst[i] # NoInst
          /\ (\A w \in Worker : Past(w) => wk[w].inst # i)
          /\ (\A q \in Req : rq[q].pc \in {"fetch", "write"} /\ rq[q].kind = "live" /\ rq[q].inst = i => ManualCancel(q))
      BY <2>1, <2>5 DEF CancelKnown, NoInst
    <3>2. inst'[i].status = "cancelled"
      <4>1. CASE inst'[i] = inst[i]
        BY <3>1, <4>1
      <4>2. ASSUME NEW w \in Worker, FailInstance(w) \/ Persist(w) \/ Track(w)
            PROVE  JobOf(w).inst # i /\ wk[w].inst # i
        <5>1. Past(w) /\ wk[w].inst # i /\ wk[w].pc # "idle"
          BY <3>1, <4>2 DEF Past, FailInstance, Persist, Track
        <5>2. i # None
          BY LadderAssumption
        <5>3. QED
          BY <5>1, <5>2 DEF Shape, WorkersNamed, WorkerOK
      <4>3. ASSUME NEW q \in Req, LiveWrites(q), Of(q) = i
            PROVE  inst'[i] = inst[i]
        <5>1. ManualCancel(q)
          BY <3>1, <4>3 DEF LiveWrites, Of
        <5>2. ~StatusChanged(q)
          BY <5>1 DEF StatusChanged
        <5>3. CASE inst' = inst
          BY <5>3
        <5>4. CASE inst' # inst
          <6>1. \E O : hist' = [hist EXCEPT !.polled = hist.polled \cup {i}, !.overridden = O]
            BY <4>3, <5>2, <5>4 DEF LiveWrites
          <6>2. QED
            BY <1>3, <6>1 DEF Shape, Typed, History
        <5>5. QED
          BY <5>3, <5>4
      <4>4. CASE Rewritten(i)
        BY <2>2, <2>5, <3>1, <4>2, <4>3, <4>4 DEF Rewritten, InstanceState
      <4>5. QED
        BY <1>3, <4>1, <4>4, ItemWrites
    <3>3. ASSUME NEW w \in Worker, Past(w)', wk'[w].inst = i
          PROVE  FALSE
      <4>1. wk[w] \in WorkerState /\ WorkerOK(w) /\ i # None /\ wk'[w].pc \notin {"idle", "guard", "ack", "failEntry", "count"}
        BY <3>3, LadderAssumption DEF Shape, Typed, WkTyped, WorkersNamed, Past
      <4>2. CASE wk'[w] = wk[w]
        BY <3>1, <3>3, <4>2 DEF Past
      <4>3. CASE Ends(w)
        BY <4>1, <4>3 DEF Ends, IdleWorker
      <4>4. ASSUME NEW m \in Msg, wk'[w] = [IdleWorker EXCEPT !.pc = "guard", !.msg = m, !.inst = msg[m].job.inst, !.seq = msg[m].job.seq]
            PROVE  FALSE
        <5>1. wk'[w].pc = "guard"
          BY <4>4 DEF IdleWorker
        <5>2. QED
          BY <4>1, <5>1
      <4>5. CASE RetryGuard(w) /\ wk'[w] = [wk[w] EXCEPT !.pc = IF Superseded(w) THEN "ack" ELSE "launch"]
        <5>1. wk[w].pc = "guard" /\ wk[w].inst = i /\ ~Superseded(w)
          BY <3>3, <4>1, <4>5 DEF RetryGuard, WorkerState
        <5>2. JobOf(w).inst = i
          BY <4>1, <5>1 DEF WorkerOK
        <5>3. QED
          BY <3>1, <4>1, <5>1, <5>2 DEF Superseded
      <4>6. ASSUME NEW j \in Inst, inst[j] = NoInst, wk'[w] = [wk[w] EXCEPT !.pc = "report", !.inst = j, !.seq = seqs + 1]
            PROVE  FALSE
        BY <3>1, <3>3, <4>1, <4>6 DEF WorkerState
      <4>7. CASE Past(w) /\ wk'[w].inst = wk[w].inst
        BY <3>1, <3>3, <4>7
      <4>9. ASSUME NEW pc \in {"ack", "enqueue", "failInst", "failEntry"}, Swallows(w, pc)
            PROVE  FALSE
        BY <3>1, <3>3, <4>1, <4>9, SwallowedStays DEF Past
      <4>10. Goes(w)
        BY <1>3, <4>2, WorkerGoes
      <4>8. QED
        BY <4>1, <4>3, <4>4, <4>5, <4>6, <4>7, <4>9, <4>10 DEF Goes, Past, WorkerState, Repark, GateDenies, DenyInstance,
           LaunchSucceeds, LaunchFails, ReplyLost, TryFails, Persist, CompleteEntry, UpdateStats, Track, ReportRetry, EnqueueRetry,
           ReadEntry, FailInstance, FailEntry, CountFailure
    <3>4. ASSUME NEW q \in Req, rq'[q].pc \in {"fetch", "write"}, rq'[q].kind = "live", rq'[q].inst = i
          PROVE  rq'[q].status = "cancelled" /\ rq'[q].manual
      <4>1. rq[q] \in RequestState /\ RequestOK(q)
        BY DEF Shape, Typed, RqTyped, RequestsNamed
      <4>2. CASE rq'[q] = rq[q]
        BY <3>1, <3>4, <4>2 DEF ManualCancel
      <4>3. CASE rq[q].pc = "act" /\ rq'[q] = [rq[q] EXCEPT !.pc = "write"]
        BY <3>4, <4>1, <4>3 DEF RequestState, RequestOK
      <4>4. CASE Fetch(q) /\ rq'[q] = [rq[q] EXCEPT !.pc = "write", !.seen = MaestroStatus(rq[q].mid)]
        <5>1. /\ rq'[q].status = rq[q].status /\ rq'[q].manual = rq[q].manual
              /\ rq'[q].kind = rq[q].kind /\ rq'[q].inst = rq[q].inst
          BY <4>1, <4>4 DEF RequestState
        <5>2. rq[q].pc = "fetch" /\ rq[q].kind = "live" /\ rq[q].inst = i
          BY <3>4, <4>4, <5>1 DEF Fetch
        <5>3. QED
          BY <3>1, <5>1, <5>2 DEF ManualCancel
      <4>5. ASSUME NEW j \in Inst, NEW k \in Kinds[q],
                   rq'[q] = [pc |-> FirstPc(k, j), kind |-> k, inst |-> j, status |-> inst[j].status,
                             mid |-> inst[j].mid, manual |-> inst[j].manual, seq |-> 0, seen |-> "none"]
            PROVE  rq'[q].status = "cancelled" /\ rq'[q].manual
        BY <3>1, <3>4, <4>5
      <4>6. QED
        BY <1>3, <3>4, <4>2, <4>3, <4>4, <4>5, RequestGoes
    <3>5. QED
      BY <3>2, <3>3, <3>4 DEF ManualCancel
  <2>6. QED
    BY <2>3, <2>4, <2>5
<1>4. hist \in History /\ (Next => hist' \in History)
  BY HistoryKept DEF Shape, Typed
<1>5. CASE Next
  BY <1>2, <1>3, <1>4, <1>5 DEF CancelKnown, History, Exists
<1>6. QED
  BY <1>1, <1>5

(* A cancel by hand stands until somebody asks for a retry, unless it met  *)
(* a worker, a request or the sync with an older reading, or the live view *)
(* wrote because the step had moved.                                       *)
THEOREM CancelStands == Spec => []ManualCancelStands
<1>1. Init => CancelKnown
  BY DEF Init, CancelKnown
<1>2. CancelKnown => ManualCancelStands
  BY DEF CancelKnown, ManualCancelStands
<1>3. QED
  BY <1>1, <1>2, CancelKnownKept, ShapeHoldsAtFirst, ShapeKept, PTL DEF Spec

-----------------------------------------------------------------------------
(* Where a worker comes from, told by where it is then.                    *)
Came(w) ==
  \/ wk'[w].pc = "ack" /\ (\/ Repark(w) \/ DenyInstance(w) \/ UpdateStats(w) \/ EnqueueRetry(w)
                           \/ RetryGuard(w) /\ Superseded(w)
                           \/ GateDenies(w) /\ JobOf(w).inst = None
                           \/ CountFailure(w)
                           \/ CatchFails(w) /\ wk[w].pc \in {"denyInst", "failEntry", "count"})
  \/ wk'[w].pc = "launch" /\ RetryGuard(w)
  \/ wk'[w].pc = "denyInst" /\ GateDenies(w)
  \/ wk'[w].pc = "persist" /\ LaunchSucceeds(w)
  \/ wk'[w].pc \in {"track", "final"} /\ (LaunchFails(w) \/ ReplyLost(w) \/ TryFails(w))
  \/ wk'[w].pc = "complete" /\ Persist(w)
  \/ wk'[w].pc = "stats" /\ CompleteEntry(w)
  \/ wk'[w].pc = "report" /\ Track(w)
  \/ wk'[w].pc = "enqueue" /\ (ReportRetry(w) \/ (CatchFails(w) /\ wk[w].pc = "report"))
  \/ wk'[w].pc = "failEntry" /\ (FailInstance(w) \/ (ReadEntry(w) /\ JobOf(w).inst = None)
                                \/ (CatchFails(w) /\ (wk[w].pc = "failInst" \/ (wk[w].pc = "final" /\ JobOf(w).inst = None))))
  \/ wk'[w].pc = "failInst" /\ (ReadEntry(w) \/ (CatchFails(w) /\ wk[w].pc = "final" /\ JobOf(w).inst # None))
  \/ wk'[w].pc = "count" /\ FailEntry(w)

(* A worker that moved came one of these ways, with the same message.      *)
LEMMA WorkerComes ==
  ASSUME Shape, Next, NEW w \in Worker
  PROVE  \/ wk'[w] = wk[w]
         \/ wk'[w].pc = "idle" /\ Ends(w)
         \/ wk'[w].pc = "guard" /\ \E m \in Msg : Receive(w, m)
         \/ Came(w) /\ wk[w].pc # "idle" /\ wk'[w].msg = wk[w].msg
                    /\ (~Track(w) => wk'[w].inst = wk[w].inst /\ wk'[w].seq = wk[w].seq)
<1>1. wk[w] \in WorkerState
  BY DEF Shape, Typed, WkTyped
<1> DEFINE SameJob == wk'[w].msg = wk[w].msg /\ (~Track(w) => wk'[w].inst = wk[w].inst /\ wk'[w].seq = wk[w].seq)
<1>2. CASE Ends(w)
  BY <1>2 DEF Ends, IdleWorker
<1>3. CASE \E m \in Msg : Receive(w, m) /\ wk'[w] = [IdleWorker EXCEPT !.pc = "guard", !.msg = m, !.inst = msg[m].job.inst, !.seq = msg[m].job.seq]
  BY <1>3 DEF IdleWorker
<1>4. ASSUME NEW pc, wk'[w] = [wk[w] EXCEPT !.pc = pc]
      PROVE  SameJob /\ wk'[w].pc = pc
  BY <1>1, <1>4 DEF WorkerState
<1>5. ASSUME NEW k, wk'[w] = [wk[w] EXCEPT !.pc = "persist", !.mid = k]
      PROVE  SameJob /\ wk'[w].pc = "persist"
  BY <1>1, <1>5 DEF WorkerState
<1>6. ASSUME NEW i, Track(w), wk'[w] = [wk[w] EXCEPT !.pc = "report", !.inst = i, !.seq = seqs + 1]
      PROVE  SameJob /\ wk'[w].pc = "report"
  BY <1>1, <1>6 DEF WorkerState
<1>7. ASSUME NEW b, NEW pc, wk'[w] = [wk[w] EXCEPT !.again = b, !.pc = pc]
      PROVE  SameJob /\ wk'[w].pc = pc
  BY <1>1, <1>7 DEF WorkerState
<1> HIDE DEF SameJob
<1>8. CASE \/ Repark(w) /\ wk'[w] = [wk[w] EXCEPT !.pc = "ack"]
           \/ DenyInstance(w) /\ wk'[w] = [wk[w] EXCEPT !.pc = "ack"]
           \/ UpdateStats(w) /\ wk'[w] = [wk[w] EXCEPT !.pc = "ack"]
           \/ EnqueueRetry(w) /\ wk'[w] = [wk[w] EXCEPT !.pc = "ack"]
           \/ CountFailure(w) /\ wk'[w] = [wk[w] EXCEPT !.pc = "ack"]
  <2>1. SameJob /\ wk'[w].pc = "ack"
    BY <1>4, <1>8
  <2>2. wk[w].pc # "idle"
    BY <1>8 DEF Repark, DenyInstance, UpdateStats, EnqueueRetry, CountFailure
  <2>3. Repark(w) \/ DenyInstance(w) \/ UpdateStats(w) \/ EnqueueRetry(w) \/ CountFailure(w)
    BY <1>8
  <2>4. Came(w)
    BY <2>1, <2>3 DEF Came
  <2>5. QED
    BY <2>1, <2>2, <2>4 DEF SameJob
<1>9. CASE RetryGuard(w) /\ wk'[w] = [wk[w] EXCEPT !.pc = IF Superseded(w) THEN "ack" ELSE "launch"]
  <2>1. SameJob /\ wk'[w].pc = IF Superseded(w) THEN "ack" ELSE "launch"
    BY <1>4, <1>9
  <2>2. QED
    <3>1. Came(w)
      BY <1>9, <2>1 DEF Came
    <3>2. QED
      BY <1>9, <2>1, <3>1 DEF SameJob, RetryGuard
<1>10. CASE GateDenies(w) /\ wk'[w] = [wk[w] EXCEPT !.pc = IF JobOf(w).inst = None THEN "ack" ELSE "denyInst"]
  <2>1. SameJob /\ wk'[w].pc = IF JobOf(w).inst = None THEN "ack" ELSE "denyInst"
    BY <1>4, <1>10
  <2>2. QED
    BY <1>10, <2>1 DEF SameJob, Came, GateDenies
<1>11. CASE \E k \in Mid : LaunchSucceeds(w) /\ wk'[w] = [wk[w] EXCEPT !.pc = "persist", !.mid = k]
  BY <1>5, <1>11 DEF SameJob, Came, LaunchSucceeds
<1>12. CASE \E pc \in {"track", "final"} : (LaunchFails(w) \/ ReplyLost(w) \/ TryFails(w)) /\ wk'[w] = [wk[w] EXCEPT !.pc = pc]
  <2>1. SameJob /\ wk'[w].pc \in {"track", "final"}
    BY <1>4, <1>12
  <2>2. wk[w].pc # "idle"
    BY <1>12 DEF LaunchFails, ReplyLost, TryFails
  <2>3. QED
    BY <1>12, <2>1, <2>2 DEF SameJob, Came
<1>13. CASE \/ Persist(w) /\ wk'[w] = [wk[w] EXCEPT !.pc = "complete"]
            \/ CompleteEntry(w) /\ wk'[w] = [wk[w] EXCEPT !.pc = "stats"]
            \/ ReportRetry(w) /\ wk'[w] = [wk[w] EXCEPT !.pc = "enqueue"]
            \/ FailInstance(w) /\ wk'[w] = [wk[w] EXCEPT !.pc = "failEntry"]
            \/ FailEntry(w) /\ wk'[w] = [wk[w] EXCEPT !.pc = "count"]
            \/ Track(w) /\ wk'[w] = [wk[w] EXCEPT !.pc = "report"]
  <2>1. wk[w].pc # "idle"
    BY <1>13 DEF Persist, CompleteEntry, ReportRetry, FailInstance, FailEntry, Track
  <2>2. SameJob
    BY <1>4, <1>13
  <2>3. \/ Persist(w) /\ wk'[w].pc = "complete"
        \/ CompleteEntry(w) /\ wk'[w].pc = "stats"
        \/ ReportRetry(w) /\ wk'[w].pc = "enqueue"
        \/ FailInstance(w) /\ wk'[w].pc = "failEntry"
        \/ FailEntry(w) /\ wk'[w].pc = "count"
        \/ Track(w) /\ wk'[w].pc = "report"
    BY <1>4, <1>13
  <2>4. Came(w)
    BY <2>3 DEF Came
  <2>5. QED
    BY <2>1, <2>2, <2>4 DEF SameJob
<1>14. CASE \E i \in Inst : Track(w) /\ wk'[w] = [wk[w] EXCEPT !.pc = "report", !.inst = i, !.seq = seqs + 1]
  BY <1>6, <1>14 DEF SameJob, Came, Track
<1>15. CASE \E b \in BOOLEAN : ReadEntry(w) /\ wk'[w] = [wk[w] EXCEPT !.again = b, !.pc = IF JobOf(w).inst = None THEN "failEntry" ELSE "failInst"]
  <2>1. SameJob /\ wk'[w].pc = IF JobOf(w).inst = None THEN "failEntry" ELSE "failInst"
    BY <1>7, <1>15
  <2>2. QED
    BY <1>15, <2>1 DEF SameJob, Came, ReadEntry
<1>16. CASE \E pc \in {"ack", "enqueue", "failInst", "failEntry"} : Swallows(w, pc)
  <2>1. PICK pc \in {"ack", "enqueue", "failInst", "failEntry"} : Swallows(w, pc)
    BY <1>16
  <2>2. SameJob /\ wk'[w].pc = pc /\ CatchFails(w) /\ AfterSwallowed(w) = pc /\ wk[w].pc \in BestEffort
    BY <1>4, <2>1 DEF Swallows, CatchFails
  <2>3. /\ pc = "ack" => wk[w].pc \in {"denyInst", "failEntry", "count"}
        /\ pc = "enqueue" => wk[w].pc = "report"
        /\ pc = "failInst" => wk[w].pc = "final" /\ JobOf(w).inst # None
        /\ pc = "failEntry" => wk[w].pc = "failInst" \/ (wk[w].pc = "final" /\ JobOf(w).inst = None)
    BY <2>2 DEF AfterSwallowed, BestEffort, Rethrown
  <2>4. Came(w)
    BY <2>2, <2>3 DEF Came
  <2>5. QED
    BY <2>2, <2>4 DEF SameJob, BestEffort
<1>17. QED
  BY <1>2, <1>3, <1>8, <1>9, <1>10, <1>11, <1>12, <1>13, <1>14, <1>15, <1>16, WorkerGoes DEF Goes

(* An item begins to track a ladder when a first attempt fails, or when    *)
(* somebody asks for a retry.                                              *)
TrackedAnew(i) ==
  \E w \in Worker : /\ Track(w) /\ wk[w].inst = None
                    /\ wk' = [wk EXCEPT ![w].pc = "report", ![w].inst = i, ![w].seq = seqs + 1]
                    /\ inst'[i] = [NoInst EXCEPT !.status = "running", !.seq = seqs + 1]

(* There is no other beginning of a ladder: a launch writes its id, the    *)
(* live view and the sync write only items that have one.                  *)
LEMMA TrackingBegins ==
  ASSUME Shape, RunHasId, Next, NEW i \in Inst, ~OnlyTracking(i), OnlyTracking(i)'
  PROVE  TrackedAnew(i) \/ Retried(i)
<1>1. inst[i] \in InstanceState /\ inst'[i].status = "running" /\ inst'[i].mid = None
  BY DEF Shape, Typed, InstTyped, OnlyTracking
<1>2. Rewritten(i)
  BY ItemWrites DEF OnlyTracking
<1>3. ASSUME NEW w \in Worker, Persist(w)
      PROVE  wk[w].mid # None
  BY <1>3 DEF Shape, WorkersNamed, WorkerOK, Persist
<1>4. ASSUME NEW w \in Worker,
             \/ DenyInstance(w) /\ JobOf(w).inst = i /\ inst'[i] = [inst[i] EXCEPT !.status = "cancelled"] /\ inst[i].status = "running"
             \/ FailInstance(w) /\ JobOf(w).inst = i /\ inst'[i] = [inst[i] EXCEPT !.status = "failed"]
             \/ Persist(w) /\ JobOf(w).inst = None /\ inst[i] = NoInst
                           /\ inst'[i] = [NoInst EXCEPT !.status = "running", !.mid = wk[w].mid]
             \/ Persist(w) /\ JobOf(w).inst = i /\ inst'[i] = [inst[i] EXCEPT !.status = "running", !.mid = wk[w].mid]
      PROVE  FALSE
  BY <1>1, <1>3, <1>4 DEF InstanceState, NoInst
<1>5. ASSUME NEW w \in Worker, Track(w), wk[w].inst = i, inst'[i] = [inst[i] EXCEPT !.seq = wk[w].seq]
      PROVE  FALSE
  BY <1>1, <1>5 DEF InstanceState, OnlyTracking
<1>6. ASSUME NEW q \in Req, CancelWrites(q), inst'[i] = [inst[i] EXCEPT !.status = "cancelled", !.manual = TRUE]
      PROVE  FALSE
  BY <1>1, <1>6 DEF InstanceState
<1>7. ASSUME NEW q \in Req, LiveWrites(q), Of(q) = i, inst'[i] = [inst[i] EXCEPT !.status = rq[q].seen]
      PROVE  FALSE
  BY <1>1, <1>7 DEF InstanceState, RunHasId, LiveWrites, Of
<1>8. ASSUME inst'[i] = [inst[i] EXCEPT !.counted = TRUE]
      PROVE  FALSE
  BY <1>1, <1>8 DEF InstanceState, OnlyTracking
<1>9. ASSUME SyncWrites, sync.inst = i, inst[i].status = "running",
             inst'[i] = [inst[i] EXCEPT !.status = MaestroStatus(sync.mid), !.countedFailed = @ \/ NewFailure(MaestroStatus(sync.mid))]
      PROVE  FALSE
  BY <1>1, <1>9 DEF InstanceState, OnlyTracking
<1>10. QED
  BY <1>2, <1>4, <1>5, <1>6, <1>7, <1>8, <1>9 DEF Rewritten, TrackedAnew, Retried

(* Who has an id at Maestro, and who has settled the item.                 *)
LEMMA RunHasIdKept == Shape /\ PastIsLatest /\ SeqsBegun /\ RunHasId /\ [Next]_vars => RunHasId'
<1> SUFFICES ASSUME Shape, PastIsLatest, SeqsBegun, RunHasId, [Next]_vars PROVE RunHasId'
  OBVIOUS
<1>1. CASE UNCHANGED vars
  BY <1>1 DEF vars, RunHasId, JobOf, OnlyTracking
<1>2. ASSUME Next, NEW i \in Inst, Exists(i), inst[i].mid # None
      PROVE  inst'[i].mid # None
  BY <1>2, MarksStand DEF Exists, NoInst
<1>3. ASSUME NEW w \in Worker, wk[w].pc # "idle"
      PROVE  /\ wk[w] \in WorkerState /\ WorkerOK(w) /\ JobOf(w) \in Job
             /\ JobOf(w).inst # None => JobOf(w).inst \in Inst /\ Exists(JobOf(w).inst)
             /\ JobOf(w).seq \in Nat /\ JobOf(w).seq <= seqs
  <2>1. wk[w] \in WorkerState /\ WorkerOK(w) /\ wk[w].msg \in Msg
    BY <1>3 DEF Shape, Typed, WkTyped, WorkersNamed, WorkerOK
  <2>2. JobOf(w) \in Job
    BY <2>1 DEF Shape, Typed, MsgTyped, MessageState, JobOf
  <2>3. QED
    BY <1>3, <2>1, <2>2 DEF Job, WorkerOK, Numbered, SeqsBegun, JobOf
<1>4. ASSUME Next, NEW w \in Worker, wk'[w].pc \in {"complete", "stats"}, JobOf(w)'.inst # None
      PROVE  inst'[JobOf(w)'.inst].mid # None
  <2>1. wk[w] \in WorkerState
    BY DEF Shape, Typed, WkTyped
  <2>3. wk[w].pc # "idle" /\ wk'[w].msg = wk[w].msg /\ wk'[w].pc # "idle"
    BY <1>4, WorkerComes
  <2>2. wk[w].pc \in {"complete", "stats"} \/ Persist(w)
    BY <1>4, WorkerComes DEF Came, CompleteEntry
  <2>4. JobOf(w)' = JobOf(w)
    BY <1>4, <2>3, JobsStand
  <2>5. CASE wk[w].pc \in {"complete", "stats"}
    BY <1>2, <1>3, <1>4, <2>3, <2>4, <2>5 DEF RunHasId
  <2>6. CASE Persist(w)
    <3>1. JobOf(w).inst # None /\ wk[w].mid # None /\ inst' = [inst EXCEPT ![JobOf(w).inst] = [inst[JobOf(w).inst] EXCEPT !.status = "running", !.mid = wk[w].mid]]
      BY <1>3, <1>4, <2>4, <2>6 DEF Persist, SetInst, WorkerOK
    <3>2. QED
      BY <1>3, <2>3, <2>4, <3>1 DEF Shape, Typed, InstTyped, InstanceState
  <2>7. QED
    BY <2>2, <2>5, <2>6
<1>5. ASSUME Next, NEW w \in Worker, wk'[w].pc \in {"failEntry", "count"}, JobOf(w)'.inst # None,
             JobOf(w)'.inst \notin hist'.torn \cup hist'.unended
      PROVE  ~OnlyTracking(JobOf(w).inst)' \/ inst'[JobOf(w)'.inst].seq # JobOf(w)'.seq
  <2>1. wk[w] \in WorkerState
    BY DEF Shape, Typed, WkTyped
  <2>3. wk[w].pc # "idle" /\ wk'[w].msg = wk[w].msg /\ wk'[w].pc # "idle"
    BY <1>5, WorkerComes
  <2>2. \/ wk[w].pc \in {"failEntry", "count"} \/ FailInstance(w) \/ (ReadEntry(w) /\ JobOf(w).inst = None)
        \/ CatchFails(w) /\ (wk[w].pc = "failInst" \/ JobOf(w).inst = None)
    BY <1>5, WorkerComes DEF Came, FailEntry
  <2>4. JobOf(w)' = JobOf(w)
    BY <1>5, <2>3, JobsStand
  <2>9. PICK i : i = JobOf(w).inst
    OBVIOUS
  <2>5. i \in Inst /\ Exists(i) /\ i \notin hist'.torn /\ i \notin hist.torn /\ i \notin hist'.unended
        /\ JobOf(w).seq \in Nat /\ JobOf(w).seq <= seqs
    BY <2>9, <1>3, <1>5, <2>3, <2>4, TornGrows
  <2>6. CASE wk[w].pc \in {"failEntry", "count"}
    <3>5. ASSUME NEW q \in Req, RetryWrites(q), Of(q) = i
          PROVE  inst'[i].seq = seqs + 1
      BY <2>5, <3>5 DEF RetryWrites, SetInst, Shape, Typed, InstTyped, InstanceState
    <3>2. CASE \E q \in Req : RetryWrites(q) /\ Of(q) = i
      <4>1. inst'[i].seq = seqs + 1
        BY <3>2, <3>5
      <4>2. QED
        BY <2>9, <2>4, <2>5, <4>1 DEF Shape, Typed
    <3>3. CASE ~\E q \in Req : RetryWrites(q) /\ Of(q) = i
      <4>7. i \notin hist.unended
        BY <1>5, <2>5, <3>3, MarksOfSwallowed
      <4>6. ~OnlyTracking(i) \/ inst[i].seq # JobOf(w).seq
        BY <2>9, <1>5, <2>4, <2>5, <2>6, <4>7 DEF RunHasId
      <4>8. ~Retried(i)
        BY <3>3 DEF Retried
      <4>1. inst'[i].seq = inst[i].seq
        BY <1>5, <2>5, <4>8, SeqStands
      <4>2. ~TrackedAnew(i)
        <5>1. CASE \E v \in Worker : Track(v) /\ inst'[i] = [NoInst EXCEPT !.status = "running", !.seq = seqs + 1]
          BY <2>5, <4>1, <5>1 DEF NoInst, SeqsBegun, Shape, Typed, InstTyped, InstanceState
        <5>2. QED
          BY <5>1 DEF TrackedAnew
      <4>3. ~OnlyTracking(i) => ~OnlyTracking(i)'
        BY <1>5, <2>5, <4>8, <4>2, TrackingBegins
      <4>4. OnlyTracking(i)' <=> inst'[i].status = "running" /\ inst'[i].mid = None
        BY <2>4 DEF OnlyTracking
      <4>5. QED
        BY <2>9, <2>4, <4>6, <4>1, <4>3 DEF OnlyTracking
    <3>4. QED
      BY <3>2, <3>3
  <2>7. CASE FailInstance(w)
    <3>1. inst'[i].status = "failed"
      BY <2>9, <2>5, <2>7 DEF FailInstance, SetInst, Shape, Typed, InstTyped, InstanceState
    <3>2. QED
      BY <2>9, <2>4, <3>1 DEF OnlyTracking
  <2>10. ASSUME CatchFails(w), wk[w].pc = "failInst"
         PROVE  FALSE
    <3>1. hist'.unended = hist.unended \cup {j \in Inst : j = JobOf(w).inst /\ wk[w].pc \in {"denyInst", "failInst"}}
      BY <2>10 DEF CatchFails, Shape, Typed, History
    <3>2. QED
      BY <2>5, <2>9, <2>10, <3>1
  <2>8. QED
    BY <1>5, <2>2, <2>4, <2>6, <2>7, <2>10
<1>6. ASSUME Next, NEW q \in Req, rq'[q].pc \in {"fetch", "write"}, rq'[q].kind = "live"
      PROVE  inst'[rq'[q].inst].mid # None
  <2>1. rq[q] \in RequestState /\ RequestOK(q)
    BY DEF Shape, Typed, RqTyped, RequestsNamed
  <2>2. CASE rq[q].pc \in {"fetch", "write"} /\ rq[q].kind = "live" /\ rq'[q].inst = rq[q].inst
    <3>1. rq[q].inst \in Inst /\ Exists(rq[q].inst) /\ inst[rq[q].inst].mid # None
      BY <2>1, <2>2 DEF RequestOK, RunHasId
    <3>2. QED
      BY <1>2, <1>6, <2>2, <3>1
  <2>3. ASSUME NEW i \in Inst, NEW k \in Kinds[q], ReadInstance(q), Allowed(k, i),
               rq'[q] = [pc |-> FirstPc(k, i), kind |-> k, inst |-> i, status |-> inst[i].status,
                         mid |-> inst[i].mid, manual |-> inst[i].manual, seq |-> 0, seen |-> "none"]
        PROVE  inst'[rq'[q].inst].mid # None
    <3>1. k = "live" /\ rq'[q].inst = i
      BY <1>6, <2>3
    <3>2. QED
      BY <2>3, <3>1 DEF Allowed, ReadInstance
  <2>4. ASSUME rq[q].pc = "act" /\ rq'[q] = [rq[q] EXCEPT !.pc = "write"]
        PROVE  FALSE
    BY <1>6, <2>1, <2>4 DEF RequestState, RequestOK
  <2>5. CASE rq[q].pc = "fetch" /\ rq'[q] = [rq[q] EXCEPT !.pc = "write", !.seen = MaestroStatus(rq[q].mid)]
    <3>1. rq'[q].kind = rq[q].kind /\ rq'[q].inst = rq[q].inst
      BY <2>1, <2>5 DEF RequestState
    <3>2. QED
      BY <1>6, <2>2, <2>5, <3>1
  <2>6. QED
    BY <1>6, <2>2, <2>3, <2>4, <2>5, RequestGoes DEF Fetch
<1>7. CASE Next
  BY <1>4, <1>5, <1>6, <1>7 DEF RunHasId
<1>8. QED
  BY <1>1, <1>7

(* A job that has just been sent is pending: nobody holds its message.     *)
LEMMA SentIsPending ==
  ASSUME Shape, Next, NEW i \in Inst, NEW n \in Msg, NEW job, Send(n, job), job.inst = i, job.seq = inst'[i].seq,
         \A v \in Worker : wk'[v].pc # "idle" => wk[v].pc # "idle" /\ wk'[v].msg = wk[v].msg
  PROVE  Borne(i)'
<1>1. msg'[n].state = "visible" /\ msg'[n].job = job
  BY DEF Send, Shape, Typed, MsgTyped
<1>2. \A w \in Worker : ~(wk'[w].pc = "ack" /\ wk'[w].msg = n)
  BY DEF Send, FreshMsg, Unused, Held
<1>3. Pending(n, i)'
  BY <1>1, <1>2 DEF Pending, Alive, Acked
<1>4. QED
  BY <1>3 DEF Borne

(* So is the job of a worker that re-sends it or sends the next attempt.   *)
LEMMA RequeuesArePending ==
  ASSUME Shape, Next, NEW i \in Inst, NEW w \in Worker, Repark(w) \/ EnqueueRetry(w), inst' = inst,
         Repark(w) => JobOf(w).inst = i /\ JobOf(w).seq = inst[i].seq,
         EnqueueRetry(w) => wk[w].inst = i /\ wk[w].seq = inst[i].seq
  PROVE  Borne(i)'
<1>1. WkTyped /\ wk[w] \in WorkerState /\ wk[w].pc # "idle"
  BY DEF Shape, Typed, WkTyped, Repark, EnqueueRetry
<1>2. JobOf(w) \in Job
  BY <1>1 DEF Shape, Typed, MsgTyped, MessageState, WorkersNamed, WorkerOK, JobOf
<1>3. ASSUME NEW v \in Worker, wk'[v].pc # "idle"
      PROVE  wk[v].pc # "idle" /\ wk'[v].msg = wk[v].msg
  <2>1. wk' = [wk EXCEPT ![w] = [wk[w] EXCEPT !.pc = "ack"]]
    BY DEF Repark, EnqueueRetry, Step
  <2>2. QED
    BY <1>1, <1>3, <2>1 DEF WkTyped, WorkerState
<1>4. CASE Repark(w)
  <2> DEFINE job == [JobOf(w) EXCEPT !.early = FALSE]
  <2>1. PICK n \in Msg : Send(n, job)
    BY <1>4 DEF Repark
  <2>2. job.inst = i /\ job.seq = inst'[i].seq
    BY <1>2, <1>4 DEF Job
  <2> HIDE DEF job
  <2>3. QED
    BY <1>3, <2>1, <2>2, SentIsPending
<1>5. CASE EnqueueRetry(w)
  <2> DEFINE a == JobOf(w).attempt + 1
             b == a \in Deferred
             job == [JobOf(w) EXCEPT !.attempt = a, !.inst = wk[w].inst, !.seq = wk[w].seq, !.early = b]
  <2>1. PICK n \in Msg : Send(n, job)
    BY <1>5 DEF EnqueueRetry
  <2>2. job.inst = i /\ job.seq = inst'[i].seq
    BY <1>2, <1>5 DEF Job
  <2> HIDE DEF job
  <2>3. QED
    BY <1>3, <2>1, <2>2, SentIsPending
<1>6. QED
  BY <1>4, <1>5

(* A carrier hands on the item it carries before it lets go of it.         *)
LEMMA MessageCarriesOn ==
  ASSUME Shape, RunHasId, Next, NEW i \in Inst, OnlyTracking(i), OnlyTracking(i)', i \notin hist'.torn,
         i \notin hist.unended, i \notin hist'.unended, inst'[i].seq = inst[i].seq, NEW m \in Msg, Pending(m, i)
  PROVE  Borne(i)'
<1>1. msg[m] \in MessageState /\ i # None /\ i \notin hist.torn
  BY TornGrows, LadderAssumption DEF Shape, Typed, MsgTyped
<1>2. Alive(m)' /\ msg'[m].job = msg[m].job
  <2>1. ~(\E w \in Worker : Ack(w) /\ wk[w].msg = m)
    BY DEF Pending, Acked, Ack
  <2>2. msg[m].state # "none"
    BY DEF Pending, Alive
  <2>3. CASE msg'[m] = msg[m]
    BY <2>3 DEF Pending, Alive
  <2>4. CASE \E s \in {"visible", "dead"} : msg'[m] = [msg[m] EXCEPT !.state = s]
    BY <1>1, <2>4 DEF MessageState, Alive
  <2>5. CASE msg'[m] = [msg[m] EXCEPT !.state = "hidden", !.received = @ + 1]
    BY <1>1, <2>5 DEF MessageState, Alive
  <2>6. QED
    BY <2>1, <2>2, <2>3, <2>4, <2>5, MsgMoves DEF Moved, Sent
<1>3. CASE ~Acked(m)'
  BY <1>2, <1>3 DEF Pending, Borne
<1>4. ASSUME NEW w \in Worker, wk'[w].pc = "ack", wk'[w].msg = m
      PROVE  Borne(i)'
  <2>1. wk'[w] # wk[w]
    BY <1>4 DEF Pending, Acked
  <2>2. Came(w) /\ wk[w].pc # "idle" /\ wk[w].msg = m
    BY <1>4, <2>1, WorkerComes
  <2>3. JobOf(w) = msg[m].job /\ JobOf(w).inst = i /\ JobOf(w).seq = inst[i].seq
    BY <2>2 DEF JobOf, Pending
  <2>4. wk[w].inst = i /\ wk[w].seq = inst[i].seq
    BY <1>1, <2>2, <2>3 DEF Shape, WorkersNamed, WorkerOK
  <2>5. CASE Repark(w) \/ EnqueueRetry(w)
    <3>1. inst' = inst
      BY <2>5 DEF Repark, EnqueueRetry
    <3>2. QED
      BY <2>3, <2>4, <2>5, <3>1, RequeuesArePending
  <2>6. CASE RetryGuard(w) /\ Superseded(w)
    BY <2>3, <2>6 DEF Superseded, OnlyTracking, RetryGuard
  <2>7. CASE DenyInstance(w)
    <3>1. inst'[i].status = "cancelled"
      BY <2>3, <2>7 DEF DenyInstance, SetInst, OnlyTracking, Shape, Typed, InstTyped, InstanceState
    <3>2. QED
      BY <3>1 DEF OnlyTracking
  <2>8. CASE UpdateStats(w)
    BY <1>1, <2>3, <2>8 DEF UpdateStats, RunHasId, OnlyTracking
  <2>9. CASE CountFailure(w)
    BY <1>1, <2>3, <2>9 DEF CountFailure, RunHasId
  <2>11. CASE CatchFails(w)
    <3>1. hist'.unended = hist.unended \cup {j \in Inst : j = JobOf(w).inst /\ wk[w].pc \in {"denyInst", "failInst"}}
      BY <2>11 DEF CatchFails, Shape, Typed, History
    <3>2. wk[w].pc \notin {"failEntry", "count"}
      BY <1>1, <2>3 DEF RunHasId
    <3>3. wk[w].pc # "denyInst"
      BY <2>3, <3>1
    <3>4. QED
      BY <1>4, <2>2, <2>11, <3>2, <3>3 DEF Came, CatchFails, BestEffort, Repark, DenyInstance, UpdateStats, EnqueueRetry, RetryGuard, GateDenies,
         CountFailure
  <2>10. QED
    BY <1>1, <1>4, <2>2, <2>3, <2>5, <2>6, <2>7, <2>8, <2>9, <2>11 DEF Came
<1>5. QED
  BY <1>3, <1>4 DEF Acked

(* The same of a worker on its way to the queue.                           *)
LEMMA WorkerCarriesOn ==
  ASSUME Shape, Next, NEW i \in Inst, i \notin hist'.torn, inst'[i].seq = inst[i].seq, NEW w \in Worker, Queueing(w, i)
  PROVE  Borne(i)'
<1>1. wk[w] \in WorkerState /\ wk[w].pc \in {"report", "enqueue"} /\ hist \in History
  BY DEF Shape, Typed, WkTyped, Queueing
<1>2. CASE wk'[w].pc \in {"report", "enqueue"} /\ wk'[w].inst = wk[w].inst /\ wk'[w].seq = wk[w].seq /\ wk'[w].msg = wk[w].msg
  <2>1. JobOf(w)' = JobOf(w)
    BY <1>1, <1>2, JobsStand
  <2>2. Queueing(w, i)'
    BY <1>2, <2>1 DEF Queueing
  <2>3. QED
    BY <2>2 DEF Borne
<1>3. CASE WorkerCrashes(w)
  BY <1>1, <1>3 DEF WorkerCrashes, Exposed, Queueing, History
<1>4. CASE EnqueueRetry(w)
  <2>1. inst' = inst /\ ~Repark(w)
    BY <1>1, <1>4 DEF EnqueueRetry, Repark
  <2>2. QED
    BY <1>4, <2>1, RequeuesArePending DEF Queueing
<1>5. CASE ReportRetry(w)
  <2>1. wk'[w] = [wk[w] EXCEPT !.pc = "enqueue"]
    BY <1>5 DEF ReportRetry, Step, Shape, Typed, WkTyped
  <2>2. QED
    BY <1>1, <1>2, <2>1 DEF WorkerState
<1>6. CASE wk'[w] = wk[w]
  BY <1>1, <1>2, <1>6
<1>9. CASE CatchFails(w)
  <2>1. \E pc \in {"ack", "enqueue", "failInst", "failEntry"} : Swallows(w, pc)
    BY <1>1, <1>9, CatchGoes
  <2>2. wk[w].pc = "report"
    BY <1>1, <1>9 DEF CatchFails, BestEffort
  <2>3. PICK pc \in {"ack", "enqueue", "failInst", "failEntry"} : Swallows(w, pc)
    BY <2>1
  <2>4. pc = "enqueue"
    BY <2>2, <2>3 DEF Swallows, AfterSwallowed
  <2>5. QED
    BY <1>2, <2>3, <2>4, SwallowedStays
<1>7. wk'[w] = wk[w] \/ WorkerCrashes(w) \/ EnqueueRetry(w) \/ ReportRetry(w) \/ CatchFails(w)
  BY <1>1, WorkerComes DEF Came, Ends, Ack, CountFailure, Receive, Repark, DenyInstance, UpdateStats, RetryGuard, GateDenies,
     LaunchSucceeds, LaunchFails, ReplyLost, TryFails, Persist, CompleteEntry, Track, FailInstance, ReadEntry, FailEntry
<1>8. QED
  BY <1>3, <1>4, <1>5, <1>6, <1>7, <1>9

(* The same of a retry request before its send.                            *)
LEMMA RequestCarriesOn ==
  ASSUME Shape, Next, NEW i \in Inst, i \notin hist'.torn, inst'[i].seq = inst[i].seq, NEW q \in Req, Sending(q, i)
  PROVE  Borne(i)'
<1>1. rq[q] \in RequestState /\ rq[q].pc = "send" /\ Of(q) = i /\ hist \in History
  BY DEF Shape, Typed, RqTyped, Sending, Of
<1>2. CASE rq'[q] = rq[q]
  <2>1. Sending(q, i)'
    BY <1>2 DEF Sending
  <2>2. QED
    BY <2>1 DEF Borne
<1>3. CASE RequestCrashes(q)
  BY <1>1, <1>3 DEF RequestCrashes, History
<1>4. CASE SendRetry(q)
  <2> DEFINE job == [FirstJob EXCEPT !.seq = rq[q].seq, !.inst = Of(q), !.entry = Of(q)]
  <2>1. PICK n \in Msg : Send(n, job)
    BY <1>4 DEF SendRetry
  <2>2. FirstJob \in Job
    BY LadderAssumption DEF FirstJob, Job, Entry
  <2>3. job.inst = i /\ job.seq = inst'[i].seq
    BY <1>1, <2>2 DEF Job, Sending
  <2>4. wk' = wk
    BY <1>4 DEF SendRetry, jobs
  <2> HIDE DEF job
  <2>5. QED
    BY <2>1, <2>3, <2>4, SentIsPending
<1>5. rq'[q] = rq[q] \/ RequestCrashes(q) \/ SendRetry(q)
  BY <1>1, RequestGoes DEF RequestActs, RequestStep, ReadInstance, CancelAtMaestro, CancelRejected, CancelWrites, Fetch,
     LiveWrites, LiveCounts, RetryWrites
<1>6. QED
  BY <1>2, <1>3, <1>4, <1>5

(* Every step keeps LadderBorne: a new ladder has its carrier, an old one  *)
(* keeps it or gets the next.                                              *)
LEMMA LadderBorneKept == Shape /\ PastIsLatest /\ RunHasId /\ LadderBorne /\ [Next]_vars => LadderBorne'
<1> SUFFICES ASSUME Shape, PastIsLatest, RunHasId, LadderBorne, [Next]_vars PROVE LadderBorne'
  OBVIOUS
<1>1. CASE UNCHANGED vars
  BY <1>1 DEF vars, LadderBorne, OnlyTracking, Borne, Pending, Alive, Acked, Queueing, JobOf, Sending
<1>2. ASSUME Next, NEW i \in Inst, OnlyTracking(i)', i \notin hist'.torn, i \notin hist'.unended
      PROVE  Borne(i)'
  <2>1. CASE TrackedAnew(i)
    <3>1. PICK w \in Worker : /\ Track(w) /\ wk[w].inst = None
                              /\ wk' = [wk EXCEPT ![w].pc = "report", ![w].inst = i, ![w].seq = seqs + 1]
                              /\ inst'[i] = [NoInst EXCEPT !.status = "running", !.seq = seqs + 1]
      BY <2>1 DEF TrackedAnew
    <3>2. wk'[w] = [wk[w] EXCEPT !.pc = "report", !.inst = i, !.seq = seqs + 1] /\ wk[w] \in WorkerState
      BY <3>1 DEF Shape, Typed, WkTyped
    <3>3. wk'[w].pc = "report" /\ wk'[w].inst = i /\ wk'[w].seq = seqs + 1 /\ wk'[w].msg = wk[w].msg /\ wk[w].pc # "idle"
      <4>1. wk[w].pc # "idle"
        BY <3>1 DEF Track
      <4>2. QED
        BY <3>2, <4>1 DEF WorkerState
    <3>4. JobOf(w)' = JobOf(w) /\ JobOf(w).inst = None
      BY <1>2, <3>1, <3>3, JobsStand DEF Shape, WorkersNamed, WorkerOK
    <3>5. inst'[i].seq = seqs + 1
      BY <3>1 DEF NoInst
    <3>6. Queueing(w, i)'
      BY <3>3, <3>4, <3>5 DEF Queueing
    <3>7. QED
      BY <3>6 DEF Borne
  <2>2. CASE \E q \in Req : RetryWrites(q) /\ Of(q) = i
    <3>0. PICK q \in Req : RetryWrites(q) /\ Of(q) = i
      BY <2>2
    <3>1. RetryWrites(q) /\ Of(q) = i /\ inst'[i] = [inst[i] EXCEPT !.status = "running", !.seq = seqs + 1]
      BY <3>0 DEF RetryWrites, SetInst, Shape, Typed, InstTyped
    <3>2. inst'[i].seq = seqs + 1
      BY <3>1 DEF Shape, Typed, InstTyped, InstanceState
    <3>3. rq'[q] = [rq[q] EXCEPT !.pc = "send", !.seq = seqs + 1] /\ rq[q] \in RequestState
      BY <3>1 DEF RetryWrites, Shape, Typed, RqTyped
    <3>4. rq'[q].pc = "send" /\ rq'[q].inst = i /\ rq'[q].seq = seqs + 1
      BY <3>1, <3>3 DEF RequestState, Of
    <3>5. Sending(q, i)'
      BY <3>2, <3>4 DEF Sending
    <3>6. QED
      BY <3>5 DEF Borne
  <2>3. CASE OnlyTracking(i) /\ ~\E q \in Req : RetryWrites(q) /\ Of(q) = i
    <3>1. Exists(i) /\ i \notin hist.torn /\ i \notin hist.unended
      BY <1>2, <2>3, TornGrows, MarksOfSwallowed DEF OnlyTracking, Exists
    <3>2. inst'[i].seq = inst[i].seq
      BY <1>2, <2>3, <3>1, SeqStands DEF Retried
    <3>3. Borne(i)
      BY <2>3, <3>1 DEF LadderBorne
    <3>4. ASSUME NEW m \in Msg, Pending(m, i)
          PROVE  Borne(i)'
      BY <1>2, <2>3, <3>1, <3>2, <3>4, MessageCarriesOn
    <3>5. QED
      BY <1>2, <3>2, <3>3, <3>4, WorkerCarriesOn, RequestCarriesOn DEF Borne
  <2>4. QED
    BY <1>2, <2>1, <2>2, <2>3, TrackingBegins DEF Retried
<1>3. CASE Next
  BY <1>2, <1>3 DEF LadderBorne
<1>4. QED
  BY <1>1, <1>3

(* No ladder is left without somebody who carries it on, whatever else is  *)
(* lost, delivered twice, cancelled, retried or dead in between, but where *)
(* a race or a crash tore it or the write that was to end the item failed  *)
(* and the launcher swallowed that: who tracks has a live message that is  *)
(* not about to be deleted, a worker on the way to the queue or a retry    *)
(* request before its send, each of them with the number of the item.      *)
THEOREM LadderIsNotStranded == Spec => []LadderNotStranded
<1>1. Init => SeqsBegun /\ PastIsLatest /\ RunHasId /\ LadderBorne
  <2> SUFFICES ASSUME Init PROVE SeqsBegun /\ PastIsLatest /\ RunHasId /\ LadderBorne
    OBVIOUS
  <2>1. \A m \in Msg : msg[m].job = FirstJob /\ FirstJob.seq = 0
    BY DEF Init, NoMsg, FirstJob
  <2>2. SeqsBegun
    BY <2>1 DEF Init, SeqsBegun, IdleWorker, IdleReq, NoInst
  <2>3. PastIsLatest /\ RunHasId /\ LadderBorne
    BY DEF Init, PastIsLatest, Past, IdleWorker, RunHasId, IdleReq, LadderBorne, OnlyTracking, NoInst
  <2>4. QED
    BY <2>2, <2>3
<1>2. Shape /\ LadderBorne => LadderNotStranded
  <2> SUFFICES ASSUME Shape, LadderBorne, NEW i \in Inst, OnlyTracking(i), i \notin hist.torn \cup hist.unended
               PROVE  Carried(i)
    BY DEF LadderNotStranded
  <2>1. Borne(i)
    BY DEF LadderBorne
  <2>2. QED
    BY <2>1 DEF Borne, Carried, Pending, Alive, Queueing, Sending
<1>3. QED
  BY <1>1, <1>2, SeqsBegunKept, PastIsLatestKept, RunHasIdKept, LadderBorneKept, ShapeHoldsAtFirst, ShapeKept, PTL DEF Spec

-----------------------------------------------------------------------------
(* Who carries a ladder carries it alone.  A message of a job for an item  *)
(* is held by one worker at a time, and hidden as long; and an item has    *)
(* one carrier at most: the torn ones, whose messages reappeared under a   *)
(* worker or whose worker died between the next job and its own, excepted. *)
HeldAlone ==
  \A w \in Worker : wk[w].pc # "idle" /\ JobOf(w).inst # None /\ JobOf(w).inst \notin hist.torn =>
    /\ msg[wk[w].msg].state = "hidden"
    /\ \A v \in Worker : wk[v].pc # "idle" /\ wk[v].msg = wk[w].msg => v = w
Carrier == ({"msg"} \X Msg) \cup ({"wk"} \X Worker) \cup ({"rq"} \X Req)
Bears(x, i) ==
  \/ x[1] = "msg" /\ Pending(x[2], i)
  \/ x[1] = "wk" /\ Queueing(x[2], i)
  \/ x[1] = "rq" /\ Sending(x[2], i)
OneBearer == \A i \in Inst \ hist.torn : \A x, y \in Carrier : Bears(x, i) /\ Bears(y, i) => x = y

(* Every step keeps HeldAlone: a held message that reappears tears its     *)
(* item, and a worker receives a message that is visible.                  *)
LEMMA HeldAloneKept == Shape /\ HeldAlone /\ [Next]_vars => HeldAlone'
<1> SUFFICES ASSUME Shape, HeldAlone, [Next]_vars PROVE HeldAlone'
  OBVIOUS
<1>1. CASE UNCHANGED vars
  BY <1>1 DEF vars, HeldAlone, JobOf
<1>2. ASSUME Next, NEW w \in Worker, wk'[w].pc # "idle", JobOf(w)'.inst # None, JobOf(w)'.inst \notin hist'.torn
      PROVE  /\ msg'[wk'[w].msg].state = "hidden"
             /\ \A v \in Worker : wk'[v].pc # "idle" /\ wk'[v].msg = wk'[w].msg => v = w
  <2>1. CASE wk[w].pc # "idle" /\ wk'[w].msg = wk[w].msg
    <3>1. JobOf(w)' = JobOf(w) /\ wk[w].msg \in Msg /\ JobOf(w).inst \notin hist.torn
      BY <1>2, <2>1, JobsStand, TornGrows DEF Shape, WorkersNamed, WorkerOK
    <3>2. /\ msg[wk[w].msg].state = "hidden"
          /\ \A v \in Worker : wk[v].pc # "idle" /\ wk[v].msg = wk[w].msg => v = w
      BY <1>2, <2>1, <3>1 DEF HeldAlone
    <3>3. PICK m \in Msg : m = wk[w].msg
      BY <3>1
    <3>4. msg'[m].state = "hidden"
      <4>1. CASE msg'[m] = msg[m]
        BY <3>2, <3>3, <4>1
      <4>2. ASSUME NEW v \in Worker, Ack(v), wk[v].msg = m
            PROVE  FALSE
        <5>1. v = w
          BY <3>2, <3>3, <4>2 DEF Ack
        <5>2. wk'[w].pc = "idle"
          BY <4>2, <5>1 DEF Ack, Leave, IdleWorker, Shape, Typed, WkTyped
        <5>3. QED
          BY <1>2, <5>2
      <4>3. ASSUME Reappear(m)
            PROVE  FALSE
        BY <2>1, <3>3, <4>3 DEF Reappear, Held
      <4>4. ASSUME ReappearEarly(m)
            PROVE  FALSE
        <5>1. JobOf(w).inst = msg[m].job.inst /\ hist \in History
          BY <3>3 DEF JobOf, Shape, Typed
        <5>2. JobOf(w).inst \in hist'.torn
          BY <1>2, <3>1, <4>4, <5>1 DEF ReappearEarly, History
        <5>3. QED
          BY <1>2, <3>1, <5>2
      <4>5. QED
        BY <1>2, <3>2, <3>3, <4>1, <4>2, <4>3, <4>4, MsgMoves DEF Moved, Sent, Receive
    <3>5. ASSUME NEW v \in Worker, wk'[v].pc # "idle", wk'[v].msg = m
          PROVE  v = w
      <4>1. ~(\E n \in Msg : Receive(v, n) /\ wk'[v].msg = n)
        BY <3>2, <3>3, <3>5 DEF Receive
      <4>2. wk[v].pc # "idle" /\ wk[v].msg = m
        <5>1. CASE wk'[v] = wk[v]
          BY <3>5, <5>1
        <5>2. ASSUME NEW n \in Msg, Receive(v, n)
              PROVE  wk'[v].msg = n
          BY <5>2 DEF Receive, IdleWorker, Shape, Typed, WkTyped
        <5>3. QED
          BY <1>2, <3>5, <4>1, <5>1, <5>2, WorkerComes
      <4>3. QED
        BY <3>2, <3>3, <4>2
    <3>6. QED
      BY <2>1, <3>3, <3>4, <3>5
  <2>2. CASE \E m \in Msg : Receive(w, m)
    <3>1. PICK m \in Msg : Receive(w, m)
      BY <2>2
    <3>2. wk'[w].msg = m /\ (\A v \in Worker : v # w => wk'[v] = wk[v]) /\ msg[m].state = "visible"
          /\ msg'[m].state = "hidden" /\ msg'[m].job = msg[m].job
      BY <3>1 DEF Receive, IdleWorker, Shape, Typed, WkTyped, MsgTyped, MessageState
    <3>3. msg[m].job.inst # None /\ msg[m].job.inst \notin hist.torn
      BY <1>2, <3>2, TornGrows DEF JobOf
    <3>4. ASSUME NEW v \in Worker, wk'[v].pc # "idle", wk'[v].msg = m, v # w
          PROVE  FALSE
      BY <3>2, <3>3, <3>4 DEF HeldAlone, JobOf
    <3>5. QED
      BY <3>2, <3>4
  <2>3. QED
    BY <1>2, <2>1, <2>2, WorkerComes
<1>3. CASE Next
  BY <1>2, <1>3 DEF HeldAlone
<1>4. QED
  BY <1>1, <1>3

(* Carriers of an item that is there come from carriers of it.             *)
SentBy(m, i) ==
  \/ \E w \in Worker : Repark(w) /\ JobOf(w).inst = i /\ JobOf(w).seq = inst[i].seq
  \/ \E w \in Worker : EnqueueRetry(w) /\ wk[w].inst = i /\ wk[w].seq = inst[i].seq
  \/ \E q \in Req : SendRetry(q) /\ Of(q) = i /\ rq[q].seq = inst[i].seq

(* A pending message of an item that keeps its number was pending before,  *)
(* or has just been sent.                                                  *)
LEMMA PendingBefore ==
  ASSUME Shape, Next, NEW i \in Inst, i \notin hist'.torn, inst'[i].seq = inst[i].seq, NEW m \in Msg, Pending(m, i)'
  PROVE  Pending(m, i) \/ (msg[m].state = "none" /\ ~Held(m) /\ SentBy(m, i))
<1>1. msg[m] \in MessageState /\ msg'[m].state \in {"visible", "hidden", "dead"} /\ msg'[m].job.inst = i /\ msg'[m].job.seq = inst[i].seq
  BY DEF Shape, Typed, MsgTyped, Pending, Alive
<1>2. ASSUME Alive(m), msg'[m].job = msg[m].job
      PROVE  Pending(m, i)
  <2>1. ASSUME NEW w \in Worker, wk[w].pc = "ack", wk[w].msg = m
        PROVE  FALSE
    <3>1. wk'[w].pc # "ack" \/ wk'[w].msg # m
      BY <2>1 DEF Pending, Acked
    <3>2. JobOf(w).inst = i /\ wk[w].inst = i /\ i # None
      BY <1>1, <1>2, <2>1, LadderAssumption DEF JobOf, Shape, WorkersNamed, WorkerOK
    <3>3. Ends(w) \/ Came(w)
      BY <2>1, <3>1, WorkerComes DEF Receive
    <3>4. ~Came(w)
      BY <2>1 DEF Came, Repark, DenyInstance, UpdateStats, EnqueueRetry, RetryGuard, GateDenies, CountFailure, LaunchSucceeds,
         LaunchFails, ReplyLost, TryFails, Persist, CompleteEntry, Track, ReportRetry, FailInstance, ReadEntry, FailEntry
    <3>5. CASE Ack(w)
      BY <1>1, <2>1, <3>5 DEF Ack, Shape, Typed, MsgTyped, NoMsg
    <3>6. CASE WorkerCrashes(w)
      BY <2>1, <3>2, <3>6 DEF WorkerCrashes, Exposed, Shape, Typed, History
    <3>7. QED
      BY <2>1, <3>3, <3>4, <3>5, <3>6 DEF Ends, CountFailure
  <2>2. QED
    BY <1>1, <1>2, <2>1 DEF Pending, Acked
<1>3. CASE msg'[m] = msg[m]
  BY <1>1, <1>2, <1>3 DEF Alive
<1>4. CASE \E s : msg'[m] = [msg[m] EXCEPT !.state = s] /\ msg[m].state \in {"visible", "hidden"}
  BY <1>1, <1>2, <1>4 DEF Alive, MessageState
<1>5. CASE msg'[m] = [msg[m] EXCEPT !.state = "hidden", !.received = @ + 1] /\ msg[m].state = "visible"
  BY <1>1, <1>2, <1>5 DEF Alive, MessageState
<1>6. ASSUME NEW w \in Worker, Ack(w), wk[w].msg = m
      PROVE  FALSE
  BY <1>1, <1>6 DEF Ack, Shape, Typed, MsgTyped, NoMsg
<1>7. ASSUME NEW w \in Worker, Repark(w), Sent(m, JobOf(w).inst, JobOf(w).seq, JobOf(w).entry)
      PROVE  msg[m].state = "none" /\ ~Held(m) /\ SentBy(m, i)
  BY <1>1, <1>7 DEF Sent, SentBy
<1>8. ASSUME NEW w \in Worker, EnqueueRetry(w), Sent(m, wk[w].inst, wk[w].seq, JobOf(w).entry)
      PROVE  msg[m].state = "none" /\ ~Held(m) /\ SentBy(m, i)
  BY <1>1, <1>8 DEF Sent, SentBy
<1>9. ASSUME NEW q \in Req, SendRetry(q), Sent(m, Of(q), rq[q].seq, Of(q))
      PROVE  msg[m].state = "none" /\ ~Held(m) /\ SentBy(m, i)
  BY <1>1, <1>9 DEF Sent, SentBy
<1>10. ASSUME NEW w \in Worker, Receive(w, m), msg'[m] = [msg[m] EXCEPT !.state = "hidden", !.received = @ + 1]
       PROVE  Pending(m, i)
  BY <1>5, <1>10 DEF Receive
<1>11. ASSUME NEW s, Reappear(m) \/ ReappearEarly(m), msg'[m] = [msg[m] EXCEPT !.state = s]
       PROVE  Pending(m, i)
  BY <1>4, <1>11 DEF Reappear, ReappearEarly
<1>12. msg'[m] = msg[m] \/ Moved(m)
  BY MsgMoves
<1>13. QED
  BY <1>3, <1>6, <1>7, <1>8, <1>9, <1>10, <1>11, <1>12 DEF Moved

(* The same of the workers and of the requests.                            *)
LEMMA QueueingBefore ==
  ASSUME Shape, Next, NEW i \in Inst, Exists(i), inst'[i].seq = inst[i].seq, NEW w \in Worker, Queueing(w, i)'
  PROVE  Queueing(w, i)
<1>1. wk'[w].pc \in {"report", "enqueue"} /\ JobOf(w)'.inst = None /\ wk'[w].inst = i /\ wk'[w].seq = inst[i].seq
  BY DEF Queueing
<1>2. wk'[w] = wk[w] \/ Track(w) \/ ReportRetry(w) \/ (CatchFails(w) /\ wk[w].pc = "report" /\ ~Track(w))
  BY <1>1, WorkerComes DEF Came
<1>3. wk[w].pc # "idle" /\ wk'[w].msg = wk[w].msg /\ (~Track(w) /\ wk'[w] # wk[w] => wk'[w].inst = wk[w].inst /\ wk'[w].seq = wk[w].seq)
  BY <1>1, WorkerComes
<1>4. JobOf(w)' = JobOf(w) /\ JobOf(w).inst = None
  BY <1>1, <1>3, JobsStand
<1>5. CASE Track(w)
  <2>1. wk[w].inst = None
    BY <1>4, <1>5 DEF Track, Shape, WorkersNamed, WorkerOK
  <2>2. PICK j \in Inst : FreshInst(j) /\ wk' = [wk EXCEPT ![w].pc = "report", ![w].inst = j, ![w].seq = seqs + 1]
    BY <1>5, <2>1 DEF Track
  <2>3. wk'[w] = [wk[w] EXCEPT !.pc = "report", !.inst = j, !.seq = seqs + 1] /\ wk[w] \in WorkerState
    BY <2>2 DEF Shape, Typed, WkTyped
  <2>4. j = i
    BY <1>1, <2>3 DEF WorkerState
  <2>5. QED
    BY <2>2, <2>4 DEF FreshInst, Exists
<1>6. CASE ReportRetry(w)
  <2>1. wk'[w].inst = wk[w].inst /\ wk'[w].seq = wk[w].seq /\ wk[w].pc = "report"
    BY <1>6 DEF ReportRetry, Step, Shape, Typed, WkTyped, WorkerState
  <2>2. QED
    BY <1>1, <1>4, <2>1 DEF Queueing
<1>7. CASE wk'[w] = wk[w]
  BY <1>1, <1>4, <1>7 DEF Queueing
<1>9. CASE CatchFails(w) /\ wk[w].pc = "report" /\ ~Track(w) /\ wk'[w] # wk[w]
  BY <1>1, <1>3, <1>4, <1>9 DEF Queueing
<1>8. QED
  BY <1>2, <1>5, <1>6, <1>7, <1>9

(* So was a retry request that is to send its job, unless it is the one    *)
(* that begins anew.                                                       *)
LEMMA SendingBefore ==
  ASSUME Shape, Next, NEW i \in Inst, inst'[i].seq = inst[i].seq, NEW q \in Req, Sending(q, i)', ~RetryWrites(q)
  PROVE  Sending(q, i)
<1>1. rq'[q].pc = "send"
  BY DEF Sending
<1>2. ASSUME NEW j \in Inst, NEW k \in Kinds[q],
             rq'[q] = [pc |-> FirstPc(k, j), kind |-> k, inst |-> j, status |-> inst[j].status,
                       mid |-> inst[j].mid, manual |-> inst[j].manual, seq |-> 0, seen |-> "none"]
      PROVE  FALSE
  <2>1. rq'[q].pc = FirstPc(k, j)
    BY <1>2
  <2>2. FirstPc(k, j) # "send"
    BY DEF FirstPc
  <2>3. QED
    BY <1>1, <2>1, <2>2
<1>3. rq'[q] = rq[q]
  BY <1>1, <1>2, RequestGoes
<1>4. QED
  BY <1>3 DEF Sending

-----------------------------------------------------------------------------
(* A carrier is a message, a worker or a request.                          *)
LEMMA CarrierKinds ==
  ASSUME NEW x \in Carrier
  PROVE  \/ \E m \in Msg : x = <<"msg", m>>
         \/ \E w \in Worker : x = <<"wk", w>>
         \/ \E q \in Req : x = <<"rq", q>>
BY DEF Carrier

(* What a carrier of each kind bears.                                      *)
LEMMA BearsAs ==
  ASSUME NEW i
  PROVE  /\ \A m \in Msg : <<"msg", m>> \in Carrier /\ (Bears(<<"msg", m>>, i) <=> Pending(m, i))
         /\ \A w \in Worker : <<"wk", w>> \in Carrier /\ (Bears(<<"wk", w>>, i) <=> Queueing(w, i))
         /\ \A q \in Req : <<"rq", q>> \in Carrier /\ (Bears(<<"rq", q>>, i) <=> Sending(q, i))
BY DEF Carrier, Bears

(* The same after a step.                                                  *)
LEMMA BearsThenAs ==
  ASSUME NEW i
  PROVE  /\ \A m \in Msg : Bears(<<"msg", m>>, i)' <=> Pending(m, i)'
         /\ \A w \in Worker : Bears(<<"wk", w>>, i)' <=> Queueing(w, i)'
         /\ \A q \in Req : Bears(<<"rq", q>>, i)' <=> Sending(q, i)'
BY DEF Carrier, Bears

(* Who queues the next job lets go of the item in the same step.           *)
LEMMA SenderLetsGo ==
  ASSUME Shape, HeldAlone, Next, NEW i \in Inst, i \notin hist'.torn, inst'[i].seq = inst[i].seq, NEW m \in Msg, SentBy(m, i)
  PROVE  \E x \in Carrier : Bears(x, i) /\ ~Bears(x, i)'
<1>1. i \notin hist.torn /\ i # None
  BY TornGrows, LadderAssumption
<1>2. ASSUME NEW w \in Worker, wk[w].pc \in {"guard", "enqueue"}, JobOf(w).inst = i, JobOf(w).seq = inst[i].seq,
             wk'[w].pc = "ack", wk'[w].msg = wk[w].msg
      PROVE  \E x \in Carrier : Bears(x, i) /\ ~Bears(x, i)'
  <2>1. PICK n \in Msg : n = wk[w].msg
    BY <1>2 DEF Shape, WorkersNamed, WorkerOK
  <2>2. msg[n].state = "hidden" /\ \A v \in Worker : wk[v].pc # "idle" /\ wk[v].msg = n => v = w
    BY <1>1, <1>2, <2>1 DEF HeldAlone
  <2>3. Pending(n, i)
    BY <1>2, <2>1, <2>2 DEF Pending, Alive, Acked, JobOf
  <2>4. ~Pending(n, i)'
    BY <1>2, <2>1 DEF Pending, Acked
  <2>5. QED
    BY <2>3, <2>4, BearsAs, BearsThenAs
<1>3. ASSUME NEW w \in Worker, EnqueueRetry(w), JobOf(w).inst = None, wk[w].inst = i, wk[w].seq = inst[i].seq
      PROVE  \E x \in Carrier : Bears(x, i) /\ ~Bears(x, i)'
  <2>1. Queueing(w, i)
    BY <1>3 DEF EnqueueRetry, Queueing
  <2>2. ~Queueing(w, i)'
    BY <1>3 DEF EnqueueRetry, Step, Queueing, Shape, Typed, WkTyped
  <2>3. QED
    BY <2>1, <2>2, BearsAs, BearsThenAs
<1>4. ASSUME NEW w \in Worker, Repark(w), JobOf(w).inst = i, JobOf(w).seq = inst[i].seq
      PROVE  \E x \in Carrier : Bears(x, i) /\ ~Bears(x, i)'
  <2>1. wk[w].pc = "guard" /\ wk'[w].pc = "ack" /\ wk'[w].msg = wk[w].msg
    BY <1>4 DEF Repark, Step, Shape, Typed, WkTyped, WorkerState
  <2>2. QED
    BY <1>2, <1>4, <2>1
<1>5. ASSUME NEW w \in Worker, EnqueueRetry(w), wk[w].inst = i, wk[w].seq = inst[i].seq
      PROVE  \E x \in Carrier : Bears(x, i) /\ ~Bears(x, i)'
  <2>1. wk[w].pc = "enqueue" /\ wk'[w].pc = "ack" /\ wk'[w].msg = wk[w].msg
    BY <1>5 DEF EnqueueRetry, Step, Shape, Typed, WkTyped, WorkerState
  <2>2. JobOf(w).inst = None \/ (JobOf(w).inst = i /\ JobOf(w).seq = inst[i].seq)
    BY <1>5, <2>1 DEF Shape, WorkersNamed, WorkerOK
  <2>3. QED
    BY <1>2, <1>3, <1>5, <2>1, <2>2
<1>6. ASSUME NEW q \in Req, SendRetry(q), Of(q) = i, rq[q].seq = inst[i].seq
      PROVE  \E x \in Carrier : Bears(x, i) /\ ~Bears(x, i)'
  <2>1. Sending(q, i)
    BY <1>6 DEF SendRetry, Sending, Of
  <2>2. ~Sending(q, i)'
    BY <1>6 DEF SendRetry, Answer, Sending, Shape, Typed, RqTyped
  <2>3. QED
    BY <2>1, <2>2, BearsAs, BearsThenAs
<1>7. QED
  BY <1>4, <1>5, <1>6 DEF SentBy

(* Only one message is sent at a time.                                     *)
LEMMA SentAlone ==
  ASSUME Shape, NEW i \in Inst, NEW m \in Msg, NEW n \in Msg, SentBy(m, i), msg'[m] # msg[m], msg'[n] # msg[n]
  PROVE  m = n
<1>1. \E a \in Msg : \E job : Send(a, job)
  BY DEF SentBy, Repark, EnqueueRetry, SendRetry
<1>2. QED
  BY <1>1 DEF Send, Shape, Typed, MsgTyped

(* An item that has just begun to be tracked has its worker.               *)
LEMMA NewIsBorneOnce ==
  ASSUME Shape, Next, NEW i \in Inst, ~Exists(i), NEW x \in Carrier, Bears(x, i)'
  PROVE  \E w \in Worker : x = <<"wk", w>> /\ Track(w) /\ wk'[w] # wk[w]
<1>1. i # None
  BY LadderAssumption
<1>2. ASSUME NEW m \in Msg, Pending(m, i)'
      PROVE  FALSE
  <2>1. msg'[m].job.inst = i
    BY <1>2 DEF Pending
  <2>2. msg'[m] = msg[m] \/ JobNamed(msg'[m])
    BY MsgChange DEF MsgWritten, Shape, Typed, MsgTyped
  <2>3. QED
    BY <1>1, <2>1, <2>2 DEF JobNamed, Shape, JobsNamed, Numbered
<1>3. ASSUME NEW q \in Req, Sending(q, i)'
      PROVE  FALSE
  <2>1. rq'[q].pc = "send" /\ rq'[q].inst = i
    BY <1>3 DEF Sending
  <2>2. rq'[q] = rq[q] \/ (RetryWrites(q) /\ rq'[q] = [rq[q] EXCEPT !.pc = "send", !.seq = seqs + 1])
    <3>1. ASSUME NEW j \in Inst, NEW k \in Kinds[q],
             rq'[q] = [pc |-> FirstPc(k, j), kind |-> k, inst |-> j, status |-> inst[j].status,
                       mid |-> inst[j].mid, manual |-> inst[j].manual, seq |-> 0, seen |-> "none"]
          PROVE  FALSE
      <4>1. rq'[q].pc = FirstPc(k, j)
        BY <3>1
      <4>2. FirstPc(k, j) # "send"
        BY DEF FirstPc
      <4>3. QED
        BY <2>1, <4>1, <4>2
    <3>2. \/ rq'[q] = rq[q] \/ rq'[q].pc \in {"done", "count", "write"} \/ (RetryWrites(q) /\ rq'[q] = [rq[q] EXCEPT !.pc = "send", !.seq = seqs + 1])
      BY <3>1, RequestGoes
    <3>3. QED
      BY <2>1, <3>2
  <2>3. rq[q].inst = i /\ rq[q].pc # "idle"
    BY <2>1, <2>2 DEF RetryWrites, Shape, Typed, RqTyped, RequestState
  <2>4. QED
    BY <2>3 DEF Shape, RequestsNamed, RequestOK
<1>4. ASSUME NEW w \in Worker, Queueing(w, i)'
      PROVE  Track(w) /\ wk'[w] # wk[w]
  <2>1. wk'[w].pc \in {"report", "enqueue"} /\ wk'[w].inst = i
    BY <1>4 DEF Queueing
  <2>2. ASSUME wk[w].pc # "idle", wk[w].inst = i
        PROVE  FALSE
    BY <1>1, <2>2 DEF Shape, WorkersNamed, WorkerOK, Numbered
  <2>3. wk'[w] # wk[w]
    BY <2>1, <2>2
  <2>4. Came(w) /\ wk[w].pc # "idle" /\ (~Track(w) => wk'[w].inst = wk[w].inst)
    BY <2>1, <2>3, WorkerComes
  <2>5. QED
    BY <2>1, <2>2, <2>3, <2>4
<1>5. QED
  BY <1>2, <1>3, <1>4, CarrierKinds DEF Bears

(* A carrier was one before, or is a message that has just been sent.      *)
LEMMA BearsBefore ==
  ASSUME Shape, SeqsBegun, Next, NEW i \in Inst, i \notin hist'.torn, Exists(i), inst'[i].seq = inst[i].seq,
         NEW z \in Carrier, Bears(z, i)'
  PROVE  Bears(z, i) \/ \E m \in Msg : z = <<"msg", m>> /\ msg'[m] # msg[m] /\ SentBy(m, i)
<1>1. ASSUME NEW m \in Msg, z = <<"msg", m>>
      PROVE  Bears(z, i) \/ (msg'[m] # msg[m] /\ SentBy(m, i))
  <2>1. Pending(m, i)'
    BY <1>1 DEF Bears
  <2>2. Pending(m, i) \/ (msg[m].state = "none" /\ SentBy(m, i))
    BY <2>1, PendingBefore
  <2>3. msg[m].state = "none" => msg'[m] # msg[m]
    BY <2>1 DEF Pending, Alive
  <2>4. QED
    BY <1>1, <2>2, <2>3 DEF Bears
<1>2. ASSUME NEW w \in Worker, z = <<"wk", w>>
      PROVE  Bears(z, i)
  <2>1. Queueing(w, i)'
    BY <1>2 DEF Bears
  <2>2. Queueing(w, i)
    BY <2>1, QueueingBefore
  <2>3. QED
    BY <1>2, <2>2 DEF Bears
<1>3. ASSUME NEW q \in Req, z = <<"rq", q>>
      PROVE  Bears(z, i)
  <2>1. Sending(q, i)'
    BY <1>3 DEF Bears
  <2>2. ~RetryWrites(q)
    <3>1. ASSUME RetryWrites(q)
          PROVE  FALSE
      <4>1. rq'[q].inst = Of(q) /\ inst'[Of(q)].seq = seqs + 1 /\ Of(q) \in Inst
        BY <3>1 DEF RetryWrites, SetInst, Of, Shape, Typed, RqTyped, RequestState, RequestsNamed, RequestOK, InstTyped, InstanceState
      <4>2. Of(q) = i
        BY <2>1, <4>1 DEF Sending
      <4>3. inst[i].seq <= seqs /\ inst[i].seq \in Nat /\ seqs \in Nat
        BY DEF SeqsBegun, Shape, Typed, InstTyped, InstanceState
      <4>4. QED
        BY <4>1, <4>2, <4>3
    <3>2. QED
      BY <3>1
  <2>3. Sending(q, i)
    BY <2>1, <2>2, SendingBefore
  <2>4. QED
    BY <1>3, <2>3 DEF Bears
<1>4. QED
  BY <1>1, <1>2, <1>3, CarrierKinds

(* An item has one carrier: a new one comes only with the end of the old.  *)
LEMMA OneBearerKept == Shape /\ PastIsLatest /\ SeqsBegun /\ HeldAlone /\ OneBearer /\ [Next]_vars => OneBearer'
<1> SUFFICES ASSUME Shape, PastIsLatest, SeqsBegun, HeldAlone, OneBearer, [Next]_vars PROVE OneBearer'
  OBVIOUS
<1>1. CASE UNCHANGED vars
  <2>1. msg' = msg /\ wk' = wk /\ rq' = rq /\ inst' = inst /\ hist' = hist
    BY <1>1 DEF vars
  <2>2. ASSUME NEW i \in Inst, NEW x \in Carrier, Bears(x, i)'
        PROVE  Bears(x, i)
    BY <2>1, <2>2 DEF Bears, Pending, Alive, Acked, Queueing, JobOf, Sending
  <2>3. QED
    BY <2>1, <2>2 DEF OneBearer
<1>2. ASSUME Next, NEW i \in Inst, i \notin hist'.torn, NEW x \in Carrier, NEW y \in Carrier, Bears(x, i)', Bears(y, i)'
      PROVE  x = y
  <2>1. CASE ~Exists(i)
    <3>1. PICK w \in Worker : x = <<"wk", w>> /\ Track(w) /\ wk'[w] # wk[w]
      BY <1>2, <2>1, NewIsBorneOnce
    <3>2. PICK v \in Worker : y = <<"wk", v>> /\ Track(v) /\ wk'[v] # wk[v]
      BY <1>2, <2>1, NewIsBorneOnce
    <3>3. v = w
      BY <3>1, <3>2 DEF Track, Step, Shape, Typed, WkTyped
    <3>4. QED
      BY <3>1, <3>2, <3>3
  <2>2. CASE Exists(i) /\ inst'[i].seq # inst[i].seq
    <3>1. PICK q \in Req : RetryWrites(q) /\ Of(q) = i /\ inst'[i] = [inst[i] EXCEPT !.status = "running", !.seq = seqs + 1]
      BY <1>2, <2>2, SeqStands DEF Retried
    <3>2. inst'[i].seq = seqs + 1 /\ msg' = msg /\ wk' = wk /\ seqs \in Nat
      BY <3>1 DEF RetryWrites, Shape, Typed, InstTyped, InstanceState
    <3>3. ASSUME NEW m \in Msg, Pending(m, i)'
          PROVE  FALSE
      BY <3>2, <3>3 DEF Pending, SeqsBegun, Shape, Typed, MsgTyped, MessageState, Job
    <3>4. ASSUME NEW w \in Worker, Queueing(w, i)'
          PROVE  FALSE
      BY <3>2, <3>4 DEF Queueing, SeqsBegun, Shape, Typed, WkTyped, WorkerState
    <3>5. ASSUME NEW p \in Req, Sending(p, i)'
          PROVE  p = q
      <4>1. p = q \/ rq'[p] = rq[p]
        BY <3>1 DEF RetryWrites, Shape, Typed, RqTyped
      <4>2. rq'[p].seq = seqs + 1 /\ rq[p].seq <= seqs /\ rq[p].seq \in Nat
        BY <3>2, <3>5 DEF Sending, SeqsBegun, Shape, Typed, RqTyped, RequestState
      <4>3. QED
        BY <3>2, <4>1, <4>2
    <3>6. \A z \in Carrier : Bears(z, i)' => z = <<"rq", q>>
      <4>1. ASSUME NEW z \in Carrier, Bears(z, i)'
            PROVE  z = <<"rq", q>>
        BY <3>3, <3>4, <3>5, <4>1, CarrierKinds DEF Bears
      <4>2. QED
        BY <4>1
    <3>7. QED
      BY <1>2, <3>6
  <2>3. CASE Exists(i) /\ inst'[i].seq = inst[i].seq
    <3>1. i \notin hist.torn
      BY <1>2, TornGrows
    <3>2. ASSUME NEW z \in Carrier, Bears(z, i)'
          PROVE  Bears(z, i) \/ \E m \in Msg : z = <<"msg", m>> /\ msg'[m] # msg[m] /\ SentBy(m, i)
      BY <1>2, <2>3, <3>2, BearsBefore
    <3>3. ASSUME NEW m \in Msg, SentBy(m, i), msg'[m] # msg[m], NEW z \in Carrier, Bears(z, i)', Bears(z, i)
          PROVE  FALSE
      <4>1. PICK u \in Carrier : Bears(u, i) /\ ~Bears(u, i)'
        BY <1>2, <2>3, <3>3, SenderLetsGo
      <4>2. z = u
        BY <3>1, <3>3, <4>1 DEF OneBearer
      <4>3. QED
        BY <3>3, <4>1, <4>2
    <3>4. ASSUME NEW m \in Msg, SentBy(m, i), msg'[m] # msg[m], NEW n \in Msg, msg'[n] # msg[n]
          PROVE  m = n
      BY <3>4, SentAlone
    <3>5. CASE Bears(x, i) /\ Bears(y, i)
      BY <3>1, <3>5 DEF OneBearer
    <3>6. CASE ~Bears(x, i)
      BY <1>2, <3>2, <3>3, <3>4, <3>6
    <3>7. CASE ~Bears(y, i)
      BY <1>2, <3>2, <3>3, <3>4, <3>7
    <3>8. QED
      BY <3>5, <3>6, <3>7
  <2>4. QED
    BY <2>1, <2>2, <2>3
<1>3. CASE Next
  BY <1>2, <1>3 DEF OneBearer
<1>4. QED
  BY <1>1, <1>3

(* A worker past the guard is alone with its item.                         *)
LEMMA AloneAtWork ==
  ASSUME Shape, PastIsLatest, HeldAlone, OneBearer, NEW i \in Inst, i \notin hist.torn,
         NEW v \in Worker, NEW w \in Worker, Past(v), Past(w), wk[v].inst = i, wk[w].inst = i
  PROVE  v = w
<1>1. i # None
  BY LadderAssumption
<1>2. ASSUME NEW u \in Worker, Past(u), wk[u].inst = i, JobOf(u).inst = i
      PROVE  wk[u].msg \in Msg /\ Pending(wk[u].msg, i)
  <2>1. wk[u].pc # "idle" /\ wk[u].pc # "ack"
    BY <1>2 DEF Past
  <2>2. wk[u].msg \in Msg /\ wk[u].seq = JobOf(u).seq
    BY <1>1, <1>2, <2>1 DEF Shape, WorkersNamed, WorkerOK
  <2>3. inst[i].seq = wk[u].seq
    BY <1>1, <1>2 DEF PastIsLatest
  <2>4. /\ msg[wk[u].msg].state = "hidden"
        /\ \A t \in Worker : wk[t].pc # "idle" /\ wk[t].msg = wk[u].msg => t = u
    BY <1>1, <1>2, <2>1 DEF HeldAlone
  <2>5. ~Acked(wk[u].msg)
    BY <2>1, <2>4 DEF Acked
  <2>6. QED
    BY <1>2, <2>2, <2>3, <2>4, <2>5 DEF Pending, Alive, JobOf
<1>3. ASSUME NEW u \in Worker, Past(u), wk[u].inst = i
      PROVE  JobOf(u).inst = i \/ Queueing(u, i)
  <2>1. wk[u].pc # "idle" /\ wk[u].pc # "ack" /\ inst[i].seq = wk[u].seq
    BY <1>1, <1>3 DEF Past, PastIsLatest
  <2>2. QED
    BY <1>1, <1>3, <2>1 DEF Shape, WorkersNamed, WorkerOK, Queueing
<1>4. ASSUME NEW u \in Worker, Past(u), wk[u].inst = i
      PROVE  \/ Bears(<<"wk", u>>, i)
             \/ wk[u].msg \in Msg /\ Bears(<<"msg", wk[u].msg>>, i) /\ JobOf(u).inst = i
  BY <1>2, <1>3, <1>4 DEF Bears
<1>5. CASE Bears(<<"wk", v>>, i) /\ Bears(<<"wk", w>>, i)
  BY <1>5 DEF OneBearer, Carrier
<1>6. ASSUME Bears(<<"msg", wk[v].msg>>, i), Bears(<<"msg", wk[w].msg>>, i), wk[v].msg \in Msg, wk[w].msg \in Msg, JobOf(w).inst = i
      PROVE  v = w
  <2>1. wk[v].msg = wk[w].msg
    BY <1>6 DEF OneBearer, Carrier
  <2>2. QED
    BY <1>1, <1>6, <2>1 DEF HeldAlone, Past
<1>7. ASSUME NEW s \in Worker, NEW m \in Msg, Bears(<<"wk", s>>, i), Bears(<<"msg", m>>, i)
      PROVE  FALSE
  <2>1. <<"wk", s>> \in Carrier /\ <<"msg", m>> \in Carrier
    BY DEF Carrier
  <2>2. <<"wk", s>> = <<"msg", m>>
    BY <1>7, <2>1 DEF OneBearer
  <2>3. QED
    BY <2>2
<1>8. QED
  BY <1>4, <1>5, <1>6, <1>7

-----------------------------------------------------------------------------
(* What is let go of.  A ladder that goes on leaves no workflow behind that *)
(* still runs, but those it knows of.                                      *)
LetGo(i)     == inst[i].mid # None /\ maestro[inst[i].mid] = "live" => inst[i].mid \in hist.lost
Noting(w, i) == wk[w].pc \in {"complete", "stats"} /\ JobOf(w).inst = i
OldLetGo     == \A i \in Inst \ hist.torn : Borne(i) /\ ~(\E w \in Worker : Noting(w, i)) => LetGo(i)
MidKept      == \A i \in Inst \ hist.torn : \A w \in Worker : Noting(w, i) => inst[i].mid = wk[w].mid
(* What was read of an item is still so when it is used.                   *)
ReadingsStand ==
  /\ \A q \in Req : rq[q].pc \in {"fetch", "write"} /\ rq[q].kind = "live" =>
       inst[rq[q].inst].mid = rq[q].mid \/ rq[q].inst \in hist.torn
  /\ \A q \in Req : rq[q].pc = "write" /\ rq[q].kind = "live" /\ rq[q].seen # "running" => maestro[rq[q].mid] # "live"
  /\ \A q \in Req : rq[q].pc = "write" /\ rq[q].kind = "cancel" /\ rq[q].mid # None
                       /\ maestro[rq[q].mid] = "live" => rq[q].mid \in hist.lost
  /\ sync.pc = "write" => inst[sync.inst].mid = sync.mid \/ sync.inst \in hist.torn
Tracked(k) ==
  \/ \E i \in Inst : inst[i].mid = k /\ (inst[i].status = "running" \/ i \in hist.torn \cup hist.polled)
  \/ \E w \in Worker : wk[w].pc = "persist" /\ wk[w].mid = k
  \/ k \in hist.lost

(* The Maestro id of an item changes only with a launch that is persisted; *)
(* whoever holds the old one tears the item.                               *)
LEMMA MidMoves ==
  ASSUME Shape, Next, NEW i \in Inst
  PROVE  \/ inst'[i].mid = inst[i].mid
         \/ inst[i] = NoInst
         \/ \E w \in Worker : /\ Persist(w) /\ JobOf(w).inst = i /\ inst'[i] = [inst[i] EXCEPT !.status = "running", !.mid = wk[w].mid]
                              /\ HeldElsewhere(i) => i \in hist'.torn
                              /\ i \in hist'.torn => Followed(inst[i].mid) \subseteq hist'.lost
<1>1. inst'[i] = inst[i] \/ Rewritten(i)
  BY ItemWrites
<1>2. inst[i] \in InstanceState /\ hist \in History /\ i # None
  BY LadderAssumption DEF Shape, Typed, InstTyped
<1>3. ASSUME NEW w \in Worker, Persist(w), JobOf(w).inst = i
      PROVE  /\ HeldElsewhere(i) => i \in hist'.torn
             /\ i \in hist'.torn => Followed(inst[i].mid) \subseteq hist'.lost
  <2>1. hist' = IF i \in hist.torn \/ HeldElsewhere(i)
                THEN [hist EXCEPT !.torn = @ \cup {i}, !.lost = @ \cup Followed(inst[i].mid)]
                ELSE hist
    BY <1>2, <1>3 DEF Persist
  <2>2. CASE i \in hist.torn \/ HeldElsewhere(i)
    BY <1>2, <2>1, <2>2 DEF History
  <2>3. CASE ~(i \in hist.torn \/ HeldElsewhere(i))
    BY <2>1, <2>3
  <2>4. QED
    BY <2>2, <2>3
<1>4. QED
  BY <1>1, <1>2, <1>3 DEF Rewritten, InstanceState

(* A workflow that has ended stays so, and one let go of that runs on      *)
(* stays let go of.                                                        *)
LEMMA EndsStand ==
  ASSUME Shape, Next, NEW k \in Mid, Launched(k), maestro'[k] = "live"
  PROVE  maestro[k] = "live" /\ (k \in hist.lost => k \in hist'.lost)
<1>1. maestro[k] = "live"
  BY MaestroChange DEF Launched, Shape, Typed, MaestroTyped
<1>2. hist \in History
  BY DEF Shape, Typed
<1>3. ASSUME k \in hist.lost
      PROVE  k \in hist'.lost
  <2>8. ASSUME NEW w \in Worker, CatchFails(w)
        PROVE  k \in hist'.lost
    BY <1>2, <1>3, <2>8 DEF CatchFails, History
  <2>1. ASSUME NEW w \in Worker, WorkerActs(w)
        PROVE  k \in hist'.lost
    BY <1>2, <1>3, <2>1, <2>8
    DEF WorkerActs, WorkerStep, Receive, Repark, RetryGuard, GateDenies, DenyInstance, LaunchSucceeds, LaunchFails, Persist,
        CompleteEntry, UpdateStats, Track, ReportRetry, EnqueueRetry, ReadEntry, FailInstance, FailEntry, CountFailure, Ack,
        ReplyLost, TryFails, WorkerCrashes, History
  <2>2. ASSUME NEW q \in Req, RequestActs(q)
        PROVE  k \in hist'.lost
    <3>1. CASE LiveWrites(q)
      <4>1. hist' = hist \/ \E P, O : hist' = [hist EXCEPT !.polled = P, !.overridden = O]
        BY <3>1 DEF LiveWrites
      <4>2. QED
        BY <1>2, <1>3, <4>1 DEF History
    <3>2. CASE RetryWrites(q) \/ CancelWrites(q) \/ CancelRejected(q) \/ RequestCrashes(q)
      <4>1. CASE RetryWrites(q)
        <5>1. \E T, C, U, L : hist' = [hist EXCEPT !.torn = T, !.cancelled = C, !.unended = U, !.lost = hist.lost \cup L]
          BY <4>1 DEF RetryWrites
        <5>2. QED
          BY <1>2, <1>3, <5>1 DEF History
      <4>2. CASE CancelWrites(q)
        <5>1. \E T, C, L : hist' = [hist EXCEPT !.torn = T, !.cancelled = C, !.lost = hist.lost \cup L]
          BY <4>2 DEF CancelWrites
        <5>2. QED
          BY <1>2, <1>3, <5>1 DEF History
      <4>3. CASE CancelRejected(q)
        BY <1>2, <1>3, <4>3 DEF CancelRejected, History
      <4>4. CASE RequestCrashes(q)
        BY <1>2, <1>3, <4>4 DEF RequestCrashes, History
      <4>5. QED
        BY <3>2, <4>1, <4>2, <4>3, <4>4
    <3>3. CASE LiveCounts(q)
      BY <1>2, <1>3, <3>3 DEF LiveCounts, Counted, History
    <3>4. QED
      BY <1>3, <2>2, <3>1, <3>2, <3>3 DEF RequestActs, ReadInstance, RequestStep, SendRetry, CancelAtMaestro, Fetch
  <2>3. ASSUME NEW j \in Mid, WorkflowEnds(j)
        PROVE  k \in hist'.lost
    BY <1>1, <1>2, <1>3, <2>3 DEF WorkflowEnds, History, Shape, Typed, MaestroTyped
  <2>4. CASE SyncScans \/ SyncStep
    BY <1>2, <1>3, <2>4 DEF SyncScans, SyncStep, SyncWrites, SyncCounts, SyncCharges, Counted, History
  <2>5. CASE Rest
    BY <1>2, <1>3, <2>5 DEF Rest, vars
  <2>6. CASE \E m \in Msg : Reappear(m) \/ ReappearEarly(m)
    BY <1>2, <1>3, <2>6 DEF Reappear, ReappearEarly, History
  <2>7. QED
    BY <2>1, <2>2, <2>3, <2>4, <2>5, <2>6 DEF Next, WorkerActs, RequestActs
<1>4. QED
  BY <1>1, <1>3

(* A worker that notes its launch is the last that persisted the item.     *)
LEMMA MidKeptKept == Shape /\ PastIsLatest /\ HeldAlone /\ OneBearer /\ MidKept /\ [Next]_vars => MidKept'
<1> SUFFICES ASSUME Shape, PastIsLatest, HeldAlone, OneBearer, MidKept, [Next]_vars PROVE MidKept'
  OBVIOUS
<1>1. CASE UNCHANGED vars
  BY <1>1 DEF vars, MidKept, Noting, JobOf
<1>2. ASSUME Next, NEW i \in Inst, i \notin hist'.torn, NEW w \in Worker, Noting(w, i)'
      PROVE  inst'[i].mid = wk'[w].mid
  <2>1. i \notin hist.torn /\ i # None
    BY <1>2, TornGrows, LadderAssumption
  <2>2. wk'[w].pc \in {"complete", "stats"} /\ JobOf(w)'.inst = i
    BY <1>2 DEF Noting
  <2>3. \/ wk'[w] = wk[w]
        \/ Persist(w)
        \/ CompleteEntry(w)
    BY <1>2, <2>2, WorkerComes DEF Came
  <2>4. wk[w].pc # "idle" /\ wk'[w].msg = wk[w].msg
    BY <1>2, <2>2, WorkerComes
  <2>5. JobOf(w).inst = i /\ wk[w].inst = i
    BY <1>2, <2>1, <2>2, <2>4, JobsStand DEF Shape, WorkersNamed, WorkerOK
  <2>6. inst[i] # NoInst
    BY <2>1, <2>4, <2>5 DEF Shape, WorkersNamed, WorkerOK, Numbered, Exists, NoInst
  <2>7. CASE Persist(w)
    <3>1. wk'[w].mid = wk[w].mid
      BY <2>7 DEF Persist, Step, Shape, Typed, WkTyped, WorkerState
    <3>2. inst'[i].mid = wk[w].mid
      BY <2>1, <2>5, <2>7 DEF Persist, SetInst, Shape, Typed, InstTyped, InstanceState
    <3>3. QED
      BY <3>1, <3>2
  <2>8. CASE ~Persist(w)
    <3>1. wk[w].pc \in {"complete", "stats"} /\ wk'[w].mid = wk[w].mid
      BY <2>2, <2>3, <2>8 DEF CompleteEntry, Step, Shape, Typed, WkTyped, WorkerState
    <3>2. inst[i].mid = wk[w].mid
      BY <2>1, <2>5, <3>1 DEF MidKept, Noting
    <3>3. ASSUME NEW v \in Worker, Persist(v), JobOf(v).inst = i
          PROVE  FALSE
      <4>1. wk[v].pc = "persist" /\ wk[v].inst = i
        BY <2>1, <3>3 DEF Persist, Shape, WorkersNamed, WorkerOK
      <4>2. Past(v) /\ Past(w)
        BY <3>1, <4>1 DEF Past
      <4>3. v = w
        BY <2>1, <2>5, <4>1, <4>2, AloneAtWork
      <4>4. QED
        BY <3>1, <4>1, <4>3
    <3>4. inst'[i].mid = inst[i].mid
      BY <1>2, <2>6, <3>3, MidMoves
    <3>5. QED
      BY <3>1, <3>2, <3>4
  <2>9. QED
    BY <2>7, <2>8
<1>3. CASE Next
  BY <1>2, <1>3 DEF MidKept
<1>4. QED
  BY <1>1, <1>3

(* A reading stands as long as it may be used, or the item is torn.        *)
LEMMA ReadingsStandKept == Shape /\ ReadingsStand /\ [Next]_vars => ReadingsStand'
<1> SUFFICES ASSUME Shape, ReadingsStand, [Next]_vars PROVE ReadingsStand'
  OBVIOUS
<1>1. CASE UNCHANGED vars
  BY <1>1 DEF vars, ReadingsStand
<1>2. ASSUME Next, NEW i \in Inst, Exists(i), HeldElsewhere(i), i \notin hist'.torn
      PROVE  inst'[i].mid = inst[i].mid
  <2>1. inst[i] # NoInst
    BY <1>2 DEF Exists, NoInst
  <2>2. ~(HeldElsewhere(i) => i \in hist'.torn)
    BY <1>2
  <2>3. QED
    BY <1>2, <2>1, <2>2, MidMoves
<1>3. ASSUME Next, NEW q \in Req, rq'[q].pc \in {"fetch", "write"}, rq'[q].kind = "live"
      PROVE  inst'[rq'[q].inst].mid = rq'[q].mid \/ rq'[q].inst \in hist'.torn
  <2>1. CASE rq'[q].inst = rq[q].inst /\ rq'[q].mid = rq[q].mid /\ rq[q].pc \in {"fetch", "write"} /\ rq[q].kind = "live"
    <3>1. rq[q].inst \in Inst /\ Exists(rq[q].inst) /\ HeldElsewhere(rq[q].inst)
      BY <2>1 DEF Shape, RequestsNamed, RequestOK, HeldElsewhere
    <3>2. inst[rq[q].inst].mid = rq[q].mid \/ rq[q].inst \in hist.torn
      BY <2>1 DEF ReadingsStand
    <3>3. QED
      BY <1>2, <1>3, <2>1, <3>1, <3>2, TornGrows
  <2>2. ASSUME NEW j \in Inst, NEW k \in Kinds[q], ReadInstance(q),
               rq'[q] = [pc |-> FirstPc(k, j), kind |-> k, inst |-> j, status |-> inst[j].status,
                         mid |-> inst[j].mid, manual |-> inst[j].manual, seq |-> 0, seen |-> "none"]
        PROVE  inst'[rq'[q].inst].mid = rq'[q].mid
    <3>1. rq'[q].inst = j /\ rq'[q].mid = inst[j].mid
      BY <2>2
    <3>2. inst' = inst
      BY <2>2 DEF ReadInstance
    <3>3. QED
      BY <3>1, <3>2
  <2>3. rq[q] \in RequestState
    BY DEF Shape, Typed, RqTyped
  <2>4. CASE rq'[q] = rq[q]
    BY <1>3, <2>1, <2>4
  <2>5. ASSUME rq[q].pc = "act", rq'[q] = [rq[q] EXCEPT !.pc = "write"]
        PROVE  FALSE
    <3>1. rq'[q].kind = rq[q].kind
      BY <2>3, <2>5 DEF RequestState
    <3>2. QED
      BY <1>3, <2>5, <3>1 DEF Shape, RequestsNamed, RequestOK
  <2>6. CASE Fetch(q) /\ rq'[q] = [rq[q] EXCEPT !.pc = "write", !.seen = MaestroStatus(rq[q].mid)]
    <3>1. rq'[q].inst = rq[q].inst /\ rq'[q].mid = rq[q].mid /\ rq'[q].kind = rq[q].kind
      BY <2>3, <2>6 DEF RequestState
    <3>2. rq[q].pc = "fetch"
      BY <2>6 DEF Fetch
    <3>3. QED
      BY <1>3, <2>1, <3>1, <3>2
  <2>7. QED
    BY <1>3, <2>2, <2>4, <2>5, <2>6, RequestGoes
<1>4. ASSUME Next, NEW k \in Mid, Launched(k), maestro[k] # "live"
      PROVE  maestro'[k] # "live"
  BY <1>4, EndsStand
<1>5. ASSUME Next, NEW q \in Req, rq'[q].pc = "write", rq'[q].kind = "live", rq'[q].seen # "running"
      PROVE  maestro'[rq'[q].mid] # "live"
  <2>1. rq[q] \in RequestState
    BY DEF Shape, Typed, RqTyped
  <2>2. CASE rq'[q] = rq[q]
    <3>1. rq[q].mid \in Mid /\ Launched(rq[q].mid) /\ maestro[rq[q].mid] # "live"
      BY <1>5, <2>1, <2>2 DEF ReadingsStand, Shape, RequestsNamed, RequestOK, RequestState
    <3>2. QED
      BY <1>4, <1>5, <2>2, <3>1
  <2>3. CASE Fetch(q) /\ rq'[q] = [rq[q] EXCEPT !.pc = "write", !.seen = MaestroStatus(rq[q].mid)]
    <3>1. rq'[q].mid = rq[q].mid /\ rq'[q].seen = MaestroStatus(rq[q].mid)
      BY <2>1, <2>3 DEF RequestState
    <3>2. maestro' = maestro
      BY <2>3 DEF Fetch
    <3>3. QED
      BY <1>5, <3>1, <3>2 DEF MaestroStatus
  <2>4. ASSUME NEW j \in Inst, NEW k \in Kinds[q],
               rq'[q] = [pc |-> FirstPc(k, j), kind |-> k, inst |-> j, status |-> inst[j].status,
                         mid |-> inst[j].mid, manual |-> inst[j].manual, seq |-> 0, seen |-> "none"]
        PROVE  FALSE
    <3>1. rq'[q].pc = FirstPc(k, j) /\ rq'[q].kind = k
      BY <2>4
    <3>2. QED
      BY <1>5, <3>1 DEF FirstPc
  <2>5. ASSUME rq[q].pc = "act", rq'[q] = [rq[q] EXCEPT !.pc = "write"]
        PROVE  FALSE
    <3>1. rq'[q].kind = rq[q].kind
      BY <2>1, <2>5 DEF RequestState
    <3>2. QED
      BY <1>5, <2>5, <3>1 DEF Shape, RequestsNamed, RequestOK
  <2>6. QED
    BY <1>5, <2>2, <2>3, <2>4, <2>5, RequestGoes
<1>6. ASSUME Next, NEW q \in Req, rq'[q].pc = "write", rq'[q].kind = "cancel", rq'[q].mid # None, maestro'[rq'[q].mid] = "live"
      PROVE  rq'[q].mid \in hist'.lost
  <2>1. rq[q] \in RequestState /\ hist \in History
    BY DEF Shape, Typed, RqTyped
  <2>2. CASE rq'[q] = rq[q]
    <3>1. rq[q].mid \in Mid /\ Launched(rq[q].mid)
      BY <1>6, <2>1, <2>2 DEF Shape, RequestsNamed, RequestOK, RequestState
    <3>2. maestro[rq[q].mid] = "live" => rq[q].mid \in hist.lost
      BY <1>6, <2>2 DEF ReadingsStand
    <3>3. QED
      BY <1>6, <2>2, <3>1, <3>2, EndsStand
  <2>3. CASE rq[q].pc = "act" /\ rq'[q] = [rq[q] EXCEPT !.pc = "write"] /\ (CancelAtMaestro(q) \/ CancelRejected(q))
    <3>1. rq'[q].mid = rq[q].mid /\ rq[q].mid \in Mid
      BY <1>6, <2>1, <2>3 DEF RequestState
    <3>2. CASE CancelAtMaestro(q)
      BY <1>6, <3>1, <3>2 DEF CancelAtMaestro, Shape, Typed, MaestroTyped
    <3>3. CASE CancelRejected(q)
      <4>1. rq[q].mid \in Followed(rq[q].mid)
        BY <1>6, <3>1, <3>3 DEF Followed, CancelRejected
      <4>2. hist'.lost = hist.lost \cup Followed(rq[q].mid)
        BY <2>1, <3>3 DEF CancelRejected, History
      <4>3. QED
        BY <3>1, <4>1, <4>2
    <3>4. QED
      BY <2>3, <3>2, <3>3
  <2>4. ASSUME NEW j \in Inst, NEW k \in Kinds[q],
               rq'[q] = [pc |-> FirstPc(k, j), kind |-> k, inst |-> j, status |-> inst[j].status,
                         mid |-> inst[j].mid, manual |-> inst[j].manual, seq |-> 0, seen |-> "none"]
        PROVE  FALSE
    <3>1. rq'[q].pc = FirstPc(k, j) /\ rq'[q].kind = k /\ rq'[q].mid = inst[j].mid
      BY <2>4
    <3>2. QED
      BY <1>6, <3>1 DEF FirstPc
  <2>5. ASSUME Fetch(q), rq'[q] = [rq[q] EXCEPT !.pc = "write", !.seen = MaestroStatus(rq[q].mid)]
        PROVE  FALSE
    <3>1. rq'[q].kind = rq[q].kind /\ rq[q].pc = "fetch"
      BY <2>1, <2>5 DEF RequestState, Fetch
    <3>2. QED
      BY <1>6, <3>1 DEF Shape, RequestsNamed, RequestOK
  <2>6. QED
    BY <1>6, <2>2, <2>3, <2>4, <2>5, RequestGoes
<1>7. ASSUME Next, sync'.pc = "write"
      PROVE  inst'[sync'.inst].mid = sync'.mid \/ sync'.inst \in hist'.torn
  <2>1. CASE sync' = sync
    <3>1. sync.inst \in Inst /\ Exists(sync.inst) /\ HeldElsewhere(sync.inst)
      BY <1>7, <2>1 DEF Shape, SyncNamed, HeldElsewhere
    <3>2. inst[sync.inst].mid = sync.mid \/ sync.inst \in hist.torn
      BY <1>7, <2>1 DEF ReadingsStand
    <3>3. QED
      BY <1>2, <1>7, <2>1, <3>1, <3>2, TornGrows
  <2>2. CASE SyncScans
    BY <2>2 DEF SyncScans
  <2>3. CASE SyncStep
    BY <1>7, <2>3 DEF SyncStep, SyncWrites, SyncCounts, SyncCharges, NextPc, IdleSync, Shape, Typed, SyncState
  <2>4. QED
    BY <1>7, <2>1, <2>2, <2>3, SyncFrame
<1>8. CASE Next
  BY <1>3, <1>5, <1>6, <1>7, <1>8 DEF ReadingsStand
<1>9. QED
  BY <1>1, <1>8

-----------------------------------------------------------------------------
(* A worker past the guard carries its item.                               *)
LEMMA WorkBears ==
  ASSUME Shape, PastIsLatest, HeldAlone, NEW i \in Inst, i \notin hist.torn, NEW w \in Worker, Past(w), JobOf(w).inst = i
  PROVE  wk[w].msg \in Msg /\ wk[w].inst = i /\ Pending(wk[w].msg, i) /\ Borne(i)
<1>1. wk[w].pc # "idle" /\ wk[w].pc # "ack" /\ i # None
  BY LadderAssumption DEF Past
<1>2. wk[w].msg \in Msg /\ wk[w].seq = JobOf(w).seq /\ wk[w].inst = i
  BY <1>1 DEF Shape, WorkersNamed, WorkerOK
<1>3. inst[i].seq = wk[w].seq
  BY <1>1, <1>2 DEF PastIsLatest
<1>4. /\ msg[wk[w].msg].state = "hidden"
      /\ \A v \in Worker : wk[v].pc # "idle" /\ wk[v].msg = wk[w].msg => v = w
  BY <1>1 DEF HeldAlone
<1>5. ~Acked(wk[w].msg)
  BY <1>1, <1>4 DEF Acked
<1>6. QED
  BY <1>2, <1>3, <1>4, <1>5 DEF Pending, Alive, JobOf, Borne

(* What is borne has a carrier.                                            *)
LEMMA BorneByOne ==
  ASSUME NEW i \in Inst
  PROVE  (Borne(i) <=> \E x \in Carrier : Bears(x, i)) /\ (Borne(i)' <=> \E x \in Carrier : Bears(x, i)')
<1>1. Borne(i) => \E x \in Carrier : Bears(x, i)
  BY BearsAs DEF Borne
<1>2. ASSUME NEW x \in Carrier, Bears(x, i)
      PROVE  Borne(i)
  BY <1>2, CarrierKinds, BearsAs DEF Borne
<1>3. Borne(i)' => \E x \in Carrier : Bears(x, i)'
  BY BearsAs, BearsThenAs DEF Borne
<1>4. ASSUME NEW x \in Carrier, Bears(x, i)'
      PROVE  Borne(i)'
  BY <1>4, CarrierKinds, BearsThenAs DEF Borne
<1>5. QED
  BY <1>1, <1>2, <1>3, <1>4

(* Once a launch is noted, the job that led to it is borne no more.        *)
LEMMA NotedIsOver ==
  ASSUME Shape, PastIsLatest, HeldAlone, OneBearer, Next, NEW i \in Inst, i \notin hist.torn,
         NEW w \in Worker, wk[w].pc = "stats", JobOf(w).inst = i, UpdateStats(w)
  PROVE  ~Borne(i)'
<1>1. PICK m \in Msg : m = wk[w].msg /\ Pending(m, i)
  BY WorkBears DEF Past
<1>2. inst' = inst /\ msg' = msg /\ rq' = rq /\ wk'[w].pc = "ack" /\ wk'[w].msg = m /\ \A v \in Worker : v # w => wk'[v] = wk[v]
  BY <1>1 DEF UpdateStats, Step, others, Shape, Typed, WkTyped, WorkerState
<1>3. \A x \in Carrier : Bears(x, i) => x = <<"msg", m>>
  BY <1>1, BearsAs DEF OneBearer
<1>4. ASSUME NEW n \in Msg, Pending(n, i)'
      PROVE  FALSE
  <2>1. n # m
    BY <1>2, <1>4 DEF Pending, Acked
  <2>2. ASSUME NEW v \in Worker, wk[v].pc = "ack", wk[v].msg = n
        PROVE  wk'[v].pc = "ack" /\ wk'[v].msg = n
    BY <1>2, <2>2
  <2>3. Pending(n, i)
    BY <1>2, <1>4, <2>2 DEF Pending, Alive, Acked
  <2>4. <<"msg", n>> = <<"msg", m>>
    BY <1>3, <2>3, BearsAs
  <2>5. QED
    BY <2>1, <2>4
<1>5. ASSUME NEW v \in Worker, Queueing(v, i)'
      PROVE  FALSE
  <2>1. v # w
    BY <1>2, <1>5 DEF Queueing
  <2>2. Queueing(v, i)
    BY <1>2, <1>5, <2>1 DEF Queueing, JobOf
  <2>3. <<"wk", v>> = <<"msg", m>>
    BY <1>3, <2>2, BearsAs
  <2>4. QED
    BY <2>3
<1>6. ASSUME NEW q \in Req, Sending(q, i)'
      PROVE  FALSE
  <2>1. Sending(q, i)
    BY <1>2, <1>6 DEF Sending
  <2>2. <<"rq", q>> = <<"msg", m>>
    BY <1>3, <2>1, BearsAs
  <2>3. QED
    BY <2>2
<1>7. QED
  BY <1>4, <1>5, <1>6 DEF Borne

(* A ladder that goes on has let go of its launches: each came to its end, *)
(* or was noted as lost.                                                   *)
LEMMA OldLetGoKept ==
  Shape /\ PastIsLatest /\ SeqsBegun /\ HeldAlone /\ OneBearer /\ MidKept /\ OldLetGo /\ [Next]_vars => OldLetGo'
<1> SUFFICES ASSUME Shape, PastIsLatest, SeqsBegun, HeldAlone, OneBearer, MidKept, OldLetGo, [Next]_vars PROVE OldLetGo'
  OBVIOUS
<1>1. CASE UNCHANGED vars
  BY <1>1 DEF vars, OldLetGo, LetGo, Noting, JobOf, Borne, Pending, Alive, Acked, Queueing, Sending
<1>2. ASSUME Next, NEW i \in Inst, i \notin hist'.torn, Borne(i)', ~(\E w \in Worker : Noting(w, i)'),
             inst'[i].mid # None, maestro'[inst'[i].mid] = "live"
      PROVE  inst'[i].mid \in hist'.lost
  <2>1. i \notin hist.torn /\ i # None /\ hist \in History
    BY <1>2, TornGrows, LadderAssumption DEF Shape, Typed
  <2>2. inst[i] # NoInst
    <3>1. ASSUME inst[i] = NoInst
          PROVE  FALSE
      <4>1. ~Exists(i) /\ inst[i].mid = None
        BY <3>1 DEF Exists, NoInst
      <4>2. PICK x \in Carrier : Bears(x, i)'
        BY <1>2, BorneByOne
      <4>3. PICK w \in Worker : x = <<"wk", w>> /\ Track(w)
        BY <1>2, <4>1, <4>2, NewIsBorneOnce
      <4>4. inst' # inst
        BY <1>2, <4>1
      <4>5. CASE wk[w].inst = None
        <5>1. PICK j \in Inst : SetInst(j, [NoInst EXCEPT !.status = "running", !.seq = seqs + 1])
          BY <4>3, <4>5 DEF Track
        <5>2. inst'[i].mid = None
          BY <4>1, <5>1 DEF SetInst, NoInst, Shape, Typed, InstTyped
        <5>3. QED
          BY <1>2, <5>2
      <4>6. CASE wk[w].inst # None
        <5>1. SetInst(wk[w].inst, [inst[wk[w].inst] EXCEPT !.seq = wk[w].seq]) /\ wk[w].inst \in Inst
          BY <4>3, <4>6 DEF Track, Shape, Typed, WkTyped, WorkerState
        <5>2. inst'[i].mid = inst[i].mid
          BY <5>1 DEF SetInst, Shape, Typed, InstTyped, InstanceState
        <5>3. QED
          BY <1>2, <4>1, <5>2
      <4>7. QED
        BY <4>5, <4>6
    <3>2. QED
      BY <3>1
  <2>3. Exists(i)
    BY <2>2 DEF Exists, Shape, ItemsNamed
  <2>4. inst'[i].mid = inst[i].mid
    <3>1. ASSUME NEW w \in Worker, Persist(w), JobOf(w).inst = i
          PROVE  FALSE
      <4>1. wk'[w].pc = "complete" /\ wk'[w].msg = wk[w].msg /\ wk[w].pc = "persist"
        BY <3>1 DEF Persist, Step, Shape, Typed, WkTyped, WorkerState
      <4>2. JobOf(w)' = JobOf(w)
        BY <1>2, <4>1, JobsStand
      <4>3. Noting(w, i)'
        BY <3>1, <4>1, <4>2 DEF Noting
      <4>4. QED
        BY <1>2, <4>3
    <3>2. QED
      BY <1>2, <2>2, <3>1, MidMoves
  <2>5. inst[i].mid \in Mid /\ Launched(inst[i].mid)
    BY <1>2, <2>4 DEF Shape, Typed, InstTyped, InstanceState, ItemsNamed
  <2>6. maestro[inst[i].mid] = "live" /\ (inst[i].mid \in hist.lost => inst[i].mid \in hist'.lost)
    BY <1>2, <2>4, <2>5, EndsStand
  <2>7. inst[i].mid \in Followed(inst[i].mid)
    BY <2>5, <2>6 DEF Followed
  <2>8. CASE LetGo(i)
    BY <1>2, <2>4, <2>6, <2>8 DEF LetGo
  <2>9. ASSUME NEW w \in Worker, Noting(w, i)
        PROVE  inst[i].mid \in hist'.lost
    <3>1. wk[w].pc \in {"complete", "stats"} /\ JobOf(w).inst = i /\ wk[w].mid = inst[i].mid /\ wk[w].inst = i /\ wk[w].mid # None
      BY <2>1, <2>9 DEF Noting, MidKept, Shape, WorkersNamed, WorkerOK
    <3>2. ASSUME wk'[w].pc \in {"complete", "stats"}, wk'[w].msg = wk[w].msg
          PROVE  FALSE
      <4>1. JobOf(w)' = JobOf(w)
        BY <1>2, <3>1, <3>2, JobsStand
      <4>2. QED
        BY <1>2, <3>1, <3>2, <4>1 DEF Noting
    <3>3. wk'[w] # wk[w]
      BY <3>1, <3>2
    <3>4. Ends(w) \/ (Came(w) /\ wk'[w].msg = wk[w].msg)
      BY <1>2, <3>1, <3>3, WorkerComes DEF Receive
    <3>5. UpdateStats(w) \/ TryFails(w) \/ WorkerCrashes(w)
      BY <3>1, <3>2, <3>4 DEF Ends, Came, Ack, CountFailure, Repark, DenyInstance, EnqueueRetry, RetryGuard, GateDenies, LaunchSucceeds,
         LaunchFails, ReplyLost, Persist, CompleteEntry, Track, ReportRetry, FailInstance, ReadEntry, FailEntry
    <3>6. CASE UpdateStats(w)
      <4>1. wk[w].pc = "stats"
        BY <3>6 DEF UpdateStats
      <4>2. QED
        BY <1>2, <2>1, <3>1, <3>6, <4>1, NotedIsOver
    <3>7. CASE TryFails(w)
      BY <2>1, <2>7, <3>1, <3>7 DEF TryFails, History
    <3>8. CASE WorkerCrashes(w)
      <4>1. i \in Exposed(w)
        BY <3>1 DEF Exposed
      <4>2. i \in hist'.torn
        BY <2>1, <3>8, <4>1 DEF WorkerCrashes, History
      <4>3. QED
        BY <1>2, <4>2
    <3>9. QED
      BY <3>5, <3>6, <3>7, <3>8
  <2>10. CASE ~Borne(i)
    <3>1. PICK x \in Carrier : Bears(x, i)'
      BY <1>2, BorneByOne
    <3>2. ~Bears(x, i)
      BY <2>10, BorneByOne
    <3>3. ASSUME inst'[i].seq = inst[i].seq
          PROVE  FALSE
      <4>1. PICK m \in Msg : SentBy(m, i)
        BY <1>2, <2>3, <3>1, <3>2, <3>3, BearsBefore
      <4>2. \E y \in Carrier : Bears(y, i)
        BY <1>2, <3>3, <4>1, SenderLetsGo
      <4>3. QED
        BY <2>10, <4>2, BorneByOne
    <3>4. Retried(i)
      BY <1>2, <2>3, <3>3, SeqStands
    <3>5. PICK q \in Req : RetryWrites(q) /\ Of(q) = i
      BY <3>4 DEF Retried
    <3>6. hist'.lost = hist.lost \cup Followed(inst[i].mid)
      BY <2>1, <3>5 DEF RetryWrites, History
    <3>7. QED
      BY <2>4, <2>7, <3>6
  <2>11. QED
    BY <2>1, <2>4, <2>8, <2>9, <2>10 DEF OldLetGo
<1>3. CASE Next
  BY <1>2, <1>3 DEF OldLetGo, LetGo
<1>4. QED
  BY <1>1, <1>3

-----------------------------------------------------------------------------
(* A worker past the guard that has not persisted its launch has let go of *)
(* the one before.                                                         *)
LEMMA WorkHasLetGo ==
  ASSUME Shape, PastIsLatest, HeldAlone, OneBearer, OldLetGo, NEW i \in Inst, i \notin hist.torn,
         NEW w \in Worker, Past(w), wk[w].pc \notin {"complete", "stats"}, JobOf(w).inst = i
  PROVE  LetGo(i)
<1>1. Borne(i) /\ wk[w].inst = i
  BY WorkBears
<1>2. ASSUME NEW v \in Worker, Noting(v, i)
      PROVE  FALSE
  <2>1. Past(v) /\ JobOf(v).inst = i
    BY <1>2 DEF Noting, Past
  <2>2. wk[v].inst = i
    BY <2>1, WorkBears
  <2>3. v = w
    BY <1>1, <2>1, <2>2, AloneAtWork
  <2>4. QED
    BY <1>2, <2>3 DEF Noting
<1>3. QED
  BY <1>1, <1>2 DEF OldLetGo

(* The item that names a live launch is running, torn or polled, or the    *)
(* launch is let go of in the step that says otherwise.                    *)
NamedBy(k, i) == inst[i].mid = k /\ (inst[i].status = "running" \/ i \in hist.torn \cup hist.polled)

(* A running workflow that an item names stays so named, or is let go of.  *)
LEMMA NamedStays ==
  ASSUME Shape, PastIsLatest, HeldAlone, OneBearer, OldLetGo, ReadingsStand, Next,
         NEW i \in Inst, NEW k \in Mid, NamedBy(k, i), maestro[k] = "live", maestro'[k] = "live"
  PROVE  NamedBy(k, i)' \/ k \in hist'.lost
<1>1. inst[i] \in InstanceState /\ hist \in History /\ i # None /\ k # None /\ inst[i].mid = k /\ inst[i] # NoInst
  BY LadderAssumption DEF Shape, Typed, InstTyped, NamedBy, NoInst
<1>2. k \in Followed(k) /\ (k \in hist.lost => k \in hist'.lost)
  BY EndsStand DEF Followed, Launched
<1>3. hist.torn \cup hist.polled \subseteq hist'.torn \cup hist'.polled
  BY TornGrows
<1>4. CASE inst'[i].mid # k
  <2>1. PICK w \in Worker : /\ Persist(w) /\ JobOf(w).inst = i
                            /\ i \in hist'.torn => Followed(inst[i].mid) \subseteq hist'.lost
    BY <1>1, <1>4, MidMoves
  <2>2. CASE i \in hist'.torn
    BY <1>1, <1>2, <2>1, <2>2
  <2>3. CASE i \notin hist'.torn
    <3>1. i \notin hist.torn /\ wk[w].pc = "persist"
      BY <2>1, <2>3, TornGrows DEF Persist
    <3>2. LetGo(i)
      BY <2>1, <3>1, WorkHasLetGo DEF Past
    <3>3. QED
      BY <1>1, <1>2, <3>2 DEF LetGo
  <2>4. QED
    BY <2>2, <2>3
<1>5. CASE i \in hist'.torn \cup hist'.polled
  BY <1>4, <1>5 DEF NamedBy
<1>6. CASE inst'[i].mid = k /\ i \notin hist'.torn \cup hist'.polled
  <2>1. i \notin hist.torn /\ inst[i].status = "running"
    BY <1>3, <1>6 DEF NamedBy
  <2>2. ASSUME NEW w \in Worker, wk[w].pc \in {"denyInst", "failInst"}, JobOf(w).inst = i
        PROVE  k \in hist'.lost
    <3>1. LetGo(i)
      BY <2>1, <2>2, WorkHasLetGo DEF Past
    <3>2. QED
      BY <1>1, <1>2, <3>1 DEF LetGo
  <2>3. ASSUME NEW q \in Req, CancelWrites(q), Of(q) = i
        PROVE  k \in hist'.lost
    <3>1. hist'.lost = hist.lost \cup (Followed(inst[i].mid) \ {rq[q].mid})
      BY <1>1, <2>3 DEF CancelWrites, History
    <3>2. rq[q].mid = k => k \in hist.lost
      BY <1>1, <2>3 DEF CancelWrites, ReadingsStand
    <3>3. QED
      BY <1>1, <1>2, <3>1, <3>2
  <2>4. ASSUME NEW q \in Req, LiveWrites(q), Of(q) = i, inst'[i] = [inst[i] EXCEPT !.status = rq[q].seen]
        PROVE  inst'[i].status = "running"
    <3>1. rq[q].pc = "write" /\ rq[q].kind = "live" /\ rq[q].inst = i
      BY <2>4 DEF LiveWrites, Of
    <3>2. rq[q].mid = k
      BY <1>1, <2>1, <3>1 DEF ReadingsStand
    <3>3. rq[q].seen = "running"
      BY <3>1, <3>2 DEF ReadingsStand
    <3>4. QED
      BY <1>1, <2>4, <3>3 DEF InstanceState
  <2>5. ASSUME SyncWrites, sync.inst = i
        PROVE  FALSE
    <3>1. sync.mid = k /\ maestro[sync.mid] \in Terminal
      BY <1>1, <2>1, <2>5 DEF SyncWrites, ReadingsStand, Shape, SyncNamed
    <3>2. QED
      BY <3>1 DEF Terminal
  <2>6. inst'[i] = inst[i] \/ Rewritten(i)
    BY ItemWrites
  <2>7. ASSUME NEW w \in Worker, Rewritten(i), DenyInstance(w) \/ FailInstance(w), JobOf(w).inst = i
        PROVE  k \in hist'.lost
    BY <2>2, <2>7 DEF DenyInstance, FailInstance
  <2>8. CASE inst'[i].status = "running"
    BY <1>6, <2>8 DEF NamedBy
  <2>9. CASE inst'[i].status # "running"
    <3>1. inst'[i] # inst[i]
      BY <2>1, <2>9
    <3>2. \/ \E w \in Worker : (DenyInstance(w) \/ FailInstance(w)) /\ JobOf(w).inst = i
          \/ \E q \in Req : CancelWrites(q) /\ Of(q) = i
          \/ \E q \in Req : LiveWrites(q) /\ Of(q) = i /\ inst'[i] = [inst[i] EXCEPT !.status = rq[q].seen]
          \/ SyncWrites /\ sync.inst = i
      <4>1. ASSUME NEW s, inst'[i] = [inst[i] EXCEPT !.seq = s] \/ inst'[i] = [inst[i] EXCEPT !.counted = s]
            PROVE  FALSE
        BY <1>1, <2>1, <2>9, <4>1 DEF InstanceState
      <4>2. ASSUME NEW s, NEW f \in InstanceState, inst'[i] = [f EXCEPT !.status = "running", !.mid = s] \/ inst'[i] = [f EXCEPT !.status = "running", !.seq = s]
            PROVE  FALSE
        BY <2>9, <4>2 DEF InstanceState
      <4>3. NoInst \in InstanceState
        BY LadderAssumption DEF NoInst, InstanceState, Terminal
      <4>4. QED
        BY <1>1, <2>6, <3>1, <4>1, <4>2, <4>3 DEF Rewritten
    <3>3. QED
      BY <2>2, <2>3, <2>4, <2>5, <2>9, <3>2 DEF DenyInstance, FailInstance
  <2>10. QED
    BY <2>8, <2>9
<1>7. QED
  BY <1>4, <1>5, <1>6

(* What runs at Maestro stays tracked.                                     *)
LEMMA TrackedKept ==
  Shape /\ PastIsLatest /\ HeldAlone /\ OneBearer /\ OldLetGo /\ ReadingsStand /\ LaunchIsTracked /\ [Next]_vars => LaunchIsTracked'
<1> SUFFICES ASSUME Shape, PastIsLatest, HeldAlone, OneBearer, OldLetGo, ReadingsStand, LaunchIsTracked, [Next]_vars PROVE LaunchIsTracked'
  OBVIOUS
<1>1. CASE UNCHANGED vars
  BY <1>1 DEF vars, LaunchIsTracked
<1>2. ASSUME Next, NEW k \in Mid, maestro'[k] = "live"
      PROVE  \/ \E i \in Inst : NamedBy(k, i)'
             \/ \E w \in Worker : wk'[w].pc = "persist" /\ wk'[w].mid = k
             \/ k \in hist'.lost
  <2>1. hist \in History /\ k # None
    BY LadderAssumption DEF Shape, Typed
  <2>2. CASE maestro[k] = "live"
    <3>1. CASE \E i \in Inst : NamedBy(k, i)
      BY <1>2, <2>2, <3>1, NamedStays
    <3>2. ASSUME NEW w \in Worker, wk[w].pc = "persist", wk[w].mid = k
          PROVE  \/ \E i \in Inst : NamedBy(k, i)'
                 \/ \E v \in Worker : wk'[v].pc = "persist" /\ wk'[v].mid = k
                 \/ k \in hist'.lost
      <4>1. CASE wk'[w] = wk[w]
        BY <3>2, <4>1
      <4>2. CASE wk'[w] # wk[w]
        <5>1. Persist(w) \/ TryFails(w) \/ WorkerCrashes(w)
          BY <1>2, <3>2, <4>2, WorkerGoes DEF Goes, Ends, Receive, Repark, RetryGuard, GateDenies, DenyInstance, LaunchSucceeds, LaunchFails,
             ReplyLost, CompleteEntry, UpdateStats, Track, ReportRetry, EnqueueRetry, ReadEntry, FailInstance, FailEntry, CountFailure, Ack,
             CatchFails, BestEffort, Swallows
        <5>2. CASE Persist(w) /\ JobOf(w).inst = None
          <6>1. PICK i \in Inst : SetInst(i, [NoInst EXCEPT !.status = "running", !.mid = wk[w].mid])
            BY <5>2 DEF Persist
          <6>2. inst'[i].mid = k /\ inst'[i].status = "running"
            BY <3>2, <6>1 DEF SetInst, NoInst, Shape, Typed, InstTyped
          <6>3. QED
            BY <6>2 DEF NamedBy
        <5>3. CASE Persist(w) /\ JobOf(w).inst # None
          <6>1. PICK i \in Inst : i = JobOf(w).inst
            BY <3>2, <5>3 DEF Shape, WorkersNamed, WorkerOK, Typed, MsgTyped, MessageState, Job, JobOf
          <6>2. SetInst(i, [inst[i] EXCEPT !.status = "running", !.mid = wk[w].mid])
            BY <5>3, <6>1 DEF Persist
          <6>3. inst'[i].mid = k /\ inst'[i].status = "running"
            BY <3>2, <6>2 DEF SetInst, Shape, Typed, InstTyped, InstanceState
          <6>4. QED
            BY <6>3 DEF NamedBy
        <5>4. CASE TryFails(w)
          BY <2>1, <2>2, <3>2, <5>4 DEF TryFails, History, Followed
        <5>5. CASE WorkerCrashes(w)
          BY <2>1, <3>2, <5>5 DEF WorkerCrashes, History, Unsaved
        <5>6. QED
          BY <5>1, <5>2, <5>3, <5>4, <5>5
      <4>3. QED
        BY <4>1, <4>2
    <3>3. CASE k \in hist.lost
      BY <1>2, <2>2, <3>3, EndsStand DEF Launched
    <3>4. QED
      BY <2>2, <3>1, <3>2, <3>3 DEF LaunchIsTracked, NamedBy
  <2>3. CASE maestro[k] # "live"
    <3>1. ASSUME NEW w \in Worker, LaunchSucceeds(w)
          PROVE  wk'[w].pc = "persist" /\ wk'[w].mid = k
      BY <1>2, <2>3, <3>1 DEF LaunchSucceeds, Shape, Typed, MaestroTyped, WkTyped, WorkerState
    <3>2. ASSUME NEW w \in Worker, ReplyLost(w)
          PROVE  k \in hist'.lost
      BY <1>2, <2>1, <2>3, <3>2 DEF ReplyLost, Shape, Typed, MaestroTyped, History
    <3>3. ASSUME NEW q \in Req, CancelAtMaestro(q)
          PROVE  FALSE
      BY <1>2, <2>3, <3>3 DEF CancelAtMaestro, Shape, Typed, MaestroTyped
    <3>4. ASSUME NEW j \in Mid, WorkflowEnds(j)
          PROVE  FALSE
      BY <1>2, <2>3, <3>4 DEF WorkflowEnds, Shape, Typed, MaestroTyped
    <3>5. QED
      BY <1>2, <2>3, <3>1, <3>2, <3>3, <3>4, MaestroFrame
  <2>4. QED
    BY <2>2, <2>3
<1>3. CASE Next
  BY <1>2, <1>3 DEF LaunchIsTracked, NamedBy
<1>4. QED
  BY <1>1, <1>3

(* What runs at Maestro is named by a running item or about to be, unless  *)
(* a fault, a retry or a cancel by hand let go of it: no interleaving of   *)
(* the ladder, the requests and the sync loses sight of a workflow.        *)
THEOREM LaunchesAreTracked == Spec => []LaunchIsTracked
<1> DEFINE I == /\ Shape /\ PastIsLatest /\ SeqsBegun /\ HeldAlone /\ OneBearer
                /\ MidKept /\ ReadingsStand /\ OldLetGo /\ LaunchIsTracked
<1>1. Init => I
  <2> SUFFICES ASSUME Init PROVE I
    OBVIOUS
  <2>1. Shape
    BY ShapeHoldsAtFirst
  <2>2. PastIsLatest /\ SeqsBegun /\ HeldAlone /\ MidKept /\ ReadingsStand /\ LaunchIsTracked
    BY DEF Init, PastIsLatest, SeqsBegun, HeldAlone, MidKept, ReadingsStand, LaunchIsTracked, Past, Noting,
       NoInst, NoMsg, FirstJob, IdleWorker, IdleReq, IdleSync
  <2>3. ASSUME NEW i \in Inst
        PROVE  ~Borne(i)
    <3>1. i # None
      BY LadderAssumption
    <3>2. ASSUME NEW m \in Msg, Pending(m, i)
          PROVE  FALSE
      BY <3>1, <3>2 DEF Init, Pending, NoMsg, FirstJob
    <3>3. ASSUME NEW w \in Worker, Queueing(w, i)
          PROVE  FALSE
      BY <3>3 DEF Init, Queueing, IdleWorker
    <3>4. ASSUME NEW q \in Req, Sending(q, i)
          PROVE  FALSE
      BY <3>4 DEF Init, Sending, IdleReq
    <3>5. QED
      BY <3>2, <3>3, <3>4 DEF Borne
  <2>4. OldLetGo
    BY <2>3 DEF OldLetGo
  <2>5. OneBearer
    BY <2>3, BorneByOne DEF OneBearer
  <2>6. QED
    BY <2>1, <2>2, <2>4, <2>5
<1>2. I /\ [Next]_vars => I'
  BY ShapeKept, PastIsLatestKept, SeqsBegunKept, HeldAloneKept, OneBearerKept, MidKeptKept, ReadingsStandKept, OldLetGoKept, TrackedKept
<1>3. QED
  BY <1>1, <1>2, PTL DEF Spec

-----------------------------------------------------------------------------
(* What settles the entry of the match.  Its job is in the queue or in the *)
(* hands of a worker that has not settled it, and would pass the guard; or *)
(* a worker is about to fail it, or to queue the next job; or something    *)
(* has happened to an item of its ladder that excuses it; or its failure   *)
(* was to be written and that failed, and was swallowed.                   *)
Open         == entry[Match] \in {"pending", "retrying"}
Steady(i, s) == inst[i].status = "running" /\ inst[i].seq = s
Excused(i)   == inst[i].manual \/ i \in hist.torn \/ AskedAgain(i) \/ Ended(i)
ToSettle(m)  ==
  /\ Alive(m) /\ msg[m].job.entry = Match
  /\ \A w \in Worker : wk[w].pc \in {"denyInst", "stats", "count", "ack"} => wk[w].msg # m
  /\ msg[m].job.inst # None => Steady(msg[m].job.inst, msg[m].job.seq)
Settling(w)  ==
  /\ wk[w].pc \in {"failEntry", "enqueue"} /\ JobOf(w).entry = Match
  /\ wk[w].pc = "failEntry" => JobOf(w).inst # None
  /\ wk[w].pc = "enqueue" => Steady(wk[w].inst, wk[w].seq)
Cared        == (\E m \in Msg : ToSettle(m)) \/ (\E w \in Worker : Settling(w)) \/ (\E i \in Inst : Excused(i))
                \/ Match \in hist.unsettled
EntryBorne   == Open => Cared
WorkIsSteady ==
  \A w \in Worker : Past(w) /\ wk[w].inst # None => Steady(wk[w].inst, wk[w].seq) \/ Excused(wk[w].inst)

(* A job that reports to another entry than that of the match is of an     *)
(* item that somebody asked to be retried.                                 *)
JobsKnowEntry == \A m \in Msg : msg[m].job.entry # Match => msg[m].job.inst # None /\ AskedAgain(msg[m].job.inst)
(* A request that has not come yet asks nothing.                           *)
IdleAskNothing == \A q \in Req : rq[q].pc = "idle" => rq[q].kind = "none"

(* A request that has come stays what it is: who asked for a retry has     *)
(* asked for it.                                                           *)
LEMMA AskedStays ==
  ASSUME Shape, IdleAskNothing, Next
  PROVE  IdleAskNothing' /\ \A i \in Inst : AskedAgain(i) => AskedAgain(i)'
<1>1. ASSUME NEW q \in Req
      PROVE  /\ rq'[q].pc = "idle" => rq'[q].kind = "none"
             /\ rq[q].kind = "retry" => rq'[q].kind = "retry" /\ rq'[q].inst = rq[q].inst
  <2>1. rq \in [Req -> RequestState] /\ rq[q] \in RequestState
    BY DEF Shape, Typed, RqTyped
  <2>2. CASE rq'[q] = rq[q]
    BY <2>2 DEF IdleAskNothing
  <2>3. ASSUME NEW p \in Req, RequestActs(p), rq'[q] # rq[q]
        PROVE  /\ rq'[q].pc # "idle"
               /\ rq[q].kind = "retry" => rq'[q].kind = "retry" /\ rq'[q].inst = rq[q].inst
    <3>1. CASE ReadInstance(p)
      <4>1. rq[p].pc = "idle"
        BY <3>1 DEF ReadInstance
      <4>2. PICK i \in Inst, k \in Kinds[p] :
              rq' = [rq EXCEPT ![p] = [pc |-> FirstPc(k, i), kind |-> k, inst |-> i, status |-> inst[i].status,
                                       mid |-> inst[i].mid, manual |-> inst[i].manual, seq |-> 0, seen |-> "none"]]
        BY <3>1 DEF ReadInstance
      <4>3. p = q
        BY <2>1, <2>3, <4>2
      <4>4. rq'[q].pc = FirstPc(k, i)
        BY <2>1, <4>2, <4>3
      <4>5. rq[q].kind # "retry"
        BY <4>1, <4>3 DEF IdleAskNothing
      <4>6. QED
        BY <4>4, <4>5 DEF FirstPc
    <3>2. ASSUME rq' = [rq EXCEPT ![p] = [IdleReq EXCEPT !.pc = "done", !.kind = rq[p].kind, !.inst = Of(p)]]
          PROVE  rq'[q].pc # "idle" /\ rq'[q].kind = rq[q].kind /\ rq'[q].inst = rq[q].inst
      BY <2>1, <2>3, <3>2 DEF IdleReq, Of
    <3>3. ASSUME NEW pc \in {"write", "count"}, rq' = [rq EXCEPT ![p].pc = pc]
          PROVE  rq'[q].pc # "idle" /\ rq'[q].kind = rq[q].kind /\ rq'[q].inst = rq[q].inst
      BY <2>1, <2>3, <3>3 DEF RequestState
    <3>4. CASE RetryWrites(p)
      BY <2>1, <2>3, <3>4 DEF RetryWrites, RequestState
    <3>5. CASE Fetch(p)
      BY <2>1, <2>3, <3>5 DEF Fetch, RequestState
    <3>6. QED
      BY <2>3, <3>1, <3>2, <3>3, <3>4, <3>5
      DEF RequestActs, RequestStep, SendRetry, CancelAtMaestro, CancelRejected, CancelWrites, LiveWrites, LiveCounts, RequestCrashes,
          Answer, ToRq
  <2>4. QED
    BY <2>2, <2>3, RequestsFrame
<1>2. QED
  BY <1>1 DEF IdleAskNothing, AskedAgain

(* Every step keeps JobsKnowEntry.                                         *)
LEMMA JobsKnowEntryKept == Shape /\ IdleAskNothing /\ JobsKnowEntry /\ [Next]_vars => JobsKnowEntry'
<1> SUFFICES ASSUME Shape, IdleAskNothing, JobsKnowEntry, [Next]_vars PROVE JobsKnowEntry'
  OBVIOUS
<1>1. CASE UNCHANGED vars
  BY <1>1 DEF vars, JobsKnowEntry, AskedAgain
<1>2. ASSUME Next, NEW m \in Msg, msg'[m].job.entry # Match
      PROVE  \E i \in Inst : msg'[m].job.inst = i /\ i # None /\ AskedAgain(i)'
  <2>1. msg[m] \in MessageState
    BY DEF Shape, Typed, MsgTyped
  <2>2. ASSUME NEW j \in Inst, j # None, AskedAgain(j), msg'[m].job.inst = j
        PROVE  \E i \in Inst : msg'[m].job.inst = i /\ i # None /\ AskedAgain(i)'
    BY <1>2, <2>2, AskedStays
  <2>3. CASE msg'[m].job = msg[m].job
    <3>1. msg[m].job.inst # None /\ AskedAgain(msg[m].job.inst) /\ msg[m].job.inst \in Inst
      BY <1>2, <2>1, <2>3 DEF JobsKnowEntry, MessageState, Job
    <3>2. QED
      BY <2>2, <2>3, <3>1
  <2>4. ASSUME NEW w \in Worker, wk[w].pc # "idle", msg'[m].job.entry = JobOf(w).entry,
               msg'[m].job.inst = JobOf(w).inst \/ msg'[m].job.inst = wk[w].inst
        PROVE  \E i \in Inst : msg'[m].job.inst = i /\ i # None /\ AskedAgain(i)'
    <3>1. wk[w].msg \in Msg /\ JobOf(w) \in Job
      BY <2>4 DEF Shape, WorkersNamed, WorkerOK, Typed, MsgTyped, MessageState, JobOf
    <3>2. JobOf(w).inst # None /\ AskedAgain(JobOf(w).inst) /\ JobOf(w).inst \in Inst
      BY <1>2, <2>4, <3>1 DEF JobsKnowEntry, JobOf, Job
    <3>3. wk[w].inst = JobOf(w).inst
      BY <2>4, <3>2 DEF Shape, WorkersNamed, WorkerOK
    <3>4. QED
      BY <2>2, <2>4, <3>2, <3>3
  <2>5. ASSUME NEW w \in Worker, Repark(w), Sent(m, JobOf(w).inst, JobOf(w).seq, JobOf(w).entry)
        PROVE  \E i \in Inst : msg'[m].job.inst = i /\ i # None /\ AskedAgain(i)'
    BY <2>4, <2>5 DEF Repark, Sent
  <2>6. ASSUME NEW w \in Worker, EnqueueRetry(w), Sent(m, wk[w].inst, wk[w].seq, JobOf(w).entry)
        PROVE  \E i \in Inst : msg'[m].job.inst = i /\ i # None /\ AskedAgain(i)'
    BY <2>4, <2>6 DEF EnqueueRetry, Sent
  <2>7. ASSUME NEW q \in Req, SendRetry(q), Sent(m, Of(q), rq[q].seq, Of(q))
        PROVE  \E i \in Inst : msg'[m].job.inst = i /\ i # None /\ AskedAgain(i)'
    <3>1. rq[q].kind = "retry" /\ Of(q) \in Inst /\ Of(q) # None
      BY <2>7, LadderAssumption DEF SendRetry, Shape, RequestsNamed, RequestOK, Of
    <3>2. AskedAgain(Of(q))
      BY <3>1 DEF AskedAgain, Of
    <3>3. QED
      BY <2>2, <2>7, <3>1, <3>2 DEF Sent
  <2>8. ASSUME msg'[m] = NoMsg
        PROVE  FALSE
    BY <1>2, <2>8 DEF NoMsg, FirstJob
  <2>9. ASSUME NEW s, msg'[m] = [msg[m] EXCEPT !.state = s]
        PROVE  msg'[m].job = msg[m].job
    BY <2>1, <2>9 DEF MessageState
  <2>10. ASSUME msg'[m] = [msg[m] EXCEPT !.state = "hidden", !.received = @ + 1]
         PROVE  msg'[m].job = msg[m].job
    BY <2>1, <2>10 DEF MessageState
  <2>11. msg'[m] = msg[m] \/ Moved(m)
    BY <1>2, MsgMoves
  <2>12. QED
    BY <2>3, <2>5, <2>6, <2>7, <2>8, <2>9, <2>10, <2>11 DEF Moved
<1>3. CASE Next
  BY <1>2, <1>3 DEF JobsKnowEntry, AskedAgain
<1>4. QED
  BY <1>1, <1>3

(* An item at work stays running under its number, or is excused, or the   *)
(* worker that has it resolves it.                                         *)
LEMMA SteadyStays ==
  ASSUME Shape, PastIsLatest, ReadingsStand, Next, NEW i \in Inst, inst[i].seq # 0, NEW s, Steady(i, s)
  PROVE  \/ Steady(i, s)' \/ Excused(i)'
         \/ i \notin hist.torn /\ \E w \in Worker : (DenyInstance(w) \/ FailInstance(w)) /\ JobOf(w).inst = i
<1>1. inst[i] \in InstanceState /\ inst[i].status = "running" /\ inst[i].seq = s /\ i # None
  BY LadderAssumption DEF Steady, Shape, Typed, InstTyped
<1>2. inst[i] # NoInst
  BY <1>1 DEF NoInst
<1>3. CASE i \in hist.torn
  BY <1>3, TornGrows DEF Excused
<1>4. CASE inst'[i] = inst[i]
  BY <1>4 DEF Steady
<1>5. ASSUME NEW w \in Worker, Persist(w), inst'[i] = [inst[i] EXCEPT !.status = "running", !.mid = wk[w].mid]
      PROVE  Steady(i, s)'
  BY <1>1, <1>5 DEF Steady, InstanceState
<1>6. ASSUME i \notin hist.torn, NEW w \in Worker, Track(w), wk[w].inst = i, inst'[i] = [inst[i] EXCEPT !.seq = wk[w].seq]
      PROVE  Steady(i, s)'
  <2>1. wk[w].seq = s
    BY <1>1, <1>6 DEF Track, PastIsLatest, Past
  <2>2. QED
    BY <1>1, <1>6, <2>1 DEF Steady, InstanceState
<1>7. ASSUME NEW q \in Req, RetryWrites(q), Of(q) = i
      PROVE  Excused(i)'
  <2>1. rq'[q].kind = "retry" /\ rq'[q].inst = i
    BY <1>7 DEF RetryWrites, Of, Shape, Typed, RqTyped, RequestState
  <2>2. QED
    BY <2>1 DEF Excused, AskedAgain
<1>8. ASSUME NEW q \in Req, inst'[i] = [inst[i] EXCEPT !.status = "cancelled", !.manual = TRUE]
      PROVE  Excused(i)'
  BY <1>1, <1>8 DEF Excused, InstanceState
<1>9. ASSUME i \notin hist.torn, NEW q \in Req, LiveWrites(q), Of(q) = i, inst'[i] = [inst[i] EXCEPT !.status = rq[q].seen]
      PROVE  Steady(i, s)' \/ Excused(i)'
  <2>1. rq[q].pc = "write" /\ rq[q].kind = "live" /\ rq[q].inst = i /\ maestro' = maestro
    BY <1>9 DEF LiveWrites, Of
  <2>2. inst[i].mid = rq[q].mid /\ rq[q].mid # None
    BY <1>9, <2>1 DEF ReadingsStand, Shape, RequestsNamed, RequestOK
  <2>3. inst'[i].seq = s /\ inst'[i].mid = inst[i].mid /\ inst'[i].status = rq[q].seen
    BY <1>1, <1>9 DEF InstanceState
  <2>4. CASE rq[q].seen = "running"
    BY <2>3, <2>4 DEF Steady
  <2>5. CASE rq[q].seen # "running"
    <3>1. maestro[rq[q].mid] # "live"
      BY <2>1, <2>5 DEF ReadingsStand
    <3>2. Ended(i)'
      BY <1>1, <2>1, <2>2, <2>3, <3>1 DEF Ended
    <3>3. QED
      BY <3>2 DEF Excused
  <2>6. QED
    BY <2>4, <2>5
<1>10. ASSUME i \notin hist.torn, SyncWrites, sync.inst = i,
              inst'[i] = [inst[i] EXCEPT !.status = MaestroStatus(sync.mid), !.countedFailed = @ \/ NewFailure(MaestroStatus(sync.mid))]
       PROVE  Excused(i)'
  <2>1. sync.pc = "write" /\ maestro' = maestro
    BY <1>10 DEF SyncWrites
  <2>2. inst[i].mid = sync.mid /\ sync.mid \in Mid /\ maestro[sync.mid] # "live" /\ sync.mid # None
    BY <1>10, <2>1, LadderAssumption DEF ReadingsStand, Shape, SyncNamed, Terminal
  <2>3. inst'[i].seq = s /\ inst'[i].mid = inst[i].mid
    BY <1>1, <1>10 DEF InstanceState
  <2>4. Ended(i)'
    BY <1>1, <2>1, <2>2, <2>3 DEF Ended
  <2>5. QED
    BY <2>4 DEF Excused
<1>11. ASSUME inst'[i] = [inst[i] EXCEPT !.counted = TRUE]
       PROVE  Steady(i, s)'
  BY <1>1, <1>11 DEF Steady, InstanceState
<1>12. inst'[i] = inst[i] \/ Rewritten(i)
  BY ItemWrites
<1>13. QED
  BY <1>2, <1>3, <1>4, <1>5, <1>6, <1>7, <1>8, <1>9, <1>10, <1>11, <1>12 DEF Rewritten

(* What excuses an item lasts, unless a launch is persisted over one that  *)
(* has ended.                                                              *)
LEMMA ExcusedStays ==
  ASSUME Shape, IdleAskNothing, Next, NEW i \in Inst, Excused(i)
  PROVE  \/ Excused(i)'
         \/ i \notin hist'.torn /\ \E w \in Worker : Persist(w) /\ JobOf(w).inst = i /\ inst'[i].status = "running"
<1>1. CASE i \in hist.torn \/ AskedAgain(i)
  BY <1>1, TornGrows, AskedStays DEF Excused
<1>2. CASE inst[i].manual
  <2>1. inst[i] # NoInst
    BY <1>2 DEF NoInst
  <2>2. QED
    BY <1>2, <2>1, MarksStand DEF Excused
<1>3. CASE Ended(i)
  <2>1. inst[i].seq # 0 /\ inst[i].mid # None /\ maestro[inst[i].mid] # "live" /\ inst[i] \in InstanceState
    BY <1>3 DEF Ended, Shape, Typed, InstTyped
  <2>2. inst[i] # NoInst /\ inst[i].mid \in Mid /\ Launched(inst[i].mid)
    BY <2>1 DEF NoInst, InstanceState, Shape, ItemsNamed
  <2>3. inst'[i].seq # 0
    BY <2>1, <2>2, Grows DEF Numbered, Exists, Shape, ItemsNamed
  <2>4. maestro'[inst[i].mid] # "live"
    BY <2>1, <2>2, EndsStand
  <2>5. CASE inst'[i].mid = inst[i].mid
    BY <2>1, <2>3, <2>4, <2>5 DEF Ended, Excused
  <2>6. CASE inst'[i].mid # inst[i].mid
    <3>1. PICK w \in Worker : Persist(w) /\ JobOf(w).inst = i /\ inst'[i] = [inst[i] EXCEPT !.status = "running", !.mid = wk[w].mid]
      BY <2>2, <2>6, MidMoves
    <3>2. inst'[i].status = "running"
      BY <2>1, <3>1 DEF InstanceState
    <3>3. QED
      BY <3>1, <3>2 DEF Excused
  <2>7. QED
    BY <2>5, <2>6
<1>4. QED
  BY <1>1, <1>2, <1>3 DEF Excused

(* A worker past the guard is at work on a running item of its number, or  *)
(* one that is excused.                                                    *)
LEMMA WorkIsSteadyKept ==
  Shape /\ IdleAskNothing /\ PastIsLatest /\ HeldAlone /\ OneBearer /\ ReadingsStand /\ WorkIsSteady /\ [Next]_vars => WorkIsSteady'
<1> SUFFICES ASSUME Shape, IdleAskNothing, PastIsLatest, HeldAlone, OneBearer, ReadingsStand, WorkIsSteady, [Next]_vars PROVE WorkIsSteady'
  OBVIOUS
<1>1. CASE UNCHANGED vars
  BY <1>1 DEF vars, WorkIsSteady, Past, Steady, Excused, AskedAgain, Ended
<1>2. ASSUME Next, NEW w \in Worker, Past(w)', NEW i \in Inst, wk'[w].inst = i, NEW s, wk'[w].seq = s
      PROVE  Steady(i, s)' \/ Excused(i)'
  <2>1. i # None /\ (Past(w)' <=> wk'[w].pc \notin {"idle", "guard", "ack", "failEntry", "count"})
    BY LadderAssumption DEF Past
  <2>2. CASE Past(w) /\ wk[w].inst = i /\ wk[w].seq = s
    <3>1. Steady(i, s) \/ Excused(i)
      BY <2>1, <2>2 DEF WorkIsSteady
    <3>2. inst[i].seq # 0
      BY <2>1, <2>2 DEF Past, Shape, WorkersNamed, WorkerOK, Numbered
    <3>3. ASSUME i \notin hist.torn, NEW v \in Worker, Past(v), JobOf(v).inst = i
          PROVE  v = w
      BY <2>2, <3>3, WorkBears, AloneAtWork
    <3>4. CASE Steady(i, s)
      <4>1. ASSUME i \notin hist.torn, NEW v \in Worker, DenyInstance(v) \/ FailInstance(v), JobOf(v).inst = i
            PROVE  FALSE
        <5>1. v = w
          BY <3>3, <4>1 DEF DenyInstance, FailInstance, Past
        <5>2. wk'[w].pc \in {"ack", "failEntry"}
          BY <4>1, <5>1 DEF DenyInstance, FailInstance, Step, Shape, Typed, WkTyped, WorkerState
        <5>3. QED
          BY <1>2, <2>1, <5>2
      <4>2. QED
        BY <1>2, <3>2, <3>4, <4>1, SteadyStays
    <3>5. CASE Excused(i)
      <4>1. ASSUME i \notin hist'.torn, NEW v \in Worker, Persist(v), JobOf(v).inst = i, inst'[i].status = "running"
            PROVE  Steady(i, s)'
        <5>1. i \notin hist.torn /\ Past(v)
          BY <1>2, <4>1, TornGrows DEF Persist, Past
        <5>2. v = w
          BY <3>3, <4>1, <5>1
        <5>3. SetInst(i, [inst[i] EXCEPT !.status = "running", !.mid = wk[v].mid])
          BY <2>1, <4>1 DEF Persist
        <5>4. inst'[i].seq = inst[i].seq
          BY <5>3 DEF SetInst, Shape, Typed, InstTyped, InstanceState
        <5>5. inst[i].seq = s
          BY <2>1, <2>2, <5>1 DEF PastIsLatest
        <5>6. QED
          BY <4>1, <5>4, <5>5 DEF Steady
      <4>2. QED
        BY <1>2, <3>5, <4>1, ExcusedStays
    <3>6. QED
      BY <3>1, <3>4, <3>5
  <2>3. CASE wk[w].inst = None /\ Track(w)
    <3>1. PICK j \in Inst : /\ SetInst(j, [NoInst EXCEPT !.status = "running", !.seq = seqs + 1])
                            /\ wk' = [wk EXCEPT ![w].pc = "report", ![w].inst = j, ![w].seq = seqs + 1]
      BY <2>3 DEF Track
    <3>2. j = i /\ s = seqs + 1
      BY <1>2, <3>1 DEF Shape, Typed, WkTyped, WorkerState
    <3>3. inst'[i].status = "running" /\ inst'[i].seq = seqs + 1
      BY <3>1, <3>2 DEF SetInst, NoInst, Shape, Typed, InstTyped
    <3>4. QED
      BY <3>2, <3>3 DEF Steady
  <2>4. CASE RetryGuard(w)
    <3>1. ~Superseded(w) /\ wk[w].inst = i /\ wk[w].seq = s /\ wk[w].pc = "guard" /\ inst' = inst
      BY <1>2, <2>1, <2>4 DEF RetryGuard, Step, Shape, Typed, WkTyped, WorkerState
    <3>2. JobOf(w).inst = i /\ JobOf(w).seq = s /\ inst[i].seq # 0
      BY <1>2, <2>1, <3>1 DEF Shape, WorkersNamed, WorkerOK, Numbered
    <3>3. inst[i].status = "running" /\ inst[i].seq = s
      BY <2>1, <3>1, <3>2 DEF Superseded
    <3>4. QED
      BY <3>1, <3>3 DEF Steady
  <2>5. CASE wk'[w] = wk[w]
    BY <1>2, <2>1, <2>2, <2>5 DEF Past
  <2>6. CASE wk'[w] # wk[w] /\ ~RetryGuard(w) /\ ~(wk[w].inst = None /\ Track(w))
    <3>1. Came(w) /\ (~Track(w) => wk'[w].inst = wk[w].inst /\ wk'[w].seq = wk[w].seq)
      BY <1>2, <2>1, <2>6, WorkerComes
    <3>2. Past(w)
      BY <2>1, <1>2, <2>6, <3>1 DEF Came, Past, GateDenies, LaunchSucceeds, LaunchFails, ReplyLost, TryFails, Persist, CompleteEntry, Track,
         ReportRetry, ReadEntry
    <3>3. wk'[w].inst = wk[w].inst /\ wk'[w].seq = wk[w].seq
      <4>1. CASE Track(w)
        BY <2>6, <4>1 DEF Track, Step, Shape, Typed, WkTyped, WorkerState
      <4>2. QED
        BY <3>1, <4>1
    <3>4. QED
      BY <1>2, <2>2, <3>2, <3>3
  <2>7. QED
    BY <2>3, <2>4, <2>5, <2>6
<1>3. ASSUME Next, NEW w \in Worker, Past(w)', wk'[w].inst # None
      PROVE  Steady(wk[w].inst, wk[w].seq)' \/ Excused(wk[w].inst)'
  <2>1. PICK i \in Inst, s \in Nat : wk'[w].inst = i /\ wk'[w].seq = s
    BY <1>3, ShapeKept DEF Shape, Typed, WkTyped, WorkerState
  <2>2. Steady(i, s)' \/ Excused(i)'
    BY <1>2, <1>3, <2>1
  <2>3. QED
    BY <2>1, <2>2 DEF Steady, Excused, AskedAgain, Ended
<1>4. CASE Next
  BY <1>3, <1>4 DEF WorkIsSteady
<1>5. QED
  BY <1>1, <1>4

-----------------------------------------------------------------------------
(* The next job of the entry, once queued, settles it.                     *)
LEMMA NewJobSettles ==
  ASSUME Shape, Next, NEW w \in Worker, Repark(w) \/ EnqueueRetry(w), JobOf(w).entry = Match,
         Repark(w) /\ JobOf(w).inst # None => Steady(JobOf(w).inst, JobOf(w).seq),
         EnqueueRetry(w) => Steady(wk[w].inst, wk[w].seq)
  PROVE  \E n \in Msg : ToSettle(n)'
<1>1. msg \in [Msg -> MessageState] /\ wk \in [Worker -> WorkerState] /\ wk[w].msg \in Msg
  BY DEF Shape, Typed, MsgTyped, WkTyped, WorkersNamed, WorkerOK, Repark, EnqueueRetry
<1>2. JobOf(w) \in Job
  BY <1>1 DEF JobOf, MessageState
<1>3. wk[w].pc # "idle" /\ wk' = [wk EXCEPT ![w].pc = "ack"] /\ inst' = inst
  BY DEF Repark, EnqueueRetry, Step
<1>4. ASSUME NEW n \in Msg, NEW job, Send(n, job), job.entry = Match,
             job.inst # None => inst[job.inst].status = "running" /\ inst[job.inst].seq = job.seq
      PROVE  ToSettle(n)'
  <2>1. FreshMsg(n) /\ msg'[n].state = "visible" /\ msg'[n].job = job
    BY <1>1, <1>4 DEF Send
  <2>2. ASSUME NEW v \in Worker, wk'[v].pc \in {"denyInst", "stats", "count", "ack"}, wk'[v].msg = n
        PROVE  FALSE
    <3>1. wk[v].msg = n /\ wk[v].pc # "idle"
      BY <1>1, <1>3, <2>2 DEF WorkerState
    <3>2. QED
      BY <2>1, <3>1 DEF FreshMsg, Unused, Held
  <2>3. QED
    BY <1>3, <1>4, <2>1, <2>2 DEF ToSettle, Alive, Steady
<1>5. CASE Repark(w)
  <2> DEFINE job == [JobOf(w) EXCEPT !.early = FALSE]
  <2>1. PICK n \in Msg : Send(n, job)
    BY <1>5 DEF Repark
  <2>2. job.inst = JobOf(w).inst /\ job.seq = JobOf(w).seq /\ job.entry = Match
    BY <1>2 DEF Job
  <2> HIDE DEF job
  <2>3. QED
    BY <1>4, <1>5, <2>1, <2>2 DEF Steady
<1>6. CASE EnqueueRetry(w)
  <2> DEFINE a == JobOf(w).attempt + 1
             b == a \in Deferred
             job == [JobOf(w) EXCEPT !.attempt = a, !.inst = wk[w].inst, !.seq = wk[w].seq, !.early = b]
  <2>1. PICK n \in Msg : Send(n, job)
    BY <1>6 DEF EnqueueRetry
  <2>2. job.inst = wk[w].inst /\ job.seq = wk[w].seq /\ job.entry = Match
    BY <1>2 DEF Job
  <2> HIDE DEF job
  <2>3. QED
    BY <1>4, <1>6, <2>1, <2>2 DEF Steady
<1>7. QED
  BY <1>5, <1>6

(* An excuse lasts, or the launch that voids it is of the entry's job.     *)
LEMMA ExcusesCare ==
  ASSUME Shape, IdleAskNothing, JobsKnowEntry, PastIsLatest, HeldAlone, Next, NEW i \in Inst, Excused(i)
  PROVE  Cared'
<1>1. ASSUME i \notin hist'.torn, NEW w \in Worker, Persist(w), JobOf(w).inst = i, inst'[i].status = "running"
      PROVE  Cared'
  <2>1. i # None /\ i \notin hist.torn /\ wk[w].pc = "persist" /\ Past(w) /\ msg' = msg
    BY <1>1, LadderAssumption, TornGrows DEF Persist, Past
  <2>2. wk[w].inst = i /\ wk[w].seq = JobOf(w).seq
    BY <1>1, <2>1 DEF Shape, WorkersNamed, WorkerOK
  <2>3. PICK m \in Msg : m = wk[w].msg
    BY <2>1 DEF Shape, WorkersNamed, WorkerOK
  <2>4. msg[m].state = "hidden" /\ \A v \in Worker : wk[v].pc # "idle" /\ wk[v].msg = m => v = w
    BY <1>1, <2>1, <2>3 DEF HeldAlone
  <2>5. SetInst(i, [inst[i] EXCEPT !.status = "running", !.mid = wk[w].mid])
    BY <1>1, <2>1 DEF Persist
  <2>6. inst'[i].seq = JobOf(w).seq
    BY <2>1, <2>2, <2>5 DEF PastIsLatest, SetInst, Shape, Typed, InstTyped, InstanceState
  <2>7. CASE JobOf(w).entry = Match
    <3>1. wk' = [wk EXCEPT ![w].pc = "complete"] /\ wk \in [Worker -> WorkerState]
      BY <1>1 DEF Persist, Step, Shape, Typed, WkTyped
    <3>2. ASSUME NEW v \in Worker, wk'[v].pc \in {"denyInst", "stats", "count", "ack"}, wk'[v].msg = m
          PROVE  FALSE
      BY <2>4, <3>1, <3>2 DEF WorkerState
    <3>3. msg'[m].job = JobOf(w)
      BY <2>1, <2>3 DEF JobOf
    <3>4. ToSettle(m)'
      BY <1>1, <2>1, <2>4, <2>6, <2>7, <3>2, <3>3 DEF ToSettle, Alive, Steady
    <3>5. QED
      BY <3>4 DEF Cared
  <2>8. CASE JobOf(w).entry # Match
    <3>1. AskedAgain(i)
      BY <1>1, <2>3, <2>8 DEF JobsKnowEntry, JobOf
    <3>2. QED
      BY <3>1, AskedStays DEF Cared, Excused
  <2>9. QED
    BY <2>7, <2>8
<1>2. CASE Excused(i)'
  BY <1>2 DEF Cared
<1>3. QED
  BY <1>1, <1>2, ExcusedStays

(* The status of the entry is written by the worker of a job of it.        *)
LEMMA EntryWrites ==
  ASSUME Shape, Next
  PROVE  \/ entry'[Match] = entry[Match]
         \/ \E w \in Worker : /\ JobOf(w).entry = Match
                              /\ \/ ReportRetry(w)
                                 \/ (GateDenies(w) \/ CompleteEntry(w) \/ FailEntry(w)) /\ ~Open'
<1>1. entry \in [Entry -> EntryStatus] /\ Match \in Entry
  BY DEF Shape, Typed, Entry
<1>2. CASE entry' = entry
  BY <1>2
<1>3. ASSUME NEW w \in Worker, NEW s, entry' = [entry EXCEPT ![JobOf(w).entry] = s]
      PROVE  entry'[Match] = entry[Match] \/ (JobOf(w).entry = Match /\ entry'[Match] = s)
  BY <1>1, <1>3
<1>4. ASSUME NEW w \in Worker, WorkerActs(w)
      PROVE  \/ entry' = entry
             \/ ReportRetry(w) /\ entry' = [entry EXCEPT ![JobOf(w).entry] = "retrying"]
             \/ GateDenies(w) /\ entry' = [entry EXCEPT ![JobOf(w).entry] = "skipped"]
             \/ CompleteEntry(w) /\ entry' = [entry EXCEPT ![JobOf(w).entry] = "completed"]
             \/ FailEntry(w) /\ entry' = [entry EXCEPT ![JobOf(w).entry] = "failed"]
  BY <1>4 DEF WorkerActs, WorkerStep, ReplyLost, TryFails, CatchFails, AfterSwallowed, WorkerCrashes, Receive, Repark, RetryGuard, GateDenies,
     DenyInstance, LaunchSucceeds, LaunchFails, Persist, CompleteEntry, UpdateStats, Track, ReportRetry,
     EnqueueRetry, ReadEntry, FailInstance, FailEntry, CountFailure, Ack
<1>5. ASSUME NEW q \in Req, RequestActs(q)
      PROVE  entry' = entry
  BY <1>5 DEF RequestActs, ReadInstance, RequestStep, RequestCrashes, RetryWrites, SendRetry, CancelAtMaestro, CancelRejected,
     CancelWrites, Fetch, LiveWrites, LiveCounts, jobs
<1>6. CASE Rest \/ SyncScans \/ SyncStep \/ (\E m \in Msg : Reappear(m) \/ ReappearEarly(m)) \/ (\E k \in Mid : WorkflowEnds(k))
  BY <1>6 DEF Rest, vars, SyncScans, SyncStep, SyncWrites, SyncCounts, SyncCharges, Reappear, ReappearEarly, WorkflowEnds, jobs
<1>7. ASSUME NEW w \in Worker, WorkerActs(w)
      PROVE  \/ entry'[Match] = entry[Match]
             \/ /\ JobOf(w).entry = Match
                /\ \/ ReportRetry(w)
                   \/ (GateDenies(w) \/ CompleteEntry(w) \/ FailEntry(w)) /\ ~Open'
  BY <1>2, <1>3, <1>4, <1>7 DEF Open
<1>8. QED
  BY <1>2, <1>5, <1>6, <1>7 DEF Next, WorkerActs, RequestActs

(* A worker that reports the entry as retried will queue its next job.     *)
LEMMA ReportedIsCared ==
  ASSUME Shape, WorkIsSteady, Next, NEW w \in Worker, ReportRetry(w), JobOf(w).entry = Match
  PROVE  Cared'
<1>1. ReportRetry(w) /\ JobOf(w).entry = Match
  OBVIOUS
<1>2. wk[w].pc = "report" /\ wk'[w].pc = "enqueue" /\ wk'[w].msg = wk[w].msg /\ wk'[w].inst = wk[w].inst /\ wk'[w].seq = wk[w].seq
  BY <1>1 DEF ReportRetry, Step, Shape, Typed, WkTyped, WorkerState
<1>3. JobOf(w)' = JobOf(w) /\ inst' = inst /\ maestro' = maestro /\ rq' = rq /\ wk[w].inst # None
  BY <1>1, <1>2, JobsStand DEF ReportRetry, others, Shape, WorkersNamed, WorkerOK
<1>4. PICK i \in Inst : i = wk[w].inst
  BY <1>3 DEF Shape, Typed, WkTyped, WorkerState
<1>5. Steady(i, wk[w].seq) \/ Excused(i)
  BY <1>2, <1>3, <1>4 DEF WorkIsSteady, Past
<1>6. CASE Steady(i, wk[w].seq)
  <2>1. Settling(w)'
    BY <1>1, <1>2, <1>3, <1>4, <1>6 DEF Settling, Steady
  <2>2. QED
    BY <2>1 DEF Cared
<1>7. CASE Excused(i)
  <2>1. Excused(i)'
    BY <1>3, <1>7, TornGrows DEF Excused, AskedAgain, Ended
  <2>2. QED
    BY <2>1 DEF Cared
<1>8. QED
  BY <1>5, <1>6, <1>7

(* An entry that is opened is opened by such a worker.                     *)
LEMMA OpenedIsCared ==
  ASSUME Shape, WorkIsSteady, Next, ~Open, Open'
  PROVE  Cared'
  BY EntryWrites, ReportedIsCared DEF Open

(* A worker that fails to fail the entry leaves its mark on it.            *)
LEMMA SwallowedIsCared ==
  ASSUME Shape, NEW w \in Worker, CatchFails(w), wk[w].pc = "failEntry", JobOf(w).entry = Match
  PROVE  Cared'
<1>1. hist'.unsettled = hist.unsettled \cup {e \in Entry : e = JobOf(w).entry /\ wk[w].pc = "failEntry"}
  BY DEF CatchFails, Shape, Typed, History
<1>2. QED
  BY <1>1 DEF Cared, Entry

-----------------------------------------------------------------------------
(* A worker that is about to settle the entry does so, or sends the next   *)
(* job, or leaves the message to the next worker, or tears the item, or    *)
(* fails to and leaves its mark.                                           *)
LEMMA SettlingCares ==
  ASSUME Shape, PastIsLatest, HeldAlone, OneBearer, ReadingsStand, Next, Open', NEW w \in Worker, Settling(w)
  PROVE  Cared'
<1>1. wk[w].pc \in {"failEntry", "enqueue"} /\ JobOf(w).entry = Match /\ WorkerOK(w) /\ wk[w] \in WorkerState
      /\ wk[w].msg \in Msg
  BY DEF Settling, Shape, WorkersNamed, Typed, WkTyped, WorkerOK
<1>2. PICK i \in Inst : i = wk[w].inst
  BY <1>1 DEF Settling, WorkerOK, WorkerState
<1>3. i # None /\ Numbered(i) /\ (JobOf(w).inst # None => JobOf(w).inst = i /\ JobOf(w).seq = wk[w].seq)
      /\ (wk[w].pc = "failEntry" => JobOf(w).inst # None)
  BY <1>1, <1>2, LadderAssumption DEF WorkerOK, Settling
<1>4. ASSUME i \in hist'.torn
      PROVE  Cared'
  BY <1>4 DEF Cared, Excused
<1>5. CASE wk'[w] = wk[w]
  <2>1. JobOf(w)' = JobOf(w)
    BY <1>1, <1>5, JobsStand
  <2>2. CASE wk[w].pc = "failEntry"
    <3>1. Settling(w)'
      BY <1>1, <1>3, <1>5, <2>1, <2>2 DEF Settling
    <3>2. QED
      BY <3>1 DEF Cared
  <2>3. CASE wk[w].pc = "enqueue"
    <3>1. Steady(i, wk[w].seq) /\ Past(w) /\ inst[i].seq # 0
      BY <1>2, <1>3, <2>3 DEF Settling, Past, Numbered
    <3>2. ASSUME i \notin hist.torn, NEW v \in Worker, DenyInstance(v) \/ FailInstance(v), JobOf(v).inst = i
          PROVE  FALSE
      <4>1. Past(v) /\ wk[v].pc # "enqueue"
        BY <3>2 DEF DenyInstance, FailInstance, Past
      <4>2. v = w
        BY <1>2, <3>1, <3>2, <4>1, WorkBears, AloneAtWork
      <4>3. QED
        BY <2>3, <4>1, <4>2
    <3>3. PICK s : s = wk[w].seq
      OBVIOUS
    <3>4. Steady(i, s)' \/ Excused(i)'
      BY <3>1, <3>2, <3>3, SteadyStays
    <3>5. Steady(i, s)' => Settling(w)'
      BY <1>1, <1>2, <1>5, <2>1, <2>3, <3>3 DEF Settling, Steady
    <3>6. QED
      BY <3>4, <3>5 DEF Cared
  <2>4. QED
    BY <1>1, <2>2, <2>3
<1>6. CASE WorkerCrashes(w)
  <2>1. wk' = [wk EXCEPT ![w] = IdleWorker] /\ msg' = msg /\ inst' = inst /\ hist'.torn = hist.torn \cup Exposed(w)
    BY <1>6 DEF WorkerCrashes, Leave, Shape, Typed, History
  <2>2. CASE JobOf(w).inst = None \/ wk[w].pc = "failEntry"
    <3>1. i \in Exposed(w)
      BY <1>2, <2>2 DEF Exposed
    <3>2. QED
      BY <1>4, <2>1, <3>1
  <2>3. CASE JobOf(w).inst = i /\ wk[w].pc = "enqueue" /\ i \notin hist'.torn
    <3>1. PICK m \in Msg : m = wk[w].msg
      BY <1>1
    <3>2. msg[m].state = "hidden" /\ \A v \in Worker : wk[v].pc # "idle" /\ wk[v].msg = m => v = w
      BY <1>3, <2>1, <2>3, <3>1 DEF HeldAlone
    <3>3. ASSUME NEW v \in Worker, wk'[v].pc \in {"denyInst", "stats", "count", "ack"}, wk'[v].msg = m
          PROVE  FALSE
      BY <2>1, <3>2, <3>3 DEF IdleWorker, Shape, Typed, WkTyped
    <3>4. Steady(i, JobOf(w).seq) /\ JobOf(w) = msg[m].job
      BY <1>2, <1>3, <2>3, <3>1 DEF Settling, JobOf
    <3>5. ToSettle(m)'
      BY <1>1, <2>1, <2>3, <3>2, <3>3, <3>4 DEF ToSettle, Alive, Steady
    <3>6. QED
      BY <3>5 DEF Cared
  <2>4. QED
    BY <1>1, <1>3, <1>4, <2>2, <2>3
<1>7. CASE FailEntry(w)
  <2>1. entry'[Match] = "failed"
    BY <1>1, <1>7 DEF FailEntry, Shape, Typed, Entry
  <2>2. QED
    BY <2>1 DEF Open
<1>8. CASE EnqueueRetry(w)
  <2>1. Steady(wk[w].inst, wk[w].seq) /\ ~Repark(w)
    BY <1>8 DEF Settling, EnqueueRetry, Repark
  <2>2. \E n \in Msg : ToSettle(n)'
    BY <1>1, <1>8, <2>1, NewJobSettles
  <2>3. QED
    BY <2>2 DEF Cared
<1>11. ASSUME CatchFails(w)
       PROVE  Cared'
  <2>1. wk[w].pc = "failEntry"
    BY <1>1, <1>11 DEF CatchFails, BestEffort
  <2>2. QED
    BY <1>1, <1>11, <2>1, SwallowedIsCared
<1>9. wk'[w] = wk[w] \/ WorkerCrashes(w) \/ FailEntry(w) \/ EnqueueRetry(w) \/ CatchFails(w)
  <2>1. ~Came(w) \/ FailEntry(w) \/ EnqueueRetry(w) \/ CatchFails(w)
    BY <1>1 DEF Came, Repark, DenyInstance, UpdateStats, RetryGuard, GateDenies, CountFailure, LaunchSucceeds,
       LaunchFails, ReplyLost, TryFails, Persist, CompleteEntry, Track, ReportRetry, FailInstance, ReadEntry
  <2>2. ~Ends(w) \/ WorkerCrashes(w) \/ CatchFails(w)
    BY <1>1 DEF Ends, Ack, CountFailure
  <2>3. ~\E m \in Msg : Receive(w, m)
    BY <1>1 DEF Receive
  <2>4. QED
    BY <2>1, <2>2, <2>3, WorkerComes
<1>10. QED
  BY <1>5, <1>6, <1>7, <1>8, <1>9, <1>11

(* A job that would settle the entry goes on to, or hands over to a worker *)
(* or to the next job, or its item is excused.                             *)
LEMMA ToSettleCares ==
  ASSUME Shape, PastIsLatest, HeldAlone, OneBearer, ReadingsStand, WorkIsSteady, Next, Open', NEW m \in Msg, ToSettle(m),
         \A i \in Inst : ~Excused(i)'
  PROVE  Cared'
<1>1. Alive(m) /\ msg[m].job.entry = Match /\ msg[m] \in MessageState
      /\ \A w \in Worker : wk[w].pc \in {"denyInst", "stats", "count", "ack"} => wk[w].msg # m
  BY DEF ToSettle, Shape, Typed, MsgTyped
<1>2. msg'[m].state \in {"visible", "hidden", "dead"} /\ msg'[m].job = msg[m].job
  <2>1. ASSUME NEW s, msg'[m] = [msg[m] EXCEPT !.state = s], s \in {"visible", "hidden", "dead"}
        PROVE  msg'[m].state \in {"visible", "hidden", "dead"} /\ msg'[m].job = msg[m].job
    BY <1>1, <2>1 DEF MessageState
  <2>2. ASSUME msg'[m] = [msg[m] EXCEPT !.state = "hidden", !.received = @ + 1]
        PROVE  msg'[m].state \in {"visible", "hidden", "dead"} /\ msg'[m].job = msg[m].job
    BY <1>1, <2>2 DEF MessageState
  <2>3. \A w \in Worker : ~(Ack(w) /\ wk[w].msg = m)
    BY <1>1 DEF Ack
  <2>4. \A i, s, e : ~Sent(m, i, s, e)
    BY <1>1 DEF Sent, Alive
  <2>5. msg'[m] = msg[m] \/ Moved(m)
    BY MsgMoves
  <2>6. QED
    BY <1>1, <2>1, <2>2, <2>3, <2>4, <2>5 DEF Moved, Alive
<1>3. ASSUME NEW w \in Worker, wk[w].pc # "idle", wk[w].msg = m
      PROVE  JobOf(w) = msg[m].job /\ JobOf(w).entry = Match
             /\ (JobOf(w).inst # None => Steady(JobOf(w).inst, JobOf(w).seq))
  BY <1>1, <1>3 DEF ToSettle, JobOf
<1>4. ASSUME NEW w \in Worker, wk'[w].pc \in {"denyInst", "stats", "count", "ack"}, wk'[w].msg = m
      PROVE  Cared'
  <2>1. wk'[w] # wk[w]
    BY <1>1, <1>4
  <2>2. Came(w) /\ wk[w].pc # "idle" /\ wk[w].msg = m
    BY <1>4, <2>1, WorkerComes
  <2>3. JobOf(w) = msg[m].job /\ JobOf(w).entry = Match
        /\ (JobOf(w).inst # None => Steady(JobOf(w).inst, JobOf(w).seq))
    BY <1>3, <2>2
  <2>4. ~GateDenies(w) /\ ~CompleteEntry(w) /\ ~FailEntry(w)
    <3>1. entry \in [Entry -> EntryStatus] /\ Match \in Entry
      BY DEF Shape, Typed, Entry
    <3>2. QED
      BY <2>3, <3>1 DEF Open, GateDenies, CompleteEntry, FailEntry
  <2>5. ~DenyInstance(w) /\ ~UpdateStats(w) /\ ~CountFailure(w)
    BY <1>1, <2>2 DEF DenyInstance, UpdateStats, CountFailure
  <2>6. ~Superseded(w)
    BY <2>3 DEF Superseded, Steady
  <2>11. ASSUME CatchFails(w)
         PROVE  Cared'
    <3>1. ~Repark(w) /\ ~EnqueueRetry(w) /\ ~RetryGuard(w) /\ ~GateDenies(w) /\ ~FailEntry(w) /\ ~CompleteEntry(w)
      BY <2>4, <2>11 DEF CatchFails, BestEffort, Repark, EnqueueRetry, RetryGuard
    <3>2. wk[w].pc = "failEntry"
      BY <1>1, <1>4, <2>2, <2>5, <2>11, <3>1 DEF Came
    <3>3. QED
      BY <2>3, <2>11, <3>2, SwallowedIsCared
  <2>7. Repark(w) \/ EnqueueRetry(w) \/ CatchFails(w)
    BY <1>4, <2>2, <2>4, <2>5, <2>6 DEF Came
  <2>8. EnqueueRetry(w) => Steady(wk[w].inst, wk[w].seq)
    <3>1. ASSUME EnqueueRetry(w)
          PROVE  Steady(wk[w].inst, wk[w].seq)
      <4>1. wk[w].pc = "enqueue" /\ wk[w].inst # None /\ inst' = inst /\ maestro' = maestro /\ rq' = rq /\ hist' = hist
        BY <3>1 DEF EnqueueRetry, others, Shape, WorkersNamed, WorkerOK
      <4>2. PICK i \in Inst : i = wk[w].inst
        BY <4>1 DEF Shape, Typed, WkTyped, WorkerState
      <4>3. ~Excused(i)
        BY <4>1 DEF Excused, AskedAgain, Ended
      <4>4. QED
        BY <4>1, <4>2, <4>3 DEF WorkIsSteady, Past
    <3>2. QED
      BY <3>1
  <2>9. ~CatchFails(w) => \E n \in Msg : ToSettle(n)'
    BY <2>3, <2>7, <2>8, NewJobSettles
  <2>10. QED
    BY <2>9, <2>11 DEF Cared
<1>5. CASE msg[m].job.inst = None /\ \A w \in Worker : wk'[w].pc \in {"denyInst", "stats", "count", "ack"} => wk'[w].msg # m
  <2>1. ToSettle(m)'
    BY <1>1, <1>2, <1>5 DEF ToSettle, Alive
  <2>2. QED
    BY <2>1 DEF Cared
<1>6. CASE msg[m].job.inst # None /\ \A w \in Worker : wk'[w].pc \in {"denyInst", "stats", "count", "ack"} => wk'[w].msg # m
  <2>1. PICK i \in Inst, s \in Nat : i = msg[m].job.inst /\ s = msg[m].job.seq
    BY <1>1, <1>6 DEF MessageState, Job
  <2>2. Steady(i, s) /\ inst[i].seq # 0 /\ i # None
    BY <1>6, <2>1 DEF ToSettle, Shape, JobsNamed, Numbered
  <2>3. Pending(m, i)
    BY <1>1, <2>1, <2>2 DEF Pending, Acked, Steady
  <2>4. ASSUME i \notin hist.torn, NEW v \in Worker, DenyInstance(v) \/ FailInstance(v), JobOf(v).inst = i
        PROVE  Cared'
    <3>1. Past(v) /\ wk[v].pc \in {"denyInst", "failInst"}
      BY <2>4 DEF DenyInstance, FailInstance, Past
    <3>2. PICK n \in Msg : n = wk[v].msg /\ Pending(n, i)
      BY <2>4, <3>1, WorkBears
    <3>3. n = m
      <4>1. <<"msg", n>> = <<"msg", m>>
        BY <2>3, <2>4, <3>2, BearsAs DEF OneBearer
      <4>2. QED
        BY <4>1
    <3>4. FailInstance(v) /\ JobOf(v).entry = Match
      BY <1>1, <1>3, <2>4, <3>1, <3>2, <3>3 DEF DenyInstance
    <3>5. wk'[v].pc = "failEntry" /\ wk'[v].msg = wk[v].msg
      BY <3>4 DEF FailInstance, Step, Shape, Typed, WkTyped, WorkerState
    <3>6. JobOf(v)' = JobOf(v)
      BY <3>1, <3>5, JobsStand
    <3>7. Settling(v)'
      BY <2>2, <2>4, <3>4, <3>5, <3>6 DEF Settling
    <3>8. QED
      BY <3>7 DEF Cared
  <2>5. Steady(i, s)' => ToSettle(m)'
    BY <1>1, <1>2, <1>6, <2>1 DEF ToSettle, Alive, Steady
  <2>6. CASE Steady(i, s)'
    BY <2>5, <2>6 DEF Cared
  <2>7. QED
    BY <2>2, <2>4, <2>6, SteadyStays
<1>7. QED
  BY <1>4, <1>5, <1>6

-----------------------------------------------------------------------------
(* Every step leaves an open entry with something that will settle it, or  *)
(* with an excuse.                                                         *)
LEMMA EntryBorneKept ==
  Shape /\ IdleAskNothing /\ JobsKnowEntry /\ PastIsLatest /\ HeldAlone /\ OneBearer /\ ReadingsStand /\ WorkIsSteady
    /\ EntryBorne /\ [Next]_vars => EntryBorne'
<1> SUFFICES ASSUME Shape, IdleAskNothing, JobsKnowEntry, PastIsLatest, HeldAlone, OneBearer, ReadingsStand, WorkIsSteady,
                    EntryBorne, [Next]_vars
             PROVE  EntryBorne'
  OBVIOUS
<1>1. CASE UNCHANGED vars
  BY <1>1 DEF vars, EntryBorne, Cared, Open, ToSettle, Alive, Steady, Settling, JobOf, Excused, AskedAgain, Ended
<1>2. ASSUME Next, Open'
      PROVE  Cared'
  <2>1. CASE ~Open
    BY <1>2, <2>1, OpenedIsCared
  <2>2. ASSUME NEW m \in Msg, ToSettle(m)
        PROVE  Cared'
    <3>1. CASE \E i \in Inst : Excused(i)'
      BY <3>1 DEF Cared
    <3>2. CASE ~\E i \in Inst : Excused(i)'
      BY <1>2, <2>2, <3>2, ToSettleCares
    <3>3. QED
      BY <3>1, <3>2
  <2>3. ASSUME NEW w \in Worker, Settling(w)
        PROVE  Cared'
    BY <1>2, <2>3, SettlingCares
  <2>4. ASSUME NEW i \in Inst, Excused(i)
        PROVE  Cared'
    BY <1>2, <2>4, ExcusesCare
  <2>6. CASE Match \in hist.unsettled
    BY <1>2, <2>6, MarksOfSwallowed, ReportedIsCared DEF Cared
  <2>5. QED
    BY <2>1, <2>2, <2>3, <2>4, <2>6 DEF EntryBorne, Cared
<1>3. CASE Next
  BY <1>2, <1>3 DEF EntryBorne
<1>4. QED
  BY <1>1, <1>3

(* A request that has not come still asks nothing.                         *)
LEMMA IdleAskNothingKept == Shape /\ IdleAskNothing /\ [Next]_vars => IdleAskNothing'
<1>1. ASSUME IdleAskNothing, UNCHANGED vars
      PROVE  IdleAskNothing'
  BY <1>1 DEF vars, IdleAskNothing
<1>2. QED
  BY <1>1, AskedStays

(* When everything has come to rest and no message is dead, the entry of   *)
(* the match is settled, unless its ladder was excused or the write of its *)
(* failure failed and was swallowed, and no item is left that only tracks  *)
(* a ladder, but one that a race or a crash tore or whose end failed to be *)
(* written and was swallowed too.                                          *)
THEOREM EntriesSettle == Spec => []SettledAtRest
<1> DEFINE I == /\ Shape /\ IdleAskNothing /\ JobsKnowEntry /\ PastIsLatest /\ SeqsBegun /\ RunHasId /\ LadderBorne
                /\ HeldAlone /\ OneBearer /\ ReadingsStand /\ WorkIsSteady /\ EntryBorne
<1>1. Init => I
  <2> SUFFICES ASSUME Init PROVE I
    OBVIOUS
  <2>1. Shape
    BY ShapeHoldsAtFirst
  <2>2. IdleAskNothing /\ JobsKnowEntry /\ PastIsLatest /\ SeqsBegun /\ RunHasId /\ LadderBorne /\ HeldAlone /\ ReadingsStand
        /\ WorkIsSteady
    BY DEF Init, IdleAskNothing, JobsKnowEntry, PastIsLatest, SeqsBegun, RunHasId, LadderBorne, HeldAlone, ReadingsStand, WorkIsSteady,
       OnlyTracking, Past, NoInst, NoMsg, FirstJob, IdleWorker, IdleReq, IdleSync
  <2>3. ASSUME NEW i \in Inst
        PROVE  ~Borne(i)
    <3>1. i # None
      BY LadderAssumption
    <3>2. ASSUME NEW m \in Msg, Pending(m, i)
          PROVE  FALSE
      BY <3>1, <3>2 DEF Init, Pending, NoMsg, FirstJob
    <3>3. ASSUME NEW w \in Worker, Queueing(w, i)
          PROVE  FALSE
      BY <3>3 DEF Init, Queueing, IdleWorker
    <3>4. ASSUME NEW q \in Req, Sending(q, i)
          PROVE  FALSE
      BY <3>4 DEF Init, Sending, IdleReq
    <3>5. QED
      BY <3>2, <3>3, <3>4 DEF Borne
  <2>4. OneBearer
    BY <2>3, BorneByOne DEF OneBearer
  <2>5. EntryBorne
    <3>1. 1 \in Msg
      BY LadderAssumption
    <3>2. msg[1].state = "visible" /\ msg[1].job = FirstJob
      BY <3>1 DEF Init, NoMsg
    <3>3. ToSettle(1)
      BY <3>1, <3>2 DEF Init, ToSettle, Alive, FirstJob, IdleWorker
    <3>4. QED
      BY <3>1, <3>3 DEF EntryBorne, Cared
  <2>6. QED
    BY <2>1, <2>2, <2>4, <2>5
<1>2. I /\ [Next]_vars => I'
  BY ShapeKept, JobsKnowEntryKept, PastIsLatestKept, SeqsBegunKept, RunHasIdKept, LadderBorneKept, HeldAloneKept,
     OneBearerKept, ReadingsStandKept, WorkIsSteadyKept, EntryBorneKept, IdleAskNothingKept
<1>3. I => SettledAtRest
  <2> SUFFICES ASSUME I, AtRest, ~Dead
               PROVE  /\ entry[Match] \in {"pending", "retrying"} => TakenOver \/ EndedMeanwhile \/ Match \in hist.unsettled
                      /\ \A i \in Inst \ (hist.torn \cup hist.unended) : ~OnlyTracking(i)
    BY DEF SettledAtRest
  <2>1. \A m \in Msg : ~Alive(m)
    BY DEF AtRest, Dead, Alive, Shape, Typed, MsgTyped, MessageState
  <2>2. ASSUME Open, Match \notin hist.unsettled
        PROVE  TakenOver \/ EndedMeanwhile
    <3>1. ~\E m \in Msg : ToSettle(m)
      BY <2>1 DEF ToSettle
    <3>2. ~\E w \in Worker : Settling(w)
      BY DEF AtRest, Settling
    <3>3. PICK i \in Inst : Excused(i)
      BY <2>2, <3>1, <3>2 DEF EntryBorne, Cared
    <3>4. QED
      BY <3>3 DEF Excused, TakenOver, EndedMeanwhile
  <2>3. ASSUME NEW i \in Inst \ (hist.torn \cup hist.unended), OnlyTracking(i)
        PROVE  FALSE
    <3>1. Borne(i)
      BY <2>3 DEF LadderBorne
    <3>2. ~\E m \in Msg : Pending(m, i)
      BY <2>1 DEF Pending
    <3>3. QED
      BY <3>1, <3>2 DEF Borne, AtRest, Queueing, Sending
  <2>4. QED
    BY <2>2, <2>3 DEF Open
<1>4. QED
  BY <1>1, <1>2, <1>3, PTL DEF Spec

-----------------------------------------------------------------------------
(* Who may still count a failure of an entry, and how many there are.  A   *)
(* message waits if nobody is at it; it comes back if whoever is at it has *)
(* only its failure to count and throws it back to SQS.  A worker owes the *)
(* entry a count until it has read that the entry failed before, launched, *)
(* or sent the next job.                                                   *)
TryPlaces     == {"guard", "launch", "persist", "complete", "track", "report", "final"}
FailPlaces    == {"failInst", "failEntry", "count"}
WorksFor(w, e) == wk[w].pc # "idle" /\ JobOf(w).entry = e
AtIt(w)       == wk[w].pc \notin {"denyInst", "stats", "ack"}
AtWork(e)     == {w \in Worker : WorksFor(w, e) /\ AtIt(w)}
Waits(m)      == msg[m].state = "visible" \/ (msg[m].state = "hidden" /\ ~Held(m))
Waiting(e)    == {m \in Msg : msg[m].job.entry = e /\ Waits(m)}
Owes(w)       == wk[w].pc \in TryPlaces \cup {"enqueue"} \/ (wk[w].pc \in FailPlaces /\ ~wk[w].again)
OwingOf(e)    == {w \in Worker : WorksFor(w, e) /\ Owes(w)}
ThrowsBack(w) == wk[w].pc = "count" /\ Rethrown(w)
Holds(w, m)   == wk[w].pc # "idle" /\ wk[w].msg = m
ComesBack(m)  ==
  \/ msg[m].state = "visible"
  \/ msg[m].state = "hidden" /\ \A w \in Worker : Holds(w, m) => ThrowsBack(w)
Coming(e)     == {m \in Msg : msg[m].job.entry = e /\ ComesBack(m)}

(* A first attempt that is still to be made, or to be made again, may      *)
(* report a retry and so clear the mark; until then a mark that stands     *)
(* spares one count.                                                       *)
TriesFirst(w) == wk[w].pc \in TryPlaces /\ Rethrown(w)
IsFirst(m)    == msg[m].job.attempt = 0 /\ MaxAttempts > 0
FirstAhead(e) ==
  \/ \E w \in Worker : WorksFor(w, e) /\ TriesFirst(w)
  \/ \E m \in Coming(e) : IsFirst(m)
MarkSpares(e) == entry[e] = "failed" /\ FirstAhead(e)

Load(e) == Cardinality(AtWork(e)) + Cardinality(Waiting(e))
Debt(e) == hist.failures[e] + Cardinality(OwingOf(e)) + Cardinality(Coming(e))
Fits(e) ==
  /\ Load(e) <= 1 + faults
  /\ Debt(e) <= CountsAllowed \/ (MarkSpares(e) /\ Debt(e) <= CountsAllowed + 1)

(* Of an entry there is one first attempt, unless two retries were asked;  *)
(* a deferred attempt is a later one; and an entry nobody sent a job for   *)
(* has none and no failure.                                                *)
Current(m)     == msg[m].state # "none" \/ Held(m)
FirstAlone(e)  ==
  \A m, n \in {k \in Msg : Current(k) /\ msg[k].job.entry = e /\ msg[k].job.attempt = 0} : m = n
EarlyIsLater   == \A m \in Msg : msg[m].job.early => msg[m].job.attempt # 0
RetrySent(e)   == \E q \in Req : rq[q].kind = "retry" /\ rq[q].inst = e /\ rq[q].pc = "done"
Untouched(e)   == hist.failures[e] = 0 /\ \A m \in Msg : Current(m) => msg[m].job.entry # e
SentOrUntouched == \A e \in Entry : e = Match \/ RetrySent(e) \/ Untouched(e)
FirstsAlone    == \A e \in Entry : AskedTwice(e) \/ FirstAlone(e)
FewAtOnce      == IsFiniteSet({w \in Worker : wk[w].pc # "idle"}) /\ IsFiniteSet({m \in Msg : msg[m].state # "none"})
AllFit         == \A e \in Entry : AskedTwice(e) \/ Fits(e)

(* A set that changes at one member only, and how its size does.           *)
LEMMA SetChange ==
  ASSUME NEW S, NEW T, IsFiniteSet(S), NEW a, \A y : y # a => (y \in T <=> y \in S)
  PROVE  /\ IsFiniteSet(T) /\ Cardinality(S) \in Nat /\ Cardinality(T) \in Nat
         /\ Cardinality(T) <= Cardinality(S) + 1
         /\ (a \in T => a \in S) => Cardinality(T) <= Cardinality(S)
         /\ a \in S /\ a \notin T => Cardinality(T) + 1 <= Cardinality(S)
<1>1. Cardinality(S) \in Nat
  BY FS_CardinalityType
<1>2. T \in SUBSET (S \cup {a})
  OBVIOUS
<1>3. IsFiniteSet(S \cup {a}) /\ Cardinality(S \cup {a}) <= Cardinality(S) + 1
  BY <1>1, FS_AddElement
<1>4. IsFiniteSet(T) /\ Cardinality(T) <= Cardinality(S \cup {a})
  BY <1>2, <1>3, FS_Subset
<1>5. Cardinality(T) \in Nat /\ Cardinality(S \cup {a}) \in Nat
  BY <1>3, <1>4, FS_CardinalityType
<1>6. ASSUME a \in T => a \in S
      PROVE  Cardinality(T) <= Cardinality(S)
  <2>1. T \in SUBSET S
    BY <1>2, <1>6
  <2>2. QED
    BY <2>1, FS_Subset
<1>7. ASSUME a \in S, a \notin T
      PROVE  Cardinality(T) + 1 <= Cardinality(S)
  <2>1. T \in SUBSET (S \ {a})
    BY <1>2, <1>7
  <2>2. IsFiniteSet(S \ {a}) /\ Cardinality(S \ {a}) = Cardinality(S) - 1
    BY <1>7, FS_RemoveElement
  <2>3. Cardinality(T) <= Cardinality(S \ {a})
    BY <2>1, <2>2, FS_Subset
  <2>4. QED
    BY <1>1, <1>5, <2>2, <2>3
<1>8. QED
  BY <1>1, <1>3, <1>4, <1>5, <1>6, <1>7

(* What a worker does, it does alone.                                      *)
LEMMA OthersRest ==
  ASSUME Shape, Next, NEW w \in Worker, WorkerActs(w), NEW v \in Worker, v # w
  PROVE  wk'[v] = wk[v]
<1>1. \E new : wk' = [wk EXCEPT ![w] = new]
  BY DEF WorkerActs, WorkerStep, ReplyLost, TryFails, CatchFails, AfterSwallowed, WorkerCrashes, Receive, Repark, RetryGuard, GateDenies,
     DenyInstance, LaunchSucceeds, LaunchFails, Persist, CompleteEntry, UpdateStats, Track, ReportRetry,
     EnqueueRetry, ReadEntry, FailInstance, FailEntry, CountFailure, Ack, Step, Leave
<1>2. QED
  BY <1>1 DEF Shape, Typed, WkTyped

(* A worker that rests keeps its part.                                     *)
LEMMA WorkerStands ==
  ASSUME Shape, Next, NEW v \in Worker, wk'[v] = wk[v], NEW e
  PROVE  /\ v \in AtWork(e)' <=> v \in AtWork(e)
         /\ v \in OwingOf(e)' <=> v \in OwingOf(e)
         /\ WorksFor(v, e) /\ TriesFirst(v) => WorksFor(v, e)' /\ TriesFirst(v)'
         /\ wk[v].pc # "idle" => ((ThrowsBack(v))' <=> ThrowsBack(v))
<1>1. wk[v].pc # "idle" => JobOf(v)' = JobOf(v)
  BY JobsStand
<1>2. QED
  BY <1>1 DEF AtWork, OwingOf, WorksFor, AtIt, Owes, TriesFirst, ThrowsBack, Rethrown

(* So does a message that is not written and whose holders stay, if they   *)
(* throw it back as before.                                                *)
LEMMA MessageStands ==
  ASSUME Shape, Next, NEW m \in Msg, msg'[m] = msg[m],
         \A v \in Worker : /\ Holds(v, m)' <=> Holds(v, m)
                           /\ wk'[v] # wk[v] /\ Holds(v, m) => ((ThrowsBack(v))' <=> ThrowsBack(v)),
         NEW e
  PROVE  /\ m \in Waiting(e)' <=> m \in Waiting(e)
         /\ m \in Coming(e)' <=> m \in Coming(e)
         /\ IsFirst(m)' <=> IsFirst(m)
<1>1. \A v \in Worker : Holds(v, m) => ((ThrowsBack(v))' <=> ThrowsBack(v))
  <2>1. ASSUME NEW v \in Worker, Holds(v, m), wk'[v] = wk[v]
        PROVE  (ThrowsBack(v))' <=> ThrowsBack(v)
    BY <2>1, WorkerStands DEF Holds
  <2>2. QED
    BY <2>1
<1>2. Held(m)' <=> Held(m)
  BY DEF Held, Holds
<1>3. ComesBack(m)' <=> ComesBack(m)
  BY <1>1 DEF ComesBack
<1>4. QED
  BY <1>2, <1>3 DEF Waiting, Waits, Coming, IsFirst

(* A message that gets a job gets it by a send: a later attempt of the     *)
(* job at hand, or the first of a retry.                                   *)
NewJob(m) ==
  /\ Unused(m) /\ msg'[m].state = "visible"
  /\ \/ \E w \in Worker : /\ Repark(w) \/ EnqueueRetry(w)
                          /\ msg'[m].job.entry = JobOf(w).entry
                          /\ msg'[m].job.early \/ ~JobOf(w).early => msg'[m].job.attempt # 0
                          /\ msg'[m].job.attempt # 0 \/ msg'[m].job.attempt = JobOf(w).attempt
     \/ \E q \in Req : SendRetry(q) /\ msg'[m].job.entry = Of(q) /\ ~msg'[m].job.early
JobMove(m) ==
  \/ msg'[m].job = msg[m].job /\ (msg'[m].state # "none" => msg[m].state # "none")
  \/ msg'[m] = NoMsg /\ \E w \in Worker : Ack(w) /\ wk[w].msg = m /\ ~Shared(w)
  \/ NewJob(m)

(* A message keeps its job, loses it to the last who deletes it, or is     *)
(* sent.                                                                   *)
LEMMA JobMoves ==
  ASSUME Shape, Next, NEW m \in Msg
  PROVE  JobMove(m)
<1>1. MsgTyped /\ msg[m] \in MessageState
  BY DEF Shape, Typed, MsgTyped
<1>2. ASSUME NEW n \in Msg, NEW job, Send(n, job)
      PROVE  msg'[m] = msg[m] \/ (Unused(m) /\ msg'[m].state = "visible" /\ msg'[m].job = job)
  BY <1>1, <1>2 DEF Send, FreshMsg, MsgTyped
<1>3. ASSUME NEW w \in Worker, wk[w].pc # "idle"
      PROVE  JobOf(w) \in Job
  BY <1>3 DEF Shape, Typed, WorkersNamed, WorkerOK, JobOf, MsgTyped, MessageState
<1>4. CASE msg'[m] = msg[m]
  BY <1>4 DEF JobMove
<1>5. ASSUME NEW w \in Worker, NEW n \in Msg, Receive(w, n)
      PROVE  JobMove(m)
  BY <1>1, <1>4, <1>5 DEF Receive, MsgTyped, MessageState, JobMove
<1>6. ASSUME NEW w \in Worker, Repark(w)
      PROVE  JobMove(m)
  <2> DEFINE job == [JobOf(w) EXCEPT !.early = FALSE]
  <2>1. PICK n \in Msg : Send(n, job)
    BY <1>6 DEF Repark
  <2>2. job.entry = JobOf(w).entry /\ job.early = FALSE /\ job.attempt = JobOf(w).attempt /\ JobOf(w).early
    BY <1>3, <1>6 DEF Repark, Job
  <2> HIDE DEF job
  <2>3. QED
    BY <1>2, <1>4, <1>6, <2>1, <2>2 DEF JobMove, NewJob
<1>7. ASSUME NEW w \in Worker, EnqueueRetry(w)
      PROVE  JobMove(m)
  <2> DEFINE a == JobOf(w).attempt + 1
             b == a \in Deferred
             job == [JobOf(w) EXCEPT !.attempt = a, !.inst = wk[w].inst, !.seq = wk[w].seq, !.early = b]
  <2>1. PICK n \in Msg : Send(n, job)
    BY <1>7 DEF EnqueueRetry
  <2>2. JobOf(w) \in Job /\ MaxAttempts \in Nat
    BY <1>3, <1>7, LadderAssumption DEF EnqueueRetry
  <2>3. a # 0
    BY <2>2 DEF Job
  <2> HIDE DEF a, b
  <2>4. job.entry = JobOf(w).entry /\ job.attempt = a
    BY <2>2 DEF Job
  <2> HIDE DEF job
  <2>5. QED
    BY <1>2, <1>4, <1>7, <2>1, <2>3, <2>4 DEF JobMove, NewJob
<1>8. ASSUME NEW w \in Worker, Ack(w)
      PROVE  JobMove(m)
  BY <1>1, <1>4, <1>8 DEF Ack, MsgTyped, MessageState, JobMove
<1>9. ASSUME NEW n \in Msg, Reappear(n) \/ ReappearEarly(n)
      PROVE  JobMove(m)
  BY <1>1, <1>4, <1>9 DEF Reappear, ReappearEarly, MsgTyped, MessageState, JobMove
<1>10. ASSUME NEW q \in Req, SendRetry(q)
       PROVE  JobMove(m)
  <2> DEFINE job == [FirstJob EXCEPT !.seq = rq[q].seq, !.inst = Of(q), !.entry = Of(q)]
  <2>1. PICK n \in Msg : Send(n, job)
    BY <1>10 DEF SendRetry
  <2>2. job.entry = Of(q) /\ job.early = FALSE
    BY DEF FirstJob
  <2> HIDE DEF job
  <2>3. QED
    BY <1>2, <1>4, <1>10, <2>1, <2>2 DEF JobMove, NewJob
<1>11. QED
  BY <1>4, <1>5, <1>6, <1>7, <1>8, <1>9, <1>10, MsgFrame

(* A message that is current was so before, with the same job, or has just *)
(* been sent.                                                              *)
LEMMA CurrentBefore ==
  ASSUME Shape, Next, NEW m \in Msg, Current(m)'
  PROVE  (Current(m) /\ msg'[m].job = msg[m].job) \/ (~Current(m) /\ NewJob(m))
<1>1. WkTyped
  BY DEF Shape, Typed
<1>2. ASSUME NEW w \in Worker, wk'[w].pc # "idle", wk'[w].msg = m
      PROVE  Current(m)
  <2>1. CASE wk'[w] = wk[w]
    BY <1>2, <2>1 DEF Current, Held
  <2>2. CASE \E n \in Msg : Receive(w, n)
    <3>1. PICK n \in Msg : Receive(w, n)
      BY <2>2
    <3>2. wk'[w].msg = n
      BY <1>1, <3>1 DEF Receive, IdleWorker, WkTyped
    <3>3. QED
      BY <1>2, <3>1, <3>2 DEF Receive, Current
  <2>3. CASE wk[w].pc # "idle" /\ wk'[w].msg = wk[w].msg
    BY <1>2, <2>3 DEF Current, Held
  <2>4. QED
    BY <1>2, <2>1, <2>2, <2>3, WorkerComes
<1>3. CASE msg'[m].job = msg[m].job /\ (msg'[m].state # "none" => msg[m].state # "none")
  <2>1. Current(m)
    BY <1>2, <1>3 DEF Current, Held
  <2>2. QED
    BY <1>3, <2>1
<1>4. CASE msg'[m] = NoMsg /\ \E w \in Worker : Ack(w) /\ wk[w].msg = m /\ ~Shared(w)
  <2>1. PICK w \in Worker : Ack(w) /\ wk[w].msg = m /\ ~Shared(w)
    BY <1>4
  <2>2. wk'[w].pc = "idle" /\ \A v \in Worker \ {w} : wk'[v] = wk[v]
    BY <1>1, <2>1 DEF Ack, Leave, IdleWorker, WkTyped
  <2>3. ~\E v \in Worker : wk'[v].pc # "idle" /\ wk'[v].msg = m
    BY <2>1, <2>2 DEF Shared
  <2>4. QED
    BY <1>4, <2>3 DEF Current, Held, NoMsg
<1>5. CASE NewJob(m)
  BY <1>5 DEF NewJob, Unused, Current
<1>6. QED
  BY <1>3, <1>4, <1>5, JobMoves DEF JobMove

(* Every step keeps EarlyIsLater.                                          *)
LEMMA EarlyIsLaterKept == Shape /\ EarlyIsLater /\ [Next]_vars => EarlyIsLater'
<1> SUFFICES ASSUME Shape, EarlyIsLater, [Next]_vars PROVE EarlyIsLater'
  OBVIOUS
<1>1. CASE UNCHANGED vars
  BY <1>1 DEF vars, EarlyIsLater
<1>2. ASSUME Next, NEW m \in Msg, msg'[m].job.early
      PROVE  msg'[m].job.attempt # 0
  <2>1. CASE msg'[m].job = msg[m].job
    BY <1>2, <2>1 DEF EarlyIsLater
  <2>2. CASE msg'[m] = NoMsg
    BY <1>2, <2>2 DEF NoMsg, FirstJob
  <2>3. CASE NewJob(m)
    BY <1>2, <2>3 DEF NewJob
  <2>4. QED
    BY <1>2, <2>1, <2>2, <2>3, JobMoves DEF JobMove
<1>3. CASE Next
  BY <1>2, <1>3 DEF EarlyIsLater
<1>4. QED
  BY <1>1, <1>3

(* A retry that was asked stays asked, and one whose job was sent stays    *)
(* so.                                                                     *)
LEMMA RequestsStand ==
  ASSUME Shape, IdleAskNothing, Next, NEW e
  PROVE  (AskedTwice(e) => AskedTwice(e)') /\ (RetrySent(e) => RetrySent(e)')
<1>1. ASSUME NEW q \in Req, rq[q].kind = "retry"
      PROVE  rq'[q].kind = "retry" /\ rq'[q].inst = rq[q].inst /\ (rq[q].pc = "done" => rq'[q].pc = "done")
  <2>1. rq \in [Req -> RequestState] /\ rq[q] \in RequestState
    BY DEF Shape, Typed, RqTyped
  <2>2. CASE rq'[q] = rq[q]
    BY <1>1, <2>2
  <2>3. ASSUME NEW p \in Req, RequestActs(p), rq'[q] # rq[q]
        PROVE  rq[q].pc # "done" /\ rq'[q].kind = rq[q].kind /\ rq'[q].inst = rq[q].inst
    <3>1. CASE ReadInstance(p)
      <4>1. rq[p].pc = "idle" /\ \E x : rq' = [rq EXCEPT ![p] = x]
        BY <3>1 DEF ReadInstance
      <4>2. p = q
        BY <2>1, <2>3, <4>1
      <4>3. QED
        BY <1>1, <4>1, <4>2 DEF IdleAskNothing
    <3>2. ASSUME rq' = [rq EXCEPT ![p] = [IdleReq EXCEPT !.pc = "done", !.kind = rq[p].kind, !.inst = Of(p)]], rq[p].pc # "done"
          PROVE  rq[q].pc # "done" /\ rq'[q].kind = rq[q].kind /\ rq'[q].inst = rq[q].inst
      BY <2>1, <2>3, <3>2 DEF IdleReq, Of
    <3>3. ASSUME NEW pc \in {"write", "count"}, rq' = [rq EXCEPT ![p].pc = pc], rq[p].pc # "done"
          PROVE  rq[q].pc # "done" /\ rq'[q].kind = rq[q].kind /\ rq'[q].inst = rq[q].inst
      BY <2>1, <2>3, <3>3 DEF RequestState
    <3>4. CASE RetryWrites(p)
      BY <2>1, <2>3, <3>4 DEF RetryWrites, RequestState
    <3>5. CASE Fetch(p)
      BY <2>1, <2>3, <3>5 DEF Fetch, RequestState
    <3>6. QED
      BY <2>3, <3>1, <3>2, <3>3, <3>4, <3>5
      DEF RequestActs, RequestStep, SendRetry, CancelAtMaestro, CancelRejected, CancelWrites, LiveWrites, LiveCounts, RequestCrashes,
          Answer, ToRq
  <2>4. QED
    BY <1>1, <2>2, <2>3, RequestsFrame
<1>2. QED
  BY <1>1 DEF AskedTwice, RetrySent

(* A count moves when a worker of the entry reports a retry, or counts.    *)
LEMMA FailuresMove ==
  ASSUME Shape, Next, NEW e \in Entry
  PROVE  \/ hist'.failures[e] = hist.failures[e]
         \/ \E w \in Worker : /\ JobOf(w).entry = e
                              /\ \/ ReportRetry(w) /\ hist'.failures[e] = 0
                                 \/ CountFailure(w) /\ ~wk[w].again /\ hist'.failures[e] = hist.failures[e] + 1
<1>1. hist \in History
  BY DEF Shape, Typed
<1>2. CASE UNCHANGED hist
  BY <1>2
<1>3. ASSUME NEW w \in Worker, ReportRetry(w) \/ CountFailure(w)
      PROVE  \/ hist'.failures[e] = hist.failures[e]
             \/ /\ JobOf(w).entry = e
                /\ \/ ReportRetry(w) /\ hist'.failures[e] = 0
                   \/ CountFailure(w) /\ ~wk[w].again /\ hist'.failures[e] = hist.failures[e] + 1
  <2>1. CASE ReportRetry(w)
    BY <1>1, <2>1 DEF ReportRetry, History
  <2>2. CASE CountFailure(w)
    BY <1>1, <2>2 DEF CountFailure, History
  <2>3. QED
    BY <1>3, <2>1, <2>2
<1>4. ASSUME NEW w \in Worker, WorkerActs(w), ~ReportRetry(w), ~CountFailure(w)
      PROVE  hist'.failures = hist.failures
  BY <1>1, <1>4 DEF WorkerActs, WorkerStep, ReplyLost, TryFails, CatchFails, AfterSwallowed, WorkerCrashes, Receive, Repark, RetryGuard, GateDenies,
     DenyInstance, LaunchSucceeds, LaunchFails, Persist, CompleteEntry, UpdateStats, Track,
     EnqueueRetry, ReadEntry, FailInstance, FailEntry, Ack, History
<1>5. ASSUME NEW q \in Req, RequestActs(q)
      PROVE  hist'.failures = hist.failures
  BY <1>1, <1>5 DEF RequestActs, ReadInstance, RequestStep, RequestCrashes, RetryWrites, SendRetry, CancelAtMaestro, CancelRejected,
     CancelWrites, Fetch, LiveWrites, LiveCounts, Counted, History
<1>6. CASE Rest \/ SyncScans \/ SyncStep \/ (\E m \in Msg : Reappear(m) \/ ReappearEarly(m)) \/ (\E k \in Mid : WorkflowEnds(k))
  BY <1>1, <1>6 DEF Rest, vars, SyncScans, SyncStep, SyncWrites, SyncCounts, SyncCharges, Counted, Reappear, ReappearEarly,
     WorkflowEnds, History
<1>7. QED
  BY <1>3, <1>4, <1>5, <1>6 DEF Next, WorkerActs, RequestActs

(* What a worker works on is current.                                      *)
LEMMA WorkIsCurrent ==
  ASSUME Shape, NEW w \in Worker, wk[w].pc # "idle"
  PROVE  wk[w].msg \in Msg /\ Current(wk[w].msg) /\ JobOf(w) = msg[wk[w].msg].job /\ JobOf(w) \in Job /\ JobOf(w).entry \in Entry
BY DEF Shape, Typed, WorkersNamed, WorkerOK, Current, Held, JobOf, MsgTyped, MessageState, Job

(* Every step keeps SentOrUntouched.                                       *)
LEMMA SentOrUntouchedKept == Shape /\ IdleAskNothing /\ SentOrUntouched /\ [Next]_vars => SentOrUntouched'
<1> SUFFICES ASSUME Shape, IdleAskNothing, SentOrUntouched, [Next]_vars PROVE SentOrUntouched'
  OBVIOUS
<1>1. CASE UNCHANGED vars
  BY <1>1 DEF vars, SentOrUntouched, RetrySent, Untouched, Current, Held
<1>2. ASSUME Next, NEW e \in Entry, e # Match
      PROVE  RetrySent(e)' \/ Untouched(e)'
  <2>1. CASE RetrySent(e)
    BY <1>2, <2>1, RequestsStand
  <2>2. ASSUME Untouched(e), ~RetrySent(e)'
        PROVE  Untouched(e)'
    <3>1. ASSUME NEW w \in Worker, wk[w].pc # "idle"
          PROVE  JobOf(w).entry # e
      BY <2>2, <3>1, WorkIsCurrent DEF Untouched
    <3>2. hist'.failures[e] = 0
      BY <1>2, <2>2, <3>1, FailuresMove DEF Untouched, ReportRetry, CountFailure
    <3>3. ASSUME NEW m \in Msg, Current(m)', msg'[m].job.entry = e
          PROVE  FALSE
      <4>1. NewJob(m)
        BY <1>2, <2>2, <3>3, CurrentBefore DEF Untouched
      <4>2. ASSUME NEW q \in Req, SendRetry(q), Of(q) = e
            PROVE  FALSE
        <5>1. rq[q].kind = "retry" /\ rq \in [Req -> RequestState]
          BY <4>2 DEF SendRetry, Shape, RequestsNamed, RequestOK, Typed, RqTyped
        <5>2. rq'[q] = [IdleReq EXCEPT !.pc = "done", !.kind = rq[q].kind, !.inst = Of(q)]
          BY <4>2, <5>1 DEF SendRetry, Answer
        <5>3. rq'[q].pc = "done" /\ rq'[q].kind = "retry" /\ rq'[q].inst = e
          BY <4>2, <5>1, <5>2 DEF IdleReq
        <5>4. QED
          BY <2>2, <5>3 DEF RetrySent
      <4>3. QED
        BY <3>1, <3>3, <4>1, <4>2 DEF NewJob, Repark, EnqueueRetry
    <3>4. QED
      BY <3>2, <3>3 DEF Untouched
  <2>3. QED
    BY <1>2, <2>1, <2>2 DEF SentOrUntouched
<1>3. CASE Next
  BY <1>2, <1>3 DEF SentOrUntouched
<1>4. QED
  BY <1>1, <1>3

(* A retry's job is the first of its entry, unless two were asked.         *)
LEMMA RetryIsFirst ==
  ASSUME Shape, SentOrUntouched, Next, NEW q \in Req, SendRetry(q), NEW e \in Entry, Of(q) = e, ~AskedTwice(e)
  PROVE  Untouched(e)
<1>1. rq[q].kind = "retry" /\ rq[q].inst = e /\ rq[q].pc = "send" /\ e \in Inst
  BY DEF SendRetry, Shape, RequestsNamed, RequestOK, Of
<1>2. e # Match
  BY <1>1, LadderAssumption DEF Match
<1>3. ASSUME NEW p \in Req, rq[p].kind = "retry", rq[p].inst = e, rq[p].pc = "done"
      PROVE  FALSE
  <2>1. p # q
    BY <1>1, <1>3
  <2>2. \A r \in {p, q} : rq[r].kind = "retry" /\ rq[r].inst = e
    BY <1>1, <1>3
  <2>3. QED
    BY <2>1, <2>2 DEF AskedTwice
<1>4. QED
  BY <1>2, <1>3 DEF SentOrUntouched, RetrySent

(* Every step keeps FirstsAlone.                                           *)
LEMMA FirstsAloneKept ==
  Shape /\ IdleAskNothing /\ EarlyIsLater /\ SentOrUntouched /\ FirstsAlone /\ [Next]_vars => FirstsAlone'
<1> SUFFICES ASSUME Shape, IdleAskNothing, EarlyIsLater, SentOrUntouched, FirstsAlone, [Next]_vars PROVE FirstsAlone'
  OBVIOUS
<1>1. CASE UNCHANGED vars
  BY <1>1 DEF vars, FirstsAlone, AskedTwice, FirstAlone, Current, Held
<1>2. ASSUME Next, NEW e \in Entry, ~AskedTwice(e)',
             NEW m \in Msg, Current(m)', msg'[m].job.entry = e, msg'[m].job.attempt = 0,
             NEW n \in Msg, Current(n)', msg'[n].job.entry = e, msg'[n].job.attempt = 0, m # n
      PROVE  FALSE
  <2>1. ~AskedTwice(e)
    BY <1>2, RequestsStand
  <2>2. ASSUME NEW k \in Msg, NewJob(k), msg'[k].job.entry = e, msg'[k].job.attempt = 0
        PROVE  /\ msg'[k].state = "visible" /\ Unused(k) /\ Untouched(e) /\ \E q \in Req : SendRetry(q)
    <3>1. ASSUME NEW w \in Worker, Repark(w) \/ EnqueueRetry(w), msg'[k].job.early \/ ~JobOf(w).early => msg'[k].job.attempt # 0,
                 msg'[k].job.attempt # 0 \/ msg'[k].job.attempt = JobOf(w).attempt
          PROVE  FALSE
      <4>1. wk[w].pc # "idle"
        BY <3>1 DEF Repark, EnqueueRetry
      <4>2. JobOf(w).early => JobOf(w).attempt # 0
        BY <4>1, WorkIsCurrent DEF EarlyIsLater
      <4>3. QED
        BY <2>2, <3>1, <4>2
    <3>2. PICK q \in Req : SendRetry(q) /\ msg'[k].job.entry = Of(q)
      BY <2>2, <3>1 DEF NewJob
    <3>3. Untouched(e)
      BY <1>2, <2>1, <2>2, <3>2, RetryIsFirst
    <3>4. QED
      BY <2>2, <3>2, <3>3 DEF NewJob
  <2>3. CASE Current(m) /\ msg'[m].job = msg[m].job /\ Current(n) /\ msg'[n].job = msg[n].job
    BY <1>2, <2>1, <2>3 DEF FirstsAlone, FirstAlone
  <2>4. CASE NewJob(m) /\ Current(n) /\ msg'[n].job = msg[n].job
    BY <1>2, <2>2, <2>4 DEF Untouched
  <2>5. CASE NewJob(n) /\ Current(m) /\ msg'[m].job = msg[m].job
    BY <1>2, <2>2, <2>5 DEF Untouched
  <2>6. CASE NewJob(m) /\ NewJob(n)
    <3>1. PICK q \in Req : SendRetry(q)
      BY <1>2, <2>2, <2>6
    <3>2. \E k, x : msg' = [msg EXCEPT ![k] = x]
      BY <3>1 DEF SendRetry, Send
    <3>3. msg[m].state = "none" /\ msg[n].state = "none" /\ msg'[m].state = "visible" /\ msg'[n].state = "visible"
      BY <2>6 DEF NewJob, Unused
    <3>4. QED
      BY <1>2, <3>2, <3>3 DEF Shape, Typed, MsgTyped
  <2>7. QED
    BY <1>2, <2>3, <2>4, <2>5, <2>6, CurrentBefore
<1>3. ASSUME Next, NEW e \in Entry, ~AskedTwice(e)'
      PROVE  FirstAlone(e)'
  BY <1>2, <1>3 DEF FirstAlone
<1>4. CASE Next
  BY <1>3, <1>4 DEF FirstsAlone
<1>5. QED
  BY <1>1, <1>4

(* At any time few workers are busy and few messages are in the queue,     *)
(* however many there may be: each step adds one at most.                  *)
LEMMA FewAtOnceKept == Shape /\ FewAtOnce /\ [Next]_vars => FewAtOnce'
<1> SUFFICES ASSUME Shape, FewAtOnce, [Next]_vars PROVE FewAtOnce'
  OBVIOUS
<1> DEFINE W == {w \in Worker : wk[w].pc # "idle"}
           M == {m \in Msg : msg[m].state # "none"}
<1>1. IsFiniteSet(W) /\ IsFiniteSet(M)
  BY DEF FewAtOnce
<1>2. ASSUME NEW S, IsFiniteSet(S), NEW T, NEW a, T \subseteq S \cup {a}
      PROVE  IsFiniteSet(T)
  BY <1>2, FS_AddElement, FS_Subset
<1>3. \E a : W' \subseteq W \cup {a}
  <2>1. CASE wk' = wk
    BY <2>1
  <2>2. ASSUME NEW w \in Worker, WorkerActs(w), Next
        PROVE  W' \subseteq W \cup {w}
    BY <2>2, OthersRest
  <2>3. QED
    BY <2>1, <2>2, WorkersFrame DEF WorkerActs, vars
<1>4. \E a : M' \subseteq M \cup {a}
  <2>1. CASE msg' = msg
    BY <2>1
  <2>2. ASSUME NEW m \in Msg, NEW x \in MessageState, MsgWritten(m, x)
        PROVE  M' \subseteq M \cup {m}
    BY <2>2 DEF MsgWritten, Shape, Typed, MsgTyped
  <2>3. QED
    BY <2>1, <2>2, MsgChange DEF vars
<1>5. IsFiniteSet(W') /\ IsFiniteSet(M')
  BY <1>1, <1>2, <1>3, <1>4
<1>6. QED
  BY <1>5 DEF FewAtOnce

(* The sizes are numbers.                                                  *)
Sized(e) ==
  /\ IsFiniteSet(AtWork(e)) /\ IsFiniteSet(Waiting(e)) /\ IsFiniteSet(OwingOf(e)) /\ IsFiniteSet(Coming(e))
  /\ Cardinality(AtWork(e)) \in Nat /\ Cardinality(Waiting(e)) \in Nat
  /\ Cardinality(OwingOf(e)) \in Nat /\ Cardinality(Coming(e)) \in Nat /\ hist.failures[e] \in Nat

(* Of an entry few work and few wait at any time, before and after a step. *)
LEMMA SizesAreNumbers ==
  ASSUME Shape, FewAtOnce, [Next]_vars, NEW e \in Entry
  PROVE  Sized(e) /\ Sized(e)'
<1> DEFINE W == {w \in Worker : wk[w].pc # "idle"}
           M == {m \in Msg : msg[m].state # "none"}
<1>1. Shape' /\ FewAtOnce'
  BY ShapeKept, FewAtOnceKept
<1>2. IsFiniteSet(W) /\ IsFiniteSet(M) /\ IsFiniteSet(W') /\ IsFiniteSet(M')
  BY <1>1 DEF FewAtOnce
<1>3. /\ AtWork(e) \in SUBSET W /\ OwingOf(e) \in SUBSET W /\ AtWork(e)' \in SUBSET (W') /\ OwingOf(e)' \in SUBSET (W')
      /\ Waiting(e) \in SUBSET M /\ Coming(e) \in SUBSET M /\ Waiting(e)' \in SUBSET (M') /\ Coming(e)' \in SUBSET (M')
  BY DEF AtWork, OwingOf, WorksFor, Waiting, Waits, Coming, ComesBack
<1>4. hist.failures[e] \in Nat /\ hist'.failures[e] \in Nat
  BY <1>1 DEF Shape, Typed, History
<1> HIDE DEF W, M
<1>5. /\ IsFiniteSet(AtWork(e)) /\ IsFiniteSet(OwingOf(e)) /\ IsFiniteSet(Waiting(e)) /\ IsFiniteSet(Coming(e))
      /\ IsFiniteSet(AtWork(e)') /\ IsFiniteSet(OwingOf(e)') /\ IsFiniteSet(Waiting(e)') /\ IsFiniteSet(Coming(e)')
  BY <1>2, <1>3, FS_Subset
<1>6. QED
  BY <1>4, <1>5, FS_CardinalityType DEF Sized

(* A fault allows one count more, at least.                                *)
LEMMA AllowedGrows ==
  ASSUME faults \in Nat, faults' = faults \/ faults' = faults + 1
  PROVE  /\ CountsAllowed \in Nat /\ CountsAllowed' \in Nat /\ CountsAllowed <= CountsAllowed'
         /\ faults' = faults + 1 => CountsAllowed + 1 <= CountsAllowed'
<1>1. (faults = 0 => CountsAllowed = 1) /\ (faults # 0 => CountsAllowed = faults + 2)
  BY DEF CountsAllowed
<1>2. (faults' = 0 => CountsAllowed' = 1) /\ (faults' # 0 => CountsAllowed' = faults' + 2)
  BY DEF CountsAllowed
<1>3. CountsAllowed \in Nat
  <2>1. CASE faults = 0
    BY <1>1, <2>1
  <2>2. CASE faults # 0
    BY <1>1, <2>2
  <2>3. QED
    BY <2>1, <2>2
<1>4. CASE faults' = faults
  BY <1>3, <1>4 DEF CountsAllowed
<1>5. CASE faults' = faults + 1
  <2>1. CountsAllowed' = faults + 3
    BY <1>2, <1>5
  <2>2. CASE faults = 0
    BY <1>1, <1>5, <2>1, <2>2
  <2>3. CASE faults # 0
    BY <1>1, <1>5, <2>1, <2>3
  <2>4. QED
    BY <2>2, <2>3
<1>6. QED
  BY <1>3, <1>4, <1>5

(* When the bounds hold after a step, by what it does to load and debt.    *)
LEMMA Balance ==
  ASSUME Shape, NEW e \in Entry, Sized(e), Sized(e)', Fits(e),
         faults' = faults \/ faults' = faults + 1,
         Load(e)' <= Load(e) + (faults' - faults),
         \/ Debt(e)' <= Debt(e) /\ (MarkSpares(e) => MarkSpares(e)')
         \/ Debt(e)' + 1 <= Debt(e)
         \/ Debt(e)' <= Debt(e) + 1 /\ ~MarkSpares(e) /\ MarkSpares(e)'
         \/ Debt(e)' <= Debt(e) /\ faults' = faults + 1
         \/ Debt(e)' <= Debt(e) + 1 /\ faults' = faults + 1 /\ (MarkSpares(e) => MarkSpares(e)')
  PROVE  Fits(e)'
<1>1. faults \in Nat /\ faults' \in Nat
  BY LadderAssumption DEF Shape, Typed
<1>2. Load(e) \in Nat /\ Load(e)' \in Nat /\ Debt(e) \in Nat /\ Debt(e)' \in Nat
  BY DEF Sized, Load, Debt
<1>3. CountsAllowed \in Nat /\ CountsAllowed' \in Nat /\ CountsAllowed <= CountsAllowed'
      /\ (faults' = faults + 1 => CountsAllowed + 1 <= CountsAllowed')
  BY <1>1, AllowedGrows
<1>4. Load(e)' <= 1 + faults'
  BY <1>1, <1>2 DEF Fits
<1>5. Debt(e) <= CountsAllowed \/ (MarkSpares(e) /\ Debt(e) <= CountsAllowed + 1)
  BY DEF Fits
<1>6. Debt(e)' <= CountsAllowed' \/ (MarkSpares(e)' /\ Debt(e)' <= CountsAllowed' + 1)
  BY <1>2, <1>3, <1>5
<1>7. QED
  BY <1>4, <1>6 DEF Fits

(* A step of a worker that keeps its message, and leaves the queue alone:  *)
(* only its own part changes.                                              *)
LEMMA OwnPart ==
  ASSUME Shape, Next, NEW w \in Worker, WorkerActs(w), wk[w].pc # "idle", wk'[w].pc # "idle", wk'[w].msg = wk[w].msg,
         msg' = msg, NEW e
  PROVE  /\ JobOf(w)' = JobOf(w)
         /\ \A v \in Worker \ {w} : (v \in AtWork(e)' <=> v \in AtWork(e)) /\ (v \in OwingOf(e)' <=> v \in OwingOf(e))
         /\ Waiting(e)' = Waiting(e)
         /\ \A m \in Msg : m # wk[w].msg \/ ((ThrowsBack(w))' <=> ThrowsBack(w)) => (m \in Coming(e)' <=> m \in Coming(e))
         /\ FirstAhead(e) /\ (ThrowsBack(w) => (ThrowsBack(w))')
              /\ (WorksFor(w, e) /\ TriesFirst(w) => wk'[w].pc \in TryPlaces) => FirstAhead(e)'
<1>1. JobOf(w)' = JobOf(w)
  BY JobsStand
<1>2. \A v \in Worker \ {w} : wk'[v] = wk[v]
  BY OthersRest
<1>3. ASSUME NEW v \in Worker \ {w}
      PROVE  /\ (v \in AtWork(e)' <=> v \in AtWork(e)) /\ (v \in OwingOf(e)' <=> v \in OwingOf(e))
             /\ WorksFor(v, e) /\ TriesFirst(v) => WorksFor(v, e)' /\ TriesFirst(v)'
             /\ wk[v].pc # "idle" => ((ThrowsBack(v))' <=> ThrowsBack(v))
  BY <1>2, WorkerStands
<1>4. \A v \in Worker, m \in Msg : Holds(v, m)' <=> Holds(v, m)
  BY <1>2 DEF Holds
<1>5. Waiting(e)' = Waiting(e)
  <2>1. \A m \in Msg : Held(m)' <=> Held(m)
    BY <1>4 DEF Held, Holds
  <2>2. QED
    BY <2>1 DEF Waiting, Waits
<1>6. ASSUME NEW m \in Msg, m # wk[w].msg \/ ((ThrowsBack(w))' <=> ThrowsBack(w))
      PROVE  m \in Coming(e)' <=> m \in Coming(e)
  <2>1. \A v \in Worker : Holds(v, m) => ((ThrowsBack(v))' <=> ThrowsBack(v))
    BY <1>3, <1>6 DEF Holds
  <2>2. QED
    BY <1>4, <2>1 DEF Coming, ComesBack
<1>7. ASSUME FirstAhead(e), ThrowsBack(w) => (ThrowsBack(w))', WorksFor(w, e) /\ TriesFirst(w) => wk'[w].pc \in TryPlaces
      PROVE  FirstAhead(e)'
  <2>1. ASSUME NEW v \in Worker, WorksFor(v, e), TriesFirst(v)
        PROVE  FirstAhead(e)'
    <3>1. WorksFor(v, e)' /\ TriesFirst(v)'
      <4>1. CASE v = w
        BY <1>1, <1>7, <2>1, <4>1 DEF WorksFor, TriesFirst, Rethrown
      <4>2. CASE v # w
        BY <1>3, <2>1, <4>2
      <4>3. QED
        BY <4>1, <4>2
    <3>2. QED
      BY <3>1 DEF FirstAhead
  <2>2. ASSUME NEW m \in Coming(e), IsFirst(m)
        PROVE  FirstAhead(e)'
    <3>1. \A v \in Worker : Holds(v, m) /\ ThrowsBack(v) => (ThrowsBack(v))'
      BY <1>3, <1>7 DEF Holds
    <3>2. m \in Coming(e)'
      BY <1>4, <2>2, <3>1 DEF Coming, ComesBack
    <3>3. IsFirst(m)'
      BY <2>2 DEF IsFirst
    <3>4. QED
      BY <3>2, <3>3 DEF FirstAhead
  <2>3. QED
    BY <1>7, <2>1, <2>2 DEF FirstAhead
<1>8. QED
  BY <1>1, <1>3, <1>5, <1>6, <1>7

(* What such a step does to the sizes.                                     *)
LEMMA OwnSizes ==
  ASSUME Shape, FewAtOnce, Next, NEW w \in Worker, WorkerActs(w), wk[w].pc # "idle", wk'[w].pc # "idle", wk'[w].msg = wk[w].msg,
         msg' = msg, NEW e \in Entry
  PROVE  /\ Cardinality(Waiting(e)') = Cardinality(Waiting(e))
         /\ Cardinality(AtWork(e)') <= Cardinality(AtWork(e)) + 1
         /\ Cardinality(OwingOf(e)') <= Cardinality(OwingOf(e)) + 1
         /\ Cardinality(Coming(e)') <= Cardinality(Coming(e)) + 1
         /\ (AtIt(w)' => AtIt(w)) \/ JobOf(w).entry # e => Cardinality(AtWork(e)') <= Cardinality(AtWork(e))
         /\ (Owes(w)' => Owes(w)) \/ JobOf(w).entry # e => Cardinality(OwingOf(e)') <= Cardinality(OwingOf(e))
         /\ Owes(w) /\ ~Owes(w)' /\ JobOf(w).entry = e => Cardinality(OwingOf(e)') + 1 <= Cardinality(OwingOf(e))
         /\ ((ThrowsBack(w))' => ThrowsBack(w)) \/ JobOf(w).entry # e => Cardinality(Coming(e)') <= Cardinality(Coming(e))
<1> DEFINE m == wk[w].msg
<1>1. Sized(e)
  BY SizesAreNumbers
<1>2. JobOf(w)' = JobOf(w) /\ m \in Msg /\ JobOf(w) = msg[m].job
  BY OwnPart, WorkIsCurrent
<1>3. \A v : v # w => (v \in AtWork(e)' <=> v \in AtWork(e)) /\ (v \in OwingOf(e)' <=> v \in OwingOf(e))
  <2>1. \A v \in Worker \ {w} : (v \in AtWork(e)' <=> v \in AtWork(e)) /\ (v \in OwingOf(e)' <=> v \in OwingOf(e))
    BY OwnPart
  <2>2. QED
    BY <2>1 DEF AtWork, OwingOf
<1>4. \A n : n # m => (n \in Coming(e)' <=> n \in Coming(e))
  <2>1. \A n \in Msg : n # wk[w].msg => (n \in Coming(e)' <=> n \in Coming(e))
    BY OwnPart
  <2>2. QED
    BY <2>1 DEF Coming
<1>5. /\ w \in AtWork(e) <=> JobOf(w).entry = e /\ AtIt(w)
      /\ w \in AtWork(e)' <=> JobOf(w).entry = e /\ AtIt(w)'
      /\ w \in OwingOf(e) <=> JobOf(w).entry = e /\ Owes(w)
      /\ w \in OwingOf(e)' <=> JobOf(w).entry = e /\ Owes(w)'
  BY <1>2 DEF AtWork, OwingOf, WorksFor
<1>6. ASSUME ((ThrowsBack(w))' => ThrowsBack(w)) \/ JobOf(w).entry # e
      PROVE  m \in Coming(e)' => m \in Coming(e)
  <2>1. CASE JobOf(w).entry # e
    BY <1>2, <2>1 DEF Coming
  <2>2. CASE (ThrowsBack(w))' <=> ThrowsBack(w)
    BY <1>2, <2>2, OwnPart
  <2>3. CASE ThrowsBack(w) /\ ~(ThrowsBack(w))'
    <3>1. Holds(w, m)'
      BY DEF Holds
    <3>2. msg[m].state = "visible" \/ m \notin Coming(e)'
      BY <2>3, <3>1 DEF Coming, ComesBack
    <3>3. QED
      BY <3>2 DEF Coming, ComesBack
  <2>4. QED
    BY <1>6, <2>1, <2>2, <2>3
<1>7. Waiting(e)' = Waiting(e)
  BY OwnPart
<1> HIDE DEF m
<1>8. /\ Cardinality(AtWork(e)') <= Cardinality(AtWork(e)) + 1
      /\ (w \in AtWork(e)' => w \in AtWork(e)) => Cardinality(AtWork(e)') <= Cardinality(AtWork(e))
  BY <1>1, <1>3, SetChange DEF Sized
<1>9. /\ Cardinality(OwingOf(e)') <= Cardinality(OwingOf(e)) + 1
      /\ (w \in OwingOf(e)' => w \in OwingOf(e)) => Cardinality(OwingOf(e)') <= Cardinality(OwingOf(e))
      /\ w \in OwingOf(e) /\ w \notin OwingOf(e)' => Cardinality(OwingOf(e)') + 1 <= Cardinality(OwingOf(e))
  BY <1>1, <1>3, SetChange DEF Sized
<1>10. /\ Cardinality(Coming(e)') <= Cardinality(Coming(e)) + 1
       /\ (m \in Coming(e)' => m \in Coming(e)) => Cardinality(Coming(e)') <= Cardinality(Coming(e))
  BY <1>1, <1>4, SetChange DEF Sized
<1>11. Cardinality(Waiting(e)') = Cardinality(Waiting(e))
  BY <1>7
<1>12. QED
  BY <1>5, <1>6, <1>8, <1>9, <1>10, <1>11

(* A step is a fault, or not.                                              *)
LEMMA FaultsGrow ==
  ASSUME Next
  PROVE  faults' = faults \/ faults' = faults + 1
<1>1. ASSUME NEW w \in Worker, WorkerActs(w)
      PROVE  faults' = faults \/ faults' = faults + 1
  BY <1>1 DEF WorkerActs, WorkerStep, ReplyLost, TryFails, CatchFails, AfterSwallowed, WorkerCrashes, Receive, Repark, RetryGuard, GateDenies,
     DenyInstance, LaunchSucceeds, LaunchFails, Persist, CompleteEntry, UpdateStats, Track, ReportRetry,
     EnqueueRetry, ReadEntry, FailInstance, FailEntry, CountFailure, Ack, Fault
<1>2. ASSUME NEW q \in Req, RequestActs(q)
      PROVE  faults' = faults \/ faults' = faults + 1
  BY <1>2 DEF RequestActs, ReadInstance, RequestStep, RequestCrashes, RetryWrites, SendRetry, CancelAtMaestro,
     CancelRejected, CancelWrites, Fetch, LiveWrites, LiveCounts, jobs, Fault
<1>3. QED
  BY <1>1, <1>2 DEF Next, WorkerActs, RequestActs, Rest, vars, Reappear, ReappearEarly, SyncScans, SyncStep, SyncWrites,
     SyncCounts, SyncCharges, WorkflowEnds, jobs, Fault

(* A worker that goes on, and owes no more than before: the entry is as it *)
(* was and so is what tries it first, or the worker has settled its debt,  *)
(* or there was no mark.                                                   *)
Onward(w, e) ==
  /\ wk[w].pc # "idle" /\ wk'[w].pc # "idle" /\ wk'[w].msg = wk[w].msg /\ msg' = msg
  /\ hist'.failures[e] = hist.failures[e]
  /\ (ThrowsBack(w))' <=> ThrowsBack(w)
  /\ AtIt(w)' => AtIt(w)
  /\ Owes(w)' => Owes(w)
  /\ \/ (wk[w].pc \in TryPlaces => wk'[w].pc \in TryPlaces) /\ entry'[e] = entry[e]
     \/ Owes(w) /\ ~Owes(w)' /\ JobOf(w).entry = e
     \/ JobOf(w).entry # e /\ entry'[e] = entry[e]
     \/ entry[e] # "failed"

(* A worker that goes on keeps the bounds.                                 *)
LEMMA OnwardFits ==
  ASSUME Shape, FewAtOnce, Next, NEW w \in Worker, WorkerActs(w), NEW e \in Entry, Fits(e), Onward(w, e)
  PROVE  Fits(e)'
<1>1. Sized(e) /\ Sized(e)' /\ (faults' = faults \/ faults' = faults + 1) /\ faults \in Nat
  BY SizesAreNumbers, FaultsGrow, LadderAssumption DEF Shape, Typed
<1>2. /\ Cardinality(Waiting(e)') = Cardinality(Waiting(e))
      /\ Cardinality(AtWork(e)') <= Cardinality(AtWork(e))
      /\ Cardinality(OwingOf(e)') <= Cardinality(OwingOf(e))
      /\ Owes(w) /\ ~Owes(w)' /\ JobOf(w).entry = e => Cardinality(OwingOf(e)') + 1 <= Cardinality(OwingOf(e))
      /\ Cardinality(Coming(e)') <= Cardinality(Coming(e))
  BY OwnSizes DEF Onward
<1>3. Load(e)' <= Load(e) + (faults' - faults)
  BY <1>1, <1>2 DEF Load, Sized
<1>4. Debt(e)' <= Debt(e) /\ (Owes(w) /\ ~Owes(w)' /\ JobOf(w).entry = e => Debt(e)' + 1 <= Debt(e))
  BY <1>1, <1>2 DEF Debt, Sized, Onward
<1>5. CASE Owes(w) /\ ~Owes(w)' /\ JobOf(w).entry = e
  BY <1>1, <1>3, <1>4, <1>5, Balance
<1>6. CASE entry[e] # "failed"
  BY <1>1, <1>3, <1>4, <1>6, Balance DEF MarkSpares
<1>7. CASE /\ wk[w].pc \in TryPlaces /\ JobOf(w).entry = e => wk'[w].pc \in TryPlaces
           /\ entry'[e] = entry[e]
  <2>1. FirstAhead(e) => FirstAhead(e)'
    BY <1>7, OwnPart DEF Onward, WorksFor, TriesFirst
  <2>2. MarkSpares(e) => MarkSpares(e)'
    BY <1>7, <2>1 DEF MarkSpares
  <2>3. QED
    BY <1>1, <1>3, <1>4, <2>2, Balance
<1>8. QED
  BY <1>5, <1>6, <1>7 DEF Onward

(* Where a step goes.                                                      *)
LEMMA StepGoes ==
  ASSUME Shape, NEW w \in Worker, NEW pc, Step(w, pc)
  PROVE  wk'[w].pc = pc /\ wk'[w].msg = wk[w].msg /\ wk'[w].again = wk[w].again
BY DEF Shape, Typed, WkTyped, WorkerState, Step

(* Most steps of a worker are such.                                        *)
LEMMA MostGoOn ==
  ASSUME Shape, Next, NEW w \in Worker, NEW e \in Entry,
         \/ RetryGuard(w) \/ GateDenies(w) \/ DenyInstance(w) \/ LaunchSucceeds(w) \/ LaunchFails(w) \/ ReplyLost(w)
         \/ Persist(w) \/ CompleteEntry(w) \/ UpdateStats(w) \/ Track(w) \/ ReadEntry(w) \/ FailInstance(w)
         \/ TryFails(w) /\ wk[w].pc # "stats"
  PROVE  Onward(w, e)
<1>1. WkTyped /\ wk[w] \in WorkerState /\ hist \in History /\ entry \in [Entry -> EntryStatus]
  BY DEF Shape, Typed, WkTyped
<1> USE DEF AtIt, Owes, TryPlaces, FailPlaces, ThrowsBack
<1>2. CASE RetryGuard(w)
  <2>1. wk'[w].pc = (IF Superseded(w) THEN "ack" ELSE "launch") /\ wk'[w].msg = wk[w].msg /\ wk[w].pc = "guard" /\ msg' = msg
        /\ hist' = hist /\ entry' = entry
    BY <1>2, StepGoes DEF RetryGuard
  <2>2. CASE Superseded(w)
    BY <2>1, <2>2 DEF Onward
  <2>3. CASE ~Superseded(w)
    BY <2>1, <2>3 DEF Onward
  <2>4. QED
    BY <2>2, <2>3
<1>3. CASE GateDenies(w)
  <2>1. wk'[w].pc \in {"ack", "denyInst"} /\ wk'[w].msg = wk[w].msg /\ wk[w].pc = "launch" /\ msg' = msg
        /\ hist' = hist /\ entry' = [entry EXCEPT ![JobOf(w).entry] = "skipped"]
    BY <1>3, StepGoes DEF GateDenies
  <2>2. JobOf(w).entry # e => entry'[e] = entry[e]
    BY <1>1, <2>1
  <2>3. QED
    BY <2>1, <2>2 DEF Onward
<1>4. CASE DenyInstance(w) \/ UpdateStats(w)
  <2>1. wk'[w].pc = "ack" /\ wk'[w].msg = wk[w].msg /\ wk[w].pc \in {"denyInst", "stats"} /\ msg' = msg
        /\ hist' = hist /\ entry' = entry
    BY <1>4, StepGoes DEF DenyInstance, UpdateStats
  <2>2. QED
    BY <2>1 DEF Onward
<1>5. ASSUME wk[w].pc \in TryPlaces, wk'[w].pc \in TryPlaces, wk'[w].msg = wk[w].msg, msg' = msg, entry' = entry,
             hist'.failures[e] = hist.failures[e]
      PROVE  Onward(w, e)
  BY <1>5 DEF Onward
<1>6. CASE LaunchSucceeds(w)
  <2>1. wk[w].pc = "launch" /\ wk'[w].pc = "persist" /\ wk'[w].msg = wk[w].msg /\ msg' = msg /\ entry' = entry /\ hist' = hist
    BY <1>1, <1>6 DEF LaunchSucceeds, WkTyped, WorkerState
  <2>2. QED
    BY <1>5, <2>1
<1>7. CASE LaunchFails(w) \/ ReplyLost(w) \/ (TryFails(w) /\ wk[w].pc # "stats")
  <2>1. wk[w].pc \in TryPlaces /\ msg' = msg /\ entry' = entry /\ hist'.failures = hist.failures
    BY <1>1, <1>7 DEF LaunchFails, ReplyLost, TryFails, History
  <2>2. \E pc \in {"track", "final"} : Step(w, pc)
    BY <1>7 DEF LaunchFails, ReplyLost, TryFails, AfterError
  <2>3. wk'[w].pc \in {"track", "final"} /\ wk'[w].msg = wk[w].msg
    BY <2>2, StepGoes
  <2>4. QED
    BY <1>5, <2>1, <2>3
<1>8. CASE Persist(w)
  <2>1. wk[w].pc = "persist" /\ wk'[w].pc = "complete" /\ wk'[w].msg = wk[w].msg /\ msg' = msg /\ entry' = entry
    BY <1>8, StepGoes DEF Persist
  <2>2. hist'.failures = hist.failures
    BY <1>1, <1>8 DEF Persist, History
  <2>3. QED
    BY <1>5, <2>1, <2>2
<1>9. CASE CompleteEntry(w)
  <2>1. wk'[w].pc = "stats" /\ wk'[w].msg = wk[w].msg /\ wk[w].pc = "complete" /\ msg' = msg
        /\ hist' = hist /\ entry' = [entry EXCEPT ![JobOf(w).entry] = "completed"]
    BY <1>9, StepGoes DEF CompleteEntry
  <2>2. JobOf(w).entry # e => entry'[e] = entry[e]
    BY <1>1, <2>1
  <2>3. QED
    BY <2>1, <2>2 DEF Onward
<1>10. CASE Track(w)
  <2>1. wk[w].pc = "track" /\ msg' = msg /\ entry' = entry /\ hist' = hist
    BY <1>10 DEF Track
  <2>2. wk'[w].pc = "report" /\ wk'[w].msg = wk[w].msg
    <3>1. CASE wk[w].inst = None
      <4>1. PICK i \in Inst : wk' = [wk EXCEPT ![w].pc = "report", ![w].inst = i, ![w].seq = seqs + 1]
        BY <1>10, <3>1 DEF Track
      <4>2. QED
        BY <1>1, <4>1 DEF WkTyped, WorkerState
    <3>2. CASE wk[w].inst # None
      BY <1>10, <3>2, StepGoes DEF Track
    <3>3. QED
      BY <3>1, <3>2
  <2>3. QED
    BY <1>5, <2>1, <2>2
<1>11. CASE ReadEntry(w)
  <2> DEFINE b == entry[JobOf(w).entry] = "failed"
             pc == IF JobOf(w).inst = None THEN "failEntry" ELSE "failInst"
  <2>1. wk' = [wk EXCEPT ![w] = [wk[w] EXCEPT !.again = b, !.pc = pc]] /\ wk[w].pc = "final" /\ msg' = msg /\ entry' = entry /\ hist' = hist
    BY <1>11 DEF ReadEntry
  <2>2. b \in BOOLEAN /\ pc \in {"failEntry", "failInst"} /\ (b <=> entry[JobOf(w).entry] = "failed")
    OBVIOUS
  <2> HIDE DEF b, pc
  <2>3. wk'[w] = [wk[w] EXCEPT !.again = b, !.pc = pc]
    BY <1>1, <2>1 DEF WkTyped
  <2>4. wk'[w].again = b /\ wk'[w].pc = pc /\ wk'[w].msg = wk[w].msg
    BY <1>1, <2>3 DEF WorkerState
  <2>5. CASE JobOf(w).entry # e
    BY <2>1, <2>2, <2>4, <2>5 DEF Onward
  <2>6. CASE JobOf(w).entry = e
    BY <2>1, <2>2, <2>4, <2>6 DEF Onward
  <2>7. QED
    BY <2>5, <2>6
<1>12. CASE FailInstance(w)
  <2>1. wk[w].pc = "failInst" /\ wk'[w].pc = "failEntry" /\ wk'[w].msg = wk[w].msg /\ wk'[w].again = wk[w].again
        /\ msg' = msg /\ entry' = entry /\ hist' = hist
    BY <1>12, StepGoes DEF FailInstance
  <2>2. QED
    BY <2>1 DEF Onward
<1>13. QED
  BY <1>2, <1>3, <1>4, <1>6, <1>7, <1>8, <1>9, <1>10, <1>11, <1>12

(* A counter that fails after a launch: the worker tries on.               *)
LEMMA StatsFailFits ==
  ASSUME Shape, FewAtOnce, Next, NEW w \in Worker, TryFails(w), wk[w].pc = "stats", NEW e \in Entry, Fits(e)
  PROVE  Fits(e)'
<1>1. Sized(e) /\ Sized(e)' /\ faults \in Nat /\ faults' = faults + 1 /\ hist \in History
  BY SizesAreNumbers, LadderAssumption DEF Shape, Typed, TryFails, Fault
<1>2. \E pc \in {"track", "final"} : Step(w, pc)
  BY DEF TryFails, AfterError
<1>3. wk'[w].pc \in {"track", "final"} /\ wk'[w].msg = wk[w].msg /\ msg' = msg /\ entry' = entry /\ WorkerActs(w)
      /\ hist'.failures = hist.failures
  BY <1>1, <1>2, StepGoes DEF TryFails, WorkerActs, History
<1>4. ~ThrowsBack(w) /\ ~(ThrowsBack(w))' /\ ~TriesFirst(w)
  BY <1>3 DEF ThrowsBack, TriesFirst, TryPlaces
<1>5. /\ Cardinality(Waiting(e)') = Cardinality(Waiting(e))
      /\ Cardinality(AtWork(e)') <= Cardinality(AtWork(e)) + 1
      /\ Cardinality(OwingOf(e)') <= Cardinality(OwingOf(e)) + 1
      /\ Cardinality(Coming(e)') <= Cardinality(Coming(e))
  BY <1>3, <1>4, OwnSizes
<1>6. Load(e)' <= Load(e) + (faults' - faults) /\ Debt(e)' <= Debt(e) + 1
  BY <1>1, <1>3, <1>5 DEF Load, Debt, Sized
<1>7. FirstAhead(e) => FirstAhead(e)'
  BY <1>3, <1>4, OwnPart
<1>8. MarkSpares(e) => MarkSpares(e)'
  BY <1>3, <1>7 DEF MarkSpares
<1>9. QED
  BY <1>1, <1>6, <1>8, Balance

(* The worker that marks the entry: a first attempt thrown back to SQS     *)
(* will come again, but then it is the only one, and the mark spares it.   *)
LEMMA MarkFits ==
  ASSUME Shape, FewAtOnce, Next, NEW w \in Worker, FailEntry(w), NEW e \in Entry, Fits(e), FirstAlone(e)
  PROVE  Fits(e)'
<1>0. PICK m \in Msg : m = wk[w].msg
  BY WorkIsCurrent DEF FailEntry
<1>1. Sized(e) /\ Sized(e)' /\ faults \in Nat /\ faults' = faults /\ entry \in [Entry -> EntryStatus]
  BY SizesAreNumbers, LadderAssumption DEF Shape, Typed, FailEntry
<1>2. /\ wk[w].pc = "failEntry" /\ wk'[w].pc = "count" /\ wk'[w].msg = wk[w].msg /\ wk'[w].again = wk[w].again
      /\ msg' = msg /\ hist' = hist /\ entry' = [entry EXCEPT ![JobOf(w).entry] = "failed"] /\ WorkerActs(w)
  BY StepGoes DEF FailEntry, WorkerActs, WorkerStep
<1>3. ~ThrowsBack(w) /\ ~TriesFirst(w) /\ AtIt(w) /\ (Owes(w)' => Owes(w))
  BY <1>2 DEF ThrowsBack, TriesFirst, TryPlaces, FailPlaces, AtIt, Owes
<1>4. /\ Cardinality(Waiting(e)') = Cardinality(Waiting(e))
      /\ Cardinality(AtWork(e)') <= Cardinality(AtWork(e))
      /\ Cardinality(OwingOf(e)') <= Cardinality(OwingOf(e))
      /\ Cardinality(Coming(e)') <= Cardinality(Coming(e)) + 1
      /\ ((ThrowsBack(w))' => ThrowsBack(w)) \/ JobOf(w).entry # e => Cardinality(Coming(e)') <= Cardinality(Coming(e))
  BY <1>2, <1>3, OwnSizes
<1>5. Load(e)' <= Load(e) + (faults' - faults)
  BY <1>1, <1>4 DEF Load, Sized
<1>6. FirstAhead(e) => FirstAhead(e)'
  BY <1>2, <1>3, OwnPart
<1>7. MarkSpares(e) => MarkSpares(e)'
  BY <1>1, <1>2, <1>6 DEF MarkSpares
<1>8. CASE Cardinality(Coming(e)') <= Cardinality(Coming(e))
  <2>1. Debt(e)' <= Debt(e)
    BY <1>1, <1>2, <1>4, <1>8 DEF Debt, Sized
  <2>2. QED
    BY <1>1, <1>5, <1>7, <2>1, Balance
<1>9. CASE ~(Cardinality(Coming(e)') <= Cardinality(Coming(e)))
  <2>1. JobOf(w).entry = e /\ (ThrowsBack(w))'
    BY <1>4, <1>9
  <2>2. Current(m) /\ JobOf(w) = msg[m].job /\ JobOf(w)' = JobOf(w)
    BY <1>0, <1>2, WorkIsCurrent, JobsStand
  <2>3. JobOf(w).attempt = 0 /\ MaxAttempts > 0
    BY <2>1, <2>2 DEF ThrowsBack, Rethrown
  <2>4. m \in Coming(e)' /\ m \notin Coming(e)
    <3>1. \A n : n # m => (n \in Coming(e)' <=> n \in Coming(e))
      <4>1. \A n \in Msg : n # wk[w].msg => (n \in Coming(e)' <=> n \in Coming(e))
        BY <1>2, OwnPart
      <4>2. QED
        BY <1>0, <4>1 DEF Coming
    <3>2. (m \in Coming(e)' => m \in Coming(e)) => Cardinality(Coming(e)') <= Cardinality(Coming(e))
      BY <1>1, <3>1, SetChange DEF Sized
    <3>3. QED
      BY <1>9, <3>2
  <2>5. MarkSpares(e)'
    <3>1. IsFirst(m)'
      BY <1>2, <2>2, <2>3 DEF IsFirst
    <3>2. entry'[e] = "failed"
      BY <1>1, <1>2, <2>1
    <3>3. QED
      BY <2>4, <3>1, <3>2 DEF MarkSpares, FirstAhead
  <2>6. ASSUME NEW v \in Worker, WorksFor(v, e), TriesFirst(v)
        PROVE  FALSE
    <3>1. wk[v].msg \in Msg /\ Current(wk[v].msg) /\ JobOf(v) = msg[wk[v].msg].job /\ JobOf(v).attempt = 0 /\ JobOf(v).entry = e
      BY <2>6, WorkIsCurrent DEF WorksFor, TriesFirst, Rethrown
    <3>2. wk[v].msg = m
      BY <1>0, <2>1, <2>2, <2>3, <3>1 DEF FirstAlone
    <3>3. v # w /\ wk'[v] = wk[v]
      BY <1>2, <2>6, OthersRest DEF TriesFirst, TryPlaces
    <3>4. Holds(v, m)' /\ ~(ThrowsBack(v))'
      <4>1. wk[v].pc \notin {"idle", "count"}
        BY <2>6 DEF TriesFirst, TryPlaces
      <4>2. QED
        BY <3>2, <3>3, <4>1 DEF Holds, ThrowsBack
    <3>5. msg[m].state = "visible"
      BY <1>2, <2>4, <3>4 DEF Coming, ComesBack
    <3>6. QED
      BY <2>1, <2>2, <2>4, <3>5 DEF Coming, ComesBack
  <2>7. ASSUME NEW n \in Coming(e), IsFirst(n)
        PROVE  FALSE
    <3>1. n \in Msg /\ Current(n) /\ msg[n].job.entry = e /\ msg[n].job.attempt = 0
      BY <2>7 DEF Coming, ComesBack, Current, IsFirst
    <3>2. n = m
      BY <2>1, <2>2, <2>3, <3>1 DEF FirstAlone
    <3>3. QED
      BY <2>4, <2>7, <3>2
  <2>8. ~MarkSpares(e)
    BY <2>6, <2>7 DEF MarkSpares, FirstAhead
  <2>9. Debt(e)' <= Debt(e) + 1
    BY <1>1, <1>2, <1>4 DEF Debt, Sized
  <2>10. QED
    BY <1>1, <1>5, <2>5, <2>8, <2>9, Balance
<1>10. QED
  BY <1>8, <1>9

(* A step that concerns one worker and one message changes each set at     *)
(* that member only.                                                       *)
Concerns(w, n) ==
  /\ \A v \in Worker : v # w => wk'[v] = wk[v]
  /\ \A m \in Msg : m # n => /\ msg'[m] = msg[m]
                             /\ \A v \in Worker : /\ Holds(v, m)' <=> Holds(v, m)
                                                  /\ wk'[v] # wk[v] /\ Holds(v, m) => ((ThrowsBack(v))' <=> ThrowsBack(v))

(* What such a step does to the sizes: each set gains or loses that member *)
(* at most, and who tries the entry first goes on, unless it is concerned. *)
LEMMA PairSizes ==
  ASSUME Shape, FewAtOnce, Next, NEW w \in Worker, NEW n \in Msg, Concerns(w, n), NEW e \in Entry
  PROVE  /\ Cardinality(AtWork(e)') <= Cardinality(AtWork(e)) + 1
         /\ (w \in AtWork(e)' => w \in AtWork(e)) => Cardinality(AtWork(e)') <= Cardinality(AtWork(e))
         /\ w \in AtWork(e) /\ w \notin AtWork(e)' => Cardinality(AtWork(e)') + 1 <= Cardinality(AtWork(e))
         /\ Cardinality(OwingOf(e)') <= Cardinality(OwingOf(e)) + 1
         /\ (w \in OwingOf(e)' => w \in OwingOf(e)) => Cardinality(OwingOf(e)') <= Cardinality(OwingOf(e))
         /\ w \in OwingOf(e) /\ w \notin OwingOf(e)' => Cardinality(OwingOf(e)') + 1 <= Cardinality(OwingOf(e))
         /\ Cardinality(Waiting(e)') <= Cardinality(Waiting(e)) + 1
         /\ (n \in Waiting(e)' => n \in Waiting(e)) => Cardinality(Waiting(e)') <= Cardinality(Waiting(e))
         /\ n \in Waiting(e) /\ n \notin Waiting(e)' => Cardinality(Waiting(e)') + 1 <= Cardinality(Waiting(e))
         /\ Cardinality(Coming(e)') <= Cardinality(Coming(e)) + 1
         /\ (n \in Coming(e)' => n \in Coming(e)) => Cardinality(Coming(e)') <= Cardinality(Coming(e))
         /\ n \in Coming(e) /\ n \notin Coming(e)' => Cardinality(Coming(e)') + 1 <= Cardinality(Coming(e))
         /\ FirstAhead(e) => \/ FirstAhead(e)'
                             \/ WorksFor(w, e) /\ TriesFirst(w)
                             \/ n \in Coming(e) /\ IsFirst(n)
<1>1. Sized(e)
  BY SizesAreNumbers
<1>2. ASSUME NEW v, v # w
      PROVE  /\ (v \in AtWork(e)' <=> v \in AtWork(e)) /\ (v \in OwingOf(e)' <=> v \in OwingOf(e))
             /\ v \in Worker /\ WorksFor(v, e) /\ TriesFirst(v) => WorksFor(v, e)' /\ TriesFirst(v)'
  <2>1. CASE v \in Worker
    BY <1>2, <2>1, WorkerStands DEF Concerns
  <2>2. CASE v \notin Worker
    BY <2>2 DEF AtWork, OwingOf
  <2>3. QED
    BY <2>1, <2>2
<1>3. ASSUME NEW m, m # n
      PROVE  /\ (m \in Waiting(e)' <=> m \in Waiting(e)) /\ (m \in Coming(e)' <=> m \in Coming(e))
             /\ m \in Msg => (IsFirst(m)' <=> IsFirst(m))
  <2>1. CASE m \in Msg
    <3>1. /\ msg'[m] = msg[m]
          /\ \A v \in Worker : /\ Holds(v, m)' <=> Holds(v, m)
                               /\ wk'[v] # wk[v] /\ Holds(v, m) => ((ThrowsBack(v))' <=> ThrowsBack(v))
      BY <1>3, <2>1 DEF Concerns
    <3>2. QED
      BY <2>1, <3>1, MessageStands
  <2>2. CASE m \notin Msg
    BY <2>2 DEF Waiting, Coming
  <2>3. QED
    BY <2>1, <2>2
<1>4. /\ Cardinality(AtWork(e)') <= Cardinality(AtWork(e)) + 1
      /\ (w \in AtWork(e)' => w \in AtWork(e)) => Cardinality(AtWork(e)') <= Cardinality(AtWork(e))
      /\ w \in AtWork(e) /\ w \notin AtWork(e)' => Cardinality(AtWork(e)') + 1 <= Cardinality(AtWork(e))
  <2>1. \A v : v # w => (v \in AtWork(e)' <=> v \in AtWork(e))
    BY <1>2
  <2>2. QED
    BY <1>1, <2>1, SetChange DEF Sized
<1>5. /\ Cardinality(OwingOf(e)') <= Cardinality(OwingOf(e)) + 1
      /\ (w \in OwingOf(e)' => w \in OwingOf(e)) => Cardinality(OwingOf(e)') <= Cardinality(OwingOf(e))
      /\ w \in OwingOf(e) /\ w \notin OwingOf(e)' => Cardinality(OwingOf(e)') + 1 <= Cardinality(OwingOf(e))
  <2>1. \A v : v # w => (v \in OwingOf(e)' <=> v \in OwingOf(e))
    BY <1>2
  <2>2. QED
    BY <1>1, <2>1, SetChange DEF Sized
<1>6. /\ Cardinality(Waiting(e)') <= Cardinality(Waiting(e)) + 1
      /\ (n \in Waiting(e)' => n \in Waiting(e)) => Cardinality(Waiting(e)') <= Cardinality(Waiting(e))
      /\ n \in Waiting(e) /\ n \notin Waiting(e)' => Cardinality(Waiting(e)') + 1 <= Cardinality(Waiting(e))
  <2>1. \A m : m # n => (m \in Waiting(e)' <=> m \in Waiting(e))
    BY <1>3
  <2>2. QED
    BY <1>1, <2>1, SetChange DEF Sized
<1>7. /\ Cardinality(Coming(e)') <= Cardinality(Coming(e)) + 1
      /\ (n \in Coming(e)' => n \in Coming(e)) => Cardinality(Coming(e)') <= Cardinality(Coming(e))
      /\ n \in Coming(e) /\ n \notin Coming(e)' => Cardinality(Coming(e)') + 1 <= Cardinality(Coming(e))
  <2>1. \A m : m # n => (m \in Coming(e)' <=> m \in Coming(e))
    BY <1>3
  <2>2. QED
    BY <1>1, <2>1, SetChange DEF Sized
<1>8. FirstAhead(e) => FirstAhead(e)' \/ (WorksFor(w, e) /\ TriesFirst(w)) \/ (n \in Coming(e) /\ IsFirst(n))
  <2>1. ASSUME NEW v \in Worker, WorksFor(v, e), TriesFirst(v), v # w
        PROVE  FirstAhead(e)'
    BY <1>2, <2>1 DEF FirstAhead
  <2>2. ASSUME NEW m \in Coming(e), IsFirst(m), m # n
        PROVE  FirstAhead(e)'
    <3>1. m \in Msg /\ m \in Coming(e)' /\ IsFirst(m)'
      BY <1>3, <2>2 DEF Coming
    <3>2. QED
      BY <3>1 DEF FirstAhead
  <2>3. QED
    BY <2>1, <2>2 DEF FirstAhead
<1>9. QED
  BY <1>4, <1>5, <1>6, <1>7, <1>8

(* A worker that leaves its message concerns itself and that message.      *)
LEMMA EndConcerns ==
  ASSUME Shape, Next, NEW w \in Worker, WorkerActs(w), wk[w].pc # "idle", wk'[w].pc = "idle",
         \A m \in Msg : m # wk[w].msg => msg'[m] = msg[m]
  PROVE  Concerns(w, wk[w].msg)
<1>1. \A v \in Worker : v # w => wk'[v] = wk[v]
  BY OthersRest
<1>2. ASSUME NEW m \in Msg, m # wk[w].msg, NEW v \in Worker
      PROVE  (Holds(v, m)' <=> Holds(v, m)) /\ (wk'[v] # wk[v] => ~Holds(v, m))
  BY <1>1, <1>2 DEF Holds
<1>3. QED
  BY <1>1, <1>2 DEF Concerns

(* A death gives the message back, and so does a first attempt whose       *)
(* failure could not be written, at the price of a fault.                  *)
LEMMA CrashFits ==
  ASSUME Shape, FewAtOnce, Next, NEW w \in Worker, WorkerCrashes(w) \/ (CatchFails(w) /\ wk'[w].pc = "idle"),
         NEW e \in Entry, Fits(e)
  PROVE  Fits(e)'
<1>1. Sized(e) /\ Sized(e)' /\ faults \in Nat /\ faults' = faults + 1 /\ hist \in History /\ wk \in [Worker -> WorkerState]
  BY SizesAreNumbers, LadderAssumption DEF Shape, Typed, WkTyped, WorkerCrashes, CatchFails, Fault
<1>2. wk[w].pc # "idle" /\ wk'[w].pc = "idle" /\ msg' = msg /\ entry' = entry /\ WorkerActs(w) /\ hist'.failures = hist.failures
  <2>1. CASE WorkerCrashes(w)
    BY <1>1, <2>1 DEF WorkerCrashes, WorkerActs, Leave, IdleWorker, History
  <2>2. CASE CatchFails(w) /\ wk'[w].pc = "idle"
    BY <1>1, <2>2 DEF CatchFails, BestEffort, WorkerActs, History
  <2>3. QED
    BY <2>1, <2>2
<1>3. PICK m \in Msg : m = wk[w].msg
  BY <1>2, WorkIsCurrent
<1>4. Concerns(w, m)
  BY <1>2, <1>3, EndConcerns
<1>5. w \notin AtWork(e)' /\ w \notin OwingOf(e)' /\ (WorksFor(w, e) /\ TriesFirst(w) => w \in OwingOf(e))
  BY <1>2 DEF AtWork, OwingOf, WorksFor, TriesFirst, Owes
<1>6. m \in Coming(e) => m \in Coming(e)'
  <2>1. \A v \in Worker : Holds(v, m)' => Holds(v, m) /\ ((ThrowsBack(v))' <=> ThrowsBack(v))
    <3>1. ASSUME NEW v \in Worker, Holds(v, m)'
          PROVE  Holds(v, m) /\ ((ThrowsBack(v))' <=> ThrowsBack(v))
      <4>1. v # w /\ wk'[v] = wk[v]
        BY <1>2, <1>4, <3>1 DEF Holds, Concerns
      <4>2. wk[v].pc # "idle"
        BY <3>1, <4>1 DEF Holds
      <4>3. QED
        BY <3>1, <4>1, <4>2, WorkerStands DEF Holds
    <3>2. QED
      BY <3>1
  <2>2. QED
    BY <1>2, <2>1 DEF Coming, ComesBack
<1>7. /\ Cardinality(AtWork(e)') <= Cardinality(AtWork(e))
      /\ Cardinality(OwingOf(e)') <= Cardinality(OwingOf(e))
      /\ w \in OwingOf(e) => Cardinality(OwingOf(e)') + 1 <= Cardinality(OwingOf(e))
      /\ Cardinality(Waiting(e)') <= Cardinality(Waiting(e)) + 1
      /\ Cardinality(Coming(e)') <= Cardinality(Coming(e)) + 1
      /\ FirstAhead(e) => FirstAhead(e)' \/ (WorksFor(w, e) /\ TriesFirst(w)) \/ (m \in Coming(e) /\ IsFirst(m))
  BY <1>4, <1>5, PairSizes
<1>8. Load(e)' <= Load(e) + (faults' - faults)
  BY <1>1, <1>7 DEF Load, Sized
<1>9. Debt(e)' <= Debt(e) + 1 /\ (w \in OwingOf(e) => Debt(e)' <= Debt(e))
  BY <1>1, <1>2, <1>7 DEF Debt, Sized
<1>10. CASE w \in OwingOf(e)
  BY <1>1, <1>8, <1>9, <1>10, Balance
<1>11. CASE w \notin OwingOf(e)
  <2>1. IsFirst(m)' <=> IsFirst(m)
    BY <1>2 DEF IsFirst
  <2>2. FirstAhead(e) => FirstAhead(e)'
    BY <1>5, <1>6, <1>7, <1>11, <2>1 DEF FirstAhead
  <2>3. MarkSpares(e) => MarkSpares(e)'
    BY <1>2, <2>2 DEF MarkSpares
  <2>4. QED
    BY <1>1, <1>8, <1>9, <2>3, Balance
<1>12. QED
  BY <1>10, <1>11

(* A best-effort write that fails adds nothing to what can still be        *)
(* counted; that the entry's status was not read, a mark that spares       *)
(* nobody, is paid for by the fault.                                       *)
LEMMA CatchFits ==
  ASSUME Shape, FewAtOnce, Next, NEW w \in Worker, CatchFails(w), wk'[w].pc # "idle", NEW e \in Entry, Fits(e)
  PROVE  Fits(e)'
<1>1. Sized(e) /\ Sized(e)' /\ faults \in Nat /\ faults' = faults + 1 /\ hist \in History /\ wk[w] \in WorkerState
  BY SizesAreNumbers, LadderAssumption DEF Shape, Typed, WkTyped, CatchFails, Fault
<1>2. msg' = msg /\ WorkerActs(w) /\ hist'.failures = hist.failures /\ wk[w].pc \in BestEffort
  BY <1>1 DEF CatchFails, WorkerActs, History
<1>3. PICK pc \in {"ack", "enqueue", "failInst", "failEntry"} : Swallows(w, pc)
  BY CatchGoes
<1>4. wk'[w].pc = pc /\ wk'[w].msg = wk[w].msg /\ wk'[w].again = wk[w].again /\ AfterSwallowed(w) = pc
  BY <1>1, <1>3 DEF Swallows, WorkerState
<1>5. wk[w].pc # "idle" /\ ~(ThrowsBack(w))' /\ (AtIt(w)' => AtIt(w)) /\ (Owes(w)' => Owes(w))
  BY <1>2, <1>4 DEF BestEffort, AfterSwallowed, Rethrown, ThrowsBack, AtIt, Owes, TryPlaces, FailPlaces
<1>6. /\ Cardinality(Waiting(e)') = Cardinality(Waiting(e))
      /\ Cardinality(AtWork(e)') <= Cardinality(AtWork(e))
      /\ Cardinality(OwingOf(e)') <= Cardinality(OwingOf(e))
      /\ Cardinality(Coming(e)') <= Cardinality(Coming(e))
  BY <1>2, <1>3, <1>4, <1>5, OwnSizes
<1>7. Load(e)' <= Load(e) + (faults' - faults) /\ Debt(e)' <= Debt(e)
  BY <1>1, <1>2, <1>6 DEF Load, Debt, Sized
<1>8. QED
  BY <1>1, <1>7, Balance

(* The worker that counts pays what it owes.                               *)
LEMMA CountFits ==
  ASSUME Shape, FewAtOnce, Next, NEW w \in Worker, CountFailure(w), NEW e \in Entry, Fits(e)
  PROVE  Fits(e)'
<1>1. Sized(e) /\ Sized(e)' /\ faults \in Nat /\ faults' = faults /\ hist \in History /\ wk \in [Worker -> WorkerState]
  BY SizesAreNumbers, LadderAssumption DEF Shape, Typed, WkTyped, CountFailure
<1>2. wk[w].pc = "count" /\ msg' = msg /\ entry' = entry /\ WorkerActs(w) /\ ~TriesFirst(w)
  BY DEF CountFailure, WorkerActs, WorkerStep, TriesFirst, TryPlaces
<1>3. PICK m \in Msg : m = wk[w].msg
  BY <1>2, WorkIsCurrent
<1>4. /\ w \in OwingOf(e) <=> JobOf(w).entry = e /\ ~wk[w].again
      /\ w \in AtWork(e) <=> JobOf(w).entry = e
  BY <1>2 DEF OwingOf, AtWork, WorksFor, AtIt, Owes, TryPlaces, FailPlaces
<1>5. /\ w \in OwingOf(e) => hist'.failures[e] = hist.failures[e] + 1
      /\ w \notin OwingOf(e) => hist'.failures[e] = hist.failures[e]
  <2>1. CASE wk[w].again
    BY <1>4, <2>1 DEF CountFailure
  <2>2. CASE ~wk[w].again
    <3>1. hist' = [hist EXCEPT !.failures[JobOf(w).entry] = @ + 1]
      BY <2>2 DEF CountFailure
    <3>2. QED
      BY <1>1, <1>4, <2>2, <3>1 DEF History
  <2>3. QED
    BY <2>1, <2>2
<1>6. CASE Rethrown(w)
  <2>1. wk'[w].pc = "idle"
    BY <1>1, <1>6 DEF CountFailure, Leave, IdleWorker
  <2>2. Concerns(w, m)
    BY <1>2, <1>3, <2>1, EndConcerns
  <2>3. w \notin AtWork(e)' /\ w \notin OwingOf(e)'
    BY <2>1 DEF AtWork, OwingOf, WorksFor
  <2>4. m \in Coming(e)' <=> m \in Coming(e)
    <3>1. ASSUME NEW v \in Worker, v # w
          PROVE  (Holds(v, m)' <=> Holds(v, m)) /\ (Holds(v, m) => ((ThrowsBack(v))' <=> ThrowsBack(v)))
      <4>1. wk'[v] = wk[v]
        BY <2>2, <3>1 DEF Concerns
      <4>2. QED
        BY <4>1, WorkerStands DEF Holds
    <3>2. ThrowsBack(w) /\ ~Holds(w, m)'
      BY <1>2, <1>6, <2>1 DEF ThrowsBack, Holds
    <3>3. QED
      BY <1>2, <3>1, <3>2 DEF Coming, ComesBack
  <2>5. JobOf(w).entry # e => (m \in Waiting(e)' => m \in Waiting(e))
    BY <1>2, <1>3 DEF Waiting, JobOf
  <2>6. /\ Cardinality(AtWork(e)') <= Cardinality(AtWork(e))
        /\ w \in AtWork(e) => Cardinality(AtWork(e)') + 1 <= Cardinality(AtWork(e))
        /\ Cardinality(OwingOf(e)') <= Cardinality(OwingOf(e))
        /\ w \in OwingOf(e) => Cardinality(OwingOf(e)') + 1 <= Cardinality(OwingOf(e))
        /\ Cardinality(Waiting(e)') <= Cardinality(Waiting(e)) + 1
        /\ (m \in Waiting(e)' => m \in Waiting(e)) => Cardinality(Waiting(e)') <= Cardinality(Waiting(e))
        /\ Cardinality(Coming(e)') <= Cardinality(Coming(e))
        /\ FirstAhead(e) => FirstAhead(e)' \/ (m \in Coming(e) /\ IsFirst(m))
    BY <1>2, <2>2, <2>3, <2>4, PairSizes
  <2>7. Load(e)' <= Load(e) + (faults' - faults)
    <3>1. CASE w \in AtWork(e)
      BY <1>1, <2>6, <3>1 DEF Load, Sized
    <3>2. CASE w \notin AtWork(e)
      BY <1>1, <1>4, <2>5, <2>6, <3>2 DEF Load, Sized
    <3>3. QED
      BY <3>1, <3>2
  <2>8. Debt(e)' <= Debt(e)
    BY <1>1, <1>5, <2>6 DEF Debt, Sized
  <2>9. MarkSpares(e) => MarkSpares(e)'
    <3>1. IsFirst(m)' <=> IsFirst(m)
      BY <1>2 DEF IsFirst
    <3>2. FirstAhead(e) => FirstAhead(e)'
      BY <2>4, <2>6, <3>1 DEF FirstAhead
    <3>3. QED
      BY <1>2, <3>2 DEF MarkSpares
  <2>10. QED
    BY <1>1, <2>7, <2>8, <2>9, Balance
<1>7. CASE ~Rethrown(w)
  <2>1. wk'[w].pc = "ack" /\ wk'[w].msg = wk[w].msg
    BY <1>1, <1>7 DEF CountFailure, Leave, WorkerState
  <2>2. ~ThrowsBack(w) /\ ~(ThrowsBack(w))' /\ ~AtIt(w)' /\ ~Owes(w)'
    BY <1>7, <2>1 DEF ThrowsBack, AtIt, Owes, TryPlaces, FailPlaces
  <2>3. /\ Cardinality(Waiting(e)') = Cardinality(Waiting(e))
        /\ Cardinality(AtWork(e)') <= Cardinality(AtWork(e))
        /\ Cardinality(OwingOf(e)') <= Cardinality(OwingOf(e))
        /\ w \in OwingOf(e) => Cardinality(OwingOf(e)') + 1 <= Cardinality(OwingOf(e))
        /\ Cardinality(Coming(e)') <= Cardinality(Coming(e))
    BY <1>2, <2>1, <2>2, OwnSizes DEF OwingOf, WorksFor
  <2>4. Load(e)' <= Load(e) + (faults' - faults) /\ Debt(e)' <= Debt(e)
    BY <1>1, <1>5, <2>3 DEF Load, Debt, Sized
  <2>5. FirstAhead(e) => FirstAhead(e)'
    BY <1>2, <2>1, <2>2, OwnPart
  <2>6. MarkSpares(e) => MarkSpares(e)'
    BY <1>2, <2>5 DEF MarkSpares
  <2>7. QED
    BY <1>1, <2>4, <2>6, Balance
<1>8. QED
  BY <1>6, <1>7

(* A worker takes over what the message stood for.                         *)
LEMMA ReceiveFits ==
  ASSUME Shape, FewAtOnce, Next, NEW w \in Worker, NEW m \in Msg, Receive(w, m), NEW e \in Entry, Fits(e)
  PROVE  Fits(e)'
<1>1. /\ Sized(e) /\ Sized(e)' /\ faults \in Nat /\ faults' = faults /\ wk \in [Worker -> WorkerState]
      /\ msg \in [Msg -> MessageState] /\ hist' = hist /\ entry' = entry
  BY SizesAreNumbers, LadderAssumption DEF Shape, Typed, WkTyped, MsgTyped, Receive
<1>2. /\ wk[w].pc = "idle" /\ wk'[w].pc = "guard" /\ wk'[w].msg = m /\ \A v \in Worker : v # w => wk'[v] = wk[v]
  BY <1>1 DEF Receive, IdleWorker
<1>3. /\ msg[m].state = "visible" /\ msg'[m].state = "hidden" /\ msg'[m].job = msg[m].job /\ \A n \in Msg : n # m => msg'[n] = msg[n]
  BY <1>1 DEF Receive, MessageState
<1>4. Concerns(w, m)
  <2>1. ASSUME NEW n \in Msg, n # m, NEW v \in Worker
        PROVE  (Holds(v, n)' <=> Holds(v, n)) /\ (wk'[v] # wk[v] => ~Holds(v, n))
    BY <1>2, <2>1 DEF Holds
  <2>2. QED
    BY <1>2, <1>3, <2>1 DEF Concerns
<1>5. Holds(w, m)' /\ JobOf(w)' = msg[m].job /\ ~(ThrowsBack(w))'
  BY <1>2, <1>3 DEF Holds, JobOf, ThrowsBack
<1>6. /\ w \notin AtWork(e) /\ w \notin OwingOf(e) /\ ~WorksFor(w, e)
      /\ w \in AtWork(e)' <=> msg[m].job.entry = e
      /\ w \in OwingOf(e)' <=> msg[m].job.entry = e
      /\ m \in Waiting(e) <=> msg[m].job.entry = e
      /\ m \in Coming(e) <=> msg[m].job.entry = e
      /\ m \notin Waiting(e)' /\ m \notin Coming(e)'
  <2>1. Held(m)'
    BY <1>5 DEF Held, Holds
  <2>2. /\ w \notin AtWork(e) /\ w \notin OwingOf(e) /\ ~WorksFor(w, e)
        /\ w \in AtWork(e)' <=> msg[m].job.entry = e
        /\ w \in OwingOf(e)' <=> msg[m].job.entry = e
    BY <1>2, <1>5 DEF AtWork, OwingOf, WorksFor, AtIt, Owes, TryPlaces
  <2>3. /\ m \in Waiting(e) <=> msg[m].job.entry = e
        /\ m \in Coming(e) <=> msg[m].job.entry = e
    BY <1>3 DEF Waiting, Waits, Coming, ComesBack
  <2>4. m \notin Waiting(e)' /\ m \notin Coming(e)'
    BY <1>3, <1>5, <2>1 DEF Waiting, Waits, Coming, ComesBack
  <2>5. QED
    BY <2>2, <2>3, <2>4
<1>7. /\ Cardinality(AtWork(e)') <= Cardinality(AtWork(e)) + 1
      /\ (w \in AtWork(e)' => w \in AtWork(e)) => Cardinality(AtWork(e)') <= Cardinality(AtWork(e))
      /\ Cardinality(OwingOf(e)') <= Cardinality(OwingOf(e)) + 1
      /\ (w \in OwingOf(e)' => w \in OwingOf(e)) => Cardinality(OwingOf(e)') <= Cardinality(OwingOf(e))
      /\ (m \in Waiting(e)' => m \in Waiting(e)) => Cardinality(Waiting(e)') <= Cardinality(Waiting(e))
      /\ m \in Waiting(e) /\ m \notin Waiting(e)' => Cardinality(Waiting(e)') + 1 <= Cardinality(Waiting(e))
      /\ (m \in Coming(e)' => m \in Coming(e)) => Cardinality(Coming(e)') <= Cardinality(Coming(e))
      /\ m \in Coming(e) /\ m \notin Coming(e)' => Cardinality(Coming(e)') + 1 <= Cardinality(Coming(e))
      /\ FirstAhead(e) => FirstAhead(e)' \/ (WorksFor(w, e) /\ TriesFirst(w)) \/ (m \in Coming(e) /\ IsFirst(m))
  BY <1>4, PairSizes
<1>8. Load(e)' <= Load(e) + (faults' - faults) /\ Debt(e)' <= Debt(e)
  <2>1. CASE msg[m].job.entry = e
    BY <1>1, <1>6, <1>7, <2>1 DEF Load, Debt, Sized
  <2>2. CASE msg[m].job.entry # e
    BY <1>1, <1>6, <1>7, <2>2 DEF Load, Debt, Sized
  <2>3. QED
    BY <2>1, <2>2
<1>9. ASSUME m \in Coming(e), IsFirst(m)
      PROVE  FirstAhead(e)'
  <2>1. WorksFor(w, e)' /\ TriesFirst(w)'
    BY <1>2, <1>5, <1>6, <1>9 DEF WorksFor, TriesFirst, TryPlaces, Rethrown, IsFirst
  <2>2. QED
    BY <2>1 DEF FirstAhead
<1>10. MarkSpares(e) => MarkSpares(e)'
  BY <1>1, <1>6, <1>7, <1>9 DEF MarkSpares
<1>11. QED
  BY <1>1, <1>8, <1>10, Balance

(* A worker that sends the next job, or the same one again later.          *)
LEMMA SendFits ==
  ASSUME Shape, FewAtOnce, EarlyIsLater, Next, NEW w \in Worker, Repark(w) \/ EnqueueRetry(w), NEW e \in Entry, Fits(e)
  PROVE  Fits(e)'
<1>1. /\ Sized(e) /\ Sized(e)' /\ faults \in Nat /\ faults' = faults /\ wk \in [Worker -> WorkerState]
      /\ msg \in [Msg -> MessageState] /\ hist' = hist /\ entry' = entry /\ WorkerActs(w)
  <2>1. Sized(e) /\ Sized(e)'
    BY SizesAreNumbers
  <2>2. faults \in Nat /\ wk \in [Worker -> WorkerState] /\ msg \in [Msg -> MessageState]
    BY LadderAssumption DEF Shape, Typed, WkTyped, MsgTyped
  <2>3. faults' = faults /\ hist' = hist /\ entry' = entry
    BY DEF Repark, EnqueueRetry
  <2>4. WorkerActs(w)
    BY DEF WorkerActs, WorkerStep
  <2>5. QED
    BY <2>1, <2>2, <2>3, <2>4
<1>2. /\ wk[w].pc \in {"guard", "enqueue"} /\ (wk[w].pc = "guard" => JobOf(w).early)
      /\ wk'[w].pc = "ack" /\ wk'[w].msg = wk[w].msg /\ \A v \in Worker : v # w => wk'[v] = wk[v]
  BY <1>1, StepGoes, OthersRest DEF Repark, EnqueueRetry
<1>3. PICK n \in Msg : /\ msg[n].state = "none" /\ ~Held(n) /\ msg'[n].state = "visible" /\ msg'[n].job.entry = JobOf(w).entry
                       /\ \A m \in Msg : m # n => msg'[m] = msg[m]
  <2>1. JobOf(w) \in Job
    BY <1>2, WorkIsCurrent
  <2>2. ASSUME NEW n \in Msg, NEW job, Send(n, job), job.entry = JobOf(w).entry
        PROVE  /\ msg[n].state = "none" /\ ~Held(n) /\ msg'[n].state = "visible" /\ msg'[n].job.entry = JobOf(w).entry
               /\ \A m \in Msg : m # n => msg'[m] = msg[m]
    BY <1>1, <2>2 DEF Send, FreshMsg, Unused
  <2>3. CASE Repark(w)
    <3> DEFINE job == [JobOf(w) EXCEPT !.early = FALSE]
    <3>1. PICK n \in Msg : Send(n, job)
      BY <2>3 DEF Repark
    <3>2. job.entry = JobOf(w).entry
      BY <2>1 DEF Job
    <3> HIDE DEF job
    <3>3. QED
      BY <2>2, <3>1, <3>2
  <2>4. CASE EnqueueRetry(w)
    <3> DEFINE a == JobOf(w).attempt + 1
               b == a \in Deferred
               job == [JobOf(w) EXCEPT !.attempt = a, !.inst = wk[w].inst, !.seq = wk[w].seq, !.early = b]
    <3>1. PICK n \in Msg : Send(n, job)
      BY <2>4 DEF EnqueueRetry
    <3>2. job.entry = JobOf(w).entry
      BY <2>1 DEF Job
    <3> HIDE DEF job
    <3>3. QED
      BY <2>2, <3>1, <3>2
  <2>5. QED
    BY <2>3, <2>4
<1>4. \A v \in Worker : Holds(v, n)' => FALSE
  BY <1>2, <1>3 DEF Holds, Held
<1>5. Concerns(w, n)
  <2>1. ASSUME NEW v \in Worker, NEW m \in Msg
        PROVE  (Holds(v, m)' <=> Holds(v, m)) /\ (wk'[v] # wk[v] => ~ThrowsBack(v) /\ ~(ThrowsBack(v))')
    BY <1>2 DEF Holds, ThrowsBack
  <2>2. QED
    BY <1>2, <1>3, <2>1 DEF Concerns
<1>6. ~TriesFirst(w)
  <2>1. wk[w].pc = "guard" => JobOf(w).attempt # 0
    BY <1>2, WorkIsCurrent DEF EarlyIsLater
  <2>2. QED
    BY <1>2, <2>1 DEF TriesFirst, TryPlaces, Rethrown
<1>7. /\ w \notin AtWork(e)' /\ w \notin OwingOf(e)'
      /\ w \in AtWork(e) <=> JobOf(w).entry = e
      /\ w \in OwingOf(e) <=> JobOf(w).entry = e
  BY <1>2 DEF AtWork, OwingOf, WorksFor, AtIt, Owes, TryPlaces, FailPlaces
<1>8. /\ n \notin Waiting(e) /\ n \notin Coming(e)
      /\ n \in Waiting(e)' <=> JobOf(w).entry = e
      /\ n \in Coming(e)' <=> JobOf(w).entry = e
  BY <1>3 DEF Waiting, Waits, Coming, ComesBack
<1>9. /\ (w \in AtWork(e)' => w \in AtWork(e)) => Cardinality(AtWork(e)') <= Cardinality(AtWork(e))
      /\ w \in AtWork(e) /\ w \notin AtWork(e)' => Cardinality(AtWork(e)') + 1 <= Cardinality(AtWork(e))
      /\ (w \in OwingOf(e)' => w \in OwingOf(e)) => Cardinality(OwingOf(e)') <= Cardinality(OwingOf(e))
      /\ w \in OwingOf(e) /\ w \notin OwingOf(e)' => Cardinality(OwingOf(e)') + 1 <= Cardinality(OwingOf(e))
      /\ Cardinality(Waiting(e)') <= Cardinality(Waiting(e)) + 1
      /\ (n \in Waiting(e)' => n \in Waiting(e)) => Cardinality(Waiting(e)') <= Cardinality(Waiting(e))
      /\ Cardinality(Coming(e)') <= Cardinality(Coming(e)) + 1
      /\ (n \in Coming(e)' => n \in Coming(e)) => Cardinality(Coming(e)') <= Cardinality(Coming(e))
      /\ FirstAhead(e) => FirstAhead(e)' \/ (WorksFor(w, e) /\ TriesFirst(w)) \/ (n \in Coming(e) /\ IsFirst(n))
  BY <1>5, PairSizes
<1>10. Load(e)' <= Load(e) + (faults' - faults) /\ Debt(e)' <= Debt(e)
  <2>1. CASE JobOf(w).entry = e
    BY <1>1, <1>7, <1>8, <1>9, <2>1 DEF Load, Debt, Sized
  <2>2. CASE JobOf(w).entry # e
    BY <1>1, <1>7, <1>8, <1>9, <2>2 DEF Load, Debt, Sized
  <2>3. QED
    BY <2>1, <2>2
<1>11. MarkSpares(e) => MarkSpares(e)'
  BY <1>1, <1>6, <1>8, <1>9 DEF MarkSpares
<1>12. QED
  BY <1>1, <1>10, <1>11, Balance

(* A worker that deletes its message.                                      *)
LEMMA AckFits ==
  ASSUME Shape, FewAtOnce, Next, NEW w \in Worker, Ack(w), NEW e \in Entry, Fits(e)
  PROVE  Fits(e)'
<1>1. /\ Sized(e) /\ Sized(e)' /\ faults \in Nat /\ faults' = faults /\ wk \in [Worker -> WorkerState]
      /\ msg \in [Msg -> MessageState] /\ hist' = hist /\ entry' = entry /\ WorkerActs(w)
  BY SizesAreNumbers, LadderAssumption DEF Shape, Typed, WkTyped, MsgTyped, Ack, WorkerActs, WorkerStep
<1>2. wk[w].pc = "ack" /\ wk'[w].pc = "idle"
  BY <1>1 DEF Ack, Leave, IdleWorker
<1>3. PICK m \in Msg : m = wk[w].msg
  BY <1>2, WorkIsCurrent
<1>4. msg'[m].state = "none" /\ \A n \in Msg : n # m => msg'[n] = msg[n]
  BY <1>1, <1>3 DEF Ack, NoMsg, MessageState
<1>5. Concerns(w, m)
  BY <1>1, <1>2, <1>3, <1>4, EndConcerns
<1>6. /\ w \notin AtWork(e)' /\ w \notin OwingOf(e)' /\ ~TriesFirst(w)
      /\ m \notin Waiting(e)' /\ m \notin Coming(e)'
  BY <1>2, <1>4 DEF AtWork, OwingOf, WorksFor, TriesFirst, TryPlaces, Waiting, Waits, Coming, ComesBack
<1>7. /\ Cardinality(AtWork(e)') <= Cardinality(AtWork(e))
      /\ Cardinality(OwingOf(e)') <= Cardinality(OwingOf(e))
      /\ Cardinality(Waiting(e)') <= Cardinality(Waiting(e))
      /\ Cardinality(Coming(e)') <= Cardinality(Coming(e))
      /\ m \in Coming(e) => Cardinality(Coming(e)') + 1 <= Cardinality(Coming(e))
      /\ FirstAhead(e) => FirstAhead(e)' \/ (m \in Coming(e) /\ IsFirst(m))
  BY <1>5, <1>6, PairSizes
<1>8. Load(e)' <= Load(e) + (faults' - faults) /\ Debt(e)' <= Debt(e) /\ (m \in Coming(e) => Debt(e)' + 1 <= Debt(e))
  BY <1>1, <1>7 DEF Load, Debt, Sized
<1>9. m \notin Coming(e) => (MarkSpares(e) => MarkSpares(e)')
  BY <1>1, <1>7 DEF MarkSpares
<1>10. QED
  BY <1>1, <1>8, <1>9, Balance

(* What is thrown back of an entry, at work or waiting, is its one first   *)
(* attempt.                                                                *)
LEMMA ThrownBackAlone ==
  ASSUME Shape, NEW e \in Entry, FirstAlone(e), NEW v \in Worker, WorksFor(v, e), ThrowsBack(v),
         NEW u \in Worker, WorksFor(u, e), ThrowsBack(u)
  PROVE  wk[u].msg = wk[v].msg
<1>1. /\ wk[v].msg \in Msg /\ Current(wk[v].msg) /\ JobOf(v) = msg[wk[v].msg].job
      /\ wk[u].msg \in Msg /\ Current(wk[u].msg) /\ JobOf(u) = msg[wk[u].msg].job
  BY WorkIsCurrent DEF WorksFor
<1>2. QED
  BY <1>1 DEF WorksFor, ThrowsBack, Rethrown, FirstAlone

(* A worker that reports a retry clears the count, and with it what was    *)
(* counted: what can still be counted is bounded by the load alone.        *)
LEMMA ReportFits ==
  ASSUME Shape, FewAtOnce, Next, NEW w \in Worker, ReportRetry(w), NEW e \in Entry, Fits(e), FirstAlone(e)
  PROVE  Fits(e)'
<1>1. Sized(e) /\ Sized(e)' /\ faults \in Nat /\ entry \in [Entry -> EntryStatus] /\ hist \in History
  BY SizesAreNumbers, LadderAssumption DEF Shape, Typed
<1>2. /\ wk[w].pc = "report" /\ wk'[w].pc = "enqueue" /\ wk'[w].msg = wk[w].msg
      /\ msg' = msg /\ faults' = faults /\ WorkerActs(w)
      /\ entry' = [entry EXCEPT ![JobOf(w).entry] = "retrying"]
      /\ hist'.failures = [hist.failures EXCEPT ![JobOf(w).entry] = 0]
  BY <1>1, StepGoes DEF ReportRetry, WorkerActs, WorkerStep, History
<1>3. ~ThrowsBack(w) /\ ~(ThrowsBack(w))' /\ AtIt(w) /\ AtIt(w)' /\ Owes(w) /\ Owes(w)'
  BY <1>2 DEF ThrowsBack, AtIt, Owes, TryPlaces, FailPlaces
<1>4. CASE JobOf(w).entry # e
  <2>1. entry'[e] = entry[e] /\ hist'.failures[e] = hist.failures[e]
    BY <1>1, <1>2, <1>4 DEF History
  <2>2. Onward(w, e)
    BY <1>2, <1>3, <1>4, <2>1 DEF Onward
  <2>3. QED
    BY <1>2, <2>2, OnwardFits
<1>5. CASE JobOf(w).entry = e
  <2>1. hist'.failures[e] = 0
    BY <1>1, <1>2, <1>5 DEF History
  <2>2. Cardinality(Waiting(e)') = Cardinality(Waiting(e)) /\ Cardinality(AtWork(e)') <= Cardinality(AtWork(e))
    BY <1>2, <1>3, OwnSizes
  <2>3. Load(e)' <= 1 + faults
    BY <1>1, <2>2 DEF Load, Sized, Fits
  <2>4. Cardinality(OwingOf(e)') <= Cardinality(AtWork(e)')
    <3>1. OwingOf(e)' \in SUBSET (AtWork(e)')
      BY DEF OwingOf, AtWork, Owes, AtIt, TryPlaces, FailPlaces
    <3>2. QED
      BY <1>1, <3>1, FS_Subset DEF Sized
  <2>5. ASSUME NEW m \in Coming(e)', m \notin Waiting(e)'
        PROVE  \E v \in Worker : v # w /\ wk[v].msg = m /\ WorksFor(v, e) /\ ThrowsBack(v) /\ v \in AtWork(e)'
    <3>1. m \in Msg /\ msg[m].job.entry = e /\ \E v \in Worker : Holds(v, m)' /\ (ThrowsBack(v))'
      BY <1>2, <2>5 DEF Coming, ComesBack, Waiting, Waits, Held, Holds
    <3>2. PICK v \in Worker : Holds(v, m)' /\ (ThrowsBack(v))'
      BY <3>1
    <3>3. v # w
      BY <1>3, <3>2
    <3>4. wk'[v] = wk[v]
      BY <1>2, <3>3, OthersRest
    <3>5. wk[v].pc # "idle" /\ wk[v].msg = m /\ ThrowsBack(v)
      BY <3>2, <3>4, WorkerStands DEF Holds
    <3>6. WorksFor(v, e) /\ v \in AtWork(e)
      BY <3>1, <3>5 DEF WorksFor, JobOf, AtWork, AtIt, ThrowsBack
    <3>7. QED
      BY <3>3, <3>4, <3>5, <3>6, WorkerStands
  <2>6. CASE Coming(e)' \in SUBSET (Waiting(e)')
    <3>1. Cardinality(Coming(e)') <= Cardinality(Waiting(e)')
      BY <1>1, <2>6, FS_Subset DEF Sized
    <3>2. Debt(e)' <= Load(e)' /\ Load(e)' \in Nat /\ Debt(e)' \in Nat
      BY <1>1, <2>1, <2>4, <3>1 DEF Debt, Load, Sized
    <3>3. 1 + faults <= CountsAllowed'
      <4>1. CASE faults = 0
        BY <1>2, <4>1 DEF CountsAllowed
      <4>2. CASE faults # 0
        <5>1. CountsAllowed' = faults + 2
          BY <1>2, <4>2 DEF CountsAllowed
        <5>2. QED
          BY <1>1, <5>1
      <4>3. QED
        BY <4>1, <4>2
    <3>4. CountsAllowed' \in Nat
      BY <1>1, <1>2, AllowedGrows
    <3>5. QED
      BY <1>1, <1>2, <2>3, <3>2, <3>3, <3>4 DEF Fits
  <2>7. CASE ~(Coming(e)' \in SUBSET (Waiting(e)'))
    <3>1. PICK m \in Coming(e)' : m \notin Waiting(e)'
      BY <2>7
    <3>2. PICK v \in Worker : v # w /\ wk[v].msg = m /\ WorksFor(v, e) /\ ThrowsBack(v) /\ v \in AtWork(e)'
      BY <2>5, <3>1
    <3>3. ASSUME NEW n \in Coming(e)', n \notin Waiting(e)'
          PROVE  n = m
      <4>1. PICK u \in Worker : wk[u].msg = n /\ WorksFor(u, e) /\ ThrowsBack(u)
        BY <2>5, <3>3
      <4>2. QED
        BY <3>2, <4>1, ThrownBackAlone
    <3>4. w \in AtWork(e)'
      BY <1>2, <1>3, <1>5, OwnPart DEF AtWork, WorksFor
    <3>5. 2 <= Cardinality(AtWork(e)')
      <4> DEFINE S == AtWork(e)'
                 T == S \ {v}
                 U == T \ {w}
      <4>1. IsFiniteSet(S) /\ v \in S /\ v \notin T /\ w \in T /\ w \notin U
        BY <1>1, <3>2, <3>4 DEF Sized
      <4>2. (\A y : y # v => (y \in T <=> y \in S)) /\ (\A y : y # w => (y \in U <=> y \in T))
        OBVIOUS
      <4> HIDE DEF S, T, U
      <4>3. IsFiniteSet(T) /\ Cardinality(T) \in Nat /\ Cardinality(S) \in Nat /\ Cardinality(T) + 1 <= Cardinality(S)
        BY <4>1, <4>2, SetChange
      <4>4. Cardinality(U) \in Nat /\ Cardinality(U) + 1 <= Cardinality(T)
        BY <4>1, <4>2, <4>3, SetChange
      <4>5. 2 <= Cardinality(S)
        BY <4>3, <4>4
      <4>6. QED
        BY <4>5 DEF S
    <3>6. faults # 0
      BY <1>1, <2>3, <3>5 DEF Load, Sized
    <3>7. Cardinality(Coming(e)') <= Cardinality(Waiting(e)') + 1
      <4> DEFINE T == Waiting(e)' \cup {m}
      <4>1. Coming(e)' \in SUBSET T
        BY <3>3
      <4>2. IsFiniteSet(T) /\ Cardinality(T) <= Cardinality(Waiting(e)') + 1
        <5>1. \A y : y # m => (y \in T <=> y \in Waiting(e)')
          OBVIOUS
        <5> HIDE DEF T
        <5>2. QED
          BY <1>1, <5>1, SetChange DEF Sized
      <4> HIDE DEF T
      <4>3. Cardinality(Coming(e)') <= Cardinality(T) /\ Cardinality(T) \in Nat
        BY <4>1, <4>2, FS_Subset, FS_CardinalityType
      <4>4. QED
        BY <1>1, <4>2, <4>3 DEF Sized
    <3>8. Debt(e)' <= Load(e)' + 1 /\ Load(e)' \in Nat /\ Debt(e)' \in Nat
      BY <1>1, <2>1, <2>4, <3>7 DEF Debt, Load, Sized
    <3>9. CountsAllowed' = faults + 2
      BY <1>2, <3>6 DEF CountsAllowed
    <3>10. QED
      BY <1>1, <1>2, <2>3, <3>8, <3>9 DEF Fits
  <2>8. QED
    BY <2>6, <2>7
<1>6. QED
  BY <1>4, <1>5

(* A step of no worker that writes one message.                            *)
LEMMA QueueSizes ==
  ASSUME Shape, FewAtOnce, Next, wk' = wk, NEW n \in Msg, \A m \in Msg : m # n => msg'[m] = msg[m], NEW e \in Entry
  PROVE  /\ AtWork(e)' = AtWork(e) /\ OwingOf(e)' = OwingOf(e)
         /\ Cardinality(Waiting(e)') <= Cardinality(Waiting(e)) + 1
         /\ (n \in Waiting(e)' => n \in Waiting(e)) => Cardinality(Waiting(e)') <= Cardinality(Waiting(e))
         /\ Cardinality(Coming(e)') <= Cardinality(Coming(e)) + 1
         /\ (n \in Coming(e)' => n \in Coming(e)) => Cardinality(Coming(e)') <= Cardinality(Coming(e))
         /\ n \in Coming(e) /\ n \notin Coming(e)' => Cardinality(Coming(e)') + 1 <= Cardinality(Coming(e))
         /\ FirstAhead(e) => FirstAhead(e)' \/ (n \in Coming(e) /\ IsFirst(n))
<1>1. Sized(e)
  BY SizesAreNumbers
<1>2. ASSUME NEW v \in Worker
      PROVE  /\ (v \in AtWork(e)' <=> v \in AtWork(e)) /\ (v \in OwingOf(e)' <=> v \in OwingOf(e))
             /\ WorksFor(v, e) /\ TriesFirst(v) => WorksFor(v, e)' /\ TriesFirst(v)'
  <2>1. wk'[v] = wk[v]
    OBVIOUS
  <2>2. QED
    BY <2>1, WorkerStands
<1>3. AtWork(e)' = AtWork(e) /\ OwingOf(e)' = OwingOf(e)
  BY <1>2 DEF AtWork, OwingOf
<1>4. ASSUME NEW m, m # n
      PROVE  /\ (m \in Waiting(e)' <=> m \in Waiting(e)) /\ (m \in Coming(e)' <=> m \in Coming(e))
             /\ m \in Msg => (IsFirst(m)' <=> IsFirst(m))
  <2>1. CASE m \in Msg
    <3>1. /\ msg'[m] = msg[m]
          /\ \A v \in Worker : /\ Holds(v, m)' <=> Holds(v, m)
                               /\ wk'[v] # wk[v] /\ Holds(v, m) => ((ThrowsBack(v))' <=> ThrowsBack(v))
      BY <1>4, <2>1 DEF Holds
    <3>2. QED
      BY <2>1, <3>1, MessageStands
  <2>2. CASE m \notin Msg
    BY <2>2 DEF Waiting, Coming
  <2>3. QED
    BY <2>1, <2>2
<1>5. /\ Cardinality(Waiting(e)') <= Cardinality(Waiting(e)) + 1
      /\ (n \in Waiting(e)' => n \in Waiting(e)) => Cardinality(Waiting(e)') <= Cardinality(Waiting(e))
  <2>1. \A m : m # n => (m \in Waiting(e)' <=> m \in Waiting(e))
    BY <1>4
  <2>2. QED
    BY <1>1, <2>1, SetChange DEF Sized
<1>6. /\ Cardinality(Coming(e)') <= Cardinality(Coming(e)) + 1
      /\ (n \in Coming(e)' => n \in Coming(e)) => Cardinality(Coming(e)') <= Cardinality(Coming(e))
      /\ n \in Coming(e) /\ n \notin Coming(e)' => Cardinality(Coming(e)') + 1 <= Cardinality(Coming(e))
  <2>1. \A m : m # n => (m \in Coming(e)' <=> m \in Coming(e))
    BY <1>4
  <2>2. QED
    BY <1>1, <2>1, SetChange DEF Sized
<1>7. FirstAhead(e) => FirstAhead(e)' \/ (n \in Coming(e) /\ IsFirst(n))
  <2>1. ASSUME NEW v \in Worker, WorksFor(v, e), TriesFirst(v)
        PROVE  FirstAhead(e)'
    BY <1>2, <2>1 DEF FirstAhead
  <2>2. ASSUME NEW m \in Coming(e), IsFirst(m), m # n
        PROVE  FirstAhead(e)'
    <3>1. m \in Msg /\ m \in Coming(e)' /\ IsFirst(m)'
      BY <1>4, <2>2 DEF Coming
    <3>2. QED
      BY <3>1 DEF FirstAhead
  <2>3. QED
    BY <2>1, <2>2 DEF FirstAhead
<1>8. QED
  BY <1>3, <1>5, <1>6, <1>7

(* SQS gives a message back, or up: what is given up will count nothing.   *)
LEMMA ReappearFits ==
  ASSUME Shape, FewAtOnce, Next, NEW n \in Msg, Reappear(n), NEW e \in Entry, Fits(e)
  PROVE  Fits(e)'
<1>1. Sized(e) /\ Sized(e)'
  BY SizesAreNumbers
<1>2. faults \in Nat /\ faults' = faults /\ hist' = hist /\ entry' = entry /\ wk' = wk /\ msg \in [Msg -> MessageState]
  BY LadderAssumption DEF Shape, Typed, MsgTyped, Reappear
<1>3. /\ msg[n].state = "hidden" /\ ~Held(n) /\ msg'[n].state \in {"visible", "dead"} /\ msg'[n].job = msg[n].job
      /\ \A m \in Msg : m # n => msg'[m] = msg[m]
  BY <1>2 DEF Reappear, MessageState
<1>4. /\ n \in Waiting(e)' => n \in Waiting(e)
      /\ n \in Coming(e)' => n \in Coming(e)
  <2>1. n \in Waiting(e) <=> msg[n].job.entry = e
    BY <1>3 DEF Waiting, Waits
  <2>2. n \in Coming(e) <=> msg[n].job.entry = e
    BY <1>3 DEF Coming, ComesBack, Held, Holds
  <2>3. QED
    BY <1>3, <2>1, <2>2 DEF Waiting, Coming
<1>5. /\ AtWork(e)' = AtWork(e) /\ OwingOf(e)' = OwingOf(e)
      /\ Cardinality(Waiting(e)') <= Cardinality(Waiting(e))
      /\ Cardinality(Coming(e)') <= Cardinality(Coming(e))
      /\ n \in Coming(e) /\ n \notin Coming(e)' => Cardinality(Coming(e)') + 1 <= Cardinality(Coming(e))
      /\ FirstAhead(e) => FirstAhead(e)' \/ (n \in Coming(e) /\ IsFirst(n))
  BY <1>2, <1>3, <1>4, QueueSizes
<1>6. /\ Load(e)' <= Load(e) + (faults' - faults)
      /\ Debt(e)' <= Debt(e)
      /\ n \in Coming(e) /\ n \notin Coming(e)' => Debt(e)' + 1 <= Debt(e)
  BY <1>1, <1>2, <1>5 DEF Load, Debt, Sized
<1>7. CASE n \in Coming(e) /\ n \notin Coming(e)'
  BY <1>1, <1>2, <1>6, <1>7, Balance
<1>8. CASE n \in Coming(e) => n \in Coming(e)'
  <2>1. IsFirst(n)' <=> IsFirst(n)
    BY <1>3 DEF IsFirst
  <2>2. MarkSpares(e) => MarkSpares(e)'
    BY <1>2, <1>5, <1>8, <2>1 DEF MarkSpares, FirstAhead
  <2>3. QED
    BY <1>1, <1>2, <1>6, <2>2, Balance
<1>9. QED
  BY <1>7, <1>8

(* A message that is visible again too early makes one more that may count, *)
(* at the price of a fault.                                                *)
LEMMA ReappearEarlyFits ==
  ASSUME Shape, FewAtOnce, Next, NEW n \in Msg, ReappearEarly(n), NEW e \in Entry, Fits(e)
  PROVE  Fits(e)'
<1>1. Sized(e) /\ Sized(e)'
  BY SizesAreNumbers
<1>2. /\ faults \in Nat /\ faults' = faults + 1 /\ hist'.failures = hist.failures /\ entry' = entry /\ wk' = wk
      /\ msg \in [Msg -> MessageState]
  BY LadderAssumption DEF Shape, Typed, MsgTyped, ReappearEarly, Fault, History
<1>3. /\ msg'[n].state = "visible" /\ msg'[n].job = msg[n].job /\ \A m \in Msg : m # n => msg'[m] = msg[m]
  BY <1>2 DEF ReappearEarly, MessageState
<1>4. /\ AtWork(e)' = AtWork(e) /\ OwingOf(e)' = OwingOf(e)
      /\ Cardinality(Waiting(e)') <= Cardinality(Waiting(e)) + 1
      /\ Cardinality(Coming(e)') <= Cardinality(Coming(e)) + 1
      /\ FirstAhead(e) => FirstAhead(e)' \/ (n \in Coming(e) /\ IsFirst(n))
  BY <1>2, <1>3, QueueSizes
<1>5. Load(e)' <= Load(e) + (faults' - faults) /\ Debt(e)' <= Debt(e) + 1
  BY <1>1, <1>2, <1>4 DEF Load, Debt, Sized
<1>6. n \in Coming(e) => n \in Coming(e)'
  BY <1>3 DEF Coming, ComesBack
<1>7. IsFirst(n)' <=> IsFirst(n)
  BY <1>3 DEF IsFirst
<1>8. MarkSpares(e) => MarkSpares(e)'
  BY <1>2, <1>4, <1>6, <1>7 DEF MarkSpares, FirstAhead
<1>9. QED
  BY <1>1, <1>2, <1>5, <1>8, Balance

(* The job of a retry is the first thing that befalls its entry.           *)
LEMMA SendRetryFits ==
  ASSUME Shape, FewAtOnce, SentOrUntouched, Next, NEW q \in Req, SendRetry(q), NEW e \in Entry, Fits(e), ~AskedTwice(e)
  PROVE  Fits(e)'
<1>1. Sized(e) /\ Sized(e)'
  BY SizesAreNumbers
<1>2. /\ faults \in Nat /\ faults' = faults /\ hist' = hist /\ entry' = entry /\ wk' = wk /\ msg \in [Msg -> MessageState]
  BY LadderAssumption DEF Shape, Typed, MsgTyped, SendRetry, jobs
<1>3. PICK n \in Msg : /\ msg[n].state = "none" /\ msg'[n].job.entry = Of(q)
                       /\ \A m \in Msg : m # n => msg'[m] = msg[m]
  <2> DEFINE job == [FirstJob EXCEPT !.seq = rq[q].seq, !.inst = Of(q), !.entry = Of(q)]
  <2>1. PICK n \in Msg : Send(n, job)
    BY DEF SendRetry
  <2>2. job.entry = Of(q)
    BY DEF FirstJob
  <2> HIDE DEF job
  <2>3. QED
    BY <1>2, <2>1, <2>2 DEF Send, FreshMsg, Unused
<1>4. n \notin Waiting(e) /\ n \notin Coming(e)
  BY <1>3 DEF Waiting, Waits, Coming, ComesBack
<1>5. /\ AtWork(e)' = AtWork(e) /\ OwingOf(e)' = OwingOf(e)
      /\ Cardinality(Waiting(e)') <= Cardinality(Waiting(e)) + 1
      /\ (n \in Waiting(e)' => n \in Waiting(e)) => Cardinality(Waiting(e)') <= Cardinality(Waiting(e))
      /\ Cardinality(Coming(e)') <= Cardinality(Coming(e)) + 1
      /\ (n \in Coming(e)' => n \in Coming(e)) => Cardinality(Coming(e)') <= Cardinality(Coming(e))
      /\ FirstAhead(e) => FirstAhead(e)' \/ (n \in Coming(e) /\ IsFirst(n))
  BY <1>2, <1>3, QueueSizes
<1>6. CASE Of(q) # e
  <2>1. n \notin Waiting(e)' /\ n \notin Coming(e)'
    BY <1>3, <1>6 DEF Waiting, Coming
  <2>2. Load(e)' <= Load(e) + (faults' - faults) /\ Debt(e)' <= Debt(e)
    BY <1>1, <1>2, <1>5, <2>1 DEF Load, Debt, Sized
  <2>3. MarkSpares(e) => MarkSpares(e)'
    BY <1>2, <1>4, <1>5 DEF MarkSpares
  <2>4. QED
    BY <1>1, <1>2, <2>2, <2>3, Balance
<1>7. CASE Of(q) = e
  <2>1. Untouched(e)
    BY <1>7, RetryIsFirst
  <2>2. AtWork(e) = {} /\ OwingOf(e) = {}
    <3>1. ASSUME NEW w \in Worker, WorksFor(w, e)
          PROVE  FALSE
      BY <2>1, <3>1, WorkIsCurrent DEF Untouched, WorksFor
    <3>2. QED
      BY <3>1 DEF AtWork, OwingOf
  <2>3. Waiting(e) = {} /\ Coming(e) = {}
    BY <2>1 DEF Untouched, Current, Waiting, Waits, Coming, ComesBack
  <2>4. hist'.failures[e] = 0
    BY <1>2, <2>1 DEF Untouched
  <2>5. /\ Cardinality(AtWork(e)') = 0 /\ Cardinality(OwingOf(e)') = 0
        /\ Cardinality(Waiting(e)) = 0 /\ Cardinality(Coming(e)) = 0
    BY <1>5, <2>2, <2>3, FS_EmptySet
  <2>6. Load(e)' <= 1 /\ Debt(e)' <= 1 /\ Load(e)' \in Nat /\ Debt(e)' \in Nat
    BY <1>1, <1>5, <2>4, <2>5 DEF Load, Debt, Sized
  <2>7. CountsAllowed' \in Nat /\ 1 <= CountsAllowed'
    <3>1. CASE faults = 0
      BY <1>2, <3>1 DEF CountsAllowed
    <3>2. CASE faults # 0
      <4>1. CountsAllowed' = faults + 2
        BY <1>2, <3>2 DEF CountsAllowed
      <4>2. QED
        BY <1>2, <4>1
    <3>3. QED
      BY <3>1, <3>2
  <2>8. QED
    BY <1>2, <2>6, <2>7 DEF Fits
<1>8. QED
  BY <1>6, <1>7

(* Whatever leaves jobs, workers, entries and counts alone keeps the       *)
(* bounds.                                                                 *)
LEMMA StillFits ==
  ASSUME Shape, FewAtOnce, Next, wk' = wk, msg' = msg, entry' = entry, hist'.failures = hist.failures,
         NEW e \in Entry, Fits(e)
  PROVE  Fits(e)'
<1>1. Sized(e) /\ Sized(e)' /\ faults \in Nat /\ (faults' = faults \/ faults' = faults + 1)
  BY SizesAreNumbers, FaultsGrow, LadderAssumption DEF Shape, Typed
<1>2. 1 \in Msg /\ \A m \in Msg : msg'[m] = msg[m]
  BY LadderAssumption
<1>3. \A m \in Msg : (m \in Waiting(e)' <=> m \in Waiting(e)) /\ (m \in Coming(e)' <=> m \in Coming(e)) /\ (IsFirst(m)' <=> IsFirst(m))
  <2>1. \A v \in Worker, m \in Msg : Holds(v, m)' <=> Holds(v, m)
    BY DEF Holds
  <2>2. QED
    BY <1>2, <2>1, MessageStands
<1>4. /\ AtWork(e)' = AtWork(e) /\ OwingOf(e)' = OwingOf(e)
      /\ Cardinality(Waiting(e)') <= Cardinality(Waiting(e)) /\ Cardinality(Coming(e)') <= Cardinality(Coming(e))
      /\ FirstAhead(e) => FirstAhead(e)' \/ (1 \in Coming(e) /\ IsFirst(1))
  BY <1>2, <1>3, QueueSizes
<1>5. Load(e)' <= Load(e) + (faults' - faults) /\ Debt(e)' <= Debt(e)
  BY <1>1, <1>4 DEF Load, Debt, Sized
<1>6. MarkSpares(e) => MarkSpares(e)'
  BY <1>2, <1>3, <1>4 DEF MarkSpares, FirstAhead
<1>7. QED
  BY <1>1, <1>5, <1>6, Balance

(* Requests, the sync and Maestro count nothing for an entry.              *)
LEMMA OthersCountNothing ==
  ASSUME Shape, Next, NEW q \in Req, ReadInstance(q) \/ RequestCrashes(q) \/ RequestStep(q), ~SendRetry(q)
  PROVE  wk' = wk /\ msg' = msg /\ entry' = entry /\ hist'.failures = hist.failures
<1>1. hist \in History
  BY DEF Shape, Typed
<1>2. wk' = wk /\ msg' = msg /\ entry' = entry
  BY DEF ReadInstance, RequestStep, RequestCrashes, RetryWrites, CancelAtMaestro, CancelRejected, CancelWrites,
     Fetch, LiveWrites, LiveCounts, jobs
<1>3. CASE ReadInstance(q) \/ RequestCrashes(q) \/ RetryWrites(q) \/ CancelRejected(q) \/ CancelWrites(q) \/ LiveCounts(q)
  BY <1>1, <1>2, <1>3 DEF ReadInstance, RequestCrashes, RetryWrites, CancelRejected, CancelWrites, LiveCounts, Counted, History
<1>4. CASE CancelAtMaestro(q) \/ Fetch(q)
  BY <1>2, <1>4 DEF CancelAtMaestro, Fetch
<1>5. CASE LiveWrites(q)
  BY <1>1, <1>2, <1>5 DEF LiveWrites, History
<1>6. QED
  BY <1>2, <1>3, <1>4, <1>5 DEF RequestStep

(* Every step keeps AllFit.                                                *)
LEMMA AllFitKept ==
  Shape /\ IdleAskNothing /\ FewAtOnce /\ EarlyIsLater /\ SentOrUntouched /\ FirstsAlone /\ AllFit /\ [Next]_vars => AllFit'
<1> SUFFICES ASSUME Shape, IdleAskNothing, FewAtOnce, EarlyIsLater, SentOrUntouched, FirstsAlone, AllFit, [Next]_vars
             PROVE  AllFit'
  OBVIOUS
<1>1. CASE UNCHANGED vars
  <2>1. ASSUME NEW e \in Entry
        PROVE  /\ AtWork(e)' = AtWork(e) /\ OwingOf(e)' = OwingOf(e) /\ Waiting(e)' = Waiting(e) /\ Coming(e)' = Coming(e)
               /\ (AskedTwice(e))' <=> AskedTwice(e)
               /\ FirstAhead(e) => FirstAhead(e)'
    <3>1. /\ \A w \in Worker : /\ WorksFor(w, e)' <=> WorksFor(w, e)
                               /\ AtIt(w)' <=> AtIt(w)
                               /\ Owes(w)' <=> Owes(w)
                               /\ TriesFirst(w)' <=> TriesFirst(w)
                               /\ (ThrowsBack(w))' <=> ThrowsBack(w)
          /\ \A m \in Msg : (Waits(m)' <=> Waits(m)) /\ (IsFirst(m)' <=> IsFirst(m))
      BY <1>1 DEF vars, WorksFor, AtIt, Owes, TriesFirst, ThrowsBack, Rethrown, JobOf, Waits, Held, IsFirst
    <3>2. \A m \in Msg : ComesBack(m)' <=> ComesBack(m)
      BY <1>1, <3>1 DEF vars, ComesBack, Holds
    <3>3. AtWork(e)' = AtWork(e) /\ OwingOf(e)' = OwingOf(e) /\ Waiting(e)' = Waiting(e) /\ Coming(e)' = Coming(e)
      BY <1>1, <3>1, <3>2 DEF vars, AtWork, OwingOf, Waiting, Coming
    <3>4. FirstAhead(e) => FirstAhead(e)'
      BY <3>1, <3>3 DEF FirstAhead, Coming
    <3>5. (AskedTwice(e))' <=> AskedTwice(e)
      BY <1>1 DEF vars, AskedTwice
    <3>6. QED
      BY <3>3, <3>4, <3>5
  <2>2. faults' = faults /\ hist' = hist /\ entry' = entry /\ CountsAllowed' = CountsAllowed
    BY <1>1 DEF vars, CountsAllowed
  <2>3. QED
    BY <2>1, <2>2 DEF AllFit, Fits, Load, Debt, MarkSpares
<1>2. ASSUME Next, NEW e \in Entry, ~AskedTwice(e)'
      PROVE  Fits(e)'
  <2>1. ~AskedTwice(e)
    BY <1>2, RequestsStand
  <2>2. Fits(e) /\ FirstAlone(e)
    BY <2>1 DEF AllFit, FirstsAlone
  <2>3. ASSUME NEW w \in Worker, WorkerActs(w)
        PROVE  Fits(e)'
    <3>1. CASE \E m \in Msg : Receive(w, m)
      BY <1>2, <2>2, <3>1, ReceiveFits
    <3>2. CASE Repark(w) \/ EnqueueRetry(w)
      BY <1>2, <2>2, <3>2, SendFits
    <3>3. CASE \/ RetryGuard(w) \/ GateDenies(w) \/ DenyInstance(w) \/ LaunchSucceeds(w) \/ LaunchFails(w) \/ ReplyLost(w)
               \/ Persist(w) \/ CompleteEntry(w) \/ UpdateStats(w) \/ Track(w) \/ ReadEntry(w) \/ FailInstance(w)
               \/ TryFails(w) /\ wk[w].pc # "stats"
      <4>1. Onward(w, e)
        BY <1>2, <3>3, MostGoOn
      <4>2. QED
        BY <1>2, <2>2, <2>3, <4>1, OnwardFits
    <3>4. CASE TryFails(w) /\ wk[w].pc = "stats"
      BY <1>2, <2>2, <3>4, StatsFailFits
    <3>5. CASE ReportRetry(w)
      BY <1>2, <2>2, <3>5, ReportFits
    <3>6. CASE FailEntry(w)
      BY <1>2, <2>2, <3>6, MarkFits
    <3>7. CASE CountFailure(w)
      BY <1>2, <2>2, <3>7, CountFits
    <3>8. CASE Ack(w)
      BY <1>2, <2>2, <3>8, AckFits
    <3>9. CASE WorkerCrashes(w)
      BY <1>2, <2>2, <3>9, CrashFits
    <3>10. CASE CatchFails(w)
      BY <1>2, <2>2, <3>10, CatchFits, CrashFits
    <3>11. QED
      BY <2>3, <3>1, <3>2, <3>3, <3>4, <3>5, <3>6, <3>7, <3>8, <3>9, <3>10 DEF WorkerActs, WorkerStep
  <2>4. ASSUME NEW m \in Msg, Reappear(m) \/ ReappearEarly(m)
        PROVE  Fits(e)'
    BY <1>2, <2>2, <2>4, ReappearFits, ReappearEarlyFits
  <2>5. ASSUME NEW q \in Req, ReadInstance(q) \/ RequestStep(q) \/ RequestCrashes(q)
        PROVE  Fits(e)'
    <3>1. CASE SendRetry(q)
      BY <1>2, <2>1, <2>2, <3>1, SendRetryFits
    <3>2. CASE ~SendRetry(q)
      <4>1. wk' = wk /\ msg' = msg /\ entry' = entry /\ hist'.failures = hist.failures
        BY <1>2, <2>5, <3>2, OthersCountNothing
      <4>2. QED
        BY <1>2, <2>2, <4>1, StillFits
    <3>3. QED
      BY <3>1, <3>2
  <2>6. CASE Rest \/ SyncScans \/ SyncStep \/ (\E k \in Mid : WorkflowEnds(k))
    <3>1. hist \in History
      BY DEF Shape, Typed
    <3>2. wk' = wk /\ msg' = msg /\ entry' = entry /\ hist'.failures = hist.failures
      <4>1. CASE Rest \/ SyncScans \/ SyncWrites
        BY <4>1 DEF Rest, vars, SyncScans, SyncWrites, jobs
      <4>2. CASE SyncCounts \/ SyncCharges \/ (\E k \in Mid : WorkflowEnds(k))
        BY <3>1, <4>2 DEF SyncCounts, SyncCharges, WorkflowEnds, Counted, jobs, History
      <4>3. QED
        BY <2>6, <4>1, <4>2 DEF SyncStep
    <3>3. QED
      BY <1>2, <2>2, <3>2, StillFits
  <2>7. QED
    BY <1>2, <2>3, <2>4, <2>5, <2>6 DEF Next, WorkerActs
<1>3. CASE Next
  BY <1>2, <1>3 DEF AllFit
<1>4. QED
  BY <1>1, <1>3

(* At first one message waits, for the match, and nothing has been counted.*)
LEMMA AllFitAtFirst == Init => FewAtOnce /\ EarlyIsLater /\ SentOrUntouched /\ FirstsAlone /\ AllFit
<1> SUFFICES ASSUME Init PROVE FewAtOnce /\ EarlyIsLater /\ SentOrUntouched /\ FirstsAlone /\ AllFit
  OBVIOUS
<1>1. /\ \A w \in Worker : wk[w].pc = "idle"
      /\ \A m \in Msg : msg[m].job = FirstJob /\ (m # 1 => msg[m].state = "none")
      /\ \A e \in Entry : hist.failures[e] = 0
      /\ faults = 0
  BY DEF Init, IdleWorker, NoMsg
<1>2. \A m \in Msg : Current(m) => m = 1
  BY <1>1 DEF Current, Held
<1>3. EarlyIsLater /\ FirstsAlone
  BY <1>1, <1>2 DEF EarlyIsLater, FirstsAlone, FirstAlone, FirstJob
<1>4. SentOrUntouched
  BY <1>1 DEF SentOrUntouched, Untouched, FirstJob
<1>5. IsFiniteSet({}) /\ Cardinality({}) = 0 /\ IsFiniteSet({1}) /\ Cardinality({1}) = 1
  BY FS_EmptySet, FS_Singleton
<1>6. FewAtOnce
  <2>1. {w \in Worker : wk[w].pc # "idle"} = {} /\ {m \in Msg : msg[m].state # "none"} \in SUBSET {1}
    BY <1>1
  <2>2. QED
    BY <1>5, <2>1, FS_Subset DEF FewAtOnce
<1>7. ASSUME NEW e \in Entry
      PROVE  Fits(e)
  <2>1. AtWork(e) = {} /\ OwingOf(e) = {}
    BY <1>1 DEF AtWork, OwingOf, WorksFor
  <2>2. Waiting(e) \in SUBSET {1} /\ Coming(e) \in SUBSET {1}
    BY <1>1 DEF Waiting, Waits, Coming, ComesBack
  <2>3. Cardinality(Waiting(e)) <= 1 /\ Cardinality(Waiting(e)) \in Nat /\ Cardinality(Coming(e)) <= 1 /\ Cardinality(Coming(e)) \in Nat
    BY <1>5, <2>2, FS_Subset, FS_CardinalityType
  <2>4. CountsAllowed = 1
    BY <1>1 DEF CountsAllowed
  <2>5. QED
    BY <1>1, <1>5, <2>1, <2>3, <2>4 DEF Fits, Load, Debt
<1>8. QED
  BY <1>3, <1>4, <1>6, <1>7 DEF AllFit

(* Where the bounds hold, no more is counted than is allowed: a mark that  *)
(* spares a count has somebody who will take it.                           *)
LEMMA FitsBoundsCounts ==
  ASSUME Shape, FewAtOnce, NEW e \in Entry, Fits(e)
  PROVE  hist.failures[e] <= CountsAllowed
<1> DEFINE W == {w \in Worker : wk[w].pc # "idle"}
           M == {m \in Msg : msg[m].state # "none"}
<1>1. IsFiniteSet(W) /\ IsFiniteSet(M)
  BY DEF FewAtOnce
<1>2. OwingOf(e) \in SUBSET W /\ Coming(e) \in SUBSET M
  BY DEF OwingOf, WorksFor, Coming, ComesBack
<1> HIDE DEF W, M
<1>3. IsFiniteSet(OwingOf(e)) /\ IsFiniteSet(Coming(e))
  BY <1>1, <1>2, FS_Subset
<1>4. Cardinality(OwingOf(e)) \in Nat /\ Cardinality(Coming(e)) \in Nat
  BY <1>3, FS_CardinalityType
<1>5. hist.failures[e] \in Nat /\ faults \in Nat
  BY LadderAssumption DEF Shape, Typed, History
<1>6. CountsAllowed \in Nat
  <2>1. CASE faults = 0
    BY <2>1 DEF CountsAllowed
  <2>2. CASE faults # 0
    <3>1. CountsAllowed = faults + 2
      BY <2>2 DEF CountsAllowed
    <3>2. QED
      BY <1>5, <3>1
  <2>3. QED
    BY <2>1, <2>2
<1>7. MarkSpares(e) => Cardinality(OwingOf(e)) # 0 \/ Cardinality(Coming(e)) # 0
  <2>1. MarkSpares(e) => OwingOf(e) # {} \/ Coming(e) # {}
    BY DEF MarkSpares, FirstAhead, OwingOf, TriesFirst, Owes
  <2>2. QED
    BY <1>3, <2>1, FS_EmptySet
<1>8. QED
  BY <1>4, <1>5, <1>6, <1>7 DEF Fits, Debt

(* "Only count failure once per pipeline entry (skip on SQS retries)": the *)
(* rule is charged for an entry once, one more for each fault and one more *)
(* yet where there was any; an instance that failed at Maestro once; and   *)
(* nothing is taken back for one that was not charged; for any number of   *)
(* workers, messages, attempts, deliveries and faults.                     *)
THEOREM FailuresCountOnce == Spec => []FailuresCountedOnce
<1> DEFINE I == /\ Shape /\ IdleAskNothing /\ FewAtOnce /\ EarlyIsLater /\ SentOrUntouched /\ FirstsAlone /\ AllFit
                /\ ChargesMarked
<1>1. Init => I
  <2>1. Init => IdleAskNothing /\ ChargesMarked
    BY DEF Init, IdleAskNothing, IdleReq, ChargesMarked, Charging, NoInst, IdleSync
  <2>2. QED
    BY <2>1, ShapeHoldsAtFirst, AllFitAtFirst
<1>2. I /\ [Next]_vars => I'
  BY ShapeKept, IdleAskNothingKept, FewAtOnceKept, EarlyIsLaterKept, SentOrUntouchedKept, FirstsAloneKept, AllFitKept,
     ChargesMarkedKept
<1>3. I => FailuresCountedOnce
  <2> SUFFICES ASSUME I PROVE FailuresCountedOnce
    OBVIOUS
  <2>1. \A e \in Entry : AskedTwice(e) \/ hist.failures[e] <= CountsAllowed
    BY FitsBoundsCounts DEF AllFit
  <2>2. \A i \in Inst : hist.charged[i] <= 1 /\ (hist.pardoned[i] > 0 => hist.charged[i] = 1)
    BY DEF ChargesMarked
  <2>3. QED
    BY <2>1, <2>2 DEF FailuresCountedOnce
<1>4. QED
  BY <1>1, <1>2, <1>3, PTL DEF Spec
=============================================================================
