-------------------------- MODULE AutomationLaunch --------------------------
(***************************************************************************)
(* The launch ladder of an automation with the requests and the sync that  *)
(* write the same instances, and what must hold of them together.          *)
(***************************************************************************)
EXTENDS InstanceRequests

AtRest ==
  /\ \A m \in Msg : msg[m].state \notin {"visible", "hidden"}
  /\ \A w \in Worker : wk[w].pc = "idle"
  /\ \A q \in Req : rq[q].pc \in {"idle", "done"}
  /\ sync.pc = "idle"
Rest == AtRest /\ UNCHANGED vars

Next ==
  \/ Rest
  \/ \E w \in Worker : WorkerStep(w) \/ ReplyLost(w) \/ TryFails(w) \/ CatchFails(w) \/ WorkerCrashes(w)
  \/ \E m \in Msg    : Reappear(m) \/ ReappearEarly(m)
  \/ \E q \in Req    : ReadInstance(q) \/ RequestStep(q) \/ RequestCrashes(q)
  \/ SyncScans \/ SyncStep
  \/ \E k \in Mid    : WorkflowEnds(k)

Spec == Init /\ [][Next]_vars

----------------------------------------------------------------------------
InstanceState == [status : {"none", "running"} \cup Terminal, mid : Mid \cup {None}, seq : Nat,
                  manual : BOOLEAN, counted : BOOLEAN, countedFailed : BOOLEAN]
MessageState  == [state : {"none", "visible", "hidden", "dead"}, received : 0 .. MaxReceive, job : Job]
WorkerState   == [pc : {"idle", "guard", "launch", "denyInst", "persist", "complete", "stats", "track", "report",
                        "enqueue", "final", "failInst", "failEntry", "count", "ack"},
                  msg : Msg \cup {None}, mid : Mid \cup {None}, inst : Inst \cup {None}, seq : Nat, again : BOOLEAN]
RequestState  == [pc : {"idle", "act", "fetch", "write", "send", "count", "done"},
                  kind : {"none", "retry", "cancel", "live"}, inst : Inst \cup {None},
                  status : {"none", "running"} \cup Terminal, mid : Mid \cup {None}, manual : BOOLEAN,
                  seq : Nat, seen : {"none", "running"} \cup Terminal]

(* Items and processes hold what the code gives them; the Maestro id of an *)
(* item names an instance that exists.                                     *)
TypeOK ==
  /\ inst \in [Inst -> InstanceState]
  /\ \A i \in Inst : inst[i].mid # None => maestro[inst[i].mid] # "none"
  /\ maestro \in [Mid -> {"none", "live"} \cup Terminal]
  /\ entry \in [Entry -> EntryStatus]
  /\ msg \in [Msg -> MessageState]
  /\ wk \in [Worker -> WorkerState]
  /\ rq \in [Req -> RequestState]
  /\ faults \in 0 .. MaxFaults

(* An instance that only tracks a ladder has somebody who carries it: the  *)
(* next attempt is queued (or in the dead letters), or a worker or a       *)
(* retry request is about to queue it.  Not so where a race or a crash     *)
(* tore it (hist.torn), and where the one write that resolves it, of the   *)
(* gate or of the last attempt, failed and the launcher swallowed that and *)
(* deleted the message (hist.unended): that one tracks for ever.           *)
OnlyTracking(i) == inst[i].status = "running" /\ inst[i].mid = None
Carried(i) ==
  \/ \E m \in Msg : msg[m].state \in {"visible", "hidden", "dead"} /\ msg[m].job.inst = i
                                                                   /\ msg[m].job.seq = inst[i].seq
  \/ \E w \in Worker : wk[w].pc # "idle" /\ wk[w].inst = i
  \/ \E q \in Req : rq[q].pc = "send" /\ rq[q].inst = i
LadderNotStranded == \A i \in Inst : OnlyTracking(i) => Carried(i) \/ i \in hist.torn \cup hist.unended

(* Of the retry sequences of an instance only the latest launches: a       *)
(* manual retry "resets the retry sequence so stale auto-retries are       *)
(* abandoned", unless it met a worker that was past the guard.             *)
OnlyLatestLaunches ==
  \A w \in Worker : wk[w].pc = "launch" /\ JobOf(w).inst # None /\ JobOf(w).inst \notin hist.torn
                      => inst[JobOf(w).inst].seq = JobOf(w).seq

(* What runs at Maestro is named by a running item or about to be, unless  *)
(* a fault, or a retry or a cancel of a running instance, let go of it.    *)
LaunchIsTracked ==
  \A k \in Mid : maestro[k] = "live" =>
    \/ \E i \in Inst : inst[i].mid = k /\ (inst[i].status = "running" \/ i \in hist.torn \cup hist.polled)
    \/ \E w \in Worker : wk[w].pc = "persist" /\ wk[w].mid = k
    \/ k \in hist.lost

(* "Only count failure once per pipeline entry (skip on SQS retries)", as  *)
(* long as it does not go back to retrying: one more for each fault, and   *)
(* one more yet where a fault left two ladders over the entry.  The mark   *)
(* is the entry's status, so what the one reports between the other's mark *)
(* and its count clears it, and a first attempt, thrown back to SQS, may   *)
(* come again and count again.  Two retries by hand are two ladders from   *)
(* the start.  An instance that failed at Maestro is charged to the rule   *)
(* once, and nothing is taken back for one that was not charged.           *)
AskedTwice(e) ==
  \E p, q \in Req : p # q /\ \A r \in {p, q} : rq[r].kind = "retry" /\ rq[r].inst = e
CountsAllowed == IF faults = 0 THEN 1 ELSE faults + 2
FailuresCountedOnce ==
  /\ \A e \in Entry : AskedTwice(e) \/ hist.failures[e] <= CountsAllowed
  /\ \A i \in Inst : hist.charged[i] <= 1
  /\ \A i \in Inst : hist.pardoned[i] > 0 => hist.charged[i] = 1

(* However many observe it, a completion is counted once ("idempotent").   *)
CompletionCountedOnce == \A i \in Inst : hist.completions[i] <= 1

(* A cancel by hand stands until somebody asks for a retry, unless it met  *)
(* a worker, a request or the sync with an older reading, or the live view *)
(* wrote because the step had moved (see LiveViewKeepsCancel).             *)
ManualCancelStands ==
  \A i \in hist.cancelled \ (hist.torn \cup hist.polled) : inst[i].status = "cancelled"

(* "Update local record with latest Maestro data - but never override a    *)
(* manual cancel (user clicked Cancel in Baton)", routes/instances.ts.     *)
LiveViewKeepsCancel == hist.overridden = {}

(* When everything has come to rest the pipeline entry of the match is     *)
(* settled and no instance is left tracking a ladder, after any mixture of *)
(* deliveries, lost answers, failed writes and crashes, except: what dead  *)
(* letters leave; an entry whose instance a retry or a cancel took over,   *)
(* or which an attempt did launch though it was noted as failed, and which *)
(* has ended since (the next attempt finds it resolved and reports         *)
(* nothing); an entry whose failure was to be written, and an instance     *)
(* that was to be resolved, by a write that failed and was swallowed       *)
(* (hist.unsettled, hist.unended); and an instance torn by a race.         *)
Dead           == \E m \in Msg : msg[m].state = "dead"
AskedAgain(i) == \E q \in Req : rq[q].kind = "retry" /\ rq[q].inst = i
Ended(i)      == inst[i].seq # 0 /\ inst[i].mid # None /\ maestro[inst[i].mid] # "live"
TakenOver      == \E i \in Inst : inst[i].manual \/ i \in hist.torn \/ AskedAgain(i)
EndedMeanwhile == \E i \in Inst : Ended(i)
SettledAtRest ==
  AtRest /\ ~Dead =>
    /\ entry[Match] \in {"pending", "retrying"} => TakenOver \/ EndedMeanwhile \/ Match \in hist.unsettled
    /\ \A i \in Inst \ (hist.torn \cup hist.unended) : ~OnlyTracking(i)
=============================================================================
