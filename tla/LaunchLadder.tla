---------------------------- MODULE LaunchLadder ----------------------------
(***************************************************************************)
(* The launcher worker on the jobs of the rule engine and of the manual    *)
(* retry (src/baton/src/workers/workflow-launcher.worker.ts without its    *)
(* batch branches): the retry ladder over SQS, the instance item that      *)
(* tracks it, the pipeline entry it reports to, the rule's failure count.  *)
(***************************************************************************)
EXTENDS Naturals, FiniteSets

CONSTANTS
  Worker, Req,    \* launcher jobs and HTTP requests handled concurrently
  Kinds,          \* Kinds[q]: what request q may ask for
  Inst, Mid, Msg, \* ids of WorkflowInstance items, Maestro instances, SQS messages
  None,
  MaxAttempts,    \* MAX_RETRY_ATTEMPTS
  Deferred,       \* attempts whose delay exceeds what SQS can hold back
  MaxReceive,     \* maxReceiveCount of the redrive policy
  Outcome,        \* what a launch attempt may come to
  FaultKind, MaxFaults,
  MaxEvents       \* requests and faults of one behaviour, together

ASSUME LadderAssumption ==
  /\ Inst \subseteq Nat \ {0} /\ Mid \subseteq Nat /\ Msg \subseteq Nat /\ 1 \in Msg /\ None \notin Nat
  /\ MaxAttempts \in Nat /\ Deferred \subseteq 1 .. MaxAttempts
  /\ MaxReceive \in Nat \ {0} /\ MaxFaults \in Nat /\ MaxEvents \in Nat
  /\ Outcome \subseteq {"ok", "retryable", "permanent", "denied"}
  /\ Kinds \in [Req -> SUBSET {"retry", "cancel", "live"}]

VARIABLES
  inst,     \* the workflow-instances items
  maestro,  \* the instances that exist in the Workflow Builder
  entry,    \* the status of the trigger-pipeline entries
  msg,      \* the launcher queue
  seqs,     \* retry sequences begun so far: uuidv4() as the next number
  wk,       \* the launcher workers
  rq,       \* the HTTP requests
  sync,     \* the status sync of the scheduler, at one instance
  faults,
  hist      \* history: rule failures counted per entry (since it was last
            \* retrying) and per instance, and
            \* taken back; completions counted; instances whose last order by hand
            \* was a cancel, torn by a race or a crash, written by the live view
            \* for its step's sake, a manual cancel it had read among them;
            \* Maestro instances let go of; instances and entries whose end
            \* was to be written and the failure to do so swallowed

vars == <<inst, maestro, entry, msg, seqs, wk, rq, sync, faults, hist>>

Terminal == {"completed", "failed", "cancelled"}
EntryStatus == {"none", "pending", "retrying", "completed", "failed", "skipped"}
Match == 0            \* the entry of the rule's match; a manual retry writes
Entry == {Match} \cup Inst  \* its own, under the id of the instance
Job == [attempt : 0 .. MaxAttempts, seq : Nat, inst : Inst \cup {None},
        entry : Entry, early : BOOLEAN]

NoInst == [status |-> "none", mid |-> None, seq |-> 0, manual |-> FALSE, counted |-> FALSE,
           countedFailed |-> FALSE]
FirstJob == [attempt |-> 0, seq |-> 0, inst |-> None, entry |-> Match, early |-> FALSE]
NoMsg == [state |-> "none", received |-> 0, job |-> FirstJob]
IdleWorker == [pc |-> "idle", msg |-> None, mid |-> None, inst |-> None, seq |-> 0, again |-> FALSE]
IdleReq == [pc |-> "idle", kind |-> "none", inst |-> None, status |-> "none", mid |-> None, manual |-> FALSE, seq |-> 0, seen |-> "none"]
IdleSync == [pc |-> "idle", inst |-> None, mid |-> None, countedFailed |-> FALSE]

(* The rule engine has put its entry and sent its job.                     *)
Init ==
  /\ inst = [i \in Inst |-> NoInst]
  /\ maestro = [k \in Mid |-> "none"]
  /\ entry = [e \in Entry |-> IF e = Match THEN "pending" ELSE "none"]
  /\ msg = [m \in Msg |-> IF m = 1 THEN [NoMsg EXCEPT !.state = "visible"] ELSE NoMsg]
  /\ seqs = 0
  /\ wk = [w \in Worker |-> IdleWorker]
  /\ rq = [q \in Req |-> IdleReq]
  /\ sync = IdleSync
  /\ faults = 0
  /\ hist = [failures |-> [e \in Entry |-> 0], charged |-> [i \in Inst |-> 0],
             pardoned |-> [i \in Inst |-> 0], completions |-> [i \in Inst |-> 0],
             cancelled |-> {}, torn |-> {}, polled |-> {},
             overridden |-> {}, lost |-> {}, unended |-> {}, unsettled |-> {}]

Begun    == {q \in Req : rq[q].pc # "idle"}
Room     == faults + Cardinality(Begun) < MaxEvents
Fault(k) == k \in FaultKind /\ faults < MaxFaults /\ Room /\ faults' = faults + 1

FreshInst(i) == inst[i].status = "none" /\ \A j \in Inst : inst[j].status = "none" => i <= j
FreshMid(k)  == maestro[k] = "none" /\ \A j \in Mid : maestro[j] = "none" => k <= j
Held(m)      == \E w \in Worker : wk[w].pc # "idle" /\ wk[w].msg = m
Unused(m)    == msg[m].state = "none" /\ ~Held(m)
FreshMsg(m)  == Unused(m) /\ \A j \in Msg : Unused(j) => m <= j
Send(m, job) ==
  /\ FreshMsg(m)
  /\ msg' = [msg EXCEPT ![m] = [state |-> "visible", received |-> 0, job |-> job]]
SetInst(i, f) == inst' = [inst EXCEPT ![i] = f]

----------------------------------------------------------------------------
(* One job.  wk[w].inst and wk[w].seq name the instance and the sequence   *)
(* of the job once the worker has created them itself.                     *)

JobOf(w) == msg[wk[w].msg].job
Step(w, pc) == wk' = [wk EXCEPT ![w].pc = pc]
Leave(w, pc) == wk' = [wk EXCEPT ![w] = IF pc = "idle" THEN IdleWorker ELSE [@ EXCEPT !.pc = pc]]
others == <<rq, sync>>

Receive(w, m) ==
  /\ wk[w].pc = "idle" /\ msg[m].state = "visible"
  /\ msg' = [msg EXCEPT ![m].state = "hidden", ![m].received = @ + 1]
  /\ wk' = [wk EXCEPT ![w] = [IdleWorker EXCEPT !.pc = "guard", !.msg = m,
                                                !.inst = msg[m].job.inst, !.seq = msg[m].job.seq]]
  /\ UNCHANGED <<inst, maestro, entry, seqs, others, faults, hist>>

(* deferUntil is not reached: the job is sent again and this copy is done. *)
Repark(w) ==
  /\ wk[w].pc = "guard" /\ JobOf(w).early
  /\ \E m \in Msg : Send(m, [JobOf(w) EXCEPT !.early = FALSE])
  /\ Step(w, "ack")
  /\ UNCHANGED <<inst, maestro, entry, seqs, others, faults, hist>>

(* The retry guard: the instance is resolved, or another sequence took     *)
(* over.                                                                   *)
SupersededStatus(w) == \* faulty: the sequence is not compared
  JobOf(w).inst # None /\ inst[JobOf(w).inst].status # "running"
SupersededSequence(w) == \* faulty: the status is not looked at
  JobOf(w).inst # None /\ inst[JobOf(w).inst].seq \notin {0, JobOf(w).seq}
Superseded(w) ==
  /\ JobOf(w).inst # None
  /\ \/ inst[JobOf(w).inst].status # "running"
     \/ inst[JobOf(w).inst].seq \notin {0, JobOf(w).seq}
RetryGuard(w) ==
  /\ wk[w].pc = "guard" /\ ~JobOf(w).early
  /\ Step(w, IF Superseded(w) THEN "ack" ELSE "launch")
  /\ UNCHANGED <<inst, maestro, entry, msg, seqs, others, faults, hist>>

(* The relay gate: the entry is skipped, then the tracking instance is     *)
(* resolved on condition that it is still running.                         *)
GateDeniesSilently(w) == \* faulty: the entry is not told
  /\ wk[w].pc = "launch" /\ "denied" \in Outcome
  /\ Step(w, IF JobOf(w).inst = None THEN "ack" ELSE "denyInst")
  /\ UNCHANGED <<inst, maestro, entry, msg, seqs, others, faults, hist>>
GateDenies(w) ==
  /\ wk[w].pc = "launch" /\ "denied" \in Outcome
  /\ entry' = [entry EXCEPT ![JobOf(w).entry] = "skipped"]
  /\ Step(w, IF JobOf(w).inst = None THEN "ack" ELSE "denyInst")
  /\ UNCHANGED <<inst, maestro, msg, seqs, others, faults, hist>>
DenyInstance(w) ==
  /\ wk[w].pc = "denyInst"
  /\ LET i == JobOf(w).inst IN
     IF inst[i].status = "running" THEN SetInst(i, [inst[i] EXCEPT !.status = "cancelled"])
                                   ELSE UNCHANGED inst
  /\ Step(w, "ack")
  /\ UNCHANGED <<maestro, entry, msg, seqs, others, faults, hist>>

(* After a failed attempt: categorizeError calls everything retryable but  *)
(* authentication and validation errors.                                   *)
AfterErrorOnceMore(w, retryable) == \* faulty: one attempt too many
  IF retryable /\ JobOf(w).attempt <= MaxAttempts THEN "track" ELSE "final"
AfterError(w, retryable) ==
  IF retryable /\ JobOf(w).attempt < MaxAttempts THEN "track" ELSE "final"

LaunchSucceeds(w) ==
  /\ wk[w].pc = "launch" /\ "ok" \in Outcome
  /\ \E k \in Mid : /\ FreshMid(k)
                    /\ maestro' = [maestro EXCEPT ![k] = "live"]
                    /\ wk' = [wk EXCEPT ![w].pc = "persist", ![w].mid = k]
  /\ UNCHANGED <<inst, entry, msg, seqs, others, faults, hist>>
LaunchFails(w) ==
  /\ wk[w].pc = "launch"
  /\ \E o \in Outcome \cap {"retryable", "permanent"} : Step(w, AfterError(w, o = "retryable"))
  /\ UNCHANGED <<inst, maestro, entry, msg, seqs, others, faults, hist>>

(* The launch came about, its answer did not: a time-out is retryable.     *)
ReplyLost(w) ==
  /\ wk[w].pc = "launch" /\ Fault("replyLost")
  /\ \E k \in Mid : /\ FreshMid(k)
                    /\ maestro' = [maestro EXCEPT ![k] = "live"]
                    /\ hist' = [hist EXCEPT !.lost = @ \cup {k}]
  /\ Step(w, AfterError(w, TRUE))
  /\ UNCHANGED <<inst, entry, msg, seqs, others>>

(* A request or the sync has read instance i and is still to write it.     *)
HeldElsewhere(i) ==
  \/ \E q \in Req : rq[q].pc \in {"act", "fetch", "write"} /\ rq[q].inst = i
  \/ sync.pc = "write" /\ sync.inst = i

(* The instance: a first launch creates it; a retry overwrites it, without *)
(* asking what became of it meanwhile.  (hist.torn, hist.lost: whoever has *)
(* read the old Maestro id may still write what became of that one.)       *)
Followed(k) == {j \in Mid : j = k /\ maestro[j] = "live"}
PersistWithoutId(w) == \* faulty: a retry keeps the old Maestro id
  /\ wk[w].pc = "persist"
  /\ IF JobOf(w).inst = None
     THEN \E i \in Inst : FreshInst(i) /\ SetInst(i, [NoInst EXCEPT !.status = "running", !.mid = wk[w].mid])
     ELSE SetInst(JobOf(w).inst, [inst[JobOf(w).inst] EXCEPT !.status = "running"])
  /\ Step(w, "complete")
  /\ UNCHANGED <<maestro, entry, msg, seqs, others, faults, hist>>
Persist(w) ==
  /\ wk[w].pc = "persist"
  /\ IF JobOf(w).inst = None
     THEN /\ \E i \in Inst : FreshInst(i) /\ SetInst(i, [NoInst EXCEPT !.status = "running", !.mid = wk[w].mid])
          /\ UNCHANGED hist
     ELSE LET i == JobOf(w).inst IN
          /\ SetInst(i, [inst[i] EXCEPT !.status = "running", !.mid = wk[w].mid])
          /\ hist' = IF i \in hist.torn \/ HeldElsewhere(i)
                     THEN [hist EXCEPT !.torn = @ \cup {i}, !.lost = @ \cup Followed(inst[i].mid)]
                     ELSE hist
  /\ Step(w, "complete")
  /\ UNCHANGED <<maestro, entry, msg, seqs, others, faults>>

CompleteEntry(w) ==
  /\ wk[w].pc = "complete"
  /\ entry' = [entry EXCEPT ![JobOf(w).entry] = "completed"]
  /\ Step(w, "stats")
  /\ UNCHANGED <<inst, maestro, msg, seqs, others, faults, hist>>

(* The counters of workflow, rule and organisation: of no interest, but    *)
(* they may fail, and the try block has not ended.                         *)
UpdateStats(w) ==
  /\ wk[w].pc = "stats" /\ Step(w, "ack")
  /\ UNCHANGED <<inst, maestro, entry, msg, seqs, others, faults, hist>>

(* The first failure creates the instance that tracks the ladder; a later  *)
(* one notes its progress and, with it, its own sequence.                  *)
Track(w) ==
  /\ wk[w].pc = "track"
  /\ IF wk[w].inst = None
     THEN \E i \in Inst :
            /\ FreshInst(i) /\ SetInst(i, [NoInst EXCEPT !.status = "running", !.seq = seqs + 1])
            /\ wk' = [wk EXCEPT ![w].pc = "report", ![w].inst = i, ![w].seq = seqs + 1]
            /\ seqs' = seqs + 1
     ELSE /\ SetInst(wk[w].inst, [inst[wk[w].inst] EXCEPT !.seq = wk[w].seq])
          /\ Step(w, "report") /\ UNCHANGED seqs
  /\ UNCHANGED <<maestro, entry, msg, others, faults, hist>>

ReportRetry(w) ==
  /\ wk[w].pc = "report"
  /\ entry' = [entry EXCEPT ![JobOf(w).entry] = "retrying"]
  /\ hist' = [hist EXCEPT !.failures[JobOf(w).entry] = 0, !.unsettled = @ \ {JobOf(w).entry}]
  /\ Step(w, "enqueue")
  /\ UNCHANGED <<inst, maestro, msg, seqs, others, faults>>

NoRetryJob(w) == \* faulty: the next attempt is not sent
  /\ wk[w].pc = "enqueue" /\ Step(w, "ack")
  /\ UNCHANGED <<inst, maestro, entry, msg, seqs, others, faults, hist>>
EnqueueRetry(w) ==
  /\ wk[w].pc = "enqueue"
  /\ LET a == JobOf(w).attempt + 1 IN
     \E m \in Msg : Send(m, [JobOf(w) EXCEPT !.attempt = a, !.inst = wk[w].inst, !.seq = wk[w].seq,
                                             !.early = a \in Deferred])
  /\ Step(w, "ack")
  /\ UNCHANGED <<inst, maestro, entry, seqs, others, faults, hist>>

(* The end of the ladder: was the entry failed before, the instance, the   *)
(* entry, the rule's failure count.                                        *)
ReadEntry(w) ==
  /\ wk[w].pc = "final"
  /\ wk' = [wk EXCEPT ![w].again = entry[JobOf(w).entry] = "failed",
                      ![w].pc = IF JobOf(w).inst = None THEN "failEntry" ELSE "failInst"]
  /\ UNCHANGED <<inst, maestro, entry, msg, seqs, others, faults, hist>>
FailInstance(w) ==
  /\ wk[w].pc = "failInst"
  /\ SetInst(JobOf(w).inst, [inst[JobOf(w).inst] EXCEPT !.status = "failed"])
  /\ Step(w, "failEntry")
  /\ UNCHANGED <<maestro, entry, msg, seqs, others, faults, hist>>
FailEntry(w) ==
  /\ wk[w].pc = "failEntry"
  /\ entry' = [entry EXCEPT ![JobOf(w).entry] = "failed"]
  /\ Step(w, "count")
  /\ UNCHANGED <<inst, maestro, msg, seqs, others, faults, hist>>

(* updateRuleFailure, unless the entry was failed before.  A first attempt *)
(* that is not retryable is thrown back to SQS, anything else is over.     *)
Rethrown(w) == JobOf(w).attempt = 0 /\ MaxAttempts > 0
CountAlways(w) == \* faulty: counts a redelivered job again
  /\ wk[w].pc = "count"
  /\ hist' = [hist EXCEPT !.failures[JobOf(w).entry] = @ + 1]
  /\ Leave(w, IF Rethrown(w) THEN "idle" ELSE "ack")
  /\ UNCHANGED <<inst, maestro, entry, msg, seqs, others, faults>>
CountFailure(w) ==
  /\ wk[w].pc = "count"
  /\ hist' = IF wk[w].again THEN hist ELSE [hist EXCEPT !.failures[JobOf(w).entry] = @ + 1]
  /\ Leave(w, IF Rethrown(w) THEN "idle" ELSE "ack")
  /\ UNCHANGED <<inst, maestro, entry, msg, seqs, others, faults>>

(* The message is deleted (its id is free once nobody else is at it).      *)
Shared(w) == \E v \in Worker \ {w} : wk[v].pc # "idle" /\ wk[v].msg = wk[w].msg
Ack(w) ==
  /\ wk[w].pc = "ack"
  /\ msg' = [msg EXCEPT ![wk[w].msg] = IF Shared(w) THEN [@ EXCEPT !.state = "none"] ELSE NoMsg]
  /\ Leave(w, "idle")
  /\ UNCHANGED <<inst, maestro, entry, seqs, others, faults, hist>>

WorkerStep(w) ==
  \/ \E m \in Msg : Receive(w, m)
  \/ Repark(w) \/ RetryGuard(w) \/ GateDenies(w) \/ DenyInstance(w)
  \/ LaunchSucceeds(w) \/ LaunchFails(w) \/ Persist(w) \/ CompleteEntry(w) \/ UpdateStats(w)
  \/ Track(w) \/ ReportRetry(w) \/ EnqueueRetry(w)
  \/ ReadEntry(w) \/ FailInstance(w) \/ FailEntry(w) \/ CountFailure(w) \/ Ack(w)

----------------------------------------------------------------------------
(* Faults.  A write after the launch fails: the catch block takes it for a *)
(* failed launch.  A worker dies and leaves its message to SQS: the next   *)
(* one knows nothing of an instance, a launch or a job this one just made. *)
Unsaved(w)  == {k \in Mid : k = wk[w].mid /\ wk[w].pc = "persist"}
Exposed(w)  == {i \in Inst : i = wk[w].inst /\ (JobOf(w).inst = None \/ wk[w].mid # None \/ wk[w].pc \in {"ack", "failEntry"})}
TryFails(w) ==
  /\ wk[w].pc \in {"persist", "complete", "stats"} /\ Fault("tryError")
  /\ Step(w, AfterError(w, TRUE))
  /\ hist' = [hist EXCEPT !.lost = @ \cup Followed(wk[w].mid)]
  /\ UNCHANGED <<inst, maestro, entry, msg, seqs, others>>

(* A best-effort write fails, or the read of the entry: the error is       *)
(* logged, or not even that, and the job goes on as if nothing had         *)
(* happened, to the end of its message.  One try block holds the entry's   *)
(* failure and the count.  (A failure to track or to send the next attempt *)
(* is thrown back to SQS: to the data it is a crash.)                      *)
BestEffort == {"denyInst", "report", "final", "failInst", "failEntry", "count"}
AfterSwallowed(w) ==
  CASE wk[w].pc = "denyInst" -> "ack"
    [] wk[w].pc = "report"   -> "enqueue"
    [] wk[w].pc = "final" /\ JobOf(w).inst # None -> "failInst"
    [] wk[w].pc = "final" /\ JobOf(w).inst = None -> "failEntry"
    [] wk[w].pc = "failInst" -> "failEntry"
    [] OTHER                 -> IF Rethrown(w) THEN "idle" ELSE "ack"
CatchFails(w) ==
  /\ wk[w].pc \in BestEffort /\ Fault("catchError")
  /\ Leave(w, AfterSwallowed(w))
  /\ hist' = [hist EXCEPT !.unended   = @ \cup {i \in Inst : i = JobOf(w).inst /\ wk[w].pc \in {"denyInst", "failInst"}},
                          !.unsettled = @ \cup {e \in Entry : e = JobOf(w).entry /\ wk[w].pc = "failEntry"}]
  /\ UNCHANGED <<inst, maestro, entry, msg, seqs, others>>

WorkerCrashes(w) ==
  /\ wk[w].pc # "idle" /\ Fault("workerCrash")
  /\ hist' = [hist EXCEPT !.lost = @ \cup Unsaved(w), !.torn = @ \cup Exposed(w)]
  /\ Leave(w, "idle")
  /\ UNCHANGED <<inst, maestro, entry, msg, seqs, others>>

Reappear(m) ==
  /\ msg[m].state = "hidden" /\ ~Held(m)
  /\ msg' = [msg EXCEPT ![m].state = IF msg[m].received < MaxReceive THEN "visible" ELSE "dead"]
  /\ UNCHANGED <<inst, maestro, entry, seqs, wk, others, faults, hist>>
ReappearEarly(m) ==
  /\ msg[m].state = "hidden" /\ Held(m) /\ msg[m].received < MaxReceive /\ Fault("reappear")
  /\ msg' = [msg EXCEPT ![m].state = "visible"]
  /\ hist' = [hist EXCEPT !.torn = @ \cup ({msg[m].job.inst} \ {None})]
  /\ UNCHANGED <<inst, maestro, entry, seqs, wk, others>>
============================================================================
