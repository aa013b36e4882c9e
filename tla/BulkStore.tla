----------------------------- MODULE BulkStore -----------------------------
(***************************************************************************)
(* What the parts of Bulk Upload share: the DynamoDB items of one batch    *)
(* run, the launcher queue (SQS) and the Workflow Builder ("Maestro"), as  *)
(* src/baton/src/services/batch.service.ts and the launcher worker use     *)
(* them.  A write of one DynamoDB item is atomic and ends an action; a     *)
(* read is current when it is made.  Two awaits share an action where      *)
(* nothing can tell: a read with the write that re-checks it, and the      *)
(* conditional writes that resolve several rows after one read (a launched *)
(* row keeps its instance, and a synced instance its status).              *)
(***************************************************************************)
EXTENDS Naturals, FiniteSets

CONSTANTS
  Row,           \* the row numbers of the uploaded file
  Tick,          \* dispatcher passes that may overlap (one per pod)
  Worker,        \* launcher jobs processed concurrently
  Req,           \* HTTP requests on the run, each handled once
  Kind,          \* Kind[q]: which route request q calls
  Inst, Mid, Msg,\* ids of WorkflowInstance items, Maestro instances, SQS messages
  None,          \* an absent optional attribute
  Plan,          \* Plan[r]: the status the start route computes for row r
  StartStatus,   \* statuses the run may be in when the behaviour starts
  ReleaseCount,  \* settings.releaseCount
  StopAfter,     \* settings.stopAfterFailures
  MaxAttempts,   \* MAX_RETRY_ATTEMPTS of the launcher's retry ladder
  Outcome,       \* what a launch attempt may come to
  Ending,        \* how Maestro may end a live instance
  CanAge,        \* whether 90 minutes may pass over a 'launching' row
  FaultKind,     \* which faults the environment may inject
  MaxFaults      \* bound on the number of injected faults

KindName == {"start", "pause", "resume", "cancel", "cancelAll", "rowCancel"}
OutcomeName == {"ok", "retryable", "permanent", "denied"}

ASSUME ConstantsAssumption ==
  /\ Row \subseteq Nat /\ Row # {} /\ IsFiniteSet(Row)
  /\ Inst \subseteq Nat /\ Mid \subseteq Nat /\ Msg \subseteq Nat
  /\ None \notin Nat
  /\ Kind \in [Req -> KindName]
  /\ Plan \in [Row -> {"staged", "skipped", "queued"}]
  /\ StartStatus \subseteq {"draft", "queued", "running"}
  /\ ReleaseCount \in Nat \ {0} /\ StopAfter \in Nat \ {0}
  /\ MaxAttempts \in Nat /\ MaxFaults \in Nat
  /\ Outcome \subseteq OutcomeName
  /\ Ending \subseteq {"completed", "failed", "cancelled"}
  /\ CanAge \in BOOLEAN

VARIABLES
  run,      \* the batch-runs item: status, failure streak, nextReleaseAt passed
  row,      \* the batch-rows items: status, instance reference, launch is stale
  inst,     \* the workflow-instances items: status and maestroInstanceId
  maestro,  \* the instances that exist in the Workflow Builder
  msg,      \* the launcher queue: every message sent so far and its state
  wk,       \* the launcher workers
  tick,     \* the dispatcher passes
  req,      \* the HTTP requests
  faults,   \* faults injected so far
  hist      \* history: jobs released per row, late releases, completion notices

vars == <<run, row, inst, maestro, msg, wk, tick, req, faults, hist>>

RunStatus  == {"draft", "queued", "running", "paused", "stopped", "completed", "cancelled"}
RowStatus  == {"staged", "queued", "launching", "launched",
               "completed", "failed", "cancelled", "skipped"}
Terminal   == {"completed", "failed", "cancelled"}
InstStatus == {"none", "running"} \cup Terminal

RowItem == [status : RowStatus, inst : Inst \cup {None}, stale : BOOLEAN]
RunItem == [status : RunStatus, streak : Nat, due : BOOLEAN]
InstItem == [status : InstStatus, mid : Mid \cup {None}]
Job     == [row : Row, attempt : Nat, inst : Inst \cup {None}]
Message == [state : {"none", "visible", "hidden", "deleted"}, job : Job]
MaestroState == {"none", "live"} \cup Terminal

----------------------------------------------------------------------------
(* Writes.  SetRow and friends name the one attribute a handler updates.   *)

SetRow(r, s)  == row' = [row EXCEPT ![r].status = s]
SetInst(i, s) == inst' = [inst EXCEPT ![i].status = s]
SetRun(s)     == run' = [run EXCEPT !.status = s]

(* The least unused id: uuidv4() never repeats, so which one is immaterial.*)
FreshInst(i) == /\ inst[i].status = "none"
                /\ \A j \in Inst : inst[j].status = "none" => i <= j
FreshMid(k)  == /\ maestro[k] = "none"
                /\ \A j \in Mid : maestro[j] = "none" => k <= j
FreshMsg(m)  == /\ msg[m].state = "none"
                /\ \A j \in Msg : msg[j].state = "none" => m <= j

(* sendMessage(QueueNames.WORKFLOW_LAUNCHER, job).  A delayed message is    *)
(* one that a worker happens to receive later.                             *)
Send(m, job) ==
  /\ FreshMsg(m)
  /\ msg' = [msg EXCEPT ![m] = [state |-> "visible", job |-> job]]

(* ADD consecutiveFailures n.  Only ">= stopAfterFailures" is ever asked   *)
(* of the counter, so it saturates there.                                  *)
Saturate(n)   == IF n > StopAfter THEN StopAfter ELSE n
AddFailures(n) == run' = [run EXCEPT !.streak = Saturate(@ + n)]

Fault(k) == k \in FaultKind /\ faults < MaxFaults /\ faults' = faults + 1

(* resolveRowInstanceStatuses: the rows of R that are 'launched' and whose *)
(* instance is terminal take over its status (conditional on 'launched').  *)
InstanceKnown(r) == row[r].inst # None \* faulty: persists a live status too
InstanceEnded(r) == row[r].inst # None /\ inst[row[r].inst].status \in Terminal
ResolveRows(R) ==
  row' = [r \in Row |->
            IF r \in R /\ row[r].status = "launched" /\ InstanceEnded(r)
            THEN [row[r] EXCEPT !.status = inst[row[r].inst].status]
            ELSE row[r]]

IsFirst(r, R) == r \in R /\ \A s \in R : r <= s

----------------------------------------------------------------------------
(* The environment: time, the Workflow Builder, the instance sync of the   *)
(* scheduler and the rows view, which persists what it resolves.           *)

IdleWorker == [pc |-> "idle", msg |-> None, inst |-> None, mid |-> None]
IdleTick   == [pc |-> "idle", seen |-> FALSE, streak |-> 0, todo |-> {},
               ref |-> [r \in Row |-> None], released |-> FALSE, swept |-> 0]
IdleReq    == [pc |-> "idle", todo |-> {}, live |-> {}, inst |-> None, mid |-> None]

(* An uploaded draft, a run left 'queued' by the build that ran files in   *)
(* sequence, or a run the start route has just set running.                *)
Init ==
  /\ \E s \in StartStatus :
       /\ run = [status |-> s, streak |-> 0, due |-> s = "running"]
       /\ row = [r \in Row |-> [status |-> IF s = "draft" THEN "staged" ELSE Plan[r],
                                inst |-> None, stale |-> FALSE]]
  /\ inst = [i \in Inst |-> [status |-> "none", mid |-> None]]
  /\ maestro = [k \in Mid |-> "none"]
  /\ msg = [m \in Msg |-> [state |-> "none",
                           job |-> [row |-> CHOOSE r \in Row : TRUE, attempt |-> 0, inst |-> None]]]
  /\ wk = [w \in Worker |-> IdleWorker]
  /\ tick = [d \in Tick |-> IdleTick]
  /\ req = [q \in Req |-> IdleReq]
  /\ faults = 0
  /\ hist = [released |-> [r \in Row |-> 0], late |-> 0, notices |-> 0]

others == <<wk, tick, req, faults, hist>>

(* nextReleaseAt is reached.                                               *)
ReleaseTimeComes ==
  /\ ~run.due /\ run.status \in {"running", "paused", "stopped"}
  /\ run' = [run EXCEPT !.due = TRUE]
  /\ UNCHANGED <<row, inst, maestro, msg, others>>

(* STALE_LAUNCHING_MINUTES pass and the row is still 'launching'.          *)
Age(r) ==
  /\ CanAge
  /\ row[r].status = "launching" /\ ~row[r].stale
  /\ row' = [row EXCEPT ![r].stale = TRUE]
  /\ UNCHANGED <<run, inst, maestro, msg, others>>

(* The visibility timeout of a message whose worker is gone expires.       *)
Reappear(m) ==
  /\ msg[m].state = "hidden" /\ \A w \in Worker : wk[w].msg # m
  /\ msg' = [msg EXCEPT ![m].state = "visible"]
  /\ UNCHANGED <<run, row, inst, maestro, others>>

(* It expires while a worker is still at the job: a fault, for the timeout *)
(* is chosen to outlast the job.                                           *)
ReappearEarly(m) ==
  /\ msg[m].state = "hidden" /\ \E w \in Worker : wk[w].msg = m
  /\ Fault("reappear")
  /\ msg' = [msg EXCEPT ![m].state = "visible"]
  /\ UNCHANGED <<run, row, inst, maestro, wk, tick, req, hist>>

WorkflowEnds(k) ==
  /\ maestro[k] = "live"
  /\ \E s \in Ending : maestro' = [maestro EXCEPT ![k] = s]
  /\ UNCHANGED <<run, row, inst, msg, others>>

(* syncRunningInstanceStatuses, for one instance: written on condition     *)
(* that the item is still 'running'.                                       *)
SyncInstance(i) ==
  /\ inst[i].status = "running" /\ inst[i].mid # None
  /\ maestro[inst[i].mid] \in Terminal
  /\ SetInst(i, maestro[inst[i].mid])
  /\ UNCHANGED <<run, row, maestro, msg, others>>

(* GET /:id/runs/:runId/rows persists the terminal states it resolves.     *)
ViewRows ==
  /\ \E r \in Row : row[r].status = "launched" /\ InstanceEnded(r)
  /\ ResolveRows(Row)
  /\ UNCHANGED <<run, inst, maestro, msg, others>>

Environment ==
  \/ ReleaseTimeComes
  \/ \E r \in Row : Age(r)
  \/ \E m \in Msg : Reappear(m) \/ ReappearEarly(m)
  \/ \E k \in Mid : WorkflowEnds(k)
  \/ \E i \in Inst : SyncInstance(i)
  \/ ViewRows
============================================================================
