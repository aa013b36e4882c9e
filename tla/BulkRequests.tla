---------------------------- MODULE BulkRequests ----------------------------
(***************************************************************************)
(* The routes of routes/batch-processors.ts that change a run: start,      *)
(* pause, resume, cancel (scope 'queued' or 'all') and the cancel of one   *)
(* row.  Each loads the run, checks its status, and writes later: nothing  *)
(* but the row conditions guards what happened in between.                 *)
(***************************************************************************)
EXTENDS BulkStore

SetReq(q, t) == req' = [req EXCEPT ![q] = t]

ReqStep(q, from, to) == req[q].pc = from /\ SetReq(q, [req[q] EXCEPT !.pc = to])

ReqUnchanged == UNCHANGED <<msg, wk, tick, faults>>
OnlyReq      == UNCHANGED <<run, row, inst, maestro, hist>> /\ ReqUnchanged

Allowed(kind) ==
  CASE kind = "start"  -> run.status = "draft"
    [] kind = "pause"  -> run.status = "running"
    [] kind = "resume" -> run.status \in {"paused", "stopped"}
    [] kind \in {"cancel", "cancelAll"} -> run.status \notin {"completed", "cancelled"}
    [] OTHER -> TRUE

FirstPc(kind) ==
  CASE kind = "start" -> "put"
    [] kind \in {"cancel", "cancelAll"} -> IF run.status = "queued" THEN "claim" ELSE "rows"
    [] kind = "rowCancel" -> "pick"
    [] OTHER -> "write"

(* loadRun and the guard on its status; a refused request is not begun.    *)
Load(q) ==
  /\ req[q].pc = "idle" /\ Allowed(Kind[q])
  /\ SetReq(q, [IdleReq EXCEPT !.pc = FirstPc(Kind[q]),
                               !.todo = IF Kind[q] = "start" THEN Row ELSE {}])
  /\ OnlyReq

----------------------------------------------------------------------------
(* Start: every row item is put anew with its planned status, in batches   *)
(* that are not atomic; then the run is set running.                       *)

PutRow(q) ==
  \E r \in req[q].todo :
    /\ req[q].pc = "put" /\ IsFirst(r, req[q].todo)
    /\ row' = [row EXCEPT ![r] = [status |-> Plan[r], inst |-> None, stale |-> FALSE]]
    /\ SetReq(q, [req[q] EXCEPT !.todo = @ \ {r}])
    /\ UNCHANGED <<run, inst, maestro, hist>> /\ ReqUnchanged

NoneLate == hist' = [hist EXCEPT !.late = 0]
Running  == run' = [status |-> "running", streak |-> 0, due |-> TRUE]

StartRun(q) ==
  /\ Kind[q] = "start" /\ req[q].todo = {}
  /\ ReqStep(q, "put", "done")
  /\ Running /\ NoneLate
  /\ UNCHANGED <<row, inst, maestro>> /\ ReqUnchanged

PauseRun(q) ==
  /\ Kind[q] = "pause" /\ ReqStep(q, "write", "done")
  /\ SetRun("paused")
  /\ UNCHANGED <<row, inst, maestro, hist>> /\ ReqUnchanged

ResumeRun(q) ==
  /\ Kind[q] = "resume" /\ ReqStep(q, "write", "done")
  /\ Running /\ NoneLate
  /\ UNCHANGED <<row, inst, maestro>> /\ ReqUnchanged

----------------------------------------------------------------------------
(* Cancel of a run                                                         *)

(* claimQueuedRunForCancel: refused when the dispatcher promoted it first. *)
ClaimQueued(q) ==
  /\ ReqStep(q, "claim", IF run.status = "queued" THEN "rows" ELSE "done")
  /\ run' = IF run.status = "queued" THEN [run EXCEPT !.status = "cancelled"] ELSE run
  /\ UNCHANGED <<row, inst, maestro, hist>> /\ ReqUnchanged

Waiting == {"queued", "staged"}

ReadRows(q) ==
  /\ req[q].pc = "rows"
  /\ SetReq(q, [req[q] EXCEPT !.pc = "flip",
       !.todo = {r \in Row : row[r].status \in Waiting},
       !.live = IF Kind[q] = "cancelAll" THEN {r \in Row : row[r].status = "launched"} ELSE {}])
  /\ OnlyReq

CancelWaitingRow(q) ==
  \E r \in req[q].todo :
    /\ req[q].pc = "flip" /\ IsFirst(r, req[q].todo)
    /\ row' = IF row[r].status \in Waiting THEN [row EXCEPT ![r].status = "cancelled"] ELSE row
    /\ SetReq(q, [req[q] EXCEPT !.pc = IF Kind[q] = "rowCancel" THEN "done" ELSE @,
                                !.todo = @ \ {r}])
    /\ UNCHANGED <<run, inst, maestro, hist>> /\ ReqUnchanged

LiveRow(r) == row[r].inst # None /\ inst[row[r].inst].status \notin Terminal

(* Scope 'all': which launched rows still have a live instance.            *)
ResolveLive(q) ==
  /\ req[q].pc = "flip" /\ req[q].todo = {}
  /\ SetReq(q, [req[q] EXCEPT !.pc = IF req[q].live = {} THEN "recheck" ELSE "pick",
                              !.live = {r \in @ : LiveRow(r)}])
  /\ ResolveRows(req[q].live)
  /\ UNCHANGED <<run, inst, maestro, hist>> /\ ReqUnchanged

----------------------------------------------------------------------------
(* cancelWorkflowInstance and the row write behind it, for the launched    *)
(* rows of a run cancel in turn, or for the row of a row cancel.           *)

MidOf(i) == IF i \in Inst THEN inst[i].mid ELSE None

CancelInstanceOf(q, r) ==
  SetReq(q, [req[q] EXCEPT !.pc = "maestro", !.todo = {r},
                           !.inst = row[r].inst, !.mid = MidOf(row[r].inst)])

PickLiveRow(q) ==
  \E r \in req[q].live :
    /\ req[q].pc = "pick" /\ IsFirst(r, req[q].live)
    /\ CancelInstanceOf(q, r)
    /\ OnlyReq

NoLiveRowLeft(q) ==
  /\ Kind[q] = "cancelAll" /\ req[q].live = {}
  /\ ReqStep(q, "pick", "recheck")
  /\ OnlyReq

(* The row route: the request names one row, in any state.                 *)
PickWaitingRow(q, r) ==
  /\ Kind[q] = "rowCancel" /\ row[r].status \in Waiting
  /\ req[q].pc = "pick"
  /\ SetReq(q, [req[q] EXCEPT !.pc = "flip", !.todo = {r}])
  /\ OnlyReq

PickLaunchedRow(q, r) ==
  /\ Kind[q] = "rowCancel" /\ row[r].status = "launched" /\ LiveRow(r)
  /\ req[q].pc = "pick"
  /\ CancelInstanceOf(q, r)
  /\ OnlyReq

RowRefused(q, r) ==
  /\ Kind[q] = "rowCancel"
  /\ row[r].status \notin Waiting
  /\ row[r].status # "launched" \/ ~LiveRow(r)
  /\ ReqStep(q, "pick", "done")
  /\ OnlyReq

(* Best effort at Maestro: an instance without a Maestro id is skipped,    *)
(* one that has ended stays as it is, and a call that fails is logged and  *)
(* swallowed: the request goes on to cancel the instance here.             *)
CancelNotAtMaestro(q) == ReqStep(q, "maestro", "inst") /\ OnlyReq   \* faulty

CancelAtMaestro(q) ==
  /\ ReqStep(q, "maestro", "inst")
  /\ \/ /\ maestro' = [k \in Mid |-> IF k = req[q].mid /\ maestro[k] = "live" THEN "cancelled"
                                     ELSE maestro[k]]
        /\ UNCHANGED faults
     \/ Fault("cancelRejected") /\ UNCHANGED maestro
  /\ UNCHANGED <<run, row, inst, hist, msg, wk, tick>>

CancelLocally(q) ==
  /\ ReqStep(q, "inst", "row")
  /\ SetInst(req[q].inst, "cancelled")
  /\ UNCHANGED <<run, row, maestro, hist>> /\ ReqUnchanged

CancelLaunchedRow(q) ==
  \E r \in req[q].todo :
    /\ req[q].pc = "row"
    /\ row' = IF row[r].status = "launched" THEN [row EXCEPT ![r].status = "cancelled"] ELSE row
    /\ SetReq(q, [IdleReq EXCEPT !.pc = IF Kind[q] = "rowCancel" THEN "done" ELSE "pick",
                                 !.live = req[q].live \ {r}])
    /\ UNCHANGED <<run, inst, maestro, hist>> /\ ReqUnchanged

----------------------------------------------------------------------------
(* The end of a run cancel: cancelled if nothing is left to process        *)

UnprocessedQueue == {"queued"}   \* faulty: a row being launched is overlooked
Unprocessed == {"queued", "launching"}

Reread(q) ==
  /\ req[q].pc = "recheck"
  /\ SetReq(q, [req[q] EXCEPT !.pc = "recheckInst",
       !.todo = {r \in Row : row[r].status \in Unprocessed},
       !.live = {r \in Row : row[r].status = "launched"}])
  /\ OnlyReq

RecheckInstances(q) ==
  /\ req[q].pc = "recheckInst"
  /\ LET active == req[q].todo # {} \/ \E r \in req[q].live : LiveRow(r)
     IN  SetReq(q, [IdleReq EXCEPT !.pc = IF active THEN "done" ELSE "close"])
  /\ ResolveRows(req[q].live)
  /\ UNCHANGED <<run, inst, maestro, hist>> /\ ReqUnchanged

CloseRun(q) ==
  /\ ReqStep(q, "close", "done")
  /\ SetRun("cancelled")
  /\ UNCHANGED <<row, inst, maestro, hist>> /\ ReqUnchanged

RowRequest(q) ==
  \E r \in Row : PickWaitingRow(q, r) \/ PickLaunchedRow(q, r) \/ RowRefused(q, r)

RequestProceeds(q) ==
  \/ PutRow(q) \/ StartRun(q) \/ PauseRun(q) \/ ResumeRun(q)
  \/ ClaimQueued(q) \/ ReadRows(q) \/ CancelWaitingRow(q) \/ ResolveLive(q)
  \/ PickLiveRow(q) \/ NoLiveRowLeft(q) \/ RowRequest(q)
  \/ CancelAtMaestro(q) \/ CancelLocally(q) \/ CancelLaunchedRow(q)
  \/ Reread(q) \/ RecheckInstances(q) \/ CloseRun(q)
============================================================================
