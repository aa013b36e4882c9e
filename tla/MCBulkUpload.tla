---------------------------- MODULE MCBulkUpload ----------------------------
(***************************************************************************)
(* Instances of BulkUpload for TLC: what the routes' planned statuses and  *)
(* the requests are in each configuration.                                 *)
(***************************************************************************)
EXTENDS BulkUpload, TLC

CONSTANTS p1, p2   \* the requests a configuration may have

PlanAll  == [r \in Row |-> "queued"]

NoRequest  == [q \in Req |-> "pause"]
StartPause == p1 :> "start" @@ p2 :> "pause"
ResumeOnly == p1 :> "resume"
Hold       == p1 :> "pause" @@ p2 :> "resume"
CancelRun  == p1 :> "cancelAll"
CancelBoth == p1 :> "cancelAll" @@ p2 :> "rowCancel"

(* Passes and workers are interchangeable: Next names none of them.        *)
TickSymmetry   == Permutations(Tick)
WorkerSymmetry == Permutations(Worker)
============================================================================
