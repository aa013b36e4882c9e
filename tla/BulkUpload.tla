----------------------------- MODULE BulkUpload -----------------------------
(***************************************************************************)
(* One Bulk Upload run with everything that works on it: overlapping       *)
(* dispatcher passes, launcher workers fed by an at-least-once queue, HTTP *)
(* requests and the Workflow Builder.  Properties are stated here.         *)
(***************************************************************************)
EXTENDS BulkDispatcher, BulkLauncher, BulkRequests

Next ==
  \/ Environment
  \/ \E d \in Tick   : DispatcherStep(d) \/ DispatcherFault(d)
  \/ \E w \in Worker : LauncherStep(w) \/ LauncherFault(w)
  \/ \E q \in Req    : Load(q) \/ RequestProceeds(q)

Spec == Init /\ [][Next]_vars

(* The scheduler's cron fires for ever and a pass, once begun, goes on;    *)
(* time passes; Maestro workflows end and are synced; a request that was   *)
(* begun is carried out.  Nothing is assumed of the launcher workers: they *)
(* may be down, or die with a job in hand.                                 *)
Fairness ==
  /\ \A d \in Tick : WF_vars(DispatcherStep(d))
  /\ \A r \in Row : WF_vars(Age(r))
  /\ WF_vars(ReleaseTimeComes)
  /\ \A k \in Mid : WF_vars(WorkflowEnds(k))
  /\ \A i \in Inst : WF_vars(SyncInstance(i))
  /\ \A q \in Req : WF_vars(RequestProceeds(q))

FairSpec == Spec /\ Fairness

----------------------------------------------------------------------------
TickPc == {"idle", "dispatch", "release", "send", "checkRows", "checkInst",
           "complete", "held", "sweep", "resolve"}
WorkerPc == {"idle", "guard", "launch", "denyInst", "persist", "record", "readRun", "adopt",
             "undo", "undoInst", "reset", "stats", "track", "reference", "enqueue",
             "failInst", "failRow", "count", "ack"}
ReqPc == {"idle", "put", "write", "claim", "rows", "flip", "pick", "maestro", "inst", "row",
          "recheck", "recheckInst", "close", "done"}

WorkerState == [pc : WorkerPc, msg : Msg \cup {None},
                inst : Inst \cup {None}, mid : Mid \cup {None}]
TickState   == [pc : TickPc, seen : BOOLEAN, streak : Nat, todo : SUBSET Row,
                ref : [Row -> Inst \cup {None}], released : BOOLEAN, swept : Nat]
ReqState    == [pc : ReqPc, todo : SUBSET Row, live : SUBSET Row,
                inst : Inst \cup {None}, mid : Mid \cup {None}]
History     == [released : [Row -> Nat], late : Nat, notices : Nat]

(* Every item holds what its table says, every process is where the code   *)
(* can be; in particular a row's status is never that of a live instance.  *)
TypeOK ==
  /\ run \in RunItem
  /\ row \in [Row -> RowItem]
  /\ inst \in [Inst -> InstItem]
  /\ maestro \in [Mid -> MaestroState]
  /\ msg \in [Msg -> Message]
  /\ wk \in [Worker -> WorkerState]
  /\ tick \in [Tick -> TickState]
  /\ req \in [Req -> ReqState]
  /\ faults \in 0 .. MaxFaults
  /\ hist \in History

Closed == run.status \in {"completed", "cancelled"}

(* However many passes overlap, and whatever crashes, a row is handed to   *)
(* the launcher queue at most once: the double-release guard of            *)
(* dispatchRun ("when two dispatcher ticks (or pods) overlap").            *)
RowReleasedOnce == \A r \in Row : hist.released[r] <= 1

(* "Only running/paused/stopped runs can hold 'launching' rows: completion *)
(* requires none left, and cancel refuses to close a run that has one"     *)
(* (sweepStaleLaunchingRows).  A row left launching elsewhere would never  *)
(* be swept, for the sweep looks at no other run.                          *)
LaunchingOnlyInOpenRun ==
  \A r \in Row : row[r].status = "launching" => run.status \in {"running", "paused", "stopped"}

(* A closed run has no row whose instance is still running, and unless a    *)
(* cancel was rejected no workflow lives on at Docusign that a worker or a  *)
(* request is not about to cancel: nobody would watch it ("a completed/     *)
(* cancelled run can never accumulate live workflows",                      *)
(* workflow-launcher.worker.ts).                                            *)
InHand(k) == (\E w \in Worker : wk[w].mid = k) \/ (\E q \in Req : req[q].mid = k)
ClosedRunIsQuiet ==
  Closed => /\ \A r \in Row : row[r].status = "launched" => ~LiveRow(r)
            /\ faults = 0 => \A k \in Mid : maestro[k] = "live" => InHand(k)

(* A retry ladder's tracking instance is never stranded 'running': a       *)
(* message or a worker still carries it.                                   *)
Carried(i) ==
  \/ \E m \in Msg : msg[m].state \in {"visible", "hidden"} /\ msg[m].job.inst = i
  \/ \E w \in Worker : wk[w].pc # "idle" /\ wk[w].inst = i
LadderNotStranded == \A i \in Inst : OnlyTracking(i) => Carried(i)

(* A row that is being launched is in somebody's hands: its release is     *)
(* about to be sent, or a message or a worker carries its job; or its      *)
(* workflow was launched, the row's own write failed, and the workflow     *)
(* ended before the retry that would have recorded it (the retry guard     *)
(* then drops that retry, and only the sweep helps the row).  (A worker    *)
(* that dies between FailInstance and FailRow leaves such a row too: the   *)
(* redelivered job is abandoned at the retry guard.)                       *)
EndedUnrecorded(r) ==
  row[r].inst # None /\ inst[row[r].inst].mid # None /\ inst[row[r].inst].status # "running"

LaunchingIsCarried ==
  \A r \in Row : row[r].status = "launching" =>
    \/ \E d \in Tick : tick[d].pc = "send" /\ IsFirst(r, tick[d].todo)
    \/ \E m \in Msg : msg[m].state \in {"visible", "hidden"} /\ msg[m].job.row = r
    \/ \E w \in Worker : wk[w].pc # "idle" /\ JobOf(w).row = r
    \/ EndedUnrecorded(r)

(* A live Maestro instance is the one a running instance item names, or a  *)
(* worker or a request is about to record or cancel it: unless an answer,  *)
(* a write or a cancel was lost or a job came twice, nothing runs unseen   *)
(* at Docusign.                                                            *)
LaunchIsTracked ==
  faults = 0 => \A k \in Mid : maestro[k] = "live" =>
    \/ \E i \in Inst : inst[i].mid = k /\ inst[i].status = "running"
    \/ InHand(k)

(* Pausing, stopping or cancelling holds the remaining rows: a pass that   *)
(* had already scanned the run may still release its batch, nothing more.  *)
LateReleasesBounded == hist.late <= ReleaseCount * Cardinality(Tick)

(* "One summary per finished run (the conditional flip above makes this    *)
(* exactly-once)", completeRunIfFinished.                                  *)
CompletionNoticedOnce == hist.notices <= 1

(* Rows that reached 'completed', 'cancelled' or 'skipped' keep that       *)
(* outcome; only a 'failed' row may come back, by a late adoption.         *)
OutcomesStand ==
  [][\A r \in Row : row[r].status \in {"completed", "cancelled", "skipped"}
                      => row'[r].status = row[r].status]_vars

(* The run implements BulkLifecycle: it is open until it is completed or   *)
(* cancelled, and a launched row is live as long as its instance is.  So   *)
(* no interleaving launches a row twice or a row that had settled (a failed  *)
(* one may be adopted late), closes a run over a row that is being launched *)
(* or runs, or moves anything in a closed run but a row still waiting.     *)
PhaseOf(r) ==
  CASE row[r].status \in {"staged", "queued"} -> "waiting"
    [] row[r].status = "launching"            -> "launching"
    [] row[r].status = "launched" /\ LiveRow(r) -> "live"
    [] \/ row[r].status = "failed"
       \/ row[r].status = "launched" /\ row[r].inst # None /\ inst[row[r].inst].status = "failed" -> "failed"
    [] OTHER                                  -> "settled"
Lifecycle == INSTANCE BulkLifecycle WITH open <- ~Closed, phase <- [r \in Row |-> PhaseOf(r)]
RunLifecycle == Lifecycle!Spec

(* "A stuck 'launching' row is a hard deadlock": with nothing but the      *)
(* dispatcher alive (workers may have vanished with their messages) every  *)
(* launching row of the run leaves that state.                             *)
LaunchingResolves ==
  \A r \in Row : row[r].status = "launching" ~> row[r].status # "launching"

(* A running run does not hang: it completes, is closed, or is stopped or  *)
(* paused and waits for an operator.                                       *)
RunningRunSettles == run.status = "running" ~> run.status # "running"
============================================================================
