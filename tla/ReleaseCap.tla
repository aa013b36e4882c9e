----------------------------- MODULE ReleaseCap -----------------------------
(***************************************************************************)
(* The cap on unfinished instances that the runs of a Bulk Upload share    *)
(* (batch.service: dispatchDueBatchRuns, countUnfinishedInstances and the   *)
(* release of dispatchRun).  A pass counts once, then hands what is left of *)
(* the cap from run to run, while rows are launched, end, grow overdue or   *)
(* are postponed.  One process dispatches (batchDispatchInFlight); a row    *)
(* and its instance are one item here, and the rest of the life of a run is *)
(* in BulkUpload.                                                          *)
(***************************************************************************)
EXTENDS Integers, FiniteSets, FiniteSetsExt

CONSTANTS
  Run,           \* the runs of the processor, by runNumber
  Row,           \* their rows, in the order of seq
  RunOf,         \* the run of each row
  Cap,           \* maxUnfinishedInstances
  ReleaseCount,  \* settings.releaseCount
  MaxExcess      \* bound on what may take a slot without a pass having counted it

ASSUME CapAssumption ==
  /\ IsFiniteSet(Run) /\ Run \subseteq Nat /\ IsFiniteSet(Row) /\ Row \subseteq Nat
  /\ RunOf \in [Row -> Run]
  /\ Cap \in Nat \ {0} /\ ReleaseCount \in Nat \ {0} /\ MaxExcess \in Nat

VARIABLES
  status,   \* the status of each run: running or held (paused, stopped)
  item,     \* each row with its instance
  sent,     \* rows whose launch job was sent
  pass,     \* the dispatcher's pass
  excess    \* history: slots taken that no count has seen

capVars == <<status, item, sent, pass, excess>>

ItemState == {"queued", "launching", "unfinished", "overdue", "terminal"}
NoWork    == [pc |-> "idle", due |-> {}, uncounted |-> {}, launched |-> {}, count |-> 0, budget |-> 0,
              hand |-> {}, claimed |-> 0, released |-> 0]

CapInit ==
  /\ status = [r \in Run |-> "running"]
  /\ item = [n \in Row |-> "queued"]
  /\ sent = {}
  /\ pass = NoWork
  /\ excess = 0

SetItem(n, s) == item' = [item EXCEPT ![n] = s]
AtPc(pc)      == pass.pc = pc
RowsOf(r)     == {n \in Row : RunOf[n] = r}

----------------------------------------------------------------------------
(* The pass: due runs of the scan, then the count, run by run; a row read as *)
(* launching is counted, a launched one waits for its instance to be read.   *)
ScanDue ==
  /\ AtPc("idle")
  /\ \E due \in SUBSET {r \in Run : status[r] = "running"} :
       due # {} /\ pass' = [NoWork EXCEPT !.pc = "rows", !.due = due, !.uncounted = Run]
  /\ UNCHANGED <<status, item, sent, excess>>
Launched(r)     == {n \in RowsOf(r) : item[n] \in {"unfinished", "overdue"}}
InFlightRows(r) == {n \in RowsOf(r) : item[n] = "launching"}
CountRows ==
  /\ AtPc("rows") /\ pass.uncounted # {}
  /\ LET r == Min(pass.uncounted)
     IN pass' = [pass EXCEPT !.uncounted = @ \ {r}, !.count = @ + Cardinality(InFlightRows(r)),
                             !.launched = @ \cup Launched(r)]
  /\ UNCHANGED <<status, item, sent, excess>>
LeftOf(n) == IF n >= Cap THEN 0 ELSE Cap - n
(* What the batch get leaves in UnprocessedKeys is not asked for again, and *)
(* so not counted.                                                         *)
CountInstances ==
  /\ AtPc("rows") /\ pass.uncounted = {}
  /\ \E unprocessed \in SUBSET {n \in pass.launched : item[n] = "unfinished"} :
       LET read == {n \in pass.launched : item[n] = "unfinished"} \ unprocessed
       IN /\ pass' = [NoWork EXCEPT !.pc = "run", !.due = pass.due,
                                    !.budget = LeftOf(pass.count + Cardinality(read))]
          /\ excess + Cardinality(unprocessed) <= MaxExcess
          /\ excess' = excess + Cardinality(unprocessed)
  /\ UNCHANGED <<status, item, sent>>

(* dispatchRun for the oldest due run left: the first queued rows, as many  *)
(* as the throttle and the budget allow.                                    *)
QueuedRows(r, k) == {n \in RowsOf(r) : item[n] = "queued"
                       /\ Cardinality({l \in RowsOf(r) : item[l] = "queued" /\ l <= n}) <= k}
QueryRows ==
  /\ AtPc("run") /\ pass.due # {}
  /\ LET k == Min({ReleaseCount, pass.budget})
     IN pass' = [pass EXCEPT !.pc = "claim", !.hand = QueuedRows(Min(pass.due), k)]
  /\ UNCHANGED <<status, item, sent, excess>>
Claim ==
  /\ AtPc("claim") /\ pass.hand # {}
  /\ LET n == Min(pass.hand)
     IN IF item[n] = "queued"
        THEN SetItem(n, "launching") /\ pass' = [pass EXCEPT !.pc = "send", !.claimed = @ + 1]
        ELSE pass' = [pass EXCEPT !.hand = @ \ {n}] /\ UNCHANGED item
  /\ UNCHANGED <<status, sent, excess>>
SendJobOf ==
  /\ AtPc("send")
  /\ sent' = sent \cup {Min(pass.hand)}
  /\ pass' = [pass EXCEPT !.pc = "claim", !.hand = @ \ {Min(@)}, !.released = @ + 1]
  /\ UNCHANGED <<status, item, excess>>
NextDue(budget) ==
  IF Cardinality(pass.due) = 1 THEN NoWork
  ELSE [NoWork EXCEPT !.pc = "run", !.due = pass.due \ {Min(pass.due)}, !.budget = budget]
(* Faulty variant: every due run is given the whole budget.                 *)
Whole(budget)   == budget
Shared(budget)  == budget - pass.released
RunReleased ==
  /\ AtPc("claim") /\ pass.hand = {}
  /\ pass' = NextDue(Shared(pass.budget))
  /\ UNCHANGED <<status, item, sent, excess>>

(* dispatchRun throws at a claim or at a send: the pass goes on to the next *)
(* run, and what this one had claimed was not taken from the budget.        *)
DispatchThrows ==
  /\ pass.pc \in {"run", "claim", "send"} /\ pass.due # {}
  /\ LET lost == IF AtPc("run") THEN 0 ELSE pass.claimed
     IN excess + lost <= MaxExcess /\ excess' = excess + lost
  /\ pass' = NextDue(pass.budget)
  /\ UNCHANGED <<status, item, sent>>
(* The process dies, or the count fails and the processor is passed over.   *)
PassEnds == ~AtPc("idle") /\ pass' = NoWork /\ UNCHANGED <<status, item, sent, excess>>

----------------------------------------------------------------------------
(* The launcher launches or fails the row of a job; the sweep fails rows    *)
(* without one; a user cancels a queued row or holds and resumes a run.     *)
LaunchEnds(n) ==
  /\ item[n] = "launching"
  /\ \/ n \in sent /\ SetItem(n, "unfinished")
     \/ SetItem(n, "terminal")
  /\ UNCHANGED <<status, sent, pass, excess>>
CancelRow(n) ==
  /\ item[n] = "queued" /\ SetItem(n, "terminal")
  /\ UNCHANGED <<status, sent, pass, excess>>
HoldOrResume(r) ==
  /\ status' = [status EXCEPT ![r] = IF @ = "running" THEN "held" ELSE "running"]
  /\ UNCHANGED <<item, sent, pass, excess>>
(* An instance ends, or its expected duration passes: it frees its slot.    *)
Leaves(n) ==
  /\ \/ item[n] = "unfinished" /\ \E s \in {"overdue", "terminal"} : SetItem(n, s)
     \/ item[n] = "overdue" /\ SetItem(n, "terminal")
  /\ UNCHANGED <<status, sent, pass, excess>>
(* It comes back to the count, whatever a pass has counted: postponed, or   *)
(* retried by hand, or (its row given up by the sweep) adopted late.        *)
ComesBack(n) ==
  /\ item[n] = "overdue" \/ (item[n] = "terminal" /\ n \in sent)
  /\ SetItem(n, "unfinished")
  /\ excess < MaxExcess /\ excess' = excess + 1
  /\ UNCHANGED <<status, sent, pass>>

CapNext ==
  \/ ScanDue \/ CountRows \/ CountInstances \/ QueryRows \/ Claim \/ SendJobOf \/ RunReleased
  \/ DispatchThrows \/ PassEnds
  \/ \E n \in Row : LaunchEnds(n) \/ CancelRow(n) \/ Leaves(n) \/ ComesBack(n)
  \/ \E r \in Run : HoldOrResume(r)

CapSpec == CapInit /\ [][CapNext]_capVars

----------------------------------------------------------------------------
CapTypeOK ==
  /\ status \in [Run -> {"running", "held"}]
  /\ item \in [Row -> ItemState]
  /\ sent \subseteq Row
  /\ pass \in [pc : {"idle", "rows", "run", "claim", "send"}, due : SUBSET Run, uncounted : SUBSET Run,
               launched : SUBSET Row, count : Nat, budget : 0 .. Cap, hand : SUBSET Row,
               claimed : Nat, released : Nat]
  /\ pass.pc \in {"run", "claim", "send"} => pass.due # {}
  /\ pass.pc = "send" => pass.hand # {}
  /\ excess \in 0 .. MaxExcess

(* "Cap on simultaneously unfinished instances across ALL of this           *)
(* processor's runs": at no moment do more rows and instances take a slot,  *)
(* whatever the launcher, the users and Maestro do behind a pass's count,    *)
(* but for those that came back, those of a release that threw and those    *)
(* the count was not given.                                                *)
Occupied == {n \in Row : item[n] \in {"launching", "unfinished"}}
CapHolds == Cardinality(Occupied) <= Cap + excess
=============================================================================
