--------------------------- MODULE BulkLifecycle ---------------------------
(***************************************************************************)
(* What a Bulk Upload run promises its operator, without passes, queues,   *)
(* workers or requests: a row waits, is launched once, runs and settles;   *)
(* a run that has closed stays closed, launches nothing and has nothing    *)
(* running.  BulkUpload implements it (RunLifecycle).                      *)
(***************************************************************************)
CONSTANT Row

VARIABLES
  open,    \* the run may still launch rows
  phase    \* "waiting", "launching", "live" (its workflow runs), "failed" or "settled"

Phase == {"waiting", "launching", "live", "failed", "settled"}
Over  == {"failed", "settled"}

Init == open \in BOOLEAN /\ phase \in [Row -> Phase]

Move(r, from, to) == phase[r] = from /\ phase' = [phase EXCEPT ![r] = to] /\ UNCHANGED open

Release(r) == open /\ Move(r, "waiting", "launching")
Launch(r)  == open /\ Move(r, "launching", "live")
GiveUp(r)  == open /\ \E to \in Over : Move(r, "launching", to)
End(r)     == open /\ \E to \in Over : Move(r, "live", to)
Adopt(r)   == open /\ Move(r, "failed", "live")     \* a launch that had been given up

(* A request begun while the run was open may still take effect after it   *)
(* has closed: a cancel discards a waiting row, or overrules a failure it   *)
(* raced with.                                                             *)
Discard(r)  == Move(r, "waiting", "settled")
Overrule(r) == Move(r, "failed", "settled")

Close ==
  /\ open /\ open' = FALSE
  /\ \A r \in Row : phase[r] \in Over \cup {"waiting"}
  /\ UNCHANGED phase

Next ==
  \/ Close
  \/ \E r \in Row : Release(r) \/ Launch(r) \/ GiveUp(r) \/ End(r) \/ Adopt(r)
                   \/ Discard(r) \/ Overrule(r)

Spec == Init /\ [][Next]_<<open, phase>>
============================================================================
