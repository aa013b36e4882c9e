---------------------------- MODULE MCAutomation ----------------------------
(***************************************************************************)
(* Instances of AutomationLaunch for TLC.                                  *)
(***************************************************************************)
EXTENDS AutomationLaunch, TLC

CONSTANTS q1, q2   \* the requests a configuration may have

RetryAndOther == q1 :> {"retry"} @@ q2 :> {"cancel", "live"}
CancelAndView == q1 :> {"cancel"} @@ q2 :> {"live"}
=============================================================================
