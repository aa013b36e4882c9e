----------------------------- MODULE MCWebhook -----------------------------
(***************************************************************************)
(* Instances of WebhookPipeline for TLC.                                   *)
(***************************************************************************)
EXTENDS WebhookPipeline, TLC

CONSTANTS q1, q2   \* the requests a configuration may have

(* Every delivery is the same platform event, sent again; both rules match.*)
Retries  == [d \in Delivery |-> "created"]
(* Each delivery is an event of its own, say of one envelope.              *)
Distinct == [d \in Delivery |-> IF d = 1 THEN "created" ELSE "completed"]

OwnKey   == [e \in {"created", "completed"} |-> e]
(* docusign: envelopeId, whatever happened to the envelope.                *)
Envelope == [e \in {"created", "completed"} |-> "envelope"]
AllMatch == [e \in {"created", "completed"} |-> Rule]
All      == {"created", "completed"}

Switch   == q1 :> {"pause", "resume"} @@ q2 :> {"release", "cancel", "delete"}
Nothing  == [q \in Req |-> {}]
============================================================================
