---------------------------- MODULE WebhookStore ----------------------------
(***************************************************************************)
(* From a platform's webhook to the queue of the rule engine: the HTTP     *)
(* handlers of src/baton/src/routes/webhooks, storeWebhookEvent with its   *)
(* idempotency marker, and the items the rule engine works on.  A request  *)
(* whose signature, key or body is refused leaves no state behind and is   *)
(* left out.  As everywhere, one action ends with one write.               *)
(***************************************************************************)
EXTENDS Integers, FiniteSets

CONSTANTS
  Delivery,      \* HTTP deliveries; each stores at most one event, under its own id
  EventOf,       \* EventOf[d]: the platform event that delivery d carries
  KeyOf,         \* KeyOf[e]: what extractPlatformEventId takes for its id, or None
  Routed,        \* platform events whose organisation and connection are known
  Rule,          \* automation rules of the organisation
  Matches,       \* Matches[e]: the rules whose source, type and conditions e meets
  Item,          \* ids of queued webhooks, in the order of queuedAt
  Worker,        \* webhook jobs processed concurrently
  Req, Kinds,    \* route requests, and what each may ask: Kinds[q]
  Asked,         \* the rules they may be about; the others are, and stay, active
  None,
  MaxReceive,    \* maxReceiveCount of the queue's redrive policy
  FaultKind,     \* which faults the environment may inject
  MaxFaults      \* bound on the number of injected faults

RequestKind == {"pause", "resume", "release", "cancel", "delete"}

ASSUME WebhookAssumption ==
  /\ IsFiniteSet(Delivery) /\ IsFiniteSet(Rule) /\ IsFiniteSet(Worker) /\ IsFiniteSet(Req)
  /\ Item \subseteq Nat /\ IsFiniteSet(Item) /\ Rule \subseteq Nat
  /\ \A d \in Delivery : Matches[EventOf[d]] \subseteq Rule
  /\ None \notin Delivery /\ None \notin Item /\ None \notin Rule
  /\ None \notin {"stored", "duplicate", "error"}
  /\ Kinds \in [Req -> SUBSET RequestKind] /\ Asked \subseteq Rule
  /\ MaxReceive \in Nat \ {0} /\ MaxFaults \in Nat

VARIABLES
  marker,   \* platform event ids with an item "dedup#<id>"
  event,    \* the webhook-events items, by the delivery that stored them
  msg,      \* the webhook-processing queue: one message for each queued event
  dl,       \* the handlers of the deliveries
  rule,     \* the status of the automation-rules items
  item,     \* the queued-webhooks items
  wk,       \* the webhook workers
  rq,       \* the route requests
  faults,   \* faults injected so far
  hist      \* history, per event and rule: pipeline entries, launch jobs, and
            \* those sent by a worker; rules ever deleted; messages that
            \* reappeared early; items cancelled while they were being
            \* released, and items stored when their rule was active again

vars == <<marker, event, msg, dl, rule, item, wk, rq, faults, hist>>

RuleStatus == {"active", "paused", "disabled"}
ItemStatus == {"none", "queued", "released", "cancelled"}

IdleWorker == [pc |-> "idle", ev |-> None, store |-> {}, fire |-> {}, at |-> None]
IdleReq    == [pc |-> "idle", rule |-> None, todo |-> {}]
NoItem     == [status |-> "none", ev |-> None, rule |-> None]
Pair       == Delivery \X Rule

Init ==
  /\ marker = {}
  /\ event = [d \in Delivery |-> "none"]
  /\ msg = [d \in Delivery |-> [state |-> "none", received |-> 0]]
  /\ dl = [d \in Delivery |-> [pc |-> "unsent", reply |-> None]]
  /\ rule \in [Rule -> {"active", "paused"}]
  /\ \A r \in Rule \ Asked : rule[r] = "active"
  /\ item = [i \in Item |-> NoItem]
  /\ wk = [w \in Worker |-> IdleWorker]
  /\ rq = [q \in Req |-> IdleReq]
  /\ faults = 0
  /\ hist = [entries |-> [p \in Pair |-> 0], jobs |-> [p \in Pair |-> 0],
             fired |-> [p \in Pair |-> 0], deleted |-> {}, early |-> {},
             raced |-> {}, late |-> {}]

Fault(k) == k \in FaultKind /\ faults < MaxFaults /\ faults' = faults + 1

Key(d) == KeyOf[EventOf[d]]

----------------------------------------------------------------------------
(* The handler of one delivery.                                            *)

SetDl(d, pc, reply) == dl' = [dl EXCEPT ![d] = [pc |-> pc, reply |-> reply]]
worker == <<rule, item, wk, rq>>

(* The conditional put of "dedup#<platformEventId>": a marker that is      *)
(* there already makes this delivery a duplicate, answered 200 at once.    *)
PutMarkerAlways(d) == \* faulty: the put has no condition
  /\ dl[d].pc = "unsent" /\ Key(d) # None
  /\ marker' = marker \cup {Key(d)} /\ SetDl(d, "put", None)
  /\ UNCHANGED <<event, msg, worker, faults, hist>>
PutMarker(d) ==
  /\ dl[d].pc = "unsent" /\ Key(d) # None
  /\ \/ Key(d) \in marker /\ SetDl(d, "done", "duplicate") /\ UNCHANGED marker
     \/ Key(d) \notin marker /\ marker' = marker \cup {Key(d)} /\ SetDl(d, "put", None)
  /\ UNCHANGED <<event, msg, worker, faults, hist>>

(* The put of the event, after its marker if the platform names its events;*)
(* the platform gets its 200.                                              *)
MayPut(d) == \/ dl[d].pc = "put"
             \/ dl[d].pc = "unsent" /\ Key(d) = None
PutEventLater(d) == \* faulty: answers before the event is stored
  /\ MayPut(d)
  /\ SetDl(d, "queue", "stored")
  /\ UNCHANGED <<marker, event, msg, worker, faults, hist>>
PutEvent(d) ==
  /\ MayPut(d)
  /\ event' = [event EXCEPT ![d] = "stored"]
  /\ SetDl(d, "queue", "stored")
  /\ UNCHANGED <<marker, msg, worker, faults, hist>>

(* setImmediate, after the response: the audit entry or the app's counter  *)
(* (left out), then the job for the worker if the connection is known.     *)
Enqueue(d) ==
  /\ dl[d].pc = "queue"
  /\ SetDl(d, "done", dl[d].reply)
  /\ IF EventOf[d] \in Routed THEN msg' = [msg EXCEPT ![d].state = "visible"] ELSE UNCHANGED msg
  /\ UNCHANGED <<marker, event, worker, faults, hist>>

(* An error before the response is answered 200 "Processing error"; one    *)
(* after it is only logged; a handler that dies has answered nothing.      *)
HandlerFails(d) ==
  /\ \/ dl[d].pc \in {"unsent", "put"} /\ Fault("storeError") /\ SetDl(d, "done", "error")
     \/ dl[d].pc = "queue" /\ Fault("queueError") /\ SetDl(d, "done", dl[d].reply)
     \/ dl[d].pc \in {"put", "queue"} /\ Fault("handlerCrash") /\ SetDl(d, "done", dl[d].reply)
  /\ UNCHANGED <<marker, event, msg, worker, hist>>

DeliveryStep(d) == PutMarker(d) \/ PutEvent(d) \/ Enqueue(d)

----------------------------------------------------------------------------
(* SQS.  A message that no worker holds any more reappears; after          *)
(* MaxReceive receives the redrive policy moves it to the dead letters.    *)
Held(d) == \E w \in Worker : wk[w].ev = d

Reappear(d) ==
  /\ msg[d].state = "hidden" /\ ~Held(d)
  /\ msg' = [msg EXCEPT ![d].state = IF msg[d].received < MaxReceive THEN "visible" ELSE "dead"]
  /\ UNCHANGED <<marker, event, dl, worker, faults, hist>>

(* The visibility timeout (90 s) ends while a worker is still at the job.  *)
ReappearEarly(d) ==
  /\ msg[d].state = "hidden" /\ Held(d) /\ msg[d].received < MaxReceive
  /\ Fault("reappear")
  /\ msg' = [msg EXCEPT ![d].state = "visible"]
  /\ hist' = [hist EXCEPT !.early = @ \cup {d}]
  /\ UNCHANGED <<marker, event, dl, worker>>
============================================================================
