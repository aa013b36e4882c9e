-------------------------- MODULE WebhookPipeline --------------------------
(***************************************************************************)
(* Deliveries, queue, workers and routes together, and what must hold of   *)
(* them: no event is lost on the way, none is handled more often than      *)
(* redelivery explains, and the queue of a paused rule keeps its items.    *)
(***************************************************************************)
EXTENDS RuleEngine

(* Nothing is under way.                                                   *)
AtRest ==
  /\ \A d \in Delivery : /\ dl[d].pc \notin {"put", "queue"}
                         /\ msg[d].state \notin {"visible", "hidden"}
  /\ \A w \in Worker : wk[w].pc = "idle"
  /\ \A q \in Req : rq[q].pc \in {"idle", "done"}

Rest == AtRest /\ UNCHANGED vars

Next ==
  \/ Rest
  \/ \E d \in Delivery : DeliveryStep(d) \/ HandlerFails(d) \/ Reappear(d) \/ ReappearEarly(d)
  \/ \E w \in Worker   : WorkerStep(w) \/ WorkerFails(w)
  \/ \E q \in Req      : RequestStarts(q) \/ RequestProceeds(q)

Spec == Init /\ [][Next]_vars

(* The workers' poll loops run for ever and a hidden message's timeout     *)
(* ends; a handler or a request, once begun, need not go on.               *)
Fairness ==
  /\ \A w \in Worker : WF_vars(WorkerStep(w))
  /\ \A d \in Delivery : WF_vars(Reappear(d))

FairSpec == Spec /\ Fairness

----------------------------------------------------------------------------
DeliveryState == [pc : {"unsent", "put", "queue", "done"},
                  reply : {None, "stored", "duplicate", "error"}]
MessageState  == [state : {"none", "visible", "hidden", "deleted", "dead"}, received : 0 .. MaxReceive]
WorkerState   == [pc : {"idle", "guard", "match", "work", "send", "ack"}, ev : Delivery \cup {None},
                  store : SUBSET Rule, fire : SUBSET Rule, at : Rule \cup {None}]
RequestState  == [pc : {"idle", "read", "flip", "entry", "send", "done"},
                  rule : Rule \cup {None}, todo : SUBSET Item]

(* Items and processes hold what the code gives them, and a queued webhook *)
(* names an event that is stored.                                          *)
TypeOK ==
  /\ marker \subseteq {Key(d) : d \in Delivery} \ {None}
  /\ event \in [Delivery -> {"none", "stored", "processed"}]
  /\ msg \in [Delivery -> MessageState]
  /\ dl \in [Delivery -> DeliveryState]
  /\ rule \in [Rule -> RuleStatus]
  /\ \A i \in Item :
       \/ item[i] = NoItem
       \/ item[i].status \in ItemStatus /\ item[i].rule \in Rule /\ event[item[i].ev] # "none"
  /\ wk \in [Worker -> WorkerState]
  /\ rq \in [Req -> RequestState]
  /\ faults \in 0 .. MaxFaults

Items(d, r)    == {i \in Item : item[i].ev = d /\ item[i].rule = r}
Handled(d, r)  == hist.fired[<<d, r>>] + Cardinality(Items(d, r))
SameEvent(d)   == {e \in Delivery : EventOf[e] = EventOf[d]}

(* A delivery answered "received" (stored, or a duplicate of one that was) *)
(* has its event in the table, or the delivery that put the marker is      *)
(* about to store it, or that one failed in between: the only gap, and it  *)
(* closes the door to every retry.                                         *)
Kept(e) == event[e] # "none" \/ dl[e].pc = "put"
FailedBehindMarker(e) == dl[e].pc = "done" /\ dl[e].reply \in {None, "error"}
AcceptedIsKept ==
  \A d \in Delivery : dl[d].reply \in {"stored", "duplicate"} =>
    \E e \in SameEvent(d) : Kept(e) \/ FailedBehindMarker(e)

(* What is dropped as a duplicate is the retry of an event that is kept:   *)
(* the key is there "to prevent duplicate processing when platforms retry  *)
(* delivery", "only one record per platform event".                        *)
DuplicateIsKept ==
  \A d \in Delivery : dl[d].reply = "duplicate" => \E e \in SameEvent(d) : Kept(e)

(* An event is marked processed only when every rule that matches it has   *)
(* been fired or has the event in its queue, whatever failed in between;   *)
(* only a rule that was deleted may have been passed over.                 *)
ProcessedIsHandled ==
  \A d \in Delivery : event[d] = "processed" =>
    \A r \in Matches[EventOf[d]] \ hist.deleted : Handled(d, r) > 0

(* One platform event reaches a rule once, and once more for each fault    *)
(* that happened, through one delivery: neither the platform's retries nor *)
(* two workers add to it.                                                  *)
RepeatsArePaidFor ==
  \A d \in Delivery, r \in Rule :
    /\ Handled(d, r) <= 1 + faults
    /\ Key(d) # None /\ Handled(d, r) > 0 =>
         \A e \in SameEvent(d) \ {d}, s \in Rule : Handled(e, s) = 0

(* A worker is at the rules of an event that is processed already only if  *)
(* the message reappeared while another worker was at it: a redelivery     *)
(* after a failure finds the mark ("Skip if already processed").           *)
ReprocessedOnlyIfOverlapped ==
  \A w \in Worker : wk[w].pc \in {"match", "work", "send"} /\ event[wk[w].ev] = "processed"
                      => wk[w].ev \in hist.early

(* Every pipeline entry shown 'pending' has its launch job, or a worker or *)
(* a request is between the two, or died there.                            *)
Between(p) ==
  Cardinality({w \in Worker : wk[w].pc = "send" /\ Job(w, wk[w].at) = p})
    + Cardinality({q \in Req : rq[q].pc = "send" /\ At(q) = p})
PendingEntriesHaveJobs ==
  \A p \in Pair : hist.entries[p] - hist.jobs[p] <= Between(p) + faults

(* A cancelled queue item stays cancelled, unless the cancel met a request *)
(* that had read the item as queued and is still to flip it.               *)
CancelledItemsStand ==
  [][\A i \in Item : item[i].status = "cancelled" /\ i \notin hist.raced
                       => item'[i].status = "cancelled"]_vars

(* A pause loses nothing ("Paused rules are included so webhooks can be    *)
(* queued (non-lossy pause)"): at rest the queue of an active rule holds   *)
(* no item, unless a worker that had seen the rule paused stored it after  *)
(* the resume: that one is left behind.                                    *)
PauseIsNonLossy ==
  AtRest => \A i \in Item \ hist.late : item[i].status = "queued" => rule[item[i].rule] # "active"

(* Whatever fails, a queued event is processed or ends in the dead letters.*)
EnqueuedIsSettled ==
  \A d \in Delivery : msg[d].state = "visible" ~> event[d] = "processed" \/ msg[d].state = "dead"
============================================================================
