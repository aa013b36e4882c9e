----------------------------- MODULE RuleEngine -----------------------------
(***************************************************************************)
(* The webhook worker with processEvent, and the routes that pause and     *)
(* resume a rule and work on its queue (src/baton/src/workers/             *)
(* webhook.worker.ts, services/rule-engine.service.ts, routes/rules.ts).   *)
(***************************************************************************)
EXTENDS WebhookStore

ingest == <<marker, dl>>
First(S) == CHOOSE x \in S : \A y \in S : x <= y

SetWk(w, f) == wk' = [wk EXCEPT ![w] = f]
Job(w, r)   == <<wk[w].ev, r>>

Receive(w, d) ==
  /\ wk[w].pc = "idle" /\ msg[d].state = "visible"
  /\ msg' = [msg EXCEPT ![d] = [state |-> "hidden", received |-> @.received + 1]]
  /\ SetWk(w, [IdleWorker EXCEPT !.pc = "guard", !.ev = d])
  /\ UNCHANGED <<ingest, event, rule, item, rq, faults, hist>>

(* getWebhookEvent: an event processed already is skipped.                 *)
NoGuard(w) == \* faulty: the job is done again whatever the event says
  /\ wk[w].pc = "guard"
  /\ SetWk(w, [wk[w] EXCEPT !.pc = "match"])
  /\ UNCHANGED <<ingest, event, msg, rule, item, rq, faults, hist>>
Guard(w) ==
  /\ wk[w].pc = "guard"
  /\ SetWk(w, [wk[w] EXCEPT !.pc = IF event[wk[w].ev] = "processed" THEN "ack" ELSE "match"])
  /\ UNCHANGED <<ingest, event, msg, rule, item, rq, faults, hist>>

(* findMatchingRules: one query for the active and the paused rules; what  *)
(* it says of their status holds for the rest of the job.                  *)
Matched(w, s) == {r \in Matches[EventOf[wk[w].ev]] : rule[r] = s}
FindMatchingRules(w) ==
  /\ wk[w].pc = "match"
  /\ SetWk(w, [wk[w] EXCEPT !.pc = "work", !.store = Matched(w, "paused"),
                            !.fire = Matched(w, "active")])
  /\ UNCHANGED <<ingest, event, msg, rule, item, rq, faults, hist>>

(* storeQueuedWebhook, for each rule seen paused.                          *)
FreshItem(i) == item[i].status = "none" /\ \A j \in Item : item[j].status = "none" => i <= j
StoreQueuedWebhook(w) ==
  /\ wk[w].pc = "work" /\ wk[w].store # {}
  /\ LET r == First(wk[w].store) IN
     /\ \E i \in Item : /\ FreshItem(i)
                        /\ item' = [item EXCEPT ![i] = [status |-> "queued", ev |-> wk[w].ev, rule |-> r]]
                        /\ hist' = [hist EXCEPT !.late = IF rule[r] = "active" THEN @ \cup {i} ELSE @]
     /\ SetWk(w, [wk[w] EXCEPT !.store = @ \ {r}])
  /\ UNCHANGED <<ingest, event, msg, rule, rq, faults>>

(* For each rule seen active: the pipeline entry 'pending', then the       *)
(* launch job (and the rule's counter, left out).                          *)
PutEntry(w) ==
  /\ wk[w].pc = "work" /\ wk[w].store = {} /\ wk[w].fire # {}
  /\ LET r == First(wk[w].fire) IN
     /\ SetWk(w, [wk[w] EXCEPT !.pc = "send", !.at = r])
     /\ hist' = [hist EXCEPT !.entries[Job(w, r)] = @ + 1]
  /\ UNCHANGED <<ingest, event, msg, rule, item, rq, faults>>

QueueLaunch(w) ==
  /\ wk[w].pc = "send"
  /\ SetWk(w, [wk[w] EXCEPT !.pc = "work", !.fire = @ \ {wk[w].at}, !.at = None])
  /\ hist' = [hist EXCEPT !.jobs[Job(w, wk[w].at)] = @ + 1, !.fired[Job(w, wk[w].at)] = @ + 1]
  /\ UNCHANGED <<ingest, event, msg, rule, item, rq, faults>>

MarkEarly(w) == \* faulty: marked before the matching rules are fired
  /\ wk[w].pc = "work" /\ wk[w].store = {}
  /\ event' = [event EXCEPT ![wk[w].ev] = "processed"]
  /\ SetWk(w, [wk[w] EXCEPT !.pc = IF wk[w].fire = {} THEN "ack" ELSE "work"])
  /\ UNCHANGED <<ingest, msg, rule, item, rq, faults, hist>>
MarkProcessed(w) ==
  /\ wk[w].pc = "work" /\ wk[w].store = {} /\ wk[w].fire = {}
  /\ event' = [event EXCEPT ![wk[w].ev] = "processed"]
  /\ SetWk(w, [wk[w] EXCEPT !.pc = "ack"])
  /\ UNCHANGED <<ingest, msg, rule, item, rq, faults, hist>>

Ack(w) ==
  /\ wk[w].pc = "ack"
  /\ msg' = [msg EXCEPT ![wk[w].ev].state = "deleted"]
  /\ SetWk(w, IdleWorker)
  /\ UNCHANGED <<ingest, event, rule, item, rq, faults, hist>>

(* A call fails, or the process dies: the message stays hidden and SQS     *)
(* delivers it again; nothing that was done is undone.                     *)
AckOnFailure(w) == \* faulty: the error is swallowed and the job acknowledged
  /\ wk[w].pc # "idle" /\ Fault("workerFails")
  /\ msg' = [msg EXCEPT ![wk[w].ev].state = "deleted"]
  /\ SetWk(w, IdleWorker)
  /\ UNCHANGED <<ingest, event, rule, item, rq, hist>>
WorkerFails(w) ==
  /\ wk[w].pc # "idle" /\ Fault("workerFails")
  /\ SetWk(w, IdleWorker)
  /\ UNCHANGED <<ingest, event, msg, rule, item, rq, hist>>

WorkerStep(w) ==
  \/ \E d \in Delivery : Receive(w, d)
  \/ Guard(w) \/ FindMatchingRules(w) \/ StoreQueuedWebhook(w) \/ PutEntry(w)
  \/ QueueLaunch(w) \/ MarkProcessed(w) \/ Ack(w)

----------------------------------------------------------------------------
(* The routes.  A status is set whatever it was; deleting is a status.     *)

SetRq(q, f) == rq' = [rq EXCEPT ![q] = f]
pipeline == <<ingest, event, msg, wk, faults>>

SetStatus(q, k, s) ==
  /\ rq[q].pc = "idle" /\ k \in Kinds[q]
  /\ \E r \in Asked :
       /\ rule' = [rule EXCEPT ![r] = s]
       /\ SetRq(q, [IdleReq EXCEPT !.rule = r, !.pc = IF k = "resume" THEN "read" ELSE "done"])
       /\ hist' = [hist EXCEPT !.deleted = IF k = "delete" THEN @ \cup {r} ELSE @]
  /\ UNCHANGED <<pipeline, item>>

Pause(q)    == SetStatus(q, "pause", "paused")
Delete(q)   == SetStatus(q, "delete", "disabled")
Activate(q) == SetStatus(q, "resume", "active")

(* getQueuedWebhooks: the rule's items that are still 'queued'.            *)
QueueUnfiltered(r) == {i \in Item : item[i].rule = r} \* faulty: no filter
Queue(r) == {i \in Item : item[i].rule = r /\ item[i].status = "queued"}

ReadFirst(q) == \* faulty: the resume takes one item of the queue
  /\ rq[q].pc = "read"
  /\ SetRq(q, [rq[q] EXCEPT !.todo = {i \in Queue(rq[q].rule) : i = First(Queue(rq[q].rule))}, !.pc = "flip"])
  /\ UNCHANGED <<pipeline, rule, item, hist>>
ReadQueue(q) ==
  /\ rq[q].pc = "read"
  /\ SetRq(q, [rq[q] EXCEPT !.todo = Queue(rq[q].rule), !.pc = "flip"])
  /\ UNCHANGED <<pipeline, rule, item, hist>>

(* POST queue/:itemId/release finds its item in the queue and goes on as   *)
(* the resume does.                                                        *)
FindItem(q) ==
  /\ rq[q].pc = "idle" /\ "release" \in Kinds[q]
  /\ \E r \in Asked : \E i \in Queue(r) :
       SetRq(q, [pc |-> "flip", rule |-> r, todo |-> {i}])
  /\ UNCHANGED <<pipeline, rule, item, hist>>

(* releaseQueuedWebhook: flips the item, then entry and job as above.      *)
Flip(q) ==
  /\ rq[q].pc = "flip" /\ rq[q].todo # {}
  /\ item' = [item EXCEPT ![First(rq[q].todo)].status = "released"]
  /\ SetRq(q, [rq[q] EXCEPT !.pc = "entry"])
  /\ hist' = [hist EXCEPT !.late = @ \ {First(rq[q].todo)}]
  /\ UNCHANGED <<pipeline, rule>>

At(q) == LET i == First(rq[q].todo) IN <<item[i].ev, item[i].rule>>
ReleaseEntry(q) ==
  /\ rq[q].pc = "entry"
  /\ SetRq(q, [rq[q] EXCEPT !.pc = "send"])
  /\ hist' = [hist EXCEPT !.entries[At(q)] = @ + 1]
  /\ UNCHANGED <<pipeline, rule, item>>

ReleaseUnsent(q) == \* faulty: the launch job of a released item is not sent
  /\ rq[q].pc = "send"
  /\ SetRq(q, [rq[q] EXCEPT !.pc = "flip", !.todo = @ \ {First(@)}])
  /\ UNCHANGED <<pipeline, rule, item, hist>>
ReleaseSend(q) ==
  /\ rq[q].pc = "send"
  /\ SetRq(q, [rq[q] EXCEPT !.pc = "flip", !.todo = @ \ {First(@)}])
  /\ hist' = [hist EXCEPT !.jobs[At(q)] = @ + 1]
  /\ UNCHANGED <<pipeline, rule, item>>

ReleaseDone(q) ==
  /\ rq[q].pc = "flip" /\ rq[q].todo = {}
  /\ SetRq(q, [rq[q] EXCEPT !.pc = "done"])
  /\ UNCHANGED <<pipeline, rule, item, hist>>

(* DELETE queue/:itemId: any item the page still shows, without condition. *)
CancelItem(q) ==
  /\ rq[q].pc = "idle" /\ "cancel" \in Kinds[q]
  /\ \E i \in Item :
       /\ item[i].status # "none"
       /\ item' = [item EXCEPT ![i].status = "cancelled"]
       /\ hist' = [hist EXCEPT !.raced = IF \E p \in Req : i \in rq[p].todo THEN @ \cup {i} ELSE @,
                               !.late = @ \ {i}]
  /\ SetRq(q, [rq[q] EXCEPT !.pc = "done"])
  /\ UNCHANGED <<pipeline, rule>>

RequestStarts(q)   == Pause(q) \/ Delete(q) \/ Activate(q) \/ FindItem(q) \/ CancelItem(q)
RequestProceeds(q) == ReadQueue(q) \/ Flip(q) \/ ReleaseEntry(q) \/ ReleaseSend(q) \/ ReleaseDone(q)
============================================================================
