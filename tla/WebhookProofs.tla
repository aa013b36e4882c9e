--------------------------- MODULE WebhookProofs ---------------------------
(***************************************************************************)
(* What is accepted is kept, a redelivery finds the mark, what is          *)
(* processed is handled, a pause loses nothing, a cancel stands, the       *)
(* entries have their jobs and repeats are paid for: the safety of         *)
(* WebhookPipeline for any number of deliveries, rules, items, workers,    *)
(* requests and faults.                                                    *)
(***************************************************************************)
EXTENDS WebhookTypeProofs

(* The platform's ids tell its events apart.                               *)
OwnKeys == \A d \in Delivery, e \in Delivery : Key(d) = Key(e) /\ Key(d) # None => EventOf[d] = EventOf[e]

----------------------------------------------------------------------------
(* The marker.  What is answered "stored" is stored; a duplicate has found *)
(* its key, and behind every key is a delivery that stored the event, is   *)
(* about to, or failed before it could.                                    *)
Backed(k) == \E e \in Delivery : Key(e) = k /\ (Kept(e) \/ FailedBehindMarker(e))
MarkerIsBacked ==
  /\ \A d \in Delivery : /\ dl[d].reply = "stored" => event[d] # "none"
                         /\ dl[d].reply = "duplicate" => Key(d) \in marker
                         /\ dl[d].pc \in {"unsent", "put"} => dl[d].reply = None
  /\ \A k \in marker : Backed(k)

LEMMA MarkerInit == Init => MarkerIsBacked
  BY WebhookAssumption DEF Init, MarkerIsBacked

LEMMA MarkerStep ==
  ASSUME TypeInv, MarkerIsBacked, [Next]_vars PROVE MarkerIsBacked'
<1>t. /\ dl \in [Delivery -> DeliveryState] /\ event \in [Delivery -> {"none", "stored", "processed"}]
      /\ MarkerIsBacked
  BY DEF TypeInv, TypeOK
<1>n. None \notin {"stored", "duplicate", "error"}
  BY WebhookAssumption
<1>1. ASSUME UNCHANGED <<marker, dl>>, \A d \in Delivery : event[d] # "none" => event'[d] # "none"
      PROVE  MarkerIsBacked'
  <2>1. \A k : Backed(k) => Backed(k)'
    BY <1>1 DEF Backed, Kept, FailedBehindMarker
  <2>2. QED
    BY <1>t, <1>1, <2>1 DEF MarkerIsBacked
<1>2. ASSUME NEW d \in Delivery, DeliveryStep(d) \/ HandlerFails(d) PROVE MarkerIsBacked'
  <2>1. PICK pc \in {"put", "queue", "done"}, reply \in {None, "stored", "duplicate", "error"} :
          /\ SetDl(d, pc, reply)
          /\ \/ /\ dl[d].pc = "unsent" /\ event' = event
                /\ \/ pc = "done" /\ reply = "duplicate" /\ marker' = marker /\ Key(d) \in marker
                   \/ pc = "put" /\ reply = None /\ marker' = marker \cup {Key(d)}
             \/ /\ dl[d].pc \in {"unsent", "put"} /\ pc = "queue" /\ reply = "stored"
                /\ event' = [event EXCEPT ![d] = "stored"] /\ marker' = marker
             \/ /\ dl[d].pc = "queue" /\ pc = "done" /\ reply = dl[d].reply
                /\ event' = event /\ marker' = marker
             \/ /\ dl[d].pc \in {"unsent", "put"} /\ pc = "done" /\ reply \in {"error", None}
                /\ event' = event /\ marker' = marker
    <3>r. dl[d].reply \in {None, "stored", "duplicate", "error"} /\ (dl[d].pc = "put" => dl[d].reply = None)
      BY <1>t DEF DeliveryState, MarkerIsBacked
    <3>1. CASE PutMarker(d)
      BY <3>1 DEF PutMarker
    <3>2. CASE PutEvent(d)
      BY <3>2 DEF PutEvent, MayPut
    <3>3. CASE Enqueue(d)
      BY <3>r, <3>3 DEF Enqueue
    <3>4. CASE HandlerFails(d)
      BY <3>r, <3>4 DEF HandlerFails
    <3>5. QED
      BY <1>2, <3>1, <3>2, <3>3, <3>4 DEF DeliveryStep
  <2>2. dl'[d] = [pc |-> pc, reply |-> reply] /\ \A e \in Delivery \ {d} : dl'[e] = dl[e]
    BY <2>1, SetDlTyped
  <2>3. /\ \A e \in Delivery : event[e] # "none" => event'[e] # "none"
        /\ pc = "queue" => event'[d] # "none"
        /\ \A k \in marker' : k \in marker \/ (k = Key(d) /\ pc = "put")
        /\ marker \subseteq marker'
    BY <1>t, <2>1
  <2>4. \A e \in Delivery : /\ dl'[e].reply = "stored" => event'[e] # "none"
                            /\ dl'[e].reply = "duplicate" => Key(e) \in marker'
                            /\ dl'[e].pc \in {"unsent", "put"} => dl'[e].reply = None
    <3>1. ASSUME NEW e \in Delivery \ {d}
          PROVE  /\ dl'[e].reply = "stored" => event'[e] # "none"
                 /\ dl'[e].reply = "duplicate" => Key(e) \in marker'
                 /\ dl'[e].pc \in {"unsent", "put"} => dl'[e].reply = None
      BY <1>t, <2>2, <2>3 DEF MarkerIsBacked
    <3>2. /\ reply = "stored" => event'[d] # "none"
          /\ reply = "duplicate" => Key(d) \in marker'
          /\ pc \in {"unsent", "put"} => reply = None
      BY <1>t, <1>n, <2>1, <2>3 DEF MarkerIsBacked
    <3>3. QED
      BY <2>2, <3>1, <3>2
  <2>5. ASSUME NEW k \in marker' PROVE Backed(k)'
    <3>1. CASE k = Key(d) /\ pc = "put"
      BY <2>2, <3>1 DEF Backed, Kept, Key
    <3>2. CASE k \in marker
      <4>1. PICK e \in Delivery : Key(e) = k /\ (Kept(e) \/ FailedBehindMarker(e))
        BY <1>t, <3>2 DEF MarkerIsBacked, Backed
      <4>2. Kept(e)' \/ FailedBehindMarker(e)'
        <5>1. CASE e # d
          BY <2>2, <2>3, <4>1, <5>1 DEF Kept, FailedBehindMarker
        <5>2. CASE e = d
          BY <1>t, <2>1, <2>2, <2>3, <4>1, <5>2 DEF Kept, FailedBehindMarker, MarkerIsBacked
        <5>3. QED
          BY <5>1, <5>2
      <4>3. QED
        BY <4>1, <4>2 DEF Backed, Key
    <3>3. QED
      BY <2>3, <3>1, <3>2
  <2>6. QED
    BY <2>4, <2>5 DEF MarkerIsBacked, Key
<1>3. ASSUME NEW w \in Worker, WorkerStep(w) \/ WorkerFails(w) PROVE MarkerIsBacked'
  <2>1. UNCHANGED <<marker, dl>>
    BY <1>3 DEF WorkerStep, WorkerFails, Receive, Guard, FindMatchingRules, StoreQueuedWebhook, PutEntry,
                QueueLaunch, MarkProcessed, Ack, ingest
  <2>2. event' = event \/ event' = [event EXCEPT ![wk[w].ev] = "processed"]
    BY <1>3 DEF WorkerStep, WorkerFails, Receive, Guard, FindMatchingRules, StoreQueuedWebhook, PutEntry,
                QueueLaunch, MarkProcessed, Ack
  <2>3. QED
    BY <1>1, <1>t, <2>1, <2>2
<1>4. ASSUME UNCHANGED <<marker, dl, event>> PROVE MarkerIsBacked'
  BY <1>1, <1>4
<1>5. ASSUME NEW d \in Delivery, Reappear(d) \/ ReappearEarly(d) PROVE MarkerIsBacked'
  BY <1>4, <1>5 DEF Reappear, ReappearEarly
<1>6. ASSUME NEW q \in Req, RequestStarts(q) \/ RequestProceeds(q) PROVE MarkerIsBacked'
  BY <1>4, <1>6 DEF RequestStarts, RequestProceeds, Pause, Delete, Activate, SetStatus, FindItem, CancelItem,
     ReadQueue, Flip, ReleaseEntry, ReleaseSend, ReleaseDone, pipeline, ingest
<1>7. QED
  BY <1>2, <1>3, <1>4, <1>5, <1>6 DEF Next, Rest, vars

(* A delivery that was answered is kept, or failed behind its marker, when *)
(* the platform's ids tell its events apart.                               *)
THEOREM AcceptedKept == ASSUME OwnKeys PROVE Spec => []AcceptedIsKept
<1>1. Init => TypeInv /\ MarkerIsBacked
  BY WebhookInit, MarkerInit
<1>2. TypeInv /\ MarkerIsBacked /\ [Next]_vars => TypeInv' /\ MarkerIsBacked'
  BY WebhookTypeStep, MarkerStep
<1>3. TypeInv /\ MarkerIsBacked => AcceptedIsKept
  <2>1. SUFFICES ASSUME TypeInv, MarkerIsBacked, NEW d \in Delivery, dl[d].reply \in {"stored", "duplicate"}
                 PROVE  \E e \in SameEvent(d) : Kept(e) \/ FailedBehindMarker(e)
    BY DEF AcceptedIsKept
  <2>2. CASE dl[d].reply = "stored"
    BY <2>1, <2>2 DEF MarkerIsBacked, SameEvent, Kept
  <2>3. CASE dl[d].reply = "duplicate"
    <3>1. Key(d) # None
      BY <2>1, <2>3 DEF MarkerIsBacked, TypeInv, TypeOK
    <3>2. PICK e \in Delivery : Key(e) = Key(d) /\ (Kept(e) \/ FailedBehindMarker(e))
      BY <2>1, <2>3 DEF MarkerIsBacked, Backed
    <3>3. e \in SameEvent(d)
      BY <3>1, <3>2, OwnKeys DEF OwnKeys, SameEvent
    <3>4. QED
      BY <3>2, <3>3
  <2>4. QED
    BY <2>1, <2>2, <2>3
<1>4. QED
  BY <1>1, <1>2, <1>3, PTL DEF Spec

----------------------------------------------------------------------------
(* The guard.  A message is visible while a worker holds it, or held by    *)
(* two, only after it reappeared early.                                    *)
OverlapIsEarly ==
  /\ \A d \in Delivery : msg[d].state = "visible" /\ Held(d) => d \in hist.early
  /\ \A v \in Worker, w \in Worker : v # w /\ wk[v].ev = wk[w].ev /\ wk[w].pc # "idle" => wk[w].ev \in hist.early
  /\ ReprocessedOnlyIfOverlapped

LEMMA OverlapInit == Init => OverlapIsEarly
  BY DEF Init, OverlapIsEarly, ReprocessedOnlyIfOverlapped, IdleWorker

(* A worker keeps its message through a job: what a step of another part,  *)
(* or a move within the job, leaves as it was.                             *)
LEMMA OverlapKept ==
  ASSUME OverlapIsEarly, \A v \in Worker : wk'[v].ev = wk[v].ev /\ (wk'[v].pc = "idle" <=> wk[v].pc = "idle"),
         \A d \in Delivery : msg'[d].state = "visible" => msg[d].state = "visible" \/ ~Held(d) \/ d \in hist'.early,
         hist.early \subseteq hist'.early,
         ReprocessedOnlyIfOverlapped'
  PROVE  OverlapIsEarly'
  BY DEF OverlapIsEarly, Held

(* A move within the job, with the event's mark as it was or set now.      *)
LEMMA OverlapMove ==
  ASSUME TypeInv, OverlapIsEarly, NEW w \in Worker, NEW f \in WorkerState, SetWk(w, f),
         wk[w].pc # "idle", f.pc # "idle", f.ev = wk[w].ev, UNCHANGED msg, hist'.early = hist.early,
         \/ event' = event
         \/ event' = [event EXCEPT ![f.ev] = "processed"] /\ f.pc = "ack",
         f.pc \in {"match", "work", "send"} => event[f.ev] # "processed" \/ wk[w].pc \in {"match", "work", "send"}
  PROVE  OverlapIsEarly'
<1>t. wk \in [Worker -> WorkerState] /\ event \in [Delivery -> {"none", "stored", "processed"}]
      /\ \A v \in Worker : wk[v].pc # "idle" => wk[v].ev \in Delivery
  BY DEF TypeInv, TypeOK, WorkersHoldMessages
<1>1. wk'[w] = f /\ \A v \in Worker \ {w} : wk'[v] = wk[v]
  BY <1>t DEF SetWk
<1>2. \A v \in Worker : wk'[v].ev = wk[v].ev /\ (wk'[v].pc = "idle" <=> wk[v].pc = "idle")
  BY <1>1
<1>3. ASSUME NEW v \in Worker, wk'[v].pc \in {"match", "work", "send"}, event'[wk'[v].ev] = "processed"
      PROVE  wk'[v].ev \in hist'.early
  <2>1. CASE event' = event
    BY <1>1, <1>3, <2>1 DEF OverlapIsEarly, ReprocessedOnlyIfOverlapped
  <2>2. CASE event' = [event EXCEPT ![f.ev] = "processed"] /\ f.pc = "ack"
    <3>1. v # w /\ wk'[v] = wk[v] /\ wk[v].pc # "idle" /\ wk[v].ev \in Delivery
      BY <1>t, <1>1, <1>3, <2>2
    <3>2. CASE wk[v].ev = f.ev
      BY <3>1, <3>2 DEF OverlapIsEarly
    <3>3. CASE wk[v].ev # f.ev
      <4>1. event[wk[v].ev] = "processed"
        BY <1>t, <1>3, <2>2, <3>1, <3>3
      <4>2. QED
        BY <1>3, <3>1, <4>1 DEF OverlapIsEarly, ReprocessedOnlyIfOverlapped
    <3>4. QED
      BY <3>2, <3>3
  <2>3. QED
    BY <2>1, <2>2
<1>4. ReprocessedOnlyIfOverlapped'
  BY <1>3 DEF ReprocessedOnlyIfOverlapped
<1>5. QED
  BY <1>2, <1>4, OverlapKept

LEMMA OverlapStep ==
  ASSUME TypeInv, OverlapIsEarly, [Next]_vars PROVE OverlapIsEarly'
<1>t. /\ wk \in [Worker -> WorkerState] /\ event \in [Delivery -> {"none", "stored", "processed"}]
      /\ msg \in [Delivery -> MessageState] /\ hist \in HistState /\ MessagesAreSent
      /\ \A w \in Worker : wk[w].pc # "idle" => wk[w].ev \in Delivery /\ Sent(wk[w].ev)
      /\ \A w \in Worker : wk[w].pc = "idle" => wk[w].ev = None
      /\ ReprocessedOnlyIfOverlapped
  BY DEF TypeInv, TypeOK, WorkersHoldMessages, IdleWorker, OverlapIsEarly
<1>0. ASSUME UNCHANGED <<wk, event>>, hist.early \subseteq hist'.early PROVE ReprocessedOnlyIfOverlapped'
  BY <1>t, <1>0 DEF ReprocessedOnlyIfOverlapped
<1>1. ASSUME UNCHANGED <<wk, msg, event>>, hist'.early = hist.early PROVE OverlapIsEarly'
  BY <1>0, <1>1, OverlapKept
<1>2. ASSUME NEW d \in Delivery, DeliveryStep(d) \/ HandlerFails(d) PROVE OverlapIsEarly'
  <2>1. CASE PutMarker(d) \/ HandlerFails(d)
    BY <1>1, <2>1 DEF PutMarker, HandlerFails, worker
  <2>2. CASE PutEvent(d)
    <3>1. UNCHANGED <<wk, msg, hist>> /\ event' = [event EXCEPT ![d] = "stored"]
      BY <2>2 DEF PutEvent, worker
    <3>2. ReprocessedOnlyIfOverlapped'
      BY <1>t, <3>1 DEF ReprocessedOnlyIfOverlapped
    <3>3. QED
      BY <3>1, <3>2, OverlapKept
  <2>3. CASE Enqueue(d)
    <3>1. /\ UNCHANGED <<wk, event, hist>> /\ dl[d].pc # "done"
          /\ \/ msg' = msg
             \/ msg' = [msg EXCEPT ![d].state = "visible"]
      BY <2>3 DEF Enqueue, worker
    <3>2. ~Held(d)
      <4>1. msg[d].state = "none"
        BY <1>t, <3>1 DEF MessagesAreSent
      <4>2. d # None
        BY WebhookAssumption
      <4>3. QED
        BY <1>t, <4>1, <4>2 DEF Held, Sent
    <3>3. \A e \in Delivery \ {d} : msg'[e] = msg[e]
      BY <1>t, <3>1
    <3>4. ReprocessedOnlyIfOverlapped'
      BY <1>0, <3>1
    <3>5. \A e \in Delivery : msg'[e].state = "visible" => msg[e].state = "visible" \/ ~Held(e) \/ e \in hist'.early
      BY <3>2, <3>3
    <3>6. QED
      BY <3>1, <3>4, <3>5, OverlapKept
  <2>4. QED
    BY <1>2, <2>1, <2>2, <2>3 DEF DeliveryStep
<1>3. ASSUME NEW d \in Delivery, Reappear(d) \/ ReappearEarly(d) PROVE OverlapIsEarly'
  <2>1. UNCHANGED <<wk, event>>
    BY <1>3 DEF Reappear, ReappearEarly, worker
  <2>2. /\ hist.early \subseteq hist'.early /\ (~Held(d) \/ d \in hist'.early)
        /\ \A e \in Delivery \ {d} : msg'[e] = msg[e]
    BY <1>t, <1>3 DEF Reappear, ReappearEarly, HistState
  <2>3. \A e \in Delivery : msg'[e].state = "visible" => msg[e].state = "visible" \/ ~Held(e) \/ e \in hist'.early
    BY <2>2
  <2>4. ReprocessedOnlyIfOverlapped'
    BY <1>0, <2>1, <2>2
  <2>5. QED
    BY <2>1, <2>2, <2>3, <2>4, OverlapKept
<1>4. ASSUME NEW w \in Worker, WorkerStep(w) \/ WorkerFails(w) PROVE OverlapIsEarly'
  <2>t. wk[w] \in WorkerState
    BY <1>t
  <2>1. ASSUME NEW d \in Delivery, Receive(w, d) PROVE OverlapIsEarly'
    <3> DEFINE f == [IdleWorker EXCEPT !.pc = "guard", !.ev = d]
               g == [state |-> "hidden", received |-> msg[d].received + 1]
    <3>1. /\ SetWk(w, f) /\ msg' = [msg EXCEPT ![d] = g] /\ UNCHANGED <<event, hist>>
          /\ msg[d].state = "visible" /\ f.pc = "guard" /\ f.ev = d /\ g.state = "hidden"
          /\ wk[w].pc = "idle"
      BY <2>1 DEF Receive, IdleWorker
    <3> HIDE DEF f, g
    <3>2. /\ wk'[w] = f /\ \A v \in Worker \ {w} : wk'[v] = wk[v]
          /\ msg'[d] = g /\ \A e \in Delivery \ {d} : msg'[e] = msg[e]
      BY <1>t, <3>1 DEF SetWk
    <3>3. \A e \in Delivery : msg'[e].state = "visible" /\ Held(e)' => e \in hist'.early
      BY <3>1, <3>2 DEF Held, OverlapIsEarly
    <3>4. \A v \in Worker \ {w} : wk[v].ev = d => d \in hist.early
      BY <3>1 DEF OverlapIsEarly, Held
    <3>5. \A v \in Worker, u \in Worker : v # u /\ wk'[v].ev = wk'[u].ev /\ wk'[u].pc # "idle" => wk'[u].ev \in hist'.early
      <4>1. SUFFICES ASSUME NEW v \in Worker, NEW u \in Worker, v # u, wk'[v].ev = wk'[u].ev, wk'[u].pc # "idle"
                     PROVE  wk'[u].ev \in hist'.early
        OBVIOUS
      <4>2. CASE u = w
        BY <3>1, <3>2, <3>4, <4>1, <4>2
      <4>3. CASE v = w
        BY <3>1, <3>2, <3>4, <4>1, <4>3
      <4>4. CASE u # w /\ v # w
        BY <3>1, <3>2, <4>1, <4>4 DEF OverlapIsEarly
      <4>5. QED
        BY <4>2, <4>3, <4>4
    <3>6. ReprocessedOnlyIfOverlapped'
      BY <1>t, <3>1, <3>2 DEF ReprocessedOnlyIfOverlapped
    <3>7. QED
      BY <3>3, <3>5, <3>6 DEF OverlapIsEarly
  <2>2. CASE Guard(w)
    <3> DEFINE f == [wk[w] EXCEPT !.pc = IF event[wk[w].ev] = "processed" THEN "ack" ELSE "match"]
    <3>1. /\ f \in WorkerState /\ f.pc \in {"ack", "match"} /\ f.ev = wk[w].ev
          /\ f.pc = "match" => event[wk[w].ev] # "processed"
      BY <2>t DEF WorkerState
    <3>2. SetWk(w, f) /\ UNCHANGED <<event, msg, hist>> /\ wk[w].pc = "guard"
      BY <2>2 DEF Guard
    <3> HIDE DEF f
    <3>3. QED
      BY <3>1, <3>2, OverlapMove
  <2>3. CASE FindMatchingRules(w)
    <3>0. wk[w].pc = "match" /\ UNCHANGED <<event, msg, hist>>
      BY <2>3 DEF FindMatchingRules
    <3>m. \A s \in RuleStatus : Matched(w, s) \subseteq Rule
      BY <1>t, <3>0, WebhookAssumption DEF Matched
    <3> DEFINE f == [wk[w] EXCEPT !.pc = "work", !.store = Matched(w, "paused"), !.fire = Matched(w, "active")]
    <3>1. f \in WorkerState /\ f.pc = "work" /\ f.ev = wk[w].ev
      BY <2>t, <3>m DEF WorkerState, RuleStatus
    <3>2. SetWk(w, f)
      BY <2>3 DEF FindMatchingRules
    <3> HIDE DEF f
    <3>3. QED
      BY <3>0, <3>1, <3>2, OverlapMove
  <2>4. CASE StoreQueuedWebhook(w)
    <3> DEFINE f == [wk[w] EXCEPT !.store = @ \ {First(wk[w].store)}]
    <3>1. f \in WorkerState /\ f.pc = wk[w].pc /\ f.ev = wk[w].ev
      BY <2>t DEF WorkerState
    <3>2. SetWk(w, f) /\ UNCHANGED <<event, msg>> /\ wk[w].pc = "work"
      BY <2>4 DEF StoreQueuedWebhook
    <3>3. hist'.early = hist.early
      BY <1>t, <2>4 DEF StoreQueuedWebhook, HistState
    <3> HIDE DEF f
    <3>4. QED
      BY <3>1, <3>2, <3>3, OverlapMove
  <2>5. CASE PutEntry(w)
    <3> DEFINE f == [wk[w] EXCEPT !.pc = "send", !.at = First(wk[w].fire)]
    <3>0. First(wk[w].fire) \in Rule
      BY <2>t, <2>5, FirstIsLeast, WebhookAssumption DEF PutEntry, WorkerState
    <3>1. f \in WorkerState /\ f.pc = "send" /\ f.ev = wk[w].ev
      BY <2>t, <3>0 DEF WorkerState
    <3>2. SetWk(w, f) /\ UNCHANGED <<event, msg>> /\ wk[w].pc = "work"
      BY <2>5 DEF PutEntry
    <3>3. hist'.early = hist.early
      BY <1>t, <2>5 DEF PutEntry, HistState
    <3> HIDE DEF f
    <3>4. QED
      BY <3>1, <3>2, <3>3, OverlapMove
  <2>6. CASE QueueLaunch(w)
    <3> DEFINE f == [wk[w] EXCEPT !.pc = "work", !.fire = @ \ {wk[w].at}, !.at = None]
    <3>1. f \in WorkerState /\ f.pc = "work" /\ f.ev = wk[w].ev
      BY <2>t DEF WorkerState
    <3>2. SetWk(w, f) /\ UNCHANGED <<event, msg>> /\ wk[w].pc = "send"
      BY <2>6 DEF QueueLaunch
    <3>3. hist'.early = hist.early
      BY <1>t, <2>6 DEF QueueLaunch, HistState
    <3> HIDE DEF f
    <3>4. QED
      BY <3>1, <3>2, <3>3, OverlapMove
  <2>7. CASE MarkProcessed(w)
    <3> DEFINE f == [wk[w] EXCEPT !.pc = "ack"]
    <3>1. f \in WorkerState /\ f.pc = "ack" /\ f.ev = wk[w].ev
      BY <2>t DEF WorkerState
    <3>2. SetWk(w, f) /\ UNCHANGED <<msg, hist>> /\ wk[w].pc = "work"
          /\ event' = [event EXCEPT ![f.ev] = "processed"]
      BY <2>7, <3>1 DEF MarkProcessed
    <3> HIDE DEF f
    <3>3. QED
      BY <3>1, <3>2, OverlapMove
  <2>8. CASE Ack(w) \/ WorkerFails(w)
    <3>1. /\ SetWk(w, IdleWorker) /\ UNCHANGED <<event, hist>> /\ wk[w].pc # "idle"
          /\ \A e \in Delivery : msg'[e].state = "visible" => msg[e].state = "visible"
      <4>1. CASE WorkerFails(w)
        BY <4>1 DEF WorkerFails
      <4>2. CASE Ack(w)
        <5>1. wk[w].ev \in Delivery /\ MsgTo(wk[w].ev, "deleted")
          BY <1>t, <4>2 DEF Ack, MsgTo
        <5>2. msg'[wk[w].ev].state = "deleted" /\ \A e \in Delivery \ {wk[w].ev} : msg'[e] = msg[e]
          BY <1>t, <5>1, MsgToSets
        <5>3. QED
          BY <4>2, <5>2 DEF Ack
      <4>3. QED
        BY <2>8, <4>1, <4>2
    <3>2. wk'[w] = IdleWorker /\ \A v \in Worker \ {w} : wk'[v] = wk[v]
      BY <1>t, <3>1 DEF SetWk
    <3>3. IdleWorker.pc = "idle" /\ IdleWorker.ev = None
      BY DEF IdleWorker
    <3>4. \A e \in Delivery : Held(e)' => Held(e)
      BY <3>2, <3>3, WebhookAssumption DEF Held
    <3>5. \A v \in Worker, u \in Worker : v # u /\ wk'[v].ev = wk'[u].ev /\ wk'[u].pc # "idle" => wk'[u].ev \in hist'.early
      <4>1. SUFFICES ASSUME NEW v \in Worker, NEW u \in Worker, v # u, wk'[v].ev = wk'[u].ev, wk'[u].pc # "idle"
                     PROVE  wk'[u].ev \in hist'.early
        OBVIOUS
      <4>2. u # w /\ wk'[u] = wk[u] /\ wk[u].ev \in Delivery
        BY <1>t, <3>2, <3>3, <4>1
      <4>3. v # w
        BY <3>2, <3>3, <4>1, <4>2, WebhookAssumption
      <4>4. QED
        BY <3>1, <3>2, <4>1, <4>2, <4>3 DEF OverlapIsEarly
    <3>6. ReprocessedOnlyIfOverlapped'
      BY <1>t, <3>1, <3>2, <3>3 DEF ReprocessedOnlyIfOverlapped
    <3>7. QED
      BY <3>1, <3>4, <3>5, <3>6 DEF OverlapIsEarly
  <2>9. QED
    BY <1>4, <2>1, <2>2, <2>3, <2>4, <2>5, <2>6, <2>7, <2>8 DEF WorkerStep
<1>5. ASSUME NEW q \in Req, RequestStarts(q) \/ RequestProceeds(q) PROVE OverlapIsEarly'
  <2>1. UNCHANGED <<wk, msg, event>>
    BY <1>5 DEF RequestStarts, RequestProceeds, Pause, Delete, Activate, SetStatus, FindItem, CancelItem,
       ReadQueue, Flip, ReleaseEntry, ReleaseSend, ReleaseDone, pipeline, ingest
  <2>2. hist'.early = hist.early
    BY <1>t, <1>5 DEF RequestStarts, RequestProceeds, Pause, Delete, Activate, SetStatus, FindItem, CancelItem,
       ReadQueue, Flip, ReleaseEntry, ReleaseSend, ReleaseDone, HistState
  <2>3. QED
    BY <1>1, <2>1, <2>2
<1>6. QED
  BY <1>1, <1>2, <1>3, <1>4, <1>5 DEF Next, Rest, vars

(* A worker is at the rules of a processed event only if its message       *)
(* reappeared while another worker was at it.                              *)
THEOREM RedeliveryFindsTheMark == Spec => []ReprocessedOnlyIfOverlapped
<1>1. Init => TypeInv /\ OverlapIsEarly
  BY WebhookInit, OverlapInit
<1>2. TypeInv /\ OverlapIsEarly /\ [Next]_vars => TypeInv' /\ OverlapIsEarly'
  BY WebhookTypeStep, OverlapStep
<1>3. OverlapIsEarly => ReprocessedOnlyIfOverlapped
  BY DEF OverlapIsEarly
<1>4. QED
  BY <1>1, <1>2, <1>3, PTL DEF Spec

----------------------------------------------------------------------------
(* The mark.  What a worker has read off the rules it still has to do or   *)
(* has done: a rule it passes over had been deleted.                       *)
Fired(d, r) == hist.fired[<<d, r>>] > 0
HasItem(d, r) == \E i \in Item : item[i].ev = d /\ item[i].rule = r
Done(d, r) == Fired(d, r) \/ HasItem(d, r)
Passed == \A r \in Rule : rule[r] = "disabled" => r \in hist.deleted
WorkIsTracked ==
  \A w \in Worker : wk[w].pc \in {"work", "send"} =>
    \A r \in Matches[EventOf[wk[w].ev]] \ hist.deleted :
      r \in wk[w].store \cup wk[w].fire \/ Done(wk[w].ev, r)
MarkedIsDone ==
  \A d \in Delivery : event[d] = "processed" => \A r \in Matches[EventOf[d]] \ hist.deleted : Done(d, r)
MarkIsEarned == Passed /\ WorkIsTracked /\ MarkedIsDone

LEMMA MarkInit == Init => MarkIsEarned
  BY DEF Init, MarkIsEarned, Passed, WorkIsTracked, MarkedIsDone, IdleWorker

(* What a rule was given stays given, and a deletion is not forgotten.     *)
WillBeDone(d, r) == hist'.fired[<<d, r>>] > 0 \/ \E i \in Item : item'[i].ev = d /\ item'[i].rule = r
ItemStays == \A d \in Delivery, i \in Item : item[i].ev = d => item'[i].ev = d /\ item'[i].rule = item[i].rule
FiredStays == \A d \in Delivery, r \in Rule : hist.fired[<<d, r>>] > 0 => hist'.fired[<<d, r>>] > 0
DoneStays == \A d \in Delivery, r \in Rule : Done(d, r) => WillBeDone(d, r)
DeletedStays == hist.deleted \subseteq hist'.deleted

LEMMA StaysDone ==
  ASSUME ItemStays, FiredStays PROVE DoneStays
<1>1. ASSUME NEW d \in Delivery, NEW r \in Rule, Fired(d, r) PROVE WillBeDone(d, r)
  BY <1>1 DEF Fired, FiredStays, WillBeDone
<1>2. ASSUME NEW d \in Delivery, NEW r \in Rule, HasItem(d, r) PROVE WillBeDone(d, r)
  <2>1. \E i \in Item : item'[i].ev = d /\ item'[i].rule = r
    BY <1>2 DEF HasItem, ItemStays
  <2>2. QED
    BY <2>1 DEF WillBeDone
<1>3. QED
  BY <1>1, <1>2 DEF DoneStays, Done

LEMMA ItemsStay ==
  ASSUME TypeInv, UNCHANGED item \/ ItemsGrow \/ Restatus, FiredStays
  PROVE  DoneStays
<1>1. ASSUME NEW d \in Delivery, NEW i \in Item, item[i].ev = d
      PROVE  item'[i].ev = d /\ item'[i].rule = item[i].rule
  <2>1. NoItem.ev \notin Delivery /\ item \in [Item -> ItemState]
    BY WebhookAssumption DEF NoItem, TypeInv
  <2>2. item[i] # NoItem /\ item[i] \in ItemState
    BY <1>1, <2>1
  <2>3. CASE item'[i] = item[i]
    BY <1>1, <2>3
  <2>4. CASE \E s \in ItemStatus \ {"none"} : item'[i] = [item[i] EXCEPT !.status = s]
    BY <1>1, <2>2, <2>4 DEF ItemState
  <2>5. QED
    BY <2>2, <2>3, <2>4 DEF ItemsGrow, Restatus
<1>2. QED
  BY <1>1, StaysDone DEF ItemStays

(* A step that keeps what is done, sets no mark and takes no worker past a *)
(* rule.                                                                   *)
LEMMA MarkKept ==
  ASSUME TypeInv, MarkIsEarned, DoneStays, DeletedStays, Passed',
         \A d \in Delivery : event'[d] = "processed" => event[d] = "processed",
         WorkIsTracked'
  PROVE  MarkIsEarned'
<1>1. \A d \in Delivery, r \in Rule : Done(d, r) => Done(d, r)'
  BY DEF DoneStays, WillBeDone, Done, Fired, HasItem
<1>2. MarkedIsDone'
  BY <1>1, WebhookAssumption DEF MarkIsEarned, MarkedIsDone, DeletedStays
<1>3. QED
  BY <1>2 DEF MarkIsEarned

(* Worker w moves to f, the others stay.                                   *)
LEMMA TrackedMove ==
  ASSUME TypeInv, MarkIsEarned, DoneStays, DeletedStays,
         NEW w \in Worker, NEW f \in WorkerState, SetWk(w, f),
         f.pc \in {"work", "send"} =>
           \A r \in Matches[EventOf[f.ev]] \ hist'.deleted : r \in f.store \cup f.fire \/ WillBeDone(f.ev, r)
  PROVE  WorkIsTracked'
<1>1. wk'[w] = f /\ \A v \in Worker \ {w} : wk'[v] = wk[v]
  BY DEF SetWk, TypeInv, TypeOK
<1>2. ASSUME NEW v \in Worker, wk'[v].pc \in {"work", "send"},
             NEW r \in Matches[EventOf[wk'[v].ev]] \ hist'.deleted
      PROVE  r \in wk'[v].store \cup wk'[v].fire \/ WillBeDone(wk'[v].ev, r)
  <2>1. CASE v = w
    BY <1>1, <1>2, <2>1
  <2>2. CASE v # w
    <3>1. wk'[v] = wk[v] /\ wk[v].ev \in Delivery
      BY <1>1, <1>2, <2>2 DEF TypeInv, WorkersHoldMessages
    <3>2. r \in Rule /\ r \notin hist.deleted
      BY <1>2, <3>1, WebhookAssumption DEF DeletedStays
    <3>3. r \in wk[v].store \cup wk[v].fire \/ Done(wk[v].ev, r)
      BY <1>2, <3>1, <3>2 DEF MarkIsEarned, WorkIsTracked
    <3>4. QED
      BY <3>1, <3>2, <3>3 DEF DoneStays
  <2>3. QED
    BY <2>1, <2>2
<1>3. QED
  BY <1>2 DEF WorkIsTracked, WillBeDone, Done, Fired, HasItem

LEMMA TrackedStays ==
  ASSUME TypeInv, MarkIsEarned, DoneStays, DeletedStays, UNCHANGED wk
  PROVE  WorkIsTracked'
<1>1. SUFFICES ASSUME NEW w \in Worker, wk[w].pc \in {"work", "send"},
                      NEW r \in Matches[EventOf[wk[w].ev]] \ hist'.deleted
               PROVE  r \in wk[w].store \cup wk[w].fire \/ WillBeDone(wk[w].ev, r)
  BY DEF WorkIsTracked, WillBeDone, Done, Fired, HasItem
<1>2. wk[w].ev \in Delivery
  BY <1>1 DEF TypeInv, WorkersHoldMessages
<1>3. r \in Rule /\ r \notin hist.deleted
  BY <1>1, <1>2, WebhookAssumption DEF DeletedStays
<1>4. QED
  BY <1>1, <1>2, <1>3 DEF MarkIsEarned, WorkIsTracked, DoneStays

LEMMA MarkStep ==
  ASSUME TypeInv, MarkIsEarned, [Next]_vars PROVE MarkIsEarned'
<1>t. /\ wk \in [Worker -> WorkerState] /\ event \in [Delivery -> {"none", "stored", "processed"}]
      /\ hist \in HistState /\ item \in [Item -> ItemState] /\ rule \in [Rule -> RuleStatus]
      /\ \A w \in Worker : wk[w].pc # "idle" => wk[w].ev \in Delivery
      /\ Passed /\ WorkIsTracked /\ MarkedIsDone
  BY DEF TypeInv, TypeOK, WorkersHoldMessages, MarkIsEarned
<1>m. \A w \in Worker, r \in Rule :
        wk[w].pc # "idle" /\ r \in Matches[EventOf[wk[w].ev]] => <<wk[w].ev, r>> \in Pair
  BY <1>t DEF Pair
<1>s. UNCHANGED <<item, hist>> => DoneStays /\ DeletedStays
  BY ItemsStay DEF DeletedStays, FiredStays
<1>p. UNCHANGED rule /\ DeletedStays => Passed'
  BY <1>t DEF Passed, DeletedStays
<1>1. ASSUME UNCHANGED <<wk, item, rule>>, hist'.fired = hist.fired, hist'.deleted = hist.deleted,
             \A d \in Delivery : event'[d] = "processed" => event[d] = "processed"
      PROVE  MarkIsEarned'
  <2>1. DoneStays /\ DeletedStays
    BY <1>1, ItemsStay DEF DeletedStays, FiredStays
  <2>2. QED
    BY <1>p, <1>1, <2>1, TrackedStays, MarkKept
<1>2. ASSUME NEW d \in Delivery, DeliveryStep(d) \/ HandlerFails(d) PROVE MarkIsEarned'
  <2>1. UNCHANGED <<wk, item, rule, hist>>
    BY <1>2 DEF DeliveryStep, HandlerFails, PutMarker, PutEvent, Enqueue, worker
  <2>2. event' = event \/ event' = [event EXCEPT ![d] = "stored"]
    BY <1>2 DEF DeliveryStep, HandlerFails, PutMarker, PutEvent, Enqueue
  <2>3. \A e \in Delivery : event'[e] = "processed" => event[e] = "processed"
    BY <1>t, <2>2
  <2>4. QED
    BY <1>1, <2>1, <2>3
<1>3. ASSUME NEW d \in Delivery, Reappear(d) \/ ReappearEarly(d) PROVE MarkIsEarned'
  <2>1. UNCHANGED <<wk, item, rule, event>>
    BY <1>3 DEF Reappear, ReappearEarly, worker
  <2>2. hist'.fired = hist.fired /\ hist'.deleted = hist.deleted
    BY <1>t, <1>3 DEF Reappear, ReappearEarly, HistState
  <2>3. QED
    BY <1>1, <2>1, <2>2
<1>4. ASSUME NEW w \in Worker, WorkerStep(w) \/ WorkerFails(w) PROVE MarkIsEarned'
  <2>t. wk[w] \in WorkerState
    BY <1>t
  <2>1. ASSUME (\E d \in Delivery : Receive(w, d)) \/ Guard(w) \/ Ack(w) \/ WorkerFails(w)
        PROVE  MarkIsEarned'
    <3>1. UNCHANGED <<event, item, rule, hist>>
      BY <2>1 DEF Receive, Guard, Ack, WorkerFails
    <3>2. PICK f \in WorkerState : SetWk(w, f) /\ f.pc \notin {"work", "send"}
      <4>1. ASSUME NEW d \in Delivery, Receive(w, d)
            PROVE  \E f \in WorkerState : SetWk(w, f) /\ f.pc \notin {"work", "send"}
        <5> DEFINE f == [IdleWorker EXCEPT !.pc = "guard", !.ev = d]
        <5>1. f \in WorkerState /\ f.pc = "guard"
          BY DEF IdleWorker, WorkerState
        <5>2. SetWk(w, f)
          BY <4>1 DEF Receive
        <5> HIDE DEF f
        <5>3. QED
          BY <5>1, <5>2
      <4>2. ASSUME Guard(w) PROVE \E f \in WorkerState : SetWk(w, f) /\ f.pc \notin {"work", "send"}
        <5> DEFINE f == [wk[w] EXCEPT !.pc = IF event[wk[w].ev] = "processed" THEN "ack" ELSE "match"]
        <5>1. f \in WorkerState /\ f.pc \in {"ack", "match"}
          BY <2>t DEF WorkerState
        <5>2. SetWk(w, f)
          BY <4>2 DEF Guard
        <5> HIDE DEF f
        <5>3. QED
          BY <5>1, <5>2
      <4>3. ASSUME Ack(w) \/ WorkerFails(w)
            PROVE \E f \in WorkerState : SetWk(w, f) /\ f.pc \notin {"work", "send"}
        <5>1. IdleWorker \in WorkerState /\ IdleWorker.pc = "idle"
          BY DEF IdleWorker, WorkerState
        <5>2. SetWk(w, IdleWorker)
          BY <4>3 DEF Ack, WorkerFails
        <5>3. QED
          BY <5>1, <5>2
      <4>4. QED
        BY <2>1, <4>1, <4>2, <4>3
    <3>3. WorkIsTracked'
      BY <1>s, <3>1, <3>2, TrackedMove
    <3>4. QED
      BY <1>p, <1>s, <3>1, <3>3, MarkKept
  <2>2. CASE FindMatchingRules(w)
    <3>1. UNCHANGED <<event, item, rule, hist>> /\ wk[w].pc = "match" /\ wk[w].ev \in Delivery
      BY <1>t, <2>2 DEF FindMatchingRules
    <3> DEFINE f == [wk[w] EXCEPT !.pc = "work", !.store = Matched(w, "paused"), !.fire = Matched(w, "active")]
    <3>2. \A s \in RuleStatus : Matched(w, s) \subseteq Rule
      BY <3>1, WebhookAssumption DEF Matched
    <3>3. /\ f \in WorkerState /\ f.ev = wk[w].ev
          /\ f.store = Matched(w, "paused") /\ f.fire = Matched(w, "active")
      BY <2>t, <3>2 DEF WorkerState, RuleStatus
    <3>4. SetWk(w, f)
      BY <2>2 DEF FindMatchingRules
    <3> HIDE DEF f
    <3>5. \A r \in Matches[EventOf[f.ev]] \ hist'.deleted : r \in f.store \cup f.fire
      <4>1. SUFFICES ASSUME NEW r \in Matches[EventOf[wk[w].ev]], r \notin hist.deleted
                     PROVE  r \in Matched(w, "paused") \cup Matched(w, "active")
        BY <3>1, <3>3
      <4>2. r \in Rule
        BY <3>1, WebhookAssumption
      <4>3. rule[r] \in {"paused", "active"}
        BY <1>t, <4>1, <4>2 DEF Passed, RuleStatus
      <4>4. QED
        BY <4>3 DEF Matched
    <3>6. WorkIsTracked'
      BY <1>s, <3>1, <3>3, <3>4, <3>5, TrackedMove
    <3>7. QED
      BY <1>p, <1>s, <3>1, <3>6, MarkKept
  <2>3. CASE StoreQueuedWebhook(w)
    <3> DEFINE r == First(wk[w].store)
               f == [wk[w] EXCEPT !.store = @ \ {r}]
               g == [status |-> "queued", ev |-> wk[w].ev, rule |-> r]
    <3>1. UNCHANGED <<event, rule>> /\ SetWk(w, f) /\ wk[w].pc = "work" /\ wk[w].ev \in Delivery
      BY <1>t, <2>3 DEF StoreQueuedWebhook
    <3>2. PICK i \in Item : FreshItem(i) /\ item' = [item EXCEPT ![i] = g]
      BY <2>3 DEF StoreQueuedWebhook
    <3>3. hist'.fired = hist.fired /\ hist'.deleted = hist.deleted
      BY <1>t, <2>3 DEF StoreQueuedWebhook, HistState
    <3>4. /\ f \in WorkerState /\ f.ev = wk[w].ev /\ f.store = wk[w].store \ {r} /\ f.fire = wk[w].fire
          /\ g.ev = wk[w].ev /\ g.rule = r
      BY <2>t DEF WorkerState
    <3>5. item[i] = NoItem
      BY <3>2 DEF FreshItem, TypeInv
    <3> HIDE DEF f, g, r
    <3>6. item'[i] = g /\ \A j \in Item \ {i} : item'[j] = item[j]
      BY <1>t, <3>2
    <3>7. DoneStays /\ DeletedStays
      <4>1. ASSUME NEW d \in Delivery, NEW j \in Item, item[j].ev = d
            PROVE  item'[j].ev = d /\ item'[j].rule = item[j].rule
        <5>1. j # i
          BY <3>5, <4>1, WebhookAssumption DEF NoItem
        <5>2. QED
          BY <3>6, <4>1, <5>1
      <4>2. QED
        BY <3>3, <4>1, StaysDone DEF ItemStays, FiredStays, DeletedStays
    <3>8. WillBeDone(wk[w].ev, r)
      BY <3>4, <3>6 DEF WillBeDone
    <3>9. \A x \in Matches[EventOf[f.ev]] \ hist'.deleted : x \in f.store \cup f.fire \/ WillBeDone(f.ev, x)
      <4>1. SUFFICES ASSUME NEW x \in Matches[EventOf[wk[w].ev]], x \notin hist.deleted
                     PROVE  x \in (wk[w].store \ {r}) \cup wk[w].fire \/ WillBeDone(wk[w].ev, x)
        BY <3>3, <3>4
      <4>2. x \in Rule
        BY <3>1, WebhookAssumption
      <4>3. x \in wk[w].store \cup wk[w].fire \/ Done(wk[w].ev, x)
        BY <1>t, <3>1, <4>1 DEF WorkIsTracked
      <4>4. QED
        BY <3>1, <3>7, <3>8, <4>2, <4>3 DEF DoneStays
    <3>10. WorkIsTracked'
      BY <3>1, <3>4, <3>7, <3>9, TrackedMove
    <3>11. QED
      BY <1>p, <3>1, <3>7, <3>10, MarkKept
  <2>4. CASE PutEntry(w)
    <3> DEFINE f == [wk[w] EXCEPT !.pc = "send", !.at = First(wk[w].fire)]
    <3>0. First(wk[w].fire) \in Rule
      BY <2>t, <2>4, FirstIsLeast, WebhookAssumption DEF PutEntry, WorkerState
    <3>1. f \in WorkerState /\ f.ev = wk[w].ev /\ f.store = wk[w].store /\ f.fire = wk[w].fire
      BY <2>t, <3>0 DEF WorkerState
    <3>2. SetWk(w, f) /\ UNCHANGED <<event, item, rule>> /\ wk[w].pc = "work"
      BY <2>4 DEF PutEntry
    <3>3. hist'.fired = hist.fired /\ hist'.deleted = hist.deleted
      BY <1>t, <2>4 DEF PutEntry, HistState
    <3> HIDE DEF f
    <3>4. DoneStays /\ DeletedStays
      BY <3>2, <3>3, ItemsStay DEF DeletedStays, FiredStays
    <3>5. \A x \in Matches[EventOf[f.ev]] \ hist'.deleted : x \in f.store \cup f.fire \/ WillBeDone(f.ev, x)
      <4>1. SUFFICES ASSUME NEW x \in Matches[EventOf[wk[w].ev]], x \notin hist.deleted
                     PROVE  x \in wk[w].store \cup wk[w].fire \/ WillBeDone(wk[w].ev, x)
        BY <3>1, <3>3
      <4>2. x \in Rule /\ wk[w].ev \in Delivery
        BY <1>t, <3>2, WebhookAssumption
      <4>3. QED
        BY <1>t, <3>2, <3>4, <4>1, <4>2 DEF WorkIsTracked, DoneStays
    <3>6. WorkIsTracked'
      BY <3>1, <3>2, <3>4, <3>5, TrackedMove
    <3>7. QED
      BY <1>p, <3>2, <3>4, <3>6, MarkKept
  <2>5. CASE QueueLaunch(w)
    <3> DEFINE r == wk[w].at
               f == [wk[w] EXCEPT !.pc = "work", !.fire = @ \ {wk[w].at}, !.at = None]
               c == [hist.jobs EXCEPT ![Job(w, r)] = @ + 1]
               b == [hist.fired EXCEPT ![Job(w, r)] = @ + 1]
    <3>1. SetWk(w, f) /\ UNCHANGED <<event, item, rule>> /\ wk[w].pc = "send" /\ wk[w].ev \in Delivery /\ r \in Rule
      BY <1>t, <2>5 DEF QueueLaunch, TypeInv, WorkersHoldMessages
    <3>2. f \in WorkerState /\ f.ev = wk[w].ev /\ f.store = wk[w].store /\ f.fire = wk[w].fire \ {r}
      BY <2>t DEF WorkerState
    <3>3. hist' = [hist EXCEPT !.jobs = c, !.fired = b]
      BY <2>5 DEF QueueLaunch
    <3>4. hist'.fired = b /\ hist'.deleted = hist.deleted
      BY <1>t, <3>3 DEF HistState
    <3>5. /\ hist.fired \in [Pair -> Nat] /\ Job(w, r) = <<wk[w].ev, r>> /\ <<wk[w].ev, r>> \in Pair
      BY <1>t, <3>1 DEF HistState, Job, Pair
    <3>6. b[<<wk[w].ev, r>>] > 0 /\ \A p \in Pair : hist.fired[p] > 0 => b[p] > 0
      <4>1. ASSUME NEW n \in [Pair -> Nat], NEW p \in Pair
            PROVE  [n EXCEPT ![p] = @ + 1][p] > 0 /\ \A x \in Pair : n[x] > 0 => [n EXCEPT ![p] = @ + 1][x] > 0
        OBVIOUS
      <4>2. QED
        BY <3>5, <4>1
    <3> HIDE DEF f, c, b, r
    <3>7. DoneStays /\ DeletedStays
      <4>1. \A d \in Delivery, x \in Rule : hist.fired[<<d, x>>] > 0 => hist'.fired[<<d, x>>] > 0
        BY <3>4, <3>6 DEF Pair
      <4>2. QED
        BY <3>1, <3>4, <4>1, ItemsStay DEF DeletedStays, FiredStays
    <3>8. WillBeDone(wk[w].ev, r)
      BY <3>4, <3>6 DEF WillBeDone
    <3>9. \A x \in Matches[EventOf[f.ev]] \ hist'.deleted : x \in f.store \cup f.fire \/ WillBeDone(f.ev, x)
      <4>1. SUFFICES ASSUME NEW x \in Matches[EventOf[wk[w].ev]], x \notin hist.deleted
                     PROVE  x \in wk[w].store \cup (wk[w].fire \ {r}) \/ WillBeDone(wk[w].ev, x)
        BY <3>2, <3>4
      <4>2. x \in Rule
        BY <3>1, WebhookAssumption
      <4>3. x \in wk[w].store \cup wk[w].fire \/ Done(wk[w].ev, x)
        BY <1>t, <3>1, <4>1 DEF WorkIsTracked
      <4>4. QED
        BY <3>1, <3>7, <3>8, <4>2, <4>3 DEF DoneStays
    <3>10. WorkIsTracked'
      BY <3>1, <3>2, <3>7, <3>9, TrackedMove
    <3>11. QED
      BY <1>p, <3>1, <3>7, <3>10, MarkKept
  <2>6. CASE MarkProcessed(w)
    <3> DEFINE f == [wk[w] EXCEPT !.pc = "ack"]
    <3>1. f \in WorkerState /\ f.pc = "ack"
      BY <2>t DEF WorkerState
    <3>2. /\ SetWk(w, f) /\ UNCHANGED <<item, rule, hist>> /\ wk[w].pc = "work" /\ wk[w].ev \in Delivery
          /\ wk[w].store = {} /\ wk[w].fire = {} /\ event' = [event EXCEPT ![wk[w].ev] = "processed"]
      BY <1>t, <2>6 DEF MarkProcessed
    <3> HIDE DEF f
    <3>3. WorkIsTracked'
      BY <1>s, <3>1, <3>2, TrackedMove
    <3>4. MarkedIsDone'
      <4>1. ASSUME NEW d \in Delivery, event'[d] = "processed", NEW r \in Matches[EventOf[d]] \ hist.deleted
            PROVE  Done(d, r)
        <5>1. CASE d = wk[w].ev
          BY <1>t, <3>2, <4>1, <5>1 DEF WorkIsTracked
        <5>2. CASE d # wk[w].ev
          BY <1>t, <3>2, <4>1, <5>2 DEF MarkedIsDone
        <5>3. QED
          BY <5>1, <5>2
      <4>2. \A d \in Delivery, r \in Rule : Done(d, r)' <=> Done(d, r)
        BY <3>2 DEF Done, Fired, HasItem
      <4>3. QED
        BY <3>2, <4>1, <4>2, WebhookAssumption DEF MarkedIsDone
    <3>5. QED
      BY <1>p, <1>s, <3>2, <3>3, <3>4 DEF MarkIsEarned
  <2>7. QED
    BY <1>4, <2>1, <2>2, <2>3, <2>4, <2>5, <2>6 DEF WorkerStep
<1>5. ASSUME NEW q \in Req, RequestStarts(q) \/ RequestProceeds(q) PROVE MarkIsEarned'
  <2>1. UNCHANGED <<wk, event>>
    BY <1>5 DEF RequestStarts, RequestProceeds, Pause, Delete, Activate, SetStatus, FindItem, CancelItem,
       ReadQueue, Flip, ReleaseEntry, ReleaseSend, ReleaseDone, pipeline, ingest
  <2>2. hist'.fired = hist.fired /\ DeletedStays
    <3>1. CASE Pause(q) \/ Delete(q) \/ Activate(q)
      <4>1. PICK X : hist' = [hist EXCEPT !.deleted = X] /\ hist.deleted \subseteq X
        BY <3>1 DEF Pause, Delete, Activate, SetStatus
      <4>2. QED
        BY <1>t, <4>1 DEF HistState, DeletedStays
    <3>2. CASE Flip(q) \/ CancelItem(q) \/ ReleaseEntry(q) \/ ReleaseSend(q)
      BY <1>t, <3>2 DEF Flip, CancelItem, ReleaseEntry, ReleaseSend, HistState, DeletedStays
    <3>3. CASE FindItem(q) \/ ReadQueue(q) \/ ReleaseDone(q)
      BY <3>3 DEF FindItem, ReadQueue, ReleaseDone, DeletedStays
    <3>4. QED
      BY <1>5, <3>1, <3>2, <3>3 DEF RequestStarts, RequestProceeds
  <2>3. UNCHANGED item \/ Restatus
    <3>1. CASE CancelItem(q)
      <4>1. PICK i \in Item : item[i].status # "none" /\ item' = [item EXCEPT ![i].status = "cancelled"]
        BY <3>1 DEF CancelItem
      <4>2. item[i] # NoItem
        BY <4>1 DEF NoItem
      <4>3. QED
        BY <1>t, <4>1, <4>2, OneRestatus DEF ItemStatus
    <3>2. CASE Flip(q)
      <4>1. /\ rq[q].todo # {} /\ rq[q].todo \in SUBSET Item /\ \A i \in rq[q].todo : item[i] # NoItem
            /\ item' = [item EXCEPT ![First(rq[q].todo)].status = "released"]
        BY <3>2 DEF Flip, TypeInv, TypeOK, RequestState, RequestsHoldItems
      <4>2. First(rq[q].todo) \in Item /\ item[First(rq[q].todo)] # NoItem
        BY <4>1, FirstIsLeast, WebhookAssumption
      <4>3. QED
        BY <1>t, <4>1, <4>2, OneRestatus DEF ItemStatus
    <3>3. CASE ~CancelItem(q) /\ ~Flip(q)
      BY <1>5, <3>3 DEF RequestStarts, RequestProceeds, Pause, Delete, Activate, SetStatus, FindItem,
         ReadQueue, ReleaseEntry, ReleaseSend, ReleaseDone
    <3>4. QED
      BY <3>1, <3>2, <3>3
  <2>4. DoneStays
    BY <2>2, <2>3, ItemsStay DEF FiredStays
  <2>5. Passed'
    <3>1. CASE Pause(q) \/ Delete(q) \/ Activate(q)
      <4>1. PICK k \in {"pause", "resume", "delete"}, s \in RuleStatus, r \in Rule :
              /\ rule' = [rule EXCEPT ![r] = s] /\ (s = "disabled" => k = "delete")
              /\ hist' = [hist EXCEPT !.deleted = IF k = "delete" THEN @ \cup {r} ELSE @]
        BY <3>1, WebhookAssumption DEF Pause, Delete, Activate, SetStatus, RuleStatus
      <4>2. hist'.deleted = IF k = "delete" THEN hist.deleted \cup {r} ELSE hist.deleted
        BY <1>t, <4>1 DEF HistState
      <4>3. rule'[r] = s /\ \A x \in Rule \ {r} : rule'[x] = rule[x]
        BY <1>t, <4>1
      <4>4. QED
        BY <1>t, <4>1, <4>2, <4>3 DEF Passed
    <3>2. CASE UNCHANGED rule
      BY <1>p, <2>2, <3>2
    <3>3. QED
      BY <1>5, <3>1, <3>2 DEF RequestStarts, RequestProceeds, FindItem, CancelItem,
         ReadQueue, Flip, ReleaseEntry, ReleaseSend, ReleaseDone
  <2>6. QED
    BY <2>1, <2>2, <2>4, <2>5, TrackedStays, MarkKept
<1>6. QED
  BY <1>1, <1>2, <1>3, <1>4, <1>5 DEF Next, Rest, vars

(* A processed event has reached every rule that matches it, fired or      *)
(* queued, but for the rules that were deleted.                            *)
THEOREM MarkedIsHandled == Spec => []ProcessedIsHandled
<1>1. Init => TypeInv /\ MarkIsEarned
  BY WebhookInit, MarkInit
<1>2. TypeInv /\ MarkIsEarned /\ [Next]_vars => TypeInv' /\ MarkIsEarned'
  BY WebhookTypeStep, MarkStep
<1>3. TypeInv /\ MarkIsEarned => ProcessedIsHandled
  <2>1. SUFFICES ASSUME TypeInv, MarkIsEarned, NEW d \in Delivery, event[d] = "processed",
                        NEW r \in Matches[EventOf[d]] \ hist.deleted
                 PROVE  Handled(d, r) > 0
    BY DEF ProcessedIsHandled
  <2>2. IsFiniteSet(Items(d, r)) /\ Cardinality(Items(d, r)) \in Nat
        /\ (Items(d, r) # {} => Cardinality(Items(d, r)) # 0)
    <3>1. Items(d, r) \subseteq Item
      BY DEF Items
    <3>2. IsFiniteSet(Items(d, r))
      BY <3>1, FS_Subset, WebhookAssumption
    <3>3. Cardinality(Items(d, r)) \in Nat
      BY <3>2, FS_CardinalityType
    <3>4. Items(d, r) # {} => Cardinality(Items(d, r)) # 0
      BY <3>2, FS_EmptySet
    <3>5. QED
      BY <3>2, <3>3, <3>4
  <2>3. hist.fired[<<d, r>>] \in Nat
    <3>1. r \in Rule /\ hist \in HistState
      BY <2>1, WebhookAssumption DEF TypeInv
    <3>2. <<d, r>> \in Pair /\ hist.fired \in [Pair -> Nat]
      BY <3>1 DEF HistState, Pair
    <3>3. QED
      BY <3>2
  <2>4. hist.fired[<<d, r>>] > 0 \/ Items(d, r) # {}
    <3>1. Fired(d, r) \/ HasItem(d, r)
      BY <2>1 DEF MarkIsEarned, MarkedIsDone, Done
    <3>2. QED
      BY <3>1 DEF Fired, HasItem, Items
  <2>5. QED
    <3> DEFINE c == Cardinality(Items(d, r))
               n == hist.fired[<<d, r>>]
    <3>1. c \in Nat /\ n \in Nat /\ (n > 0 \/ c # 0)
      BY <2>2, <2>3, <2>4
    <3> HIDE DEF c, n
    <3>2. n + c > 0
      BY <3>1
    <3>3. QED
      BY <3>2 DEF Handled, c, n
<1>4. QED
  BY <1>1, <1>2, <1>3, PTL DEF Spec

----------------------------------------------------------------------------
(* The queue.  A queued item of an active rule, unless it came late, is    *)
(* about to be read by a resume or among the items a request is releasing; *)
(* the item a request is at was flipped; and one that was cancelled after  *)
(* it was read has been noticed.                                           *)
Waiting(i, q) == \/ rq[q].pc = "read" /\ rq[q].rule = item[i].rule
                 \/ rq[q].pc \in {"flip", "entry", "send"} /\ i \in rq[q].todo
QueueIsWatched ==
  \A i \in Item \ hist.late : item[i].status = "queued" /\ rule[item[i].rule] = "active"
                               => \E q \in Req : Waiting(i, q)
FlippedIsGone == \A q \in Req : rq[q].pc \in {"entry", "send"} => item[First(rq[q].todo)].status # "queued"
CancelIsNoticed == \A q \in Req : \A i \in rq[q].todo : item[i].status = "cancelled" => i \in hist.raced
QueueInv == QueueIsWatched /\ FlippedIsGone /\ CancelIsNoticed

LEMMA QueueInit == Init => QueueInv
  BY DEF Init, QueueInv, QueueIsWatched, FlippedIsGone, CancelIsNoticed, NoItem, IdleReq

LEMMA QueueUnchanged ==
  ASSUME QueueInv, UNCHANGED <<rule, item, rq>>, hist'.late = hist.late, hist'.raced = hist.raced
  PROVE  QueueInv'
  BY DEF QueueInv, QueueIsWatched, FlippedIsGone, CancelIsNoticed, Waiting

(* Request q moves to f; the items and the rules are as they were.         *)
LEMMA QueueMove ==
  ASSUME TypeInv, QueueInv, NEW q \in Req, NEW f \in RequestState, SetRq(q, f), UNCHANGED <<rule, item>>,
         hist'.late = hist.late, hist'.raced = hist.raced,
         \A i \in Item : item[i].status = "queued" /\ Waiting(i, q)
                           => \/ f.pc = "read" /\ f.rule = item[i].rule
                              \/ f.pc \in {"flip", "entry", "send"} /\ i \in f.todo,
         f.pc \in {"entry", "send"} => item[First(f.todo)].status # "queued",
         \A i \in f.todo : item[i].status = "cancelled" => i \in hist.raced
  PROVE  QueueInv'
<1>1. rq'[q] = f /\ \A p \in Req \ {q} : rq'[p] = rq[p]
  BY DEF SetRq, TypeInv, TypeOK
<1>2. ASSUME NEW i \in Item \ hist.late, item[i].status = "queued", rule[item[i].rule] = "active"
      PROVE  \E p \in Req : Waiting(i, p)'
  <2>1. PICK p \in Req : Waiting(i, p)
    BY <1>2 DEF QueueInv, QueueIsWatched
  <2>2. CASE p = q
    BY <1>1, <1>2, <2>1, <2>2 DEF Waiting
  <2>3. CASE p # q
    BY <1>1, <2>1, <2>3 DEF Waiting
  <2>4. QED
    BY <2>2, <2>3
<1>3. QueueIsWatched'
  BY <1>2 DEF QueueIsWatched
<1>4. FlippedIsGone' /\ CancelIsNoticed'
  BY <1>1 DEF QueueInv, FlippedIsGone, CancelIsNoticed
<1>5. QED
  BY <1>3, <1>4 DEF QueueInv

(* Item i changes its status to s, not to "queued".                        *)
LEMMA QueueRestatus ==
  ASSUME TypeInv, QueueInv, NEW q \in Req, NEW f \in RequestState, SetRq(q, f), UNCHANGED rule,
         NEW i \in Item, NEW s \in {"released", "cancelled"}, item[i] # NoItem,
         item' = [item EXCEPT ![i].status = s], hist'.late = hist.late \ {i}, hist.raced \subseteq hist'.raced,
         f.todo = rq[q].todo,
         rq[q].pc = "flip" => f.pc = "entry" /\ First(f.todo) = i,
         rq[q].pc # "flip" => rq[q].pc = "idle" /\ f.pc = "done",
         s = "cancelled" => \A p \in Req : i \in rq[p].todo => i \in hist'.raced
  PROVE  QueueInv'
<1>0. item \in [Item -> ItemState] /\ rq \in [Req -> RequestState] /\ RequestsHoldItems
  BY DEF TypeInv, TypeOK
<1>1. rq'[q] = f /\ \A p \in Req \ {q} : rq'[p] = rq[p]
  BY <1>0 DEF SetRq
<1>2. /\ item'[i] = [item[i] EXCEPT !.status = s] /\ \A j \in Item \ {i} : item'[j] = item[j]
      /\ item'[i].status = s
  BY <1>0, OneRestatus DEF ItemStatus, ItemState
<1>3. QueueIsWatched'
  <2>1. SUFFICES ASSUME NEW j \in Item \ hist'.late, item'[j].status = "queued", rule[item'[j].rule] = "active"
                 PROVE  \E p \in Req : Waiting(j, p)'
    BY DEF QueueIsWatched
  <2>2. j # i /\ item'[j] = item[j] /\ j \in Item \ hist.late
    BY <1>2, <2>1
  <2>3. PICK p \in Req : Waiting(j, p)
    BY <2>1, <2>2 DEF QueueInv, QueueIsWatched
  <2>4. CASE p = q
    BY <1>1, <2>3, <2>4 DEF Waiting
  <2>5. CASE p # q
    BY <1>1, <2>2, <2>3, <2>5 DEF Waiting
  <2>6. QED
    BY <2>4, <2>5
<1>t. \A p \in Req : rq[p].todo \in SUBSET Item /\ (rq[p].pc \in {"entry", "send"} => rq[p].todo # {})
  BY <1>0 DEF RequestState, RequestsHoldItems
<1>4. FlippedIsGone'
  <2>1. SUFFICES ASSUME NEW p \in Req, rq'[p].pc \in {"entry", "send"}
                 PROVE  item'[First(rq'[p].todo)].status # "queued"
    BY DEF FlippedIsGone
  <2>2. CASE p = q
    BY <1>1, <1>2, <2>1, <2>2
  <2>3. CASE p # q
    <3>1. rq'[p] = rq[p] /\ First(rq[p].todo) \in Item /\ item[First(rq[p].todo)].status # "queued"
      BY <1>1, <1>t, <2>1, <2>3, FirstIsLeast, WebhookAssumption DEF QueueInv, FlippedIsGone
    <3>2. QED
      BY <1>2, <3>1
  <2>4. QED
    BY <2>2, <2>3
<1>5. CancelIsNoticed'
  <2>1. SUFFICES ASSUME NEW p \in Req, NEW j \in rq'[p].todo, item'[j].status = "cancelled"
                 PROVE  j \in hist'.raced
    BY DEF CancelIsNoticed
  <2>2. rq'[p].todo = rq[p].todo /\ j \in Item
    BY <1>1, <1>t
  <2>3. CASE j = i
    BY <1>2, <2>1, <2>2, <2>3
  <2>4. CASE j # i
    BY <1>2, <2>1, <2>2, <2>4 DEF QueueInv, CancelIsNoticed
  <2>5. QED
    BY <2>3, <2>4
<1>6. QED
  BY <1>3, <1>4, <1>5 DEF QueueInv

(* A status is set: a rule becomes active only by a resume, which will     *)
(* read its queue.                                                         *)
LEMMA QueueStatus ==
  ASSUME TypeInv, QueueInv, NEW q \in Req, NEW k \in {"pause", "resume", "delete"}, NEW s \in RuleStatus,
         SetStatus(q, k, s), s = "active" => k = "resume"
  PROVE  QueueInv'
<1>1. PICK r \in Asked :
        /\ rule' = [rule EXCEPT ![r] = s]
        /\ SetRq(q, [IdleReq EXCEPT !.rule = r, !.pc = IF k = "resume" THEN "read" ELSE "done"])
        /\ hist' = [hist EXCEPT !.deleted = IF k = "delete" THEN @ \cup {r} ELSE @]
  BY DEF SetStatus
<1> DEFINE f == [IdleReq EXCEPT !.rule = r, !.pc = IF k = "resume" THEN "read" ELSE "done"]
<1>2. r \in Rule /\ rule \in [Rule -> RuleStatus] /\ hist \in HistState /\ rq \in [Req -> RequestState]
  BY WebhookAssumption DEF TypeInv, TypeOK
<1>3. /\ f.rule = r /\ f.todo = {} /\ f.pc \in {"read", "done"} /\ (k = "resume" => f.pc = "read")
      /\ rq[q].pc = "idle" /\ UNCHANGED item
  BY DEF IdleReq, SetStatus, pipeline
<1>4. rq' = [rq EXCEPT ![q] = f]
  BY <1>1 DEF SetRq
<1> HIDE DEF f
<1>5. rq'[q] = f /\ \A p \in Req \ {q} : rq'[p] = rq[p]
  BY <1>2, <1>4
<1>6. rule'[r] = s /\ \A x \in Rule \ {r} : rule'[x] = rule[x]
  BY <1>1, <1>2
<1>7. hist'.late = hist.late /\ hist'.raced = hist.raced
  BY <1>1, <1>2 DEF HistState
<1>8. QueueIsWatched'
  <2>1. SUFFICES ASSUME NEW i \in Item \ hist.late, item[i].status = "queued", rule'[item[i].rule] = "active"
                 PROVE  \E p \in Req : Waiting(i, p)'
    BY <1>3, <1>7 DEF QueueIsWatched
  <2>2. item[i].rule \in Rule
    BY <2>1 DEF TypeInv, NoItem
  <2>3. CASE item[i].rule = r
    BY <1>3, <1>5, <1>6, <2>1, <2>3 DEF Waiting
  <2>4. CASE item[i].rule # r
    <3>1. PICK p \in Req : Waiting(i, p)
      BY <1>6, <2>1, <2>2, <2>4 DEF QueueInv, QueueIsWatched
    <3>2. p # q
      BY <1>3, <3>1 DEF Waiting
    <3>3. QED
      BY <1>3, <1>5, <3>1, <3>2 DEF Waiting
  <2>5. QED
    BY <2>3, <2>4
<1>9. FlippedIsGone' /\ CancelIsNoticed'
  BY <1>3, <1>5, <1>7 DEF QueueInv, FlippedIsGone, CancelIsNoticed
<1>10. QED
  BY <1>8, <1>9 DEF QueueInv

LEMMA QueueWorker ==
  ASSUME TypeInv, QueueInv, NEW w \in Worker, WorkerStep(w) \/ WorkerFails(w) PROVE QueueInv'
<1>t. /\ wk[w] \in WorkerState /\ hist \in HistState /\ item \in [Item -> ItemState]
      /\ rq \in [Req -> RequestState] /\ RequestsHoldItems
  BY DEF TypeInv, TypeOK
<1>1. CASE StoreQueuedWebhook(w)
  <2> DEFINE r == First(wk[w].store)
             g == [status |-> "queued", ev |-> wk[w].ev, rule |-> r]
  <2>1. UNCHANGED <<rule, rq>>
    BY <1>1 DEF StoreQueuedWebhook
  <2>2. PICK i \in Item : /\ FreshItem(i) /\ item' = [item EXCEPT ![i] = g]
                          /\ hist' = [hist EXCEPT !.late = IF rule[r] = "active" THEN @ \cup {i} ELSE @]
    BY <1>1 DEF StoreQueuedWebhook
  <2>3. g.rule = r /\ g.status = "queued" /\ item[i].status = "none" /\ item[i] = NoItem
    BY <2>2 DEF FreshItem, TypeInv
  <2>4. /\ hist.late \subseteq hist'.late /\ (rule[r] = "active" => i \in hist'.late)
        /\ hist'.raced = hist.raced
    BY <1>t, <2>2 DEF HistState
  <2> HIDE DEF g, r
  <2>5. item'[i] = g /\ \A j \in Item \ {i} : item'[j] = item[j]
    BY <1>t, <2>2
  <2>6. QueueIsWatched'
    <3>1. SUFFICES ASSUME NEW j \in Item \ hist'.late, item'[j].status = "queued", rule[item'[j].rule] = "active"
                   PROVE  \E p \in Req : Waiting(j, p)'
      BY <2>1 DEF QueueIsWatched
    <3>2. j # i
      BY <2>3, <2>4, <2>5, <3>1
    <3>3. item'[j] = item[j] /\ j \in Item \ hist.late
      BY <2>4, <2>5, <3>1, <3>2
    <3>4. PICK p \in Req : Waiting(j, p)
      BY <3>1, <3>3 DEF QueueInv, QueueIsWatched
    <3>5. QED
      BY <2>1, <3>3, <3>4 DEF Waiting
  <2>7. \A p \in Req : /\ rq[p].todo \in SUBSET Item /\ i \notin rq[p].todo
                       /\ rq[p].pc \in {"entry", "send"} => First(rq[p].todo) \in rq[p].todo
    <3>1. ASSUME NEW p \in Req
          PROVE  rq[p].todo \in SUBSET Item /\ i \notin rq[p].todo
                 /\ (rq[p].pc \in {"entry", "send"} => rq[p].todo # {})
      BY <1>t, <2>3 DEF RequestState, RequestsHoldItems
    <3>2. QED
      BY <3>1, FirstIsLeast, WebhookAssumption
  <2>8. FlippedIsGone' /\ CancelIsNoticed'
    <3>1. ASSUME NEW p \in Req, rq[p].pc \in {"entry", "send"}
          PROVE  item'[First(rq[p].todo)].status # "queued"
      BY <2>5, <2>7, <3>1 DEF QueueInv, FlippedIsGone
    <3>2. ASSUME NEW p \in Req, NEW j \in rq[p].todo, item'[j].status = "cancelled" PROVE j \in hist'.raced
      BY <2>4, <2>5, <2>7, <3>2 DEF QueueInv, CancelIsNoticed
    <3>3. QED
      BY <2>1, <3>1, <3>2 DEF FlippedIsGone, CancelIsNoticed
  <2>9. QED
    BY <2>6, <2>8 DEF QueueInv
<1>2. CASE ~StoreQueuedWebhook(w)
  <2>1. UNCHANGED <<rule, item, rq>>
    BY <1>2 DEF WorkerStep, WorkerFails, Receive, Guard, FindMatchingRules, PutEntry, QueueLaunch, MarkProcessed, Ack
  <2>2. hist'.late = hist.late /\ hist'.raced = hist.raced
    BY <1>2, <1>t DEF WorkerStep, WorkerFails, Receive, Guard, FindMatchingRules, PutEntry, QueueLaunch,
                      MarkProcessed, Ack, HistState
  <2>3. QED
    BY <2>1, <2>2, QueueUnchanged
<1>3. QED
  BY <1>1, <1>2

LEMMA QueueRequest ==
  ASSUME TypeInv, QueueInv, NEW q \in Req, RequestStarts(q) \/ RequestProceeds(q) PROVE QueueInv'
<1>t. /\ rq[q] \in RequestState /\ hist \in HistState /\ item \in [Item -> ItemState]
      /\ rq[q].pc \notin {"idle", "done"} => rq[q].rule \in Rule
      /\ rq[q].pc \in {"idle", "read", "done"} => rq[q].todo = {}
      /\ rq[q].pc \in {"entry", "send"} => rq[q].todo # {}
      /\ \A i \in rq[q].todo : item[i] # NoItem
      /\ rq[q].todo \subseteq Item
      /\ rq[q].pc \in {"entry", "send"} => item[First(rq[q].todo)].status # "queued"
      /\ \A i \in rq[q].todo : item[i].status = "cancelled" => i \in hist.raced
  BY DEF TypeInv, TypeOK, RequestsHoldItems, RequestState, QueueInv, FlippedIsGone, CancelIsNoticed
<1>1. CASE Pause(q) \/ Delete(q) \/ Activate(q)
  <2>1. CASE Pause(q)
    BY <2>1, QueueStatus DEF Pause, RuleStatus
  <2>2. CASE Delete(q)
    BY <2>2, QueueStatus DEF Delete, RuleStatus
  <2>3. CASE Activate(q)
    BY <2>3, QueueStatus DEF Activate, RuleStatus
  <2>4. QED
    BY <1>1, <2>1, <2>2, <2>3
<1>2. CASE FindItem(q)
  <2>0. PICK r \in Asked : \E i \in Queue(r) : SetRq(q, [pc |-> "flip", rule |-> r, todo |-> {i}])
    BY <1>2 DEF FindItem
  <2>1. PICK i \in Queue(r) : SetRq(q, [pc |-> "flip", rule |-> r, todo |-> {i}])
    BY <2>0
  <2> DEFINE f == [pc |-> "flip", rule |-> r, todo |-> {i}]
  <2>2. r \in Rule /\ i \in Item /\ item[i].status = "queued"
    BY WebhookAssumption DEF Queue
  <2>3. f \in RequestState /\ f.pc = "flip" /\ f.todo = {i}
    BY <2>2 DEF RequestState
  <2>4. SetRq(q, f) /\ UNCHANGED <<rule, item, hist>> /\ rq[q].pc = "idle"
    BY <1>2, <2>1 DEF FindItem
  <2> HIDE DEF f
  <2>5. \A j \in Item : ~Waiting(j, q)
    BY <2>4 DEF Waiting
  <2>6. QED
    BY <2>2, <2>3, <2>4, <2>5, QueueMove
<1>3. CASE CancelItem(q)
  <2>1. PICK i \in Item :
          /\ item[i].status # "none" /\ item' = [item EXCEPT ![i].status = "cancelled"]
          /\ hist' = [hist EXCEPT !.raced = IF \E p \in Req : i \in rq[p].todo THEN @ \cup {i} ELSE @,
                                  !.late = @ \ {i}]
    BY <1>3 DEF CancelItem
  <2> DEFINE f == [rq[q] EXCEPT !.pc = "done"]
  <2>2. rq[q].pc = "idle" /\ SetRq(q, f) /\ UNCHANGED rule
    BY <1>3 DEF CancelItem
  <2>3. f \in RequestState /\ f.pc = "done" /\ f.todo = rq[q].todo
    BY <1>t DEF RequestState
  <2> HIDE DEF f
  <2>4. /\ hist'.late = hist.late \ {i} /\ hist.raced \subseteq hist'.raced
        /\ \A p \in Req : i \in rq[p].todo => i \in hist'.raced
    BY <1>t, <2>1 DEF HistState
  <2>5. item[i] # NoItem
    BY <2>1 DEF NoItem
  <2>6. QED
    BY <2>1, <2>2, <2>3, <2>4, <2>5, QueueRestatus
<1>4. CASE ReadQueue(q)
  <2> DEFINE f == [rq[q] EXCEPT !.todo = Queue(rq[q].rule), !.pc = "flip"]
  <2>1. rq[q].pc = "read" /\ SetRq(q, f) /\ UNCHANGED <<rule, item, hist>>
    BY <1>4 DEF ReadQueue
  <2>2. f \in RequestState /\ f.pc = "flip" /\ f.todo = Queue(rq[q].rule)
    BY <1>t, <2>1 DEF RequestState, Queue
  <2> HIDE DEF f
  <2>3. \A i \in Item : item[i].status = "queued" /\ Waiting(i, q) => i \in f.todo
    BY <2>1, <2>2 DEF Waiting, Queue
  <2>4. \A i \in f.todo : item[i].status # "cancelled"
    BY <2>2 DEF Queue
  <2>5. QED
    BY <2>1, <2>2, <2>3, <2>4, QueueMove
<1>5. CASE Flip(q)
  <2> DEFINE i == First(rq[q].todo)
             f == [rq[q] EXCEPT !.pc = "entry"]
  <2>1. /\ rq[q].pc = "flip" /\ rq[q].todo # {} /\ SetRq(q, f) /\ item' = [item EXCEPT ![i].status = "released"]
        /\ UNCHANGED rule /\ hist' = [hist EXCEPT !.late = @ \ {i}]
    BY <1>5 DEF Flip
  <2>2. i \in Item /\ item[i] # NoItem
    <3>1. rq[q].todo \in SUBSET Nat
      BY <1>t, WebhookAssumption
    <3>2. i \in rq[q].todo
      BY <2>1, <3>1, FirstIsLeast
    <3>3. QED
      BY <1>t, <3>2
  <2>3. f \in RequestState /\ f.pc = "entry" /\ f.todo = rq[q].todo /\ First(f.todo) = i
    BY <1>t DEF RequestState
  <2>4. hist'.late = hist.late \ {i} /\ hist'.raced = hist.raced
    BY <1>t, <2>1 DEF HistState
  <2> HIDE DEF i, f
  <2>5. QED
    BY <2>1, <2>2, <2>3, <2>4, QueueRestatus
<1>6. CASE ReleaseEntry(q)
  <2> DEFINE f == [rq[q] EXCEPT !.pc = "send"]
  <2>1. rq[q].pc = "entry" /\ SetRq(q, f) /\ UNCHANGED <<rule, item>>
    BY <1>6 DEF ReleaseEntry
  <2>2. hist'.late = hist.late /\ hist'.raced = hist.raced
    BY <1>t, <1>6 DEF ReleaseEntry, HistState
  <2>3. f \in RequestState /\ f.pc = "send" /\ f.todo = rq[q].todo
    BY <1>t DEF RequestState
  <2> HIDE DEF f
  <2>4. \A i \in Item : Waiting(i, q) => i \in f.todo
    BY <2>1, <2>3 DEF Waiting
  <2>5. QED
    BY <1>t, <2>1, <2>2, <2>3, <2>4, QueueMove
<1>7. CASE ReleaseSend(q)
  <2> DEFINE f == [rq[q] EXCEPT !.pc = "flip", !.todo = @ \ {First(rq[q].todo)}]
  <2>1. rq[q].pc = "send" /\ SetRq(q, f) /\ UNCHANGED <<rule, item>>
    BY <1>7 DEF ReleaseSend
  <2>2. hist'.late = hist.late /\ hist'.raced = hist.raced
    BY <1>t, <1>7 DEF ReleaseSend, HistState
  <2>3. f \in RequestState /\ f.pc = "flip" /\ f.todo = rq[q].todo \ {First(rq[q].todo)}
    BY <1>t DEF RequestState
  <2> HIDE DEF f
  <2>4. \A i \in Item : item[i].status = "queued" /\ Waiting(i, q) => i \in f.todo
    BY <1>t, <2>1, <2>3 DEF Waiting
  <2>5. \A i \in f.todo : item[i].status = "cancelled" => i \in hist.raced
    BY <1>t, <2>3
  <2>6. QED
    BY <2>1, <2>2, <2>3, <2>4, <2>5, QueueMove
<1>8. CASE ReleaseDone(q)
  <2> DEFINE f == [rq[q] EXCEPT !.pc = "done"]
  <2>1. rq[q].pc = "flip" /\ rq[q].todo = {} /\ SetRq(q, f) /\ UNCHANGED <<rule, item, hist>>
    BY <1>8 DEF ReleaseDone
  <2>2. f \in RequestState /\ f.pc = "done" /\ f.todo = {}
    BY <1>t, <2>1 DEF RequestState
  <2> HIDE DEF f
  <2>3. \A i \in Item : ~Waiting(i, q)
    BY <2>1 DEF Waiting
  <2>4. QED
    BY <2>1, <2>2, <2>3, QueueMove
<1>9. QED
  BY <1>1, <1>2, <1>3, <1>4, <1>5, <1>6, <1>7, <1>8 DEF RequestStarts, RequestProceeds

LEMMA QueueStep ==
  ASSUME TypeInv, QueueInv, [Next]_vars PROVE QueueInv'
<1>1. ASSUME NEW d \in Delivery, DeliveryStep(d) \/ HandlerFails(d) PROVE QueueInv'
  BY <1>1, QueueUnchanged DEF DeliveryStep, HandlerFails, PutMarker, PutEvent, Enqueue, worker
<1>2. ASSUME NEW d \in Delivery, Reappear(d) \/ ReappearEarly(d) PROVE QueueInv'
  <2>1. UNCHANGED <<rule, item, rq>>
    BY <1>2 DEF Reappear, ReappearEarly, worker
  <2>2. hist'.late = hist.late /\ hist'.raced = hist.raced
    BY <1>2 DEF Reappear, ReappearEarly, TypeInv, HistState
  <2>3. QED
    BY <2>1, <2>2, QueueUnchanged
<1>3. CASE UNCHANGED vars
  BY <1>3, QueueUnchanged DEF vars
<1>4. QED
  BY <1>1, <1>2, <1>3, QueueWorker, QueueRequest DEF Next, Rest

LEMMA QueueSpec == Spec => [](TypeInv /\ QueueInv)
<1>1. Init => TypeInv /\ QueueInv
  BY WebhookInit, QueueInit
<1>2. TypeInv /\ QueueInv /\ [Next]_vars => TypeInv' /\ QueueInv'
  BY WebhookTypeStep, QueueStep
<1>3. QED
  BY <1>1, <1>2, PTL DEF Spec

(* At rest the queue of an active rule holds nothing but what was stored   *)
(* after its resume.                                                       *)
THEOREM PauseLosesNothing == Spec => []PauseIsNonLossy
<1>1. QueueInv => PauseIsNonLossy
  BY DEF QueueInv, QueueIsWatched, Waiting, PauseIsNonLossy, AtRest
<1>2. QED
  BY <1>1, QueueSpec, PTL

(* A cancelled item stays cancelled unless a request had read it before.   *)
THEOREM CancelStands == Spec => CancelledItemsStand
<1> DEFINE Stands == \A i \in Item : item[i].status = "cancelled" /\ i \notin hist.raced
                                       => item'[i].status = "cancelled"
<1>1. TypeInv /\ QueueInv /\ [Next]_vars => [Stands]_vars
  <2>1. SUFFICES ASSUME TypeInv, QueueInv, Next, NEW i \in Item, item[i].status = "cancelled", i \notin hist.raced
                 PROVE  item'[i].status = "cancelled"
    OBVIOUS
  <2>t. item \in [Item -> ItemState] /\ item[i] # NoItem
    BY <2>1 DEF TypeInv, NoItem
  <2>2. CASE UNCHANGED item
    BY <2>1, <2>2
  <2>3. ASSUME NEW w \in Worker, StoreQueuedWebhook(w) PROVE item'[i] = item[i]
    BY <2>1, <2>3 DEF StoreQueuedWebhook, FreshItem
  <2>4. ASSUME NEW q \in Req, CancelItem(q) PROVE item'[i].status = "cancelled"
    <3>1. PICK j \in Item : item[j].status # "none" /\ item' = [item EXCEPT ![j].status = "cancelled"]
      BY <2>4 DEF CancelItem
    <3>2. item[j] # NoItem
      BY <3>1 DEF NoItem
    <3>3. item'[j] = [item[j] EXCEPT !.status = "cancelled"] /\ \A x \in Item \ {j} : item'[x] = item[x]
      BY <2>t, <3>1, <3>2, OneRestatus DEF ItemStatus
    <3>4. QED
      BY <2>1, <2>t, <3>3 DEF ItemState
  <2>5. ASSUME NEW q \in Req, Flip(q) PROVE item'[i] = item[i]
    <3> DEFINE j == First(rq[q].todo)
    <3>0. rq[q] \in RequestState
      BY <2>1 DEF TypeInv, TypeOK
    <3>1. rq[q].todo # {} /\ rq[q].todo \in SUBSET Item /\ item' = [item EXCEPT ![j].status = "released"]
      BY <2>5, <3>0 DEF Flip, RequestState
    <3>2. j \in rq[q].todo
      BY <3>1, FirstIsLeast, WebhookAssumption
    <3> HIDE DEF j
    <3>3. i # j
      BY <2>1, <3>2 DEF QueueInv, CancelIsNoticed
    <3>4. QED
      BY <2>t, <3>1, <3>3
  <2>6. QED
    BY <2>1, <2>2, <2>3, <2>4, <2>5 DEF Next, Rest, vars, DeliveryStep, HandlerFails, PutMarker, PutEvent,
       Enqueue, Reappear, ReappearEarly, worker, WorkerStep, WorkerFails, Receive, Guard, FindMatchingRules,
       PutEntry, QueueLaunch, MarkProcessed, Ack, RequestStarts, RequestProceeds, Pause, Delete, Activate,
       SetStatus, FindItem, ReadQueue, ReleaseEntry, ReleaseSend, ReleaseDone
<1>2. QED
  BY <1>1, QueueSpec, PTL DEF Spec, CancelledItemsStand

----------------------------------------------------------------------------
(* Entries and jobs.  The workers and the requests between the pipeline    *)
(* entry and the launch job of one event and rule.                         *)
AtSend(p)    == {w \in Worker : wk[w].pc = "send" /\ Job(w, wk[w].at) = p}
AtRelease(p) == {q \in Req : rq[q].pc = "send" /\ At(q) = p}
Paired(p) == hist.entries[p] - hist.jobs[p] <= Cardinality(AtSend(p)) + Cardinality(AtRelease(p)) + faults

(* One that comes or goes is one more or one less.                         *)
LEMMA OneMoves ==
  ASSUME NEW S, IsFiniteSet(S), NEW x
  PROVE  /\ Cardinality(S) \in Nat
         /\ IsFiniteSet(S \cup {x}) /\ IsFiniteSet(S \ {x})
         /\ x \notin S => Cardinality(S \cup {x}) = Cardinality(S) + 1
         /\ x \in S => Cardinality(S \ {x}) = Cardinality(S) - 1
         /\ Cardinality(S \ {x}) >= Cardinality(S) - 1
<1>1. Cardinality(S) \in Nat /\ IsFiniteSet(S \cup {x}) /\ IsFiniteSet(S \ {x})
  BY FS_CardinalityType, FS_AddElement, FS_RemoveElement
<1>2. x \notin S => Cardinality(S \cup {x}) = Cardinality(S) + 1
  BY FS_AddElement
<1>3. x \in S => Cardinality(S \ {x}) = Cardinality(S) - 1
  BY FS_RemoveElement
<1>4. x \notin S => S \ {x} = S
  OBVIOUS
<1>5. QED
  BY <1>1, <1>2, <1>3, <1>4

(* Both are finite at every time, and the counters are numbers.            *)
LEMMA PairedTyped ==
  ASSUME TypeInv, NEW p \in Pair
  PROVE  /\ IsFiniteSet(AtSend(p)) /\ IsFiniteSet(AtRelease(p))
         /\ hist.entries[p] \in Nat /\ hist.jobs[p] \in Nat /\ faults \in Nat
<1>1. AtSend(p) \subseteq Worker /\ AtRelease(p) \subseteq Req
  BY DEF AtSend, AtRelease
<1>2. IsFiniteSet(AtSend(p)) /\ IsFiniteSet(AtRelease(p))
  BY <1>1, FS_Subset, WebhookAssumption
<1>3. QED
  BY <1>2, WebhookAssumption DEF TypeInv, TypeOK, HistState

(* What is at a release stays at it, for an item keeps its event and rule. *)
LEMMA ReleasesStay ==
  ASSUME TypeInv, UNCHANGED item \/ ItemsGrow \/ Restatus
  PROVE  \A q \in Req : rq[q].pc = "send" /\ rq'[q] = rq[q] => At(q)' = At(q)
<1> SUFFICES ASSUME NEW q \in Req, rq[q].pc = "send", rq'[q] = rq[q] PROVE At(q)' = At(q)
  OBVIOUS
<1>t. rq[q].todo \subseteq Item /\ rq[q].todo # {} /\ \A i \in rq[q].todo : item[i] # NoItem
  BY DEF TypeInv, TypeOK, RequestsHoldItems, RequestState
<1> DEFINE i == First(rq[q].todo)
<1>1. i \in Item /\ item[i] # NoItem
  <2>1. rq[q].todo \in SUBSET Nat
    BY <1>t, WebhookAssumption
  <2>2. QED
    BY <1>t, <2>1, FirstIsLeast
<1>2. i = First(rq'[q].todo)
  OBVIOUS
<1> HIDE DEF i
<1>3. item'[i].ev = item[i].ev /\ item'[i].rule = item[i].rule
  <2>1. item[i] \in ItemState
    BY <1>1 DEF TypeInv
  <2>2. CASE item'[i] = item[i]
    BY <2>2
  <2>3. ASSUME NEW s \in ItemStatus, item'[i] = [item[i] EXCEPT !.status = s]
        PROVE  item'[i].ev = item[i].ev /\ item'[i].rule = item[i].rule
    BY <2>1, <2>3 DEF ItemState
  <2>4. QED
    BY <1>1, <2>2, <2>3 DEF ItemsGrow, Restatus
<1>4. At(q) = <<item[i].ev, item[i].rule>>
  BY DEF At, i
<1>5. At(q)' = <<item'[i].ev, item'[i].rule>>
  BY <1>2 DEF At
<1>6. QED
  BY <1>3, <1>4, <1>5

(* A step of anything but a worker that fails, an entry or a job.          *)
LEMMA PairedKept ==
  ASSUME TypeInv, TypeInv', NEW p \in Pair, Paired(p),
         UNCHANGED item \/ ItemsGrow \/ Restatus,
         hist'.entries[p] - hist'.jobs[p] <= hist.entries[p] - hist.jobs[p],
         \A w \in Worker : wk'[w] = wk[w] \/ (wk[w].pc # "send" /\ wk'[w].pc # "send"),
         \A q \in Req : rq'[q] = rq[q] \/ (rq[q].pc # "send" /\ rq'[q].pc # "send"),
         faults' >= faults
  PROVE  Paired(p)'
<1>1. AtSend(p)' = AtSend(p)
  BY DEF AtSend, Job
<1>2. AtRelease(p)' = AtRelease(p)
  BY ReleasesStay DEF AtRelease
<1>3. Cardinality(AtSend(p)) \in Nat /\ Cardinality(AtRelease(p)) \in Nat
  BY PairedTyped, FS_CardinalityType
<1>4. hist'.entries[p] \in Nat /\ hist'.jobs[p] \in Nat /\ faults' \in Nat
  BY PairedTyped DEF TypeInv, HistState, TypeOK
<1>5. QED
  BY <1>1, <1>2, <1>3, <1>4, PairedTyped DEF Paired

(* So do the steps of a worker: one that puts an entry is to send its job, *)
(* one that sends it has it sent, and one that fails is paid for.          *)
LEMMA PairedWorker ==
  ASSUME TypeInv, TypeInv', NEW p \in Pair, Paired(p), NEW w \in Worker, WorkerStep(w) \/ WorkerFails(w)
  PROVE  Paired(p)'
<1>t. /\ wk \in [Worker -> WorkerState] /\ wk[w] \in WorkerState /\ hist \in HistState
      /\ hist.entries \in [Pair -> Nat] /\ hist.jobs \in [Pair -> Nat]
      /\ faults \in Nat /\ item \in [Item -> ItemState]
  BY WebhookAssumption DEF TypeInv, TypeOK, HistState
<1>e. wk[w].pc # "idle" => wk[w].ev \in Delivery
  BY DEF TypeInv, WorkersHoldMessages
<1>o. \A v \in Worker : v # w => wk'[v] = wk[v]
  BY <1>t DEF WorkerStep, WorkerFails, SetWk, Receive, Guard, FindMatchingRules, StoreQueuedWebhook,
              PutEntry, QueueLaunch, MarkProcessed, Ack
<1>r. rq' = rq
  BY DEF WorkerStep, WorkerFails, Receive, Guard, FindMatchingRules, StoreQueuedWebhook,
         PutEntry, QueueLaunch, MarkProcessed, Ack
<1>1. CASE StoreQueuedWebhook(w)
  <2>1. wk[w].pc # "send" /\ wk'[w].pc # "send"
    BY <1>t, <1>1 DEF StoreQueuedWebhook, SetWk, WorkerState
  <2>2. hist'.entries = hist.entries /\ hist'.jobs = hist.jobs /\ faults' = faults
    BY <1>t, <1>1 DEF StoreQueuedWebhook, HistState
  <2>3. ItemsGrow
    <3>1. PICK i \in Item : FreshItem(i)
               /\ item' = [item EXCEPT ![i] = [status |-> "queued", ev |-> wk[w].ev, rule |-> First(wk[w].store)]]
      BY <1>1 DEF StoreQueuedWebhook
    <3>2. wk[w].ev \in Delivery /\ event[wk[w].ev] # "none"
      BY <1>1 DEF TypeInv, WorkersHoldMessages, Sent, StoreQueuedWebhook
    <3>3. First(wk[w].store) \in Rule
      <4>1. wk[w].store \in SUBSET Nat /\ wk[w].store # {} /\ wk[w].store \subseteq Rule
        BY <1>t, <1>1, WebhookAssumption DEF StoreQueuedWebhook, WorkerState
      <4>2. QED
        BY <4>1, FirstIsLeast
    <3>4. item[i] = NoItem
      BY <3>1 DEF FreshItem, TypeInv
    <3>5. item'[i] = [status |-> "queued", ev |-> wk[w].ev, rule |-> First(wk[w].store)]
          /\ \A j \in Item : j # i => item'[j] = item[j]
      BY <1>t, <3>1
    <3>6. QED
      BY <3>2, <3>3, <3>4, <3>5 DEF ItemsGrow, Stored
  <2>4. QED
    BY <1>t, <1>o, <1>r, <2>1, <2>2, <2>3, PairedKept
<1>2. CASE (\E d \in Delivery : Receive(w, d)) \/ Guard(w) \/ FindMatchingRules(w) \/ MarkProcessed(w) \/ Ack(w)
  <2>1. wk[w].pc # "send" /\ wk'[w].pc # "send"
    <3>1. wk[w].pc # "send"
      BY <1>2 DEF Receive, Guard, FindMatchingRules, MarkProcessed, Ack
    <3>2. ASSUME NEW d \in Delivery, Receive(w, d) PROVE wk'[w].pc = "guard"
      BY <1>t, <3>2 DEF Receive, SetWk, IdleWorker
    <3>3. ASSUME NEW x \in {"ack", "match"}, SetWk(w, [wk[w] EXCEPT !.pc = x]) PROVE wk'[w].pc = x
      BY <1>t, <3>3 DEF SetWk, WorkerState
    <3>4. CASE Guard(w) \/ MarkProcessed(w)
      <4>1. PICK x \in {"ack", "match"} : SetWk(w, [wk[w] EXCEPT !.pc = x])
        BY <3>4 DEF Guard, MarkProcessed
      <4>2. QED
        BY <3>1, <3>3, <4>1
    <3>5. CASE FindMatchingRules(w)
      <4>1. wk'[w].pc = "work"
        BY <1>t, <3>5 DEF FindMatchingRules, SetWk, WorkerState
      <4>2. QED
        BY <3>1, <4>1
    <3>6. CASE Ack(w)
      BY <1>t, <3>1, <3>6 DEF Ack, SetWk, IdleWorker
    <3>7. QED
      BY <1>2, <3>1, <3>2, <3>4, <3>5, <3>6
  <2>2. hist' = hist /\ faults' = faults /\ item' = item
    BY <1>2 DEF Receive, Guard, FindMatchingRules, MarkProcessed, Ack
  <2>3. QED
    BY <1>t, <1>o, <1>r, <2>1, <2>2, PairedKept
<1>3. CASE PutEntry(w)
  <2> DEFINE r == First(wk[w].fire)
             g == Job(w, r)
  <2>1. r \in Rule
    <3>1. wk[w].fire \in SUBSET Nat /\ wk[w].fire # {} /\ wk[w].fire \subseteq Rule
      BY <1>t, <1>3, WebhookAssumption DEF PutEntry, WorkerState
    <3>2. QED
      BY <3>1, FirstIsLeast
  <2>2. /\ SetWk(w, [wk[w] EXCEPT !.pc = "send", !.at = r])
        /\ hist' = [hist EXCEPT !.entries[g] = @ + 1]
        /\ wk[w].pc = "work" /\ item' = item /\ faults' = faults
    BY <1>3 DEF PutEntry
  <2>3. g \in Pair
    BY <1>e, <2>1, <2>2 DEF Job, Pair
  <2>g. g = <<wk[w].ev, r>>
    BY DEF Job
  <2> HIDE DEF r, g
  <2>4. wk'[w].pc = "send" /\ wk'[w].at = r /\ wk'[w].ev = wk[w].ev
    BY <1>t, <2>2 DEF SetWk, WorkerState
  <2>5. hist'.jobs[p] = hist.jobs[p] /\ hist'.entries[p] = IF p = g THEN hist.entries[p] + 1 ELSE hist.entries[p]
    BY <1>t, <2>2, <2>3 DEF HistState
  <2>6. AtSend(p)' = IF p = g THEN AtSend(p) \cup {w} ELSE AtSend(p)
    BY <1>o, <2>2, <2>4, <2>g DEF AtSend, Job
  <2>7. w \notin AtSend(p)
    BY <2>2 DEF AtSend
  <2>8. AtRelease(p)' = AtRelease(p)
    BY <1>r, <2>2 DEF AtRelease, At
  <2>9. Cardinality(AtSend(p))' = IF p = g THEN Cardinality(AtSend(p)) + 1 ELSE Cardinality(AtSend(p))
    BY <2>6, <2>7, OneMoves, PairedTyped
  <2>10. Cardinality(AtSend(p)) \in Nat /\ Cardinality(AtRelease(p)) \in Nat
    BY OneMoves, PairedTyped
  <2>11. QED
    BY <2>2, <2>5, <2>8, <2>9, <2>10, PairedTyped DEF Paired
<1>4. CASE QueueLaunch(w)
  <2> DEFINE g == Job(w, wk[w].at)
  <2>1. /\ SetWk(w, [wk[w] EXCEPT !.pc = "work", !.fire = @ \ {wk[w].at}, !.at = None])
        /\ hist' = [hist EXCEPT !.jobs[g] = @ + 1, !.fired[g] = @ + 1]
        /\ wk[w].pc = "send" /\ item' = item /\ faults' = faults
    BY <1>4 DEF QueueLaunch
  <2>2. g \in Pair
    BY <1>e, <2>1 DEF Job, Pair, TypeInv, WorkersHoldMessages
  <2>3. w \in AtSend(p) <=> p = g
    BY <2>1 DEF AtSend
  <2> HIDE DEF g
  <2>4. wk'[w].pc = "work"
    BY <1>t, <2>1 DEF SetWk, WorkerState
  <2>5. hist'.entries[p] = hist.entries[p] /\ hist'.jobs[p] = IF p = g THEN hist.jobs[p] + 1 ELSE hist.jobs[p]
    BY <1>t, <2>1, <2>2 DEF HistState
  <2>6. AtSend(p)' = AtSend(p) \ {w}
    BY <1>o, <2>4 DEF AtSend, Job
  <2>7. AtRelease(p)' = AtRelease(p)
    BY <1>r, <2>1 DEF AtRelease, At
  <2>8. Cardinality(AtSend(p))' = IF p = g THEN Cardinality(AtSend(p)) - 1 ELSE Cardinality(AtSend(p))
    <3>1. CASE p = g
      BY <2>3, <2>6, <3>1, OneMoves, PairedTyped
    <3>2. CASE p # g
      <4>1. AtSend(p)' = AtSend(p)
        BY <2>3, <2>6, <3>2
      <4>2. QED
        BY <3>2, <4>1
    <3>3. QED
      BY <3>1, <3>2
  <2>9. Cardinality(AtSend(p)) \in Nat /\ Cardinality(AtRelease(p)) \in Nat
    BY OneMoves, PairedTyped
  <2>10. QED
    BY <2>1, <2>5, <2>7, <2>8, <2>9, PairedTyped DEF Paired
<1>5. CASE WorkerFails(w)
  <2>1. faults' = faults + 1 /\ hist' = hist /\ item' = item /\ wk'[w].pc = "idle"
    BY <1>t, <1>5 DEF WorkerFails, Fault, SetWk, IdleWorker
  <2>2. AtSend(p)' = AtSend(p) \ {w}
    BY <1>o, <2>1 DEF AtSend, Job
  <2>3. AtRelease(p)' = AtRelease(p)
    BY <1>r, <2>1 DEF AtRelease, At
  <2>4. Cardinality(AtSend(p))' >= Cardinality(AtSend(p)) - 1
    BY <2>2, OneMoves, PairedTyped
  <2>5. Cardinality(AtSend(p)) \in Nat /\ Cardinality(AtRelease(p)) \in Nat /\ Cardinality(AtSend(p))' \in Nat
    BY <2>2, OneMoves, PairedTyped
  <2>6. QED
    BY <2>1, <2>3, <2>4, <2>5, PairedTyped DEF Paired
<1>6. QED
  BY <1>1, <1>2, <1>3, <1>4, <1>5 DEF WorkerStep

(* And the steps of a request: its release is an entry and then a job.     *)
LEMMA PairedRequest ==
  ASSUME TypeInv, TypeInv', NEW p \in Pair, Paired(p), NEW q \in Req, RequestStarts(q) \/ RequestProceeds(q)
  PROVE  Paired(p)'
<1>t. /\ rq \in [Req -> RequestState] /\ rq[q] \in RequestState /\ hist \in HistState
      /\ hist.entries \in [Pair -> Nat] /\ hist.jobs \in [Pair -> Nat]
      /\ faults \in Nat /\ item \in [Item -> ItemState]
  BY WebhookAssumption DEF TypeInv, TypeOK, HistState
<1>o. \A s \in Req : s # q => rq'[s] = rq[s]
  BY <1>t DEF RequestStarts, RequestProceeds, SetRq, Pause, Delete, Activate, SetStatus, FindItem, CancelItem,
              ReadQueue, Flip, ReleaseEntry, ReleaseSend, ReleaseDone
<1>w. wk' = wk /\ faults' = faults
  BY DEF RequestStarts, RequestProceeds, Pause, Delete, Activate, SetStatus, FindItem, CancelItem,
         ReadQueue, Flip, ReleaseEntry, ReleaseSend, ReleaseDone, pipeline
<1>f. /\ rq[q].pc \in {"flip", "entry", "send"} /\ rq[q].todo # {} => First(rq[q].todo) \in rq[q].todo
      /\ rq[q].pc \in {"entry", "send"} => At(q) \in Pair
  <2>1. rq[q].todo \in SUBSET Nat /\ rq[q].todo \subseteq Item
    BY <1>t, WebhookAssumption DEF RequestState
  <2>2. rq[q].todo # {} => First(rq[q].todo) \in rq[q].todo
    BY <2>1, FirstIsLeast
  <2>3. ASSUME rq[q].pc \in {"entry", "send"} PROVE At(q) \in Pair
    <3> DEFINE i == First(rq[q].todo)
    <3>1. i \in Item /\ item[i] # NoItem
      BY <2>1, <2>2, <2>3 DEF TypeInv, RequestsHoldItems
    <3>2. At(q) = <<item[i].ev, item[i].rule>>
      BY DEF At
    <3> HIDE DEF i
    <3>3. item[i].ev \in Delivery /\ item[i].rule \in Rule
      BY <3>1 DEF TypeInv
    <3>4. QED
      BY <3>2, <3>3 DEF Pair
  <2>4. QED
    BY <2>2, <2>3
<1>1. CASE ReleaseEntry(q)
  <2> DEFINE g == At(q)
  <2>1. /\ SetRq(q, [rq[q] EXCEPT !.pc = "send"])
        /\ hist' = [hist EXCEPT !.entries[g] = @ + 1]
        /\ rq[q].pc = "entry" /\ item' = item
    BY <1>1 DEF ReleaseEntry
  <2>2. g \in Pair
    BY <1>f, <2>1
  <2>3. rq'[q].pc = "send" /\ rq'[q].todo = rq[q].todo
    BY <1>t, <2>1 DEF SetRq, RequestState
  <2>4. At(q)' = g
    BY <2>1, <2>3 DEF At
  <2>5. \A s \in Req : s # q => At(s)' = At(s)
    BY <1>o, <2>1 DEF At
  <2> HIDE DEF g
  <2>6. AtRelease(p)' = IF p = g THEN AtRelease(p) \cup {q} ELSE AtRelease(p)
    BY <1>o, <2>1, <2>3, <2>4, <2>5 DEF AtRelease
  <2>7. q \notin AtRelease(p)
    BY <2>1 DEF AtRelease
  <2>8. Cardinality(AtRelease(p))' = IF p = g THEN Cardinality(AtRelease(p)) + 1 ELSE Cardinality(AtRelease(p))
    BY <2>6, <2>7, OneMoves, PairedTyped
  <2>9. AtSend(p)' = AtSend(p)
    BY <1>w DEF AtSend, Job
  <2>10. hist'.jobs[p] = hist.jobs[p] /\ hist'.entries[p] = IF p = g THEN hist.entries[p] + 1 ELSE hist.entries[p]
    BY <1>t, <2>1, <2>2 DEF HistState
  <2>11. Cardinality(AtSend(p)) \in Nat /\ Cardinality(AtRelease(p)) \in Nat
    BY OneMoves, PairedTyped
  <2>12. QED
    BY <1>w, <2>8, <2>9, <2>10, <2>11, PairedTyped DEF Paired
<1>2. CASE ReleaseSend(q)
  <2> DEFINE g == At(q)
  <2>1. /\ SetRq(q, [rq[q] EXCEPT !.pc = "flip", !.todo = @ \ {First(@)}])
        /\ hist' = [hist EXCEPT !.jobs[g] = @ + 1]
        /\ rq[q].pc = "send" /\ item' = item
    BY <1>2 DEF ReleaseSend
  <2>2. g \in Pair
    BY <1>f, <2>1
  <2>3. q \in AtRelease(p) <=> p = g
    BY <2>1 DEF AtRelease
  <2>4. rq'[q].pc = "flip"
    BY <1>t, <2>1 DEF SetRq, RequestState
  <2>5. \A s \in Req : s # q => At(s)' = At(s)
    BY <1>o, <2>1 DEF At
  <2> HIDE DEF g
  <2>6. AtRelease(p)' = AtRelease(p) \ {q}
    BY <1>o, <2>4, <2>5 DEF AtRelease
  <2>7. Cardinality(AtRelease(p))' = IF p = g THEN Cardinality(AtRelease(p)) - 1 ELSE Cardinality(AtRelease(p))
    <3>1. CASE p = g
      BY <2>3, <2>6, <3>1, OneMoves, PairedTyped
    <3>2. CASE p # g
      <4>1. AtRelease(p)' = AtRelease(p)
        BY <2>3, <2>6, <3>2
      <4>2. QED
        BY <3>2, <4>1
    <3>3. QED
      BY <3>1, <3>2
  <2>8. AtSend(p)' = AtSend(p)
    BY <1>w DEF AtSend, Job
  <2>9. hist'.entries[p] = hist.entries[p] /\ hist'.jobs[p] = IF p = g THEN hist.jobs[p] + 1 ELSE hist.jobs[p]
    BY <1>t, <2>1, <2>2 DEF HistState
  <2>10. Cardinality(AtSend(p)) \in Nat /\ Cardinality(AtRelease(p)) \in Nat
    BY OneMoves, PairedTyped
  <2>11. QED
    BY <1>w, <2>7, <2>8, <2>9, <2>10, PairedTyped DEF Paired
<1>3. CASE RequestStarts(q) \/ ReadQueue(q) \/ Flip(q) \/ ReleaseDone(q)
  <2>1. rq[q].pc # "send" /\ rq'[q].pc # "send"
    <3>1. rq[q].pc # "send"
      BY <1>3 DEF RequestStarts, Pause, Delete, Activate, SetStatus, FindItem, CancelItem, ReadQueue, Flip, ReleaseDone
    <3>2. CASE Pause(q) \/ Delete(q) \/ Activate(q)
      <4>1. PICK r \in Asked, x \in {"read", "done"} : SetRq(q, [IdleReq EXCEPT !.rule = r, !.pc = x])
        BY <3>2 DEF Pause, Delete, Activate, SetStatus
      <4>2. rq'[q].pc = x
        BY <1>t, <4>1 DEF SetRq, IdleReq
      <4>3. QED
        BY <3>1, <4>2
    <3>3. CASE FindItem(q)
      BY <1>t, <3>1, <3>3 DEF FindItem, SetRq
    <3>4. CASE CancelItem(q)
      BY <1>t, <3>1, <3>4 DEF CancelItem, SetRq, IdleReq, RequestState
    <3>5. CASE ReadQueue(q)
      BY <1>t, <3>1, <3>5 DEF ReadQueue, SetRq, RequestState
    <3>6. CASE Flip(q)
      BY <1>t, <3>1, <3>6 DEF Flip, SetRq, RequestState
    <3>7. CASE ReleaseDone(q)
      BY <1>t, <3>1, <3>7 DEF ReleaseDone, SetRq, RequestState
    <3>8. QED
      BY <1>3, <3>2, <3>3, <3>4, <3>5, <3>6, <3>7 DEF RequestStarts
  <2>2. hist'.entries = hist.entries /\ hist'.jobs = hist.jobs
    BY <1>t, <1>3 DEF RequestStarts, Pause, Delete, Activate, SetStatus, FindItem, CancelItem,
              ReadQueue, Flip, ReleaseDone, HistState
  <2>3. UNCHANGED item \/ Restatus
    <3>1. CASE Flip(q)
      <4>1. First(rq[q].todo) \in Item /\ item[First(rq[q].todo)] # NoItem
        BY <1>t, <1>f, <3>1 DEF Flip, TypeInv, RequestsHoldItems, RequestState
      <4>2. QED
        BY <1>t, <3>1, <4>1, OneRestatus DEF Flip, ItemStatus
    <3>2. CASE CancelItem(q)
      <4>1. PICK i \in Item : item[i].status # "none" /\ item' = [item EXCEPT ![i].status = "cancelled"]
        BY <3>2 DEF CancelItem
      <4>2. item[i] # NoItem
        BY <4>1 DEF NoItem
      <4>3. QED
        BY <1>t, <4>1, <4>2, OneRestatus DEF ItemStatus
    <3>3. QED
      BY <1>3, <3>1, <3>2 DEF RequestStarts, Pause, Delete, Activate, SetStatus, FindItem,
              ReadQueue, ReleaseDone
  <2>4. hist'.entries[p] - hist'.jobs[p] <= hist.entries[p] - hist.jobs[p]
    BY <1>t, <2>2
  <2>5. QED
    BY <1>t, <1>o, <1>w, <2>1, <2>3, <2>4, PairedKept
<1>4. QED
  BY <1>1, <1>2, <1>3 DEF RequestProceeds

(* Every step keeps an event and rule paired.                              *)
LEMMA PairedStep ==
  ASSUME TypeInv, TypeInv', NEW p \in Pair, Paired(p), [Next]_vars PROVE Paired(p)'
<1>t. hist \in HistState /\ hist.entries[p] \in Nat /\ hist.jobs[p] \in Nat /\ faults \in Nat
  BY PairedTyped DEF TypeInv
<1>1. ASSUME NEW d \in Delivery, DeliveryStep(d) \/ HandlerFails(d) \/ Reappear(d) \/ ReappearEarly(d)
      PROVE  Paired(p)'
  <2>1. wk' = wk /\ rq' = rq /\ item' = item /\ hist'.entries = hist.entries /\ hist'.jobs = hist.jobs
    BY <1>t, <1>1 DEF DeliveryStep, HandlerFails, Reappear, ReappearEarly, PutMarker, PutEvent, Enqueue, worker, HistState
  <2>2. faults' >= faults
    BY <1>t, <1>1 DEF DeliveryStep, HandlerFails, Reappear, ReappearEarly, PutMarker, PutEvent, Enqueue, Fault
  <2>3. QED
    BY <1>t, <2>1, <2>2, PairedKept
<1>2. CASE Rest \/ UNCHANGED vars
  BY <1>2 DEF Rest, vars, Paired, AtSend, AtRelease, At, Job
<1>3. QED
  BY <1>1, <1>2, PairedWorker, PairedRequest DEF Next

(* A pipeline entry that is shown 'pending' has its launch job, or a       *)
(* worker or request that is between the two, or a fault that came between *)
(* them: for any number of deliveries, rules, workers, releases and        *)
(* faults, a retry of the platform or a redelivery of the queue leaves no  *)
(* entry behind.                                                           *)
THEOREM EntriesAreLaunched == Spec => []PendingEntriesHaveJobs
<1> DEFINE Inv == TypeInv /\ \A p \in Pair : Paired(p)
<1>1. Init => Inv
  <2>1. ASSUME Init, NEW p \in Pair PROVE Paired(p)
    <3>1. hist.entries[p] = 0 /\ hist.jobs[p] = 0 /\ faults = 0
      BY <2>1 DEF Init
    <3>2. Cardinality(AtSend(p)) \in Nat /\ Cardinality(AtRelease(p)) \in Nat
      BY <2>1, WebhookInit, PairedTyped, FS_CardinalityType
    <3>3. QED
      BY <3>1, <3>2 DEF Paired
  <2>2. QED
    BY <2>1, WebhookInit
<1>2. Inv /\ [Next]_vars => Inv'
  <2>1. ASSUME Inv, [Next]_vars PROVE Inv'
    <3>1. TypeInv'
      BY <2>1, WebhookTypeStep
    <3>2. ASSUME NEW p \in Pair PROVE Paired(p)'
      BY <2>1, <3>1, PairedStep
    <3>3. QED
      BY <3>1, <3>2
  <2>2. QED
    BY <2>1
<1>3. Inv => PendingEntriesHaveJobs
  <2>1. ASSUME NEW p \in Pair, TypeInv, Paired(p)
        PROVE  hist.entries[p] - hist.jobs[p] <= Between(p) + faults
    BY <2>1 DEF Paired, Between, AtSend, AtRelease
  <2>2. QED
    BY <2>1 DEF PendingEntriesHaveJobs
<1> HIDE DEF Inv
<1>4. QED
  BY <1>1, <1>2, <1>3, PTL DEF Spec

----------------------------------------------------------------------------
(* Repeats.  A worker that has yet to look at a rule for an event, or has  *)
(* it on its list, owes the event to the rule; and the event comes again   *)
(* until its message is taken.  What was handled, is owed and still comes  *)
(* is paid for by the first delivery and the faults there were.            *)
Owes(w, d, r) ==
  /\ wk[w].ev = d
  /\ \/ wk[w].pc \in {"guard", "match"}
     \/ wk[w].pc \in {"work", "send"} /\ r \in wk[w].store \cup wk[w].fire
Owing(d, r) == {w \in Worker : Owes(w, d, r)}
Coming(d)   == dl[d].pc # "done" \/ msg[d].state = "visible" \/ (msg[d].state = "hidden" /\ ~Held(d))
Ahead(d)    == IF Coming(d) THEN 1 ELSE 0
Bounded(d, r) == Handled(d, r) + Cardinality(Owing(d, r)) + Ahead(d) <= 1 + faults

(* A rule is on one of a worker's lists, and the one whose job it is about *)
(* to send is on the second.                                               *)
WorkIsListed ==
  \A w \in Worker : wk[w].store \cap wk[w].fire = {} /\ (wk[w].pc = "send" => wk[w].at \in wk[w].fire)

(* The marker of a named event lets one delivery through, and what was     *)
(* fired was stored.                                                       *)
Won(d) == Key(d) # None /\ (dl[d].pc = "put" \/ event[d] # "none")
OneWins == \A d, e \in Delivery : Won(d) => Key(d) \in marker /\ (Won(e) /\ Key(e) = Key(d) => e = d)
FiredIsStored == \A d \in Delivery, r \in Rule : hist.fired[<<d, r>>] > 0 => event[d] # "none"

(* The three counts are numbers.                                           *)
LEMMA RepeatsTyped ==
  ASSUME TypeInv, NEW d \in Delivery, NEW r \in Rule
  PROVE  /\ IsFiniteSet(Items(d, r)) /\ IsFiniteSet(Owing(d, r))
         /\ Cardinality(Items(d, r)) \in Nat /\ Cardinality(Owing(d, r)) \in Nat
         /\ hist.fired[<<d, r>>] \in Nat /\ Handled(d, r) \in Nat /\ faults \in Nat
<1>1. IsFiniteSet(Items(d, r)) /\ IsFiniteSet(Owing(d, r))
  <2>1. Items(d, r) \subseteq Item /\ Owing(d, r) \subseteq Worker
    BY DEF Items, Owing
  <2>2. QED
    BY <2>1, FS_Subset, WebhookAssumption
<1>2. Cardinality(Items(d, r)) \in Nat /\ Cardinality(Owing(d, r)) \in Nat
  BY <1>1, FS_CardinalityType
<1>3. hist.fired[<<d, r>>] \in Nat /\ faults \in Nat
  BY WebhookAssumption DEF TypeInv, TypeOK, HistState, Pair
<1>4. QED
  BY <1>1, <1>2, <1>3 DEF Handled

(* Nothing that was handled is taken back: an item keeps its event and its *)
(* rule.                                                                   *)
LEMMA ItemsKept ==
  ASSUME TypeInv, UNCHANGED item \/ Restatus, NEW d \in Delivery, NEW r \in Rule
  PROVE  Items(d, r)' = Items(d, r)
<1>1. ASSUME NEW i \in Item PROVE item'[i].ev = item[i].ev /\ item'[i].rule = item[i].rule
  <2>1. item[i] \in ItemState
    BY DEF TypeInv
  <2>2. ASSUME NEW s \in ItemStatus, item'[i] = [item[i] EXCEPT !.status = s]
        PROVE  item'[i].ev = item[i].ev /\ item'[i].rule = item[i].rule
    BY <2>1, <2>2 DEF ItemState
  <2>3. QED
    BY <2>2 DEF Restatus
<1>2. QED
  BY <1>1 DEF Items

(* With what is still to come of the event, which is 0 or 1.               *)
LEMMA BoundIsNumber ==
  ASSUME TypeInv, NEW d \in Delivery, NEW r \in Rule
  PROVE  /\ Handled(d, r) \in Nat /\ Cardinality(Owing(d, r)) \in Nat /\ Ahead(d) \in Nat /\ faults \in Nat
         /\ Ahead(d) <= 1 /\ (Coming(d) => Ahead(d) = 1) /\ (~Coming(d) => Ahead(d) = 0)
<1>1. Ahead(d) \in Nat /\ Ahead(d) <= 1 /\ (Coming(d) => Ahead(d) = 1) /\ (~Coming(d) => Ahead(d) = 0)
  BY DEF Ahead
<1>2. QED
  BY <1>1, RepeatsTyped

(* A step that handles nothing, takes on nothing and brings nothing back.  *)
LEMMA BoundedKept ==
  ASSUME TypeInv, TypeInv', NEW d \in Delivery, NEW r \in Rule, Bounded(d, r),
         hist'.fired[<<d, r>>] = hist.fired[<<d, r>>], Items(d, r)' = Items(d, r),
         Owing(d, r)' \subseteq Owing(d, r), Coming(d)' => Coming(d), faults' >= faults
  PROVE  Bounded(d, r)'
<1>1. Handled(d, r)' = Handled(d, r)
  BY DEF Handled
<1>2. Cardinality(Owing(d, r)') <= Cardinality(Owing(d, r))
  BY RepeatsTyped, FS_Subset
<1>3. Cardinality(Owing(d, r))' \in Nat /\ faults' \in Nat
  <2>1. faults' \in Nat
    BY WebhookAssumption DEF TypeInv, TypeOK
  <2>2. IsFiniteSet(Owing(d, r)')
    BY RepeatsTyped, FS_Subset
  <2>3. QED
    BY <2>1, <2>2, FS_CardinalityType
<1>4. Ahead(d)' <= Ahead(d) /\ Ahead(d) \in 0 .. 1 /\ Ahead(d)' \in 0 .. 1
  BY DEF Ahead
<1>5. QED
  BY <1>1, <1>2, <1>3, <1>4, RepeatsTyped DEF Bounded

(* A step of the ingest or of the queue: a message that reappears while    *)
(* somebody is at it is a fault, any other was still to come.              *)
LEMMA BoundedIngest ==
  ASSUME TypeInv, TypeInv', NEW d \in Delivery, NEW r \in Rule, Bounded(d, r), NEW e \in Delivery,
         DeliveryStep(e) \/ HandlerFails(e) \/ Reappear(e) \/ ReappearEarly(e)
  PROVE  Bounded(d, r)'
<1>t. /\ dl \in [Delivery -> DeliveryState] /\ msg \in [Delivery -> MessageState] /\ hist \in HistState
      /\ faults \in Nat
  BY WebhookAssumption DEF TypeInv, TypeOK
<1>1. wk' = wk /\ item' = item /\ hist'.fired = hist.fired
  BY <1>t DEF DeliveryStep, HandlerFails, Reappear, ReappearEarly, PutMarker, PutEvent, Enqueue, worker, HistState
<1>2. Owing(d, r)' = Owing(d, r) /\ Items(d, r)' = Items(d, r) /\ (Held(d)' <=> Held(d))
  BY <1>1 DEF Owing, Owes, Items, Held
<1>3. CASE DeliveryStep(e) \/ HandlerFails(e) \/ Reappear(e)
  <2>1. faults' >= faults
    BY <1>t, <1>3 DEF DeliveryStep, HandlerFails, Reappear, PutMarker, PutEvent, Enqueue, Fault
  <2>2. Coming(d)' => Coming(d)
    <3>1. CASE DeliveryStep(e) \/ HandlerFails(e)
      <4>1. \A f \in Delivery : dl'[f] = dl[f] \/ (f = e /\ dl[f].pc # "done")
        BY <1>t, <3>1 DEF DeliveryStep, HandlerFails, PutMarker, PutEvent, MayPut, Enqueue, SetDl
      <4>2. \A f \in Delivery : msg'[f] = msg[f] \/ (f = e /\ dl[f].pc # "done")
        BY <1>t, <3>1 DEF DeliveryStep, HandlerFails, PutMarker, PutEvent, Enqueue
      <4>3. QED
        BY <1>2, <4>1, <4>2 DEF Coming
    <3>2. CASE Reappear(e)
      <4>1. /\ dl' = dl /\ msg[e].state = "hidden" /\ ~Held(e)
            /\ \A f \in Delivery : f # e => msg'[f] = msg[f]
        BY <1>t, <3>2 DEF Reappear
      <4>2. QED
        BY <1>2, <4>1 DEF Coming
    <3>3. QED
      BY <1>3, <3>1, <3>2
  <2>3. QED
    BY <1>1, <1>2, <2>1, <2>2, BoundedKept
<1>4. CASE ReappearEarly(e)
  <2>1. faults' = faults + 1
    BY <1>4 DEF ReappearEarly, Fault
  <2>2. Handled(d, r)' = Handled(d, r)
    BY <1>1, <1>2 DEF Handled
  <2>3. Cardinality(Owing(d, r))' = Cardinality(Owing(d, r))
    BY <1>2
  <2>4. Ahead(d)' \in Nat /\ Ahead(d)' <= 1
    BY DEF Ahead
  <2>5. /\ Handled(d, r) \in Nat /\ Cardinality(Owing(d, r)) \in Nat /\ Ahead(d) \in Nat /\ faults \in Nat
    BY BoundIsNumber
  <2>6. QED
    BY <2>1, <2>2, <2>3, <2>4, <2>5 DEF Bounded
<1>5. QED
  BY <1>3, <1>4

(* A step of a request handles nothing anew: what it releases was handled  *)
(* when it was stored.                                                     *)
LEMMA BoundedRequest ==
  ASSUME TypeInv, TypeInv', NEW d \in Delivery, NEW r \in Rule, Bounded(d, r), NEW q \in Req,
         RequestStarts(q) \/ RequestProceeds(q)
  PROVE  Bounded(d, r)'
<1>t. /\ rq \in [Req -> RequestState] /\ rq[q] \in RequestState /\ hist \in HistState
      /\ item \in [Item -> ItemState] /\ faults \in Nat
  BY WebhookAssumption DEF TypeInv, TypeOK
<1>1. UNCHANGED <<dl, msg, wk, faults>>
  BY DEF RequestStarts, RequestProceeds, Pause, Delete, Activate, SetStatus, FindItem, CancelItem,
         ReadQueue, Flip, ReleaseEntry, ReleaseSend, ReleaseDone, pipeline, ingest
<1>2. hist'.fired = hist.fired
  BY <1>t DEF RequestStarts, RequestProceeds, Pause, Delete, Activate, SetStatus, FindItem, CancelItem,
         ReadQueue, Flip, ReleaseEntry, ReleaseSend, ReleaseDone, HistState
<1>3. UNCHANGED item \/ Restatus
  <2>1. CASE Flip(q)
    <3>1. rq[q].todo \in SUBSET Nat /\ rq[q].todo # {} /\ rq[q].todo \subseteq Item
      BY <1>t, <2>1, WebhookAssumption DEF Flip, RequestState
    <3>2. First(rq[q].todo) \in rq[q].todo
      BY <3>1, FirstIsLeast
    <3>3. First(rq[q].todo) \in Item /\ item[First(rq[q].todo)] # NoItem
      BY <3>1, <3>2 DEF TypeInv, RequestsHoldItems
    <3>4. QED
      BY <1>t, <2>1, <3>3, OneRestatus DEF Flip, ItemStatus
  <2>2. CASE CancelItem(q)
    <3>1. PICK i \in Item : item[i].status # "none" /\ item' = [item EXCEPT ![i].status = "cancelled"]
      BY <2>2 DEF CancelItem
    <3>2. item[i] # NoItem
      BY <3>1 DEF NoItem
    <3>3. QED
      BY <1>t, <3>1, <3>2, OneRestatus DEF ItemStatus
  <2>3. QED
    BY <2>1, <2>2 DEF RequestStarts, RequestProceeds, Pause, Delete, Activate, SetStatus, FindItem,
            ReadQueue, ReleaseEntry, ReleaseSend, ReleaseDone
<1>4. Items(d, r)' = Items(d, r)
  BY <1>3, ItemsKept
<1>5. Owing(d, r)' = Owing(d, r) /\ (Coming(d)' <=> Coming(d))
  BY <1>1 DEF Owing, Owes, Coming, Held
<1>6. QED
  BY <1>1, <1>2, <1>4, <1>5, <1>t, BoundedKept

(* A worker moves to f, the others stay.                                   *)
LEMMA OwingMoves ==
  ASSUME TypeInv, NEW w \in Worker, NEW f \in WorkerState, SetWk(w, f), NEW d \in Delivery, NEW r \in Rule
  PROVE  /\ wk'[w] = f /\ \A v \in Worker : v # w => wk'[v] = wk[v]
         /\ Owing(d, r)' \ {w} = Owing(d, r) \ {w}
         /\ ~Owes(w, d, r)' => Owing(d, r)' = Owing(d, r) \ {w}
         /\ Owes(w, d, r)' => Owing(d, r)' = Owing(d, r) \cup {w}
         /\ Owes(w, d, r) <=> w \in Owing(d, r)
         /\ Held(d)' <=> (f.ev = d \/ \E v \in Worker : v # w /\ wk[v].ev = d)
<1>1. wk'[w] = f /\ \A v \in Worker : v # w => wk'[v] = wk[v]
  BY DEF SetWk, TypeInv, TypeOK
<1>2. \A v \in Worker : v # w => (Owes(v, d, r)' <=> Owes(v, d, r))
  BY <1>1 DEF Owes
<1>3. QED
  BY <1>1, <1>2 DEF Owing, Held

(* So do the steps of a worker: what it owes it handles once, and if it    *)
(* fails, so that the event comes again, that is a fault.                  *)
LEMMA BoundedWorker ==
  ASSUME TypeInv, TypeInv', WorkIsListed, NEW d \in Delivery, NEW r \in Rule, Bounded(d, r), NEW w \in Worker,
         WorkerStep(w) \/ WorkerFails(w)
  PROVE  Bounded(d, r)'
<1>t. /\ wk \in [Worker -> WorkerState] /\ wk[w] \in WorkerState /\ hist \in HistState
      /\ hist.fired \in [Pair -> Nat] /\ hist.fired[<<d, r>>] \in Nat
      /\ faults \in Nat /\ item \in [Item -> ItemState] /\ msg \in [Delivery -> MessageState]
  BY WebhookAssumption DEF TypeInv, TypeOK, HistState, Pair
<1>e. wk[w].pc # "idle" => wk[w].ev \in Delivery
  BY DEF TypeInv, WorkersHoldMessages
<1>i. IdleWorker \in WorkerState /\ IdleWorker.pc = "idle" /\ IdleWorker.ev = None /\ None \notin Delivery
  BY WebhookAssumption DEF IdleWorker, WorkerState
<1>1. ASSUME NEW e \in Delivery, Receive(w, e) PROVE Bounded(d, r)'
  <2> DEFINE f == [IdleWorker EXCEPT !.pc = "guard", !.ev = e]
  <2>1. f \in WorkerState /\ f.pc = "guard" /\ f.ev = e /\ wk[w].ev = None
    BY <1>1, <1>i DEF IdleWorker, WorkerState, Receive, TypeInv, WorkersHoldMessages
  <2>2. SetWk(w, f) /\ UNCHANGED <<dl, item, hist, faults>> /\ msg[e].state = "visible"
        /\ msg'[e].state = "hidden" /\ \A x \in Delivery : x # e => msg'[x] = msg[x]
    BY <1>t, <1>1 DEF Receive, ingest
  <2> HIDE DEF f
  <2>3. ~Owes(w, d, r)
    BY <1>i, <2>1 DEF Owes
  <2>4. Items(d, r)' = Items(d, r) /\ Handled(d, r)' = Handled(d, r)
    BY <2>2 DEF Items, Handled
  <2>5. wk'[w] = f /\ \A v \in Worker : v # w => wk'[v] = wk[v]
    BY <2>1, <2>2, OwingMoves
  <2>6. CASE d = e
    <3>1. Owes(w, d, r)' /\ Held(d)'
      BY <2>1, <2>5, <2>6 DEF Owes, Held
    <3>2. Owing(d, r)' = Owing(d, r) \cup {w} /\ w \notin Owing(d, r)
      BY <2>1, <2>2, <2>3, <3>1, OwingMoves
    <3>3. Cardinality(Owing(d, r))' = Cardinality(Owing(d, r)) + 1
      BY <3>2, OneMoves, RepeatsTyped
    <3>c. Coming(d) /\ ~Coming(d)'
      BY <2>2, <2>6, <3>1 DEF Coming, TypeInv, MessagesAreSent
    <3>4. Ahead(d) = 1 /\ Ahead(d)' = 0
      BY <3>c DEF Ahead
    <3>5. /\ Handled(d, r) \in Nat /\ Cardinality(Owing(d, r)) \in Nat /\ faults \in Nat /\ faults' = faults
      BY <2>2, BoundIsNumber
    <3>6. QED
      BY <2>4, <3>3, <3>4, <3>5 DEF Bounded
  <2>7. CASE d # e
    <3>1. Owing(d, r)' \subseteq Owing(d, r)
      BY <2>1, <2>5, <2>7 DEF Owing, Owes
    <3>2. Held(d)' <=> Held(d)
      BY <1>i, <2>1, <2>2, <2>7, OwingMoves DEF Held
    <3>3. Coming(d)' => Coming(d)
      BY <2>2, <2>7, <3>2 DEF Coming
    <3>4. QED
      BY <2>2, <2>4, <3>1, <3>3, <1>t, BoundedKept
  <2>8. QED
    BY <2>6, <2>7
<1>2. ASSUME NEW f \in WorkerState, SetWk(w, f), f.ev = wk[w].ev, wk[w].pc # "idle",
             Owes(w, d, r)' => Owes(w, d, r), UNCHANGED <<dl, msg, item, faults>>, hist'.fired = hist.fired
      PROVE  Bounded(d, r)'
  <2>1. Owing(d, r)' \subseteq Owing(d, r)
    BY <1>2, OwingMoves
  <2>2. Coming(d)' <=> Coming(d)
    <3>1. Held(d)' <=> Held(d)
      BY <1>2, OwingMoves DEF Held
    <3>2. QED
      BY <1>2, <3>1 DEF Coming
  <2>3. Items(d, r)' = Items(d, r)
    BY <1>2 DEF Items
  <2>4. QED
    BY <1>2, <1>t, <2>1, <2>2, <2>3, BoundedKept
<1>3. CASE Guard(w)
  <2>1. PICK x \in {"ack", "match"} : SetWk(w, [wk[w] EXCEPT !.pc = x])
    BY <1>3 DEF Guard
  <2>2. /\ [wk[w] EXCEPT !.pc = x] \in WorkerState /\ [wk[w] EXCEPT !.pc = x].ev = wk[w].ev
        /\ wk[w].pc = "guard" /\ UNCHANGED <<dl, msg, item, faults>> /\ hist' = hist
    BY <1>t, <1>3 DEF Guard, WorkerState, ingest
  <2>3. wk'[w] = [wk[w] EXCEPT !.pc = x]
    BY <2>1, <2>2, OwingMoves
  <2>4. Owes(w, d, r)' => Owes(w, d, r)
    BY <1>t, <2>2, <2>3 DEF Owes, WorkerState
  <2>5. QED
    BY <1>2, <2>1, <2>2, <2>4
<1>4. CASE FindMatchingRules(w)
  <2> DEFINE f == [wk[w] EXCEPT !.pc = "work", !.store = Matched(w, "paused"), !.fire = Matched(w, "active")]
  <2>1. SetWk(w, f) /\ wk[w].pc = "match" /\ UNCHANGED <<dl, msg, item, faults>> /\ hist' = hist
    BY <1>4 DEF FindMatchingRules, ingest
  <2>2. f \in WorkerState /\ f.ev = wk[w].ev
    <3>1. \A s : Matched(w, s) \in SUBSET Rule
      BY <1>e, <2>1, WebhookAssumption DEF Matched
    <3>2. QED
      BY <1>t, <3>1 DEF WorkerState
  <2> HIDE DEF f
  <2>3. Owes(w, d, r)' => Owes(w, d, r)
    <3>1. wk'[w].ev = wk[w].ev
      BY <2>1, <2>2, OwingMoves
    <3>2. Owes(w, d, r)' => wk'[w].ev = d
      BY DEF Owes
    <3>3. wk[w].pc = "match" /\ wk[w].ev = d => Owes(w, d, r)
      BY DEF Owes
    <3>4. QED
      BY <2>1, <3>1, <3>2, <3>3
  <2>4. QED
    BY <1>2, <2>1, <2>2, <2>3
<1>5. CASE PutEntry(w)
  <2> DEFINE f == [wk[w] EXCEPT !.pc = "send", !.at = First(wk[w].fire)]
  <2>1. /\ SetWk(w, f) /\ wk[w].pc = "work" /\ UNCHANGED <<dl, msg, item, faults>>
        /\ hist'.fired = hist.fired
    BY <1>t, <1>5 DEF PutEntry, ingest, HistState
  <2>2. f \in WorkerState /\ f.ev = wk[w].ev /\ f.store = wk[w].store /\ f.fire = wk[w].fire /\ f.pc = "send"
    <3>1. wk[w].fire \in SUBSET Nat /\ wk[w].fire # {} /\ wk[w].fire \subseteq Rule
      BY <1>t, <1>5, WebhookAssumption DEF PutEntry, WorkerState
    <3>2. First(wk[w].fire) \in Rule
      BY <3>1, FirstIsLeast
    <3>3. QED
      BY <1>t, <3>2 DEF WorkerState
  <2> HIDE DEF f
  <2>3. Owes(w, d, r)' => Owes(w, d, r)
    <3>1. wk'[w] = f
      BY <2>1, <2>2, OwingMoves
    <3>2. Owes(w, d, r)' => f.ev = d /\ r \in f.store \cup f.fire
      BY <2>2, <3>1 DEF Owes
    <3>3. wk[w].ev = d /\ r \in wk[w].store \cup wk[w].fire => Owes(w, d, r)
      BY <2>1 DEF Owes
    <3>4. QED
      BY <2>2, <3>2, <3>3
  <2>4. QED
    BY <1>2, <2>1, <2>2, <2>3
<1>6. CASE MarkProcessed(w)
  <2>1. /\ SetWk(w, [wk[w] EXCEPT !.pc = "ack"]) /\ wk[w].pc = "work" /\ UNCHANGED <<dl, msg, item, faults>>
        /\ hist' = hist
    BY <1>6 DEF MarkProcessed, ingest
  <2>2. /\ [wk[w] EXCEPT !.pc = "ack"] \in WorkerState /\ [wk[w] EXCEPT !.pc = "ack"].ev = wk[w].ev
        /\ [wk[w] EXCEPT !.pc = "ack"].pc = "ack"
    BY <1>t DEF WorkerState
  <2>3. ~Owes(w, d, r)'
    <3>1. wk'[w] = [wk[w] EXCEPT !.pc = "ack"]
      BY <2>1, <2>2, OwingMoves
    <3>2. QED
      BY <2>2, <3>1 DEF Owes
  <2>4. QED
    BY <1>2, <2>1, <2>2, <2>3
<1>7. CASE StoreQueuedWebhook(w)
  <2> DEFINE s == First(wk[w].store)
             f == [wk[w] EXCEPT !.store = @ \ {s}]
  <2>1. /\ SetWk(w, f) /\ wk[w].pc = "work" /\ UNCHANGED <<dl, msg, faults>> /\ hist'.fired = hist.fired
    BY <1>t, <1>7 DEF StoreQueuedWebhook, ingest, HistState
  <2>2. s \in wk[w].store /\ s \in Rule
    <3>1. wk[w].store \in SUBSET Nat /\ wk[w].store # {} /\ wk[w].store \subseteq Rule
      BY <1>t, <1>7, WebhookAssumption DEF StoreQueuedWebhook, WorkerState
    <3>2. QED
      BY <3>1, FirstIsLeast
  <2>3. PICK i \in Item : FreshItem(i)
             /\ item' = [item EXCEPT ![i] = [status |-> "queued", ev |-> wk[w].ev, rule |-> s]]
    BY <1>7 DEF StoreQueuedWebhook
  <2>4. f \in WorkerState /\ f.ev = wk[w].ev /\ f.store = wk[w].store \ {s} /\ f.fire = wk[w].fire /\ f.pc = "work"
    BY <1>t, <2>1 DEF WorkerState
  <2> HIDE DEF f, s
  <2>5. wk'[w] = f /\ (Coming(d)' <=> Coming(d)) /\ Ahead(d)' = Ahead(d) /\ Ahead(d) \in 0 .. 1
    <3>1. wk'[w] = f /\ (Held(d)' <=> Held(d))
      BY <2>1, <2>4, OwingMoves DEF Held
    <3>2. QED
      BY <2>1, <3>1 DEF Coming, Ahead
  <2>6. /\ item'[i].ev = wk[w].ev /\ item'[i].rule = s /\ item[i].ev = None
        /\ \A j \in Item : j # i => item'[j] = item[j]
    BY <1>t, <2>3 DEF FreshItem, TypeInv, NoItem
  <2>7. CASE d = wk[w].ev /\ r = s
    <3>1. Items(d, r)' = Items(d, r) \cup {i} /\ i \notin Items(d, r)
      BY <1>i, <2>6, <2>7 DEF Items
    <3>2. Cardinality(Items(d, r))' = Cardinality(Items(d, r)) + 1
      BY <3>1, OneMoves, RepeatsTyped
    <3>3. Owes(w, d, r) /\ ~Owes(w, d, r)'
      BY <2>1, <2>2, <2>4, <2>5, <2>7 DEF Owes, WorkIsListed
    <3>4. Owing(d, r)' = Owing(d, r) \ {w} /\ w \in Owing(d, r)
      BY <2>1, <2>4, <3>3, OwingMoves
    <3>5. Cardinality(Owing(d, r))' = Cardinality(Owing(d, r)) - 1
      BY <3>4, OneMoves, RepeatsTyped
    <3>6. QED
      BY <2>1, <2>5, <3>2, <3>5, RepeatsTyped DEF Bounded, Handled
  <2>8. CASE ~(d = wk[w].ev /\ r = s)
    <3>1. Items(d, r)' = Items(d, r)
      BY <1>i, <2>6, <2>8 DEF Items
    <3>2. Owes(w, d, r)' => Owes(w, d, r)
      BY <2>1, <2>4, <2>5 DEF Owes
    <3>3. Owing(d, r)' \subseteq Owing(d, r)
      BY <2>1, <2>4, <3>2, OwingMoves
    <3>4. QED
      BY <1>t, <2>1, <2>5, <3>1, <3>3, BoundedKept
  <2>9. QED
    BY <2>7, <2>8
<1>8. CASE QueueLaunch(w)
  <2> DEFINE s == wk[w].at
             f == [wk[w] EXCEPT !.pc = "work", !.fire = @ \ {s}, !.at = None]
             g == Job(w, s)
  <2>1. /\ SetWk(w, f) /\ wk[w].pc = "send" /\ UNCHANGED <<dl, msg, item, faults>>
        /\ hist' = [hist EXCEPT !.jobs[g] = @ + 1, !.fired[g] = @ + 1]
    BY <1>8 DEF QueueLaunch, ingest
  <2>2. s \in wk[w].fire /\ s \notin wk[w].store /\ s \in Rule
    BY <1>t, <2>1 DEF WorkIsListed, WorkerState
  <2>3. f \in WorkerState /\ f.ev = wk[w].ev /\ f.store = wk[w].store /\ f.fire = wk[w].fire \ {s} /\ f.pc = "work"
    BY <1>t DEF WorkerState
  <2>4. g = <<wk[w].ev, s>> /\ g \in Pair
    BY <1>e, <2>1, <2>2 DEF Job, Pair
  <2> HIDE DEF f, s, g
  <2>5. hist'.fired[<<d, r>>] = IF <<d, r>> = g THEN hist.fired[<<d, r>>] + 1 ELSE hist.fired[<<d, r>>]
    BY <1>t, <2>1, <2>4 DEF HistState, Pair
  <2>6. /\ wk'[w] = f /\ (Coming(d)' <=> Coming(d)) /\ Items(d, r)' = Items(d, r)
        /\ Ahead(d)' = Ahead(d) /\ Ahead(d) \in 0 .. 1
    <3>1. wk'[w] = f /\ (Held(d)' <=> Held(d))
      BY <2>1, <2>3, OwingMoves DEF Held
    <3>2. QED
      BY <2>1, <3>1 DEF Coming, Items, Ahead
  <2>7. CASE d = wk[w].ev /\ r = s
    <3>1. Owes(w, d, r) /\ ~Owes(w, d, r)'
      BY <2>1, <2>2, <2>3, <2>6, <2>7 DEF Owes
    <3>2. Owing(d, r)' = Owing(d, r) \ {w} /\ w \in Owing(d, r)
      BY <2>1, <2>3, <3>1, OwingMoves
    <3>3. Cardinality(Owing(d, r))' = Cardinality(Owing(d, r)) - 1
      BY <3>2, OneMoves, RepeatsTyped
    <3>4. hist'.fired[<<d, r>>] = hist.fired[<<d, r>>] + 1
      BY <2>4, <2>5, <2>7
    <3>5. QED
      BY <2>1, <2>6, <3>3, <3>4, RepeatsTyped DEF Bounded, Handled
  <2>8. CASE ~(d = wk[w].ev /\ r = s)
    <3>1. hist'.fired[<<d, r>>] = hist.fired[<<d, r>>]
      BY <2>4, <2>5, <2>8
    <3>2. Owes(w, d, r)' => Owes(w, d, r)
      BY <2>1, <2>3, <2>6 DEF Owes
    <3>3. Owing(d, r)' \subseteq Owing(d, r)
      BY <2>1, <2>3, <3>2, OwingMoves
    <3>4. QED
      BY <1>t, <2>1, <2>6, <3>1, <3>3, BoundedKept
  <2>9. QED
    BY <2>7, <2>8
<1>9. CASE Ack(w)
  <2>1. /\ SetWk(w, IdleWorker) /\ wk[w].pc = "ack" /\ UNCHANGED <<dl, item, hist, faults>>
        /\ msg' = [msg EXCEPT ![wk[w].ev].state = "deleted"]
    BY <1>9 DEF Ack, ingest
  <2>2. wk[w].ev \in Delivery /\ msg'[wk[w].ev].state = "deleted"
        /\ \A x \in Delivery : x # wk[w].ev => msg'[x] = msg[x]
    BY <1>t, <1>e, <2>1 DEF MessageState
  <2>3. Owing(d, r)' \subseteq Owing(d, r)
    <3>1. wk'[w] = IdleWorker
      BY <1>i, <2>1, OwingMoves
    <3>2. ~Owes(w, d, r)'
      BY <1>i, <3>1 DEF Owes
    <3>3. QED
      BY <1>i, <2>1, <3>2, OwingMoves
  <2>4. Coming(d)' => Coming(d)
    <3>1. CASE d = wk[w].ev
      BY <2>1, <2>2, <3>1 DEF Coming
    <3>2. CASE d # wk[w].ev
      <4>1. Held(d)' <=> Held(d)
        BY <1>i, <2>1, <3>2, OwingMoves DEF Held
      <4>2. QED
        BY <2>1, <2>2, <3>2, <4>1 DEF Coming
    <3>3. QED
      BY <3>1, <3>2
  <2>5. Items(d, r)' = Items(d, r)
    BY <2>1 DEF Items
  <2>6. QED
    BY <1>t, <2>1, <2>3, <2>4, <2>5, BoundedKept
<1>10. CASE WorkerFails(w)
  <2>1. SetWk(w, IdleWorker) /\ faults' = faults + 1 /\ hist' = hist /\ item' = item
    BY <1>10 DEF WorkerFails, Fault
  <2>2. Handled(d, r)' = Handled(d, r)
    BY <2>1 DEF Handled, Items
  <2>3. Owing(d, r)' \subseteq Owing(d, r)
    <3>1. wk'[w] = IdleWorker
      BY <1>i, <2>1, OwingMoves
    <3>2. ~Owes(w, d, r)'
      BY <1>i, <3>1 DEF Owes
    <3>3. QED
      BY <1>i, <2>1, <3>2, OwingMoves
  <2>4. Cardinality(Owing(d, r)') <= Cardinality(Owing(d, r)) /\ Cardinality(Owing(d, r)') \in Nat
    <3>1. IsFiniteSet(Owing(d, r)')
      BY <2>3, RepeatsTyped, FS_Subset
    <3>2. QED
      BY <2>3, <3>1, RepeatsTyped, FS_Subset, FS_CardinalityType
  <2>5. Ahead(d)' \in Nat /\ Ahead(d)' <= 1
    BY DEF Ahead
  <2>6. /\ Handled(d, r) \in Nat /\ Cardinality(Owing(d, r)) \in Nat /\ Ahead(d) \in Nat /\ faults \in Nat
    BY BoundIsNumber
  <2>7. QED
    BY <2>1, <2>2, <2>4, <2>5, <2>6 DEF Bounded
<1>11. QED
  BY <1>1, <1>3, <1>4, <1>5, <1>6, <1>7, <1>8, <1>9, <1>10 DEF WorkerStep

(* The marker lets one delivery through.                                   *)
LEMMA WonKept ==
  ASSUME TypeInv, OneWins, [Next]_vars PROVE OneWins'
<1>1. ASSUME NEW g \in Delivery, DeliveryStep(g) \/ HandlerFails(g) PROVE OneWins'
  <2>t. /\ dl \in [Delivery -> DeliveryState] /\ event \in [Delivery -> {"none", "stored", "processed"}]
        /\ MessagesAreSent
    BY DEF TypeInv, TypeOK
  <2>1. CASE PutMarker(g) /\ Key(g) \notin marker
    <3>1. /\ dl' = [dl EXCEPT ![g] = [pc |-> "put", reply |-> None]]
          /\ marker' = marker \cup {Key(g)} /\ event' = event
      BY <2>1 DEF PutMarker, SetDl
    <3>2. ASSUME NEW d \in Delivery, Won(d)' PROVE Won(d) \/ d = g
      BY <2>t, <3>1, <3>2 DEF Won, Key
    <3>3. \A d \in Delivery : Won(d) => Key(d) # Key(g)
      BY <2>1 DEF OneWins
    <3>4. ASSUME NEW d \in Delivery, NEW e \in Delivery, Won(d)'
          PROVE  Key(d) \in marker' /\ (Won(e)' /\ Key(e) = Key(d) => e = d)
      BY <3>1, <3>2, <3>3, <3>4 DEF OneWins
    <3>5. QED
      BY <3>4 DEF OneWins, Key
  <2>2. ASSUME marker' = marker, \A d \in Delivery : Won(d)' => Won(d) PROVE OneWins'
    BY <2>2 DEF OneWins, Key
  <2>3. CASE PutMarker(g) /\ Key(g) \in marker
    <3>1. marker' = marker /\ event' = event /\ dl' = [dl EXCEPT ![g] = [pc |-> "done", reply |-> "duplicate"]]
      BY <2>3 DEF PutMarker, SetDl
    <3>2. ASSUME NEW d \in Delivery, Won(d)' PROVE Won(d)
      BY <2>t, <3>1, <3>2 DEF Won, Key
    <3>3. QED
      BY <2>2, <3>1, <3>2
  <2>4. CASE PutEvent(g)
    <3>1. /\ marker' = marker /\ event' = [event EXCEPT ![g] = "stored"]
          /\ dl' = [dl EXCEPT ![g] = [pc |-> "queue", reply |-> "stored"]]
          /\ dl[g].pc = "put" \/ Key(g) = None
      BY <2>4 DEF PutEvent, MayPut, SetDl
    <3>2. ASSUME NEW d \in Delivery, Won(d)' PROVE Won(d)
      BY <2>t, <3>1, <3>2 DEF Won, Key
    <3>3. QED
      BY <2>2, <3>1, <3>2
  <2>5. CASE Enqueue(g) \/ HandlerFails(g)
    <3>1. /\ marker' = marker /\ event' = event
          /\ \E y : dl' = [dl EXCEPT ![g] = [pc |-> "done", reply |-> y]]
      BY <2>5 DEF Enqueue, HandlerFails, SetDl
    <3>2. ASSUME NEW d \in Delivery, Won(d)' PROVE Won(d)
      BY <2>t, <3>1, <3>2 DEF Won, Key
    <3>3. QED
      BY <2>2, <3>1, <3>2
  <2>6. QED
    BY <1>1, <2>1, <2>3, <2>4, <2>5 DEF DeliveryStep
<1>2. ASSUME UNCHANGED <<marker, dl>>, \A d \in Delivery : event'[d] # "none" => event[d] # "none"
      PROVE  OneWins'
  BY <1>2 DEF OneWins, Won, Key
<1>3. ASSUME NEW g \in Delivery, Reappear(g) \/ ReappearEarly(g) PROVE OneWins'
  BY <1>2, <1>3 DEF Reappear, ReappearEarly
<1>4. ASSUME NEW q \in Req, RequestStarts(q) \/ RequestProceeds(q) PROVE OneWins'
  <2>1. UNCHANGED <<marker, dl, event>>
    BY <1>4 DEF RequestStarts, RequestProceeds, Pause, Delete, Activate, SetStatus, FindItem, CancelItem,
         ReadQueue, Flip, ReleaseEntry, ReleaseSend, ReleaseDone, pipeline, ingest
  <2>2. QED
    BY <1>2, <2>1
<1>5. ASSUME NEW w \in Worker, WorkerStep(w) \/ WorkerFails(w) PROVE OneWins'
  <2>1. UNCHANGED <<marker, dl>>
    BY <1>5 DEF WorkerStep, WorkerFails, Receive, Guard, FindMatchingRules, StoreQueuedWebhook,
         PutEntry, QueueLaunch, MarkProcessed, Ack, ingest
  <2>2. event' = event \/ MarkProcessed(w)
    BY <1>5 DEF WorkerStep, WorkerFails, Receive, Guard, FindMatchingRules, StoreQueuedWebhook,
         PutEntry, QueueLaunch, Ack
  <2>3. CASE MarkProcessed(w)
    <3>1. event[wk[w].ev] # "none" /\ event' = [event EXCEPT ![wk[w].ev] = "processed"]
      BY <2>3 DEF MarkProcessed, TypeInv, WorkersHoldMessages, Sent
    <3>2. \A d \in Delivery : event'[d] # "none" => event[d] # "none"
      BY <3>1 DEF TypeInv, TypeOK
    <3>3. QED
      BY <1>2, <2>1, <3>2
  <2>4. QED
    BY <1>2, <2>1, <2>2, <2>3
<1>6. CASE Rest \/ UNCHANGED vars
  BY <1>2, <1>6 DEF Rest, vars
<1>7. QED
  BY <1>1, <1>3, <1>4, <1>5, <1>6 DEF Next

(* A rule stays on one list of a worker, until it is dealt with.           *)
LEMMA ListedKept ==
  ASSUME TypeInv, WorkIsListed, [Next]_vars PROVE WorkIsListed'
<1>t. wk \in [Worker -> WorkerState]
  BY DEF TypeInv, TypeOK
<1>1. ASSUME UNCHANGED wk PROVE WorkIsListed'
  BY <1>1 DEF WorkIsListed
<1>2. ASSUME NEW w \in Worker, NEW f \in WorkerState, SetWk(w, f), f.store \cap f.fire = {},
             f.pc = "send" => f.at \in f.fire
      PROVE  WorkIsListed'
  <2>1. wk'[w] = f /\ \A v \in Worker : v # w => wk'[v] = wk[v]
    BY <1>t, <1>2 DEF SetWk
  <2>2. ASSUME NEW v \in Worker PROVE wk'[v].store \cap wk'[v].fire = {} /\ (wk'[v].pc = "send" => wk'[v].at \in wk'[v].fire)
    BY <1>2, <2>1 DEF WorkIsListed
  <2>3. QED
    BY <2>2 DEF WorkIsListed
<1>3. ASSUME NEW w \in Worker, WorkerStep(w) \/ WorkerFails(w) PROVE WorkIsListed'
  <2>t. wk[w] \in WorkerState /\ wk[w].store \cap wk[w].fire = {} /\ (wk[w].pc = "send" => wk[w].at \in wk[w].fire)
    BY <1>t DEF WorkIsListed
  <2>1. ASSUME NEW d \in Delivery, Receive(w, d) PROVE WorkIsListed'
    <3> DEFINE f == [IdleWorker EXCEPT !.pc = "guard", !.ev = d]
    <3>1. f \in WorkerState /\ f.store = {} /\ f.pc = "guard"
      BY DEF IdleWorker, WorkerState
    <3>2. SetWk(w, f)
      BY <2>1 DEF Receive
    <3> HIDE DEF f
    <3>3. QED
      BY <1>2, <3>1, <3>2
  <2>2. CASE Guard(w) \/ MarkProcessed(w)
    <3>1. PICK x \in {"ack", "match"} : SetWk(w, [wk[w] EXCEPT !.pc = x])
      BY <2>2 DEF Guard, MarkProcessed
    <3> DEFINE f == [wk[w] EXCEPT !.pc = x]
    <3>2. f \in WorkerState /\ f.store = wk[w].store /\ f.fire = wk[w].fire /\ f.pc # "send"
      BY <2>t DEF WorkerState
    <3> HIDE DEF f
    <3>3. QED
      BY <1>2, <2>t, <3>1, <3>2 DEF f
  <2>3. CASE FindMatchingRules(w)
    <3> DEFINE f == [wk[w] EXCEPT !.pc = "work", !.store = Matched(w, "paused"), !.fire = Matched(w, "active")]
    <3>1. wk[w].ev \in Delivery /\ SetWk(w, f)
      BY <2>3 DEF FindMatchingRules, TypeInv, WorkersHoldMessages
    <3>2. \A s : Matched(w, s) \in SUBSET Rule
      BY <3>1, WebhookAssumption DEF Matched
    <3>3. f \in WorkerState /\ f.store = Matched(w, "paused") /\ f.fire = Matched(w, "active") /\ f.pc # "send"
      BY <2>t, <3>2 DEF WorkerState
    <3>4. Matched(w, "paused") \cap Matched(w, "active") = {}
      BY DEF Matched
    <3> HIDE DEF f
    <3>5. QED
      BY <1>2, <3>1, <3>3, <3>4
  <2>4. CASE StoreQueuedWebhook(w)
    <3> DEFINE f == [wk[w] EXCEPT !.store = @ \ {First(wk[w].store)}]
    <3>1. SetWk(w, f) /\ wk[w].pc = "work"
      BY <2>4 DEF StoreQueuedWebhook
    <3>2. f \in WorkerState /\ f.store \subseteq wk[w].store /\ f.fire = wk[w].fire /\ f.pc = "work"
      BY <2>t, <3>1 DEF WorkerState
    <3> HIDE DEF f
    <3>3. QED
      BY <1>2, <2>t, <3>1, <3>2
  <2>5. CASE PutEntry(w)
    <3> DEFINE f == [wk[w] EXCEPT !.pc = "send", !.at = First(wk[w].fire)]
    <3>1. SetWk(w, f)
      BY <2>5 DEF PutEntry
    <3>2. First(wk[w].fire) \in wk[w].fire /\ wk[w].fire \subseteq Rule
      <4>1. wk[w].fire \in SUBSET Nat /\ wk[w].fire # {} /\ wk[w].fire \subseteq Rule
        BY <2>t, <2>5, WebhookAssumption DEF PutEntry, WorkerState
      <4>2. QED
        BY <4>1, FirstIsLeast
    <3>3. f \in WorkerState /\ f.store = wk[w].store /\ f.fire = wk[w].fire /\ f.at = First(wk[w].fire)
      BY <2>t, <3>2 DEF WorkerState
    <3> HIDE DEF f
    <3>4. QED
      BY <1>2, <2>t, <3>1, <3>2, <3>3
  <2>6. CASE QueueLaunch(w)
    <3> DEFINE f == [wk[w] EXCEPT !.pc = "work", !.fire = @ \ {wk[w].at}, !.at = None]
    <3>1. SetWk(w, f)
      BY <2>6 DEF QueueLaunch
    <3>2. f \in WorkerState /\ f.store = wk[w].store /\ f.fire \subseteq wk[w].fire /\ f.pc = "work"
      BY <2>t DEF WorkerState
    <3> HIDE DEF f
    <3>3. QED
      BY <1>2, <2>t, <3>1, <3>2
  <2>7. CASE Ack(w) \/ WorkerFails(w)
    <3>1. SetWk(w, IdleWorker)
      BY <2>7 DEF Ack, WorkerFails
    <3>2. IdleWorker \in WorkerState /\ IdleWorker.store = {} /\ IdleWorker.pc = "idle"
      BY DEF IdleWorker, WorkerState
    <3>3. QED
      BY <1>2, <3>1, <3>2
  <2>8. QED
    BY <1>3, <2>1, <2>2, <2>3, <2>4, <2>5, <2>6, <2>7 DEF WorkerStep
<1>4. ASSUME NEW q \in Req, RequestStarts(q) \/ RequestProceeds(q) PROVE WorkIsListed'
  <2>1. UNCHANGED wk
    BY <1>4 DEF RequestStarts, RequestProceeds, Pause, Delete, Activate, SetStatus, FindItem, CancelItem,
         ReadQueue, Flip, ReleaseEntry, ReleaseSend, ReleaseDone, pipeline
  <2>2. QED
    BY <1>1, <2>1
<1>5. ASSUME NEW d \in Delivery, DeliveryStep(d) \/ HandlerFails(d) \/ Reappear(d) \/ ReappearEarly(d)
      PROVE  WorkIsListed'
  <2>1. UNCHANGED wk
    BY <1>5 DEF DeliveryStep, HandlerFails, Reappear, ReappearEarly, PutMarker, PutEvent, Enqueue, worker
  <2>2. QED
    BY <1>1, <2>1
<1>6. CASE Rest \/ UNCHANGED vars
  BY <1>1, <1>6 DEF Rest, vars
<1>7. QED
  BY <1>3, <1>4, <1>5, <1>6 DEF Next

(* What was fired was stored before.                                       *)
LEMMA FiredKept ==
  ASSUME TypeInv, FiredIsStored, [Next]_vars PROVE FiredIsStored'
<1>t. /\ hist \in HistState /\ hist.fired \in [Pair -> Nat] /\ dl \in [Delivery -> DeliveryState]
      /\ event \in [Delivery -> {"none", "stored", "processed"}]
  BY DEF TypeInv, TypeOK, HistState
<1>1. \A d \in Delivery : event[d] # "none" => event'[d] # "none"
  <2>1. ASSUME NEW d \in Delivery, DeliveryStep(d) \/ HandlerFails(d) \/ Reappear(d) \/ ReappearEarly(d)
        PROVE  event' = event \/ event' = [event EXCEPT ![d] = "stored"]
    BY <2>1 DEF DeliveryStep, HandlerFails, Reappear, ReappearEarly, PutMarker, PutEvent, Enqueue
  <2>2. ASSUME NEW w \in Worker, WorkerStep(w) \/ WorkerFails(w)
        PROVE  event' = event \/ event' = [event EXCEPT ![wk[w].ev] = "processed"]
    BY <2>2 DEF WorkerStep, WorkerFails, Receive, Guard, FindMatchingRules, StoreQueuedWebhook,
         PutEntry, QueueLaunch, MarkProcessed, Ack
  <2>3. ASSUME NEW q \in Req, RequestStarts(q) \/ RequestProceeds(q) PROVE event' = event
    BY <2>3 DEF RequestStarts, RequestProceeds, Pause, Delete, Activate, SetStatus, FindItem, CancelItem,
         ReadQueue, Flip, ReleaseEntry, ReleaseSend, ReleaseDone, pipeline
  <2>4. event' = event \/ \E x, s : s # "none" /\ event' = [event EXCEPT ![x] = s]
    BY <2>1, <2>2, <2>3 DEF Next, Rest, vars
  <2>5. QED
    BY <1>t, <2>4
<1>2. ASSUME hist'.fired = hist.fired PROVE FiredIsStored'
  BY <1>1, <1>2 DEF FiredIsStored
<1>3. ASSUME NEW w \in Worker, QueueLaunch(w) PROVE FiredIsStored'
  <2> DEFINE g == Job(w, wk[w].at)
  <2>1. g = <<wk[w].ev, wk[w].at>> /\ event[wk[w].ev] # "none"
        /\ hist' = [hist EXCEPT !.jobs[g] = @ + 1, !.fired[g] = @ + 1]
    BY <1>3 DEF QueueLaunch, Job, TypeInv, WorkersHoldMessages, Sent
  <2> HIDE DEF g
  <2>2. ASSUME NEW d \in Delivery, NEW r \in Rule, <<d, r>> # g
        PROVE  hist'.fired[<<d, r>>] = hist.fired[<<d, r>>]
    BY <1>t, <2>1, <2>2 DEF HistState, Pair
  <2>3. QED
    BY <1>1, <2>1, <2>2 DEF FiredIsStored
<1>4. (\E w \in Worker : QueueLaunch(w)) \/ hist'.fired = hist.fired
  <2>1. ASSUME NEW d \in Delivery, DeliveryStep(d) \/ HandlerFails(d) \/ Reappear(d) \/ ReappearEarly(d)
        PROVE  hist'.fired = hist.fired
    BY <1>t, <2>1 DEF DeliveryStep, HandlerFails, Reappear, ReappearEarly, PutMarker, PutEvent, Enqueue, HistState
  <2>2. ASSUME NEW w \in Worker, WorkerStep(w) \/ WorkerFails(w) PROVE QueueLaunch(w) \/ hist'.fired = hist.fired
    BY <1>t, <2>2 DEF WorkerStep, WorkerFails, Receive, Guard, FindMatchingRules, StoreQueuedWebhook,
         PutEntry, MarkProcessed, Ack, HistState
  <2>3. ASSUME NEW q \in Req, RequestStarts(q) \/ RequestProceeds(q) PROVE hist'.fired = hist.fired
    BY <1>t, <2>3 DEF RequestStarts, RequestProceeds, Pause, Delete, Activate, SetStatus, FindItem, CancelItem,
         ReadQueue, Flip, ReleaseEntry, ReleaseSend, ReleaseDone, HistState
  <2>4. QED
    BY <2>1, <2>2, <2>3 DEF Next, Rest, vars
<1>5. QED
  BY <1>2, <1>3, <1>4

(* One platform event reaches a rule once, and once more for each fault    *)
(* that happened, through a single delivery: neither the platform's        *)
(* retries ("prevent duplicate processing when platforms retry delivery")  *)
(* nor two workers add to it, for any number of deliveries, rules,         *)
(* workers, requests and faults.                                           *)
THEOREM HandledOncePerFault == Spec => []RepeatsArePaidFor
<1> DEFINE Inv == /\ TypeInv /\ WorkIsListed /\ OneWins /\ FiredIsStored
                  /\ \A d \in Delivery, r \in Rule : Bounded(d, r)
<1>1. Init => Inv
  <2> SUFFICES ASSUME Init PROVE Inv
    OBVIOUS
  <2>1. TypeInv
    BY WebhookInit
  <2>2. WorkIsListed /\ OneWins /\ FiredIsStored
    BY DEF Init, IdleWorker, WorkIsListed, OneWins, Won, FiredIsStored, Pair
  <2>3. ASSUME NEW d \in Delivery, NEW r \in Rule PROVE Bounded(d, r)
    <3>1. Items(d, r) = {} /\ Owing(d, r) = {}
      BY WebhookAssumption DEF Init, IdleWorker, NoItem, Items, Owing, Owes
    <3>2. hist.fired[<<d, r>>] = 0 /\ faults = 0
      BY DEF Init, Pair
    <3>3. QED
      BY <2>1, <3>1, <3>2, BoundIsNumber, FS_EmptySet DEF Bounded, Handled
  <2>4. QED
    BY <2>1, <2>2, <2>3
<1>2. Inv /\ [Next]_vars => Inv'
  <2> SUFFICES ASSUME Inv, [Next]_vars PROVE Inv'
    OBVIOUS
  <2>1. TypeInv' /\ WorkIsListed' /\ OneWins' /\ FiredIsStored'
    BY WebhookTypeStep, ListedKept, WonKept, FiredKept
  <2>2. ASSUME NEW d \in Delivery, NEW r \in Rule PROVE Bounded(d, r)'
    <3>1. Bounded(d, r)
      OBVIOUS
    <3>2. CASE Rest \/ UNCHANGED vars
      BY <3>1, <3>2 DEF Rest, vars, Bounded, Handled, Items, Owing, Owes, Ahead, Coming, Held
    <3>3. QED
      BY <2>1, <3>1, <3>2, BoundedIngest, BoundedWorker, BoundedRequest DEF Next
  <2>3. QED
    BY <2>1, <2>2
<1>3. Inv => RepeatsArePaidFor
  <2> SUFFICES ASSUME Inv, NEW d \in Delivery, NEW r \in Rule
               PROVE  /\ Handled(d, r) <= 1 + faults
                      /\ Key(d) # None /\ Handled(d, r) > 0 =>
                           \A e \in SameEvent(d) \ {d}, s \in Rule : Handled(e, s) = 0
    BY DEF RepeatsArePaidFor
  <2>1. Handled(d, r) <= 1 + faults
    BY BoundIsNumber DEF Bounded
  <2>2. ASSUME NEW e \in Delivery, NEW s \in Rule, Handled(e, s) # 0 PROVE event[e] # "none"
    <3>1. CASE hist.fired[<<e, s>>] # 0
      BY <3>1, RepeatsTyped DEF FiredIsStored
    <3>2. CASE hist.fired[<<e, s>>] = 0
      <4>1. Cardinality(Items(e, s)) # 0
        BY <2>2, <3>2, RepeatsTyped DEF Handled
      <4>2. PICK i \in Item : item[i].ev = e
        BY <4>1, FS_EmptySet DEF Items
      <4>3. item[i] # NoItem
        BY <4>2, WebhookAssumption DEF NoItem
      <4>4. QED
        BY <4>2, <4>3 DEF TypeInv, TypeOK
    <3>3. QED
      BY <3>1, <3>2
  <2>3. ASSUME Key(d) # None, Handled(d, r) > 0, NEW e \in SameEvent(d) \ {d}, NEW s \in Rule
        PROVE  Handled(e, s) = 0
    <3>1. e \in Delivery /\ Key(e) = Key(d)
      BY <2>3 DEF SameEvent, Key
    <3>2. event[d] # "none"
      BY <2>2, <2>3
    <3>3. Won(d)
      BY <2>3, <3>2 DEF Won
    <3>4. ~Won(e)
      BY <2>3, <3>1, <3>3 DEF OneWins
    <3>5. QED
      BY <2>2, <2>3, <3>1, <3>4 DEF Won
  <2>4. QED
    BY <2>1, <2>3
<1> HIDE DEF Inv
<1>4. QED
  BY <1>1, <1>2, <1>3, PTL DEF Spec
=============================================================================
