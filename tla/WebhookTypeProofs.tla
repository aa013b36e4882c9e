------------------------- MODULE WebhookTypeProofs -------------------------
(***************************************************************************)
(* The types of the webhook pipeline, with what its messages, workers and  *)
(* requests always carry, for any number of deliveries, rules, items,      *)
(* workers, requests and faults: the first part of the inductive           *)
(* invariant, on which WebhookProofs builds.                               *)
(***************************************************************************)
EXTENDS WebhookPipeline, FiniteSetTheorems, WellFoundedInduction, TLAPS

ItemState == [status : ItemStatus, ev : Delivery \cup {None}, rule : Rule \cup {None}]
HistState == [entries : [Pair -> Nat], jobs : [Pair -> Nat], fired : [Pair -> Nat],
              deleted : SUBSET Rule, early : SUBSET Delivery, raced : SUBSET Item, late : SUBSET Item]

(* A delivery has a message only when its handler is through and its event *)
(* is stored; a worker is at a message that was sent.                      *)
Sent(d) == msg[d].state # "none" /\ event[d] # "none"
MessagesAreSent ==
  \A d \in Delivery : /\ dl[d].pc # "done" => msg[d].state = "none"
                      /\ dl[d].pc = "queue" => event[d] # "none"
                      /\ msg[d].state = "none" => msg[d].received = 0
                      /\ msg[d].state = "visible" => msg[d].received < MaxReceive
                      /\ msg[d].state # "none" => event[d] # "none"
WorkersHoldMessages ==
  \A w \in Worker : /\ wk[w].pc = "idle" => wk[w] = IdleWorker
                    /\ wk[w].pc # "idle" => wk[w].ev \in Delivery /\ Sent(wk[w].ev)
                    /\ wk[w].pc = "send" => wk[w].at \in Rule

(* A request works on items that exist.                                    *)
RequestsHoldItems ==
  \A q \in Req : /\ rq[q].pc \notin {"idle", "done"} => rq[q].rule \in Rule
                 /\ rq[q].pc \in {"idle", "read", "done"} => rq[q].todo = {}
                 /\ rq[q].pc \in {"entry", "send"} => rq[q].todo # {}
                 /\ \A i \in rq[q].todo : item[i] # NoItem

TypeInv ==
  /\ TypeOK
  /\ item \in [Item -> ItemState] /\ hist \in HistState
  /\ \A i \in Item : \/ item[i] = NoItem
                     \/ item[i].status # "none" /\ item[i].ev \in Delivery /\ item[i].rule \in Rule
  /\ MessagesAreSent /\ WorkersHoldMessages /\ RequestsHoldItems

----------------------------------------------------------------------------
(* The least of a set of ids is one of them.                               *)
LEMMA FirstIsLeast ==
  ASSUME NEW S \in SUBSET Nat, S # {}
  PROVE  First(S) \in S
<1> DEFINE R == {ss \in Nat \X Nat : ss[1] < ss[2]}
<1>1. IsWellFoundedOn(R, Nat)
  BY NatLessThanWellFounded DEF OpToRel
<1>2. PICK x \in S : \A y \in S : ~(<<y, x>> \in R)
  BY <1>1, WFMin
<1>3. ASSUME NEW y \in S PROVE x <= y
  <2>1. x \in Nat /\ y \in Nat /\ <<y, x>> \in Nat \X Nat
    OBVIOUS
  <2>2. ~(y < x)
    BY <1>2, <2>1
  <2>3. QED
    BY <2>1, <2>2
<1>4. QED
  BY <1>3 DEF First

(* The initial state.                                                      *)
LEMMA WebhookInit == Init => TypeInv
<1> SUFFICES ASSUME Init PROVE TypeInv
  OBVIOUS
<1>1. /\ IdleWorker \in WorkerState /\ IdleWorker.pc = "idle" /\ IdleWorker.ev = None
      /\ IdleReq \in RequestState /\ IdleReq.pc = "idle" /\ IdleReq.todo = {}
      /\ NoItem \in ItemState
  BY DEF IdleWorker, WorkerState, IdleReq, RequestState, NoItem, ItemState, ItemStatus
<1>2. /\ wk \in [Worker -> WorkerState] /\ rq \in [Req -> RequestState] /\ item \in [Item -> ItemState]
  BY <1>1 DEF Init
<1>3. /\ msg \in [Delivery -> MessageState] /\ dl \in [Delivery -> DeliveryState]
      /\ event \in [Delivery -> {"none", "stored", "processed"}]
  BY WebhookAssumption DEF Init, MessageState, DeliveryState
<1>4. hist \in HistState
  BY DEF Init, HistState
<1>5. rule \in [Rule -> RuleStatus] /\ faults \in 0 .. MaxFaults /\ marker = {}
  BY WebhookAssumption DEF Init, RuleStatus
<1>6. TypeOK
  BY <1>2, <1>3, <1>5 DEF Init, TypeOK
<1>7. MessagesAreSent /\ WorkersHoldMessages /\ RequestsHoldItems
  BY <1>1 DEF Init, MessagesAreSent, WorkersHoldMessages, RequestsHoldItems
<1>8. QED
  BY <1>2, <1>4, <1>6, <1>7 DEF Init, TypeInv

LEMMA FaultTyped ==
  ASSUME TypeInv, NEW k, Fault(k) PROVE faults' \in 0 .. MaxFaults
  BY WebhookAssumption DEF Fault, TypeInv, TypeOK

(* A step of the ingest or the queue that takes no event away and keeps to *)
(* the order of sending.                                                   *)
LEMMA IngestTyped ==
  ASSUME TypeInv, UNCHANGED worker,
         marker' \subseteq {Key(d) : d \in Delivery} \ {None},
         dl' \in [Delivery -> DeliveryState], msg' \in [Delivery -> MessageState],
         event' \in [Delivery -> {"none", "stored", "processed"}],
         \A d \in Delivery : event[d] # "none" => event'[d] # "none",
         \A d \in Delivery : msg[d].state # "none" => msg'[d].state # "none",
         MessagesAreSent', hist' \in HistState, faults' \in 0 .. MaxFaults
  PROVE  TypeInv'
<1>1. UNCHANGED <<rule, item, wk, rq>>
  BY DEF worker
<1>2. WorkersHoldMessages' /\ RequestsHoldItems'
  BY <1>1 DEF TypeInv, WorkersHoldMessages, RequestsHoldItems, Sent
<1>3. \A i \in Item :
       \/ item'[i] = NoItem
       \/ item'[i].status \in ItemStatus /\ item'[i].rule \in Rule /\ event'[item'[i].ev] # "none"
  BY <1>1 DEF TypeInv, TypeOK
<1>4. TypeOK'
  BY <1>1, <1>3 DEF TypeInv, TypeOK
<1>5. QED
  BY <1>1, <1>2, <1>4 DEF TypeInv

LEMMA SetDlTyped ==
  ASSUME TypeInv, NEW d \in Delivery, NEW pc \in {"put", "queue", "done"},
         NEW reply \in {None, "stored", "duplicate", "error"}, SetDl(d, pc, reply)
  PROVE  /\ dl' \in [Delivery -> DeliveryState]
         /\ dl'[d] = [pc |-> pc, reply |-> reply] /\ \A e \in Delivery \ {d} : dl'[e] = dl[e]
  BY DEF TypeInv, TypeOK, SetDl, DeliveryState

LEMMA DeliveryTyped ==
  ASSUME TypeInv, NEW d \in Delivery, DeliveryStep(d) \/ HandlerFails(d) PROVE TypeInv'
<1>t. /\ marker \subseteq {Key(e) : e \in Delivery} \ {None}
      /\ dl \in [Delivery -> DeliveryState] /\ dl[d].reply \in {None, "stored", "duplicate", "error"}
      /\ msg \in [Delivery -> MessageState]
      /\ event \in [Delivery -> {"none", "stored", "processed"}]
      /\ hist \in HistState /\ faults \in 0 .. MaxFaults /\ MessagesAreSent
  BY DEF TypeInv, TypeOK, DeliveryState
<1>1. CASE PutMarker(d)
  <2>1. UNCHANGED <<event, msg, worker, faults, hist>> /\ dl[d].pc = "unsent"
    BY <1>1 DEF PutMarker
  <2>2. \E pc \in {"put", "done"}, reply \in {None, "duplicate"} : SetDl(d, pc, reply)
    BY <1>1 DEF PutMarker
  <2>3. /\ dl' \in [Delivery -> DeliveryState] /\ dl'[d].pc \in {"put", "done"}
        /\ \A e \in Delivery \ {d} : dl'[e] = dl[e]
    BY <2>2, SetDlTyped
  <2>4. MessagesAreSent'
    BY <1>t, <2>1, <2>3 DEF MessagesAreSent
  <2>5. marker' \subseteq {Key(e) : e \in Delivery} \ {None}
    BY <1>t, <1>1 DEF PutMarker
  <2>6. QED
    BY <1>t, <2>1, <2>3, <2>4, <2>5, IngestTyped
<1>2. CASE PutEvent(d)
  <2>1. /\ UNCHANGED <<marker, msg, worker, faults, hist>> /\ dl[d].pc \in {"put", "unsent"}
        /\ event' = [event EXCEPT ![d] = "stored"]
    BY <1>2 DEF PutEvent, MayPut
  <2>2. /\ dl' \in [Delivery -> DeliveryState] /\ dl'[d].pc = "queue"
        /\ \A e \in Delivery \ {d} : dl'[e] = dl[e]
    BY <1>2, SetDlTyped DEF PutEvent
  <2>3. MessagesAreSent'
    BY <1>t, <2>1, <2>2 DEF MessagesAreSent
  <2>4. QED
    BY <1>t, <2>1, <2>2, <2>3, IngestTyped
<1>3. CASE Enqueue(d)
  <2>1. UNCHANGED <<marker, event, worker, faults, hist>> /\ dl[d].pc = "queue" /\ SetDl(d, "done", dl[d].reply)
    BY <1>3 DEF Enqueue
  <2>2. /\ dl' \in [Delivery -> DeliveryState] /\ dl'[d].pc = "done"
        /\ \A e \in Delivery \ {d} : dl'[e] = dl[e]
    BY <1>t, <2>1, SetDlTyped
  <2>3. msg' \in [Delivery -> MessageState] /\ MessagesAreSent'
        /\ \A e \in Delivery : msg[e].state # "none" => msg'[e].state # "none"
    <3>1. CASE msg' = msg
      BY <1>t, <2>1, <2>2, <3>1 DEF MessagesAreSent
    <3>2. CASE msg' = [msg EXCEPT ![d].state = "visible"]
      <4>1. msg[d] \in MessageState /\ msg[d].received = 0 /\ event[d] # "none"
        BY <1>t, <2>1 DEF MessagesAreSent
      <4>2. [msg[d] EXCEPT !.state = "visible"] \in MessageState
        BY <4>1 DEF MessageState
      <4>3. /\ msg' \in [Delivery -> MessageState] /\ msg'[d].state = "visible" /\ msg'[d].received = 0
            /\ \A e \in Delivery \ {d} : msg'[e] = msg[e]
        BY <1>t, <3>2, <4>1, <4>2 DEF MessageState
      <4>4. QED
        BY <1>t, <2>1, <2>2, <4>1, <4>3, WebhookAssumption DEF MessagesAreSent
    <3>3. QED
      BY <1>3, <3>1, <3>2 DEF Enqueue
  <2>4. QED
    BY <1>t, <2>1, <2>2, <2>3, IngestTyped
<1>4. CASE HandlerFails(d)
  <2>1. /\ UNCHANGED <<marker, event, msg, worker, hist>> /\ faults' \in 0 .. MaxFaults
        /\ \E reply \in {None, "stored", "duplicate", "error"} : SetDl(d, "done", reply)
    BY <1>t, <1>4, FaultTyped DEF HandlerFails
  <2>2. /\ dl' \in [Delivery -> DeliveryState] /\ dl'[d].pc = "done"
        /\ \A e \in Delivery \ {d} : dl'[e] = dl[e]
    BY <2>1, SetDlTyped
  <2>3. MessagesAreSent'
    BY <1>t, <2>1, <2>2 DEF MessagesAreSent
  <2>4. QED
    BY <1>t, <2>1, <2>2, <2>3, IngestTyped
<1>5. QED
  BY <1>1, <1>2, <1>3, <1>4 DEF DeliveryStep

MsgTo(d, s) == msg' = [msg EXCEPT ![d].state = s]

LEMMA MsgToSets ==
  ASSUME NEW d \in Delivery, NEW s \in {"visible", "hidden", "deleted", "dead"},
         msg \in [Delivery -> MessageState], MsgTo(d, s)
  PROVE  /\ msg' \in [Delivery -> MessageState] /\ msg'[d].state = s
         /\ msg'[d].received = msg[d].received
         /\ \A e \in Delivery \ {d} : msg'[e] = msg[e]
<1> DEFINE g == [msg[d] EXCEPT !.state = s]
<1>1. msg' = [msg EXCEPT ![d] = g] /\ msg[d] \in MessageState
  BY DEF MsgTo
<1>2. g \in MessageState /\ g.state = s /\ g.received = msg[d].received
  BY <1>1 DEF MessageState
<1> HIDE DEF g
<1>3. msg' \in [Delivery -> MessageState] /\ msg'[d] = g /\ \A e \in Delivery \ {d} : msg'[e] = msg[e]
  BY <1>1, <1>2
<1>4. QED
  BY <1>2, <1>3

LEMMA ReappearTyped ==
  ASSUME TypeInv, NEW d \in Delivery, Reappear(d) \/ ReappearEarly(d) PROVE TypeInv'
<1>t. /\ marker \subseteq {Key(e) : e \in Delivery} \ {None}
      /\ dl \in [Delivery -> DeliveryState] /\ msg \in [Delivery -> MessageState]
      /\ event \in [Delivery -> {"none", "stored", "processed"}]
      /\ hist \in HistState /\ faults \in 0 .. MaxFaults /\ MessagesAreSent
  BY DEF TypeInv, TypeOK
<1>1. UNCHANGED <<marker, event, dl, worker>> /\ msg[d].state = "hidden"
  BY DEF Reappear, ReappearEarly
<1>2. MsgTo(d, "dead") \/ (MsgTo(d, "visible") /\ msg[d].received < MaxReceive)
  <2>1. CASE msg[d].received < MaxReceive
    BY <2>1 DEF Reappear, ReappearEarly, MsgTo
  <2>2. CASE ~(msg[d].received < MaxReceive)
    BY <2>2 DEF Reappear, ReappearEarly, MsgTo
  <2>3. QED
    BY <2>1, <2>2
<1>3. PICK s \in {"visible", "dead"} : MsgTo(d, s) /\ (s = "visible" => msg[d].received < MaxReceive)
  BY <1>2
<1>4. /\ msg' \in [Delivery -> MessageState] /\ msg'[d].state = s
      /\ msg'[d].received = msg[d].received
      /\ \A e \in Delivery \ {d} : msg'[e] = msg[e]
  BY <1>t, <1>3, MsgToSets
<1>5. MessagesAreSent'
  BY <1>t, <1>1, <1>3, <1>4 DEF MessagesAreSent
<1>6. hist' \in HistState /\ faults' \in 0 .. MaxFaults
  BY <1>t, FaultTyped DEF Reappear, ReappearEarly, HistState
<1>7. QED
  BY <1>t, <1>1, <1>3, <1>4, <1>5, <1>6, IngestTyped

(* A worker moves on with its message, or lets it go.                      *)
EventsStay ==
  event' \in [Delivery -> {"none", "stored", "processed"}]
    /\ \A d \in Delivery : (event'[d] # "none") <=> (event[d] # "none")
MessagesStay ==
  \A d \in Delivery : /\ msg'[d].state = "none" <=> msg[d].state = "none"
                      /\ msg[d].state = "none" => msg'[d] = msg[d]
                      /\ msg'[d].state = "visible" => msg'[d].received < MaxReceive
Stored(i) == item'[i].status # "none" /\ item'[i].ev \in Delivery /\ item'[i].rule \in Rule
ItemsGrow ==
  \A i \in Item : item'[i] = item[i] \/ (item[i] = NoItem /\ Stored(i) /\ event[item'[i].ev] # "none")

LEMMA WorkerTyped ==
  ASSUME TypeInv, NEW w \in Worker, NEW f \in WorkerState, SetWk(w, f),
         f.pc # "idle" => f.ev \in Delivery /\ Sent(f.ev),
         f.pc = "idle" => f = IdleWorker,
         f.pc = "send" => f.at \in Rule,
         UNCHANGED <<marker, dl, rule, rq>>, EventsStay,
         msg' \in [Delivery -> MessageState], MessagesStay,
         item' \in [Item -> ItemState], ItemsGrow,
         hist' \in HistState, faults' \in 0 .. MaxFaults
  PROVE  TypeInv'
<1>t. wk \in [Worker -> WorkerState] /\ event \in [Delivery -> {"none", "stored", "processed"}]
  BY DEF TypeInv, TypeOK
<1>1. wk' \in [Worker -> WorkerState] /\ wk'[w] = f /\ \A v \in Worker \ {w} : wk'[v] = wk[v]
  BY <1>t DEF SetWk
<1>2. event' \in [Delivery -> {"none", "stored", "processed"}]
      /\ \A d \in Delivery : (event'[d] # "none") <=> (event[d] # "none")
  BY DEF EventsStay
<1>m. /\ MessagesAreSent /\ WorkersHoldMessages /\ dl' = dl
      /\ \A d \in Delivery : /\ (msg'[d].state = "none") <=> (msg[d].state = "none")
                             /\ msg[d].state = "none" => msg'[d] = msg[d]
                             /\ msg'[d].state = "visible" => msg'[d].received < MaxReceive
  BY DEF TypeInv, MessagesStay
<1>3. MessagesAreSent'
  BY <1>m, <1>2 DEF MessagesAreSent
<1>s. \A d \in Delivery : Sent(d) => Sent(d)'
  BY <1>m, <1>2 DEF Sent
<1>4. WorkersHoldMessages'
  <2>1. ASSUME NEW v \in Worker, v # w
        PROVE  /\ wk'[v].pc = "idle" => wk'[v] = IdleWorker
               /\ wk'[v].pc # "idle" => wk'[v].ev \in Delivery /\ Sent(wk[v].ev)'
               /\ wk'[v].pc = "send" => wk'[v].at \in Rule
    <3>1. wk'[v] = wk[v]
      BY <1>1, <2>1
    <3>2. QED
      BY <1>m, <1>s, <3>1 DEF WorkersHoldMessages
  <2>2. /\ f.pc = "idle" => f = IdleWorker
        /\ f.pc # "idle" => f.ev \in Delivery /\ Sent(f.ev)'
    BY <1>s
  <2>3. QED
    BY <1>1, <2>1, <2>2 DEF WorkersHoldMessages
<1>5. RequestsHoldItems'
  <2>1. \A i \in Item : item'[i] = NoItem => item[i] = NoItem
    BY DEF ItemsGrow, Stored, NoItem
  <2>2. \A q \in Req : rq[q].todo \subseteq Item
    BY DEF TypeInv, TypeOK, RequestState
  <2>3. QED
    BY <2>1, <2>2 DEF TypeInv, RequestsHoldItems
<1>6. \A i \in Item : item'[i] = NoItem \/ Stored(i)
  <2>1. ASSUME NEW i \in Item PROVE item'[i] = NoItem \/ Stored(i)
    <3>1. CASE item'[i] = item[i]
      BY <3>1 DEF TypeInv, Stored
    <3>2. QED
      BY <3>1 DEF ItemsGrow
  <2>2. QED
    BY <2>1
<1>7. \A i \in Item :
       \/ item'[i] = NoItem
       \/ item'[i].status \in ItemStatus /\ item'[i].rule \in Rule /\ event'[item'[i].ev] # "none"
  <2>1. ASSUME NEW i \in Item, item'[i] # NoItem
        PROVE  item'[i].status \in ItemStatus /\ item'[i].rule \in Rule /\ event'[item'[i].ev] # "none"
    <3>1. item'[i].status \in ItemStatus /\ item'[i].rule \in Rule /\ item'[i].ev \in Delivery
      BY <1>6, <2>1 DEF Stored, ItemState
    <3>2. event[item'[i].ev] # "none"
      BY <2>1 DEF ItemsGrow, TypeInv, TypeOK
    <3>3. QED
      BY <1>2, <3>1, <3>2
  <2>2. QED
    BY <2>1
<1>8. TypeOK'
  BY <1>1, <1>2, <1>7 DEF TypeInv, TypeOK
<1>9. QED
  BY <1>3, <1>4, <1>5, <1>6, <1>8 DEF TypeInv, Stored

LEMMA WorkerMoves ==
  ASSUME TypeInv, NEW w \in Worker, NEW f \in WorkerState, SetWk(w, f),
         f.pc # "idle" => f.ev \in Delivery /\ Sent(f.ev),
         f.pc = "idle" => f = IdleWorker,
         f.pc = "send" => f.at \in Rule,
         UNCHANGED <<marker, dl, rule, rq, event, msg, item>>,
         hist' \in HistState, faults' \in 0 .. MaxFaults
  PROVE  TypeInv'
<1>1. EventsStay
  BY DEF EventsStay, TypeInv, TypeOK
<1>2. msg' \in [Delivery -> MessageState] /\ MessagesStay
  BY DEF MessagesStay, TypeInv, TypeOK, MessagesAreSent
<1>3. item' \in [Item -> ItemState] /\ ItemsGrow
  BY DEF ItemsGrow, TypeInv
<1>4. QED
  BY <1>1, <1>2, <1>3, WorkerTyped

(* The counters of the history.                                            *)
LEMMA Counted ==
  ASSUME NEW c \in [Pair -> Nat], NEW p \in Pair
  PROVE  [c EXCEPT ![p] = @ + 1] \in [Pair -> Nat]
<1>1. c[p] + 1 \in Nat
  OBVIOUS
<1>2. QED
  BY <1>1

LEMMA WorkerStepTyped ==
  ASSUME TypeInv, NEW w \in Worker, WorkerStep(w) \/ WorkerFails(w) PROVE TypeInv'
<1>t. /\ wk[w] \in WorkerState /\ hist \in HistState /\ faults \in 0 .. MaxFaults
      /\ msg \in [Delivery -> MessageState] /\ event \in [Delivery -> {"none", "stored", "processed"}]
      /\ item \in [Item -> ItemState]
      /\ wk[w].pc # "idle" => wk[w].ev \in Delivery /\ Sent(wk[w].ev)
      /\ wk[w].pc = "send" => wk[w].at \in Rule
      /\ MessagesAreSent
  BY DEF TypeInv, TypeOK, WorkersHoldMessages
<1>i. IdleWorker \in WorkerState /\ IdleWorker.pc = "idle"
  BY DEF IdleWorker, WorkerState
<1>1. ASSUME NEW d \in Delivery, Receive(w, d) PROVE TypeInv'
  <2> DEFINE f == [IdleWorker EXCEPT !.pc = "guard", !.ev = d]
             g == [state |-> "hidden", received |-> msg[d].received + 1]
  <2>1. f \in WorkerState /\ f.pc = "guard" /\ f.ev = d
    BY DEF IdleWorker, WorkerState
  <2>2. msg[d] \in MessageState /\ msg[d].state = "visible" /\ msg[d].received < MaxReceive /\ event[d] # "none"
    BY <1>1, <1>t DEF Receive, MessagesAreSent
  <2>3. g \in MessageState /\ g.state = "hidden"
    BY <2>2, WebhookAssumption DEF MessageState
  <2>4. SetWk(w, f) /\ msg' = [msg EXCEPT ![d] = g] /\ UNCHANGED <<marker, dl, event, rule, item, rq, faults, hist>>
    BY <1>1 DEF Receive, ingest
  <2> HIDE DEF f, g
  <2>5. msg' \in [Delivery -> MessageState] /\ msg'[d] = g /\ \A e \in Delivery \ {d} : msg'[e] = msg[e]
    BY <1>t, <2>3, <2>4
  <2>6. MessagesStay
    BY <1>t, <2>2, <2>3, <2>5 DEF MessagesStay, MessagesAreSent
  <2>7. EventsStay
    BY <1>t, <2>4 DEF EventsStay
  <2>8. item' \in [Item -> ItemState] /\ ItemsGrow
    BY <1>t, <2>4 DEF ItemsGrow
  <2>9. Sent(d)
    BY <2>2 DEF Sent
  <2>10. QED
    BY <1>t, <2>1, <2>4, <2>5, <2>6, <2>7, <2>8, <2>9, WorkerTyped
<1>2. CASE Guard(w)
  <2> DEFINE f == [wk[w] EXCEPT !.pc = IF event[wk[w].ev] = "processed" THEN "ack" ELSE "match"]
  <2>1. f \in WorkerState /\ f.pc \in {"ack", "match"} /\ f.ev = wk[w].ev
    BY <1>t DEF WorkerState
  <2>2. SetWk(w, f) /\ UNCHANGED <<marker, dl, event, msg, rule, item, rq, faults, hist>> /\ wk[w].pc = "guard"
    BY <1>2 DEF Guard, ingest
  <2> HIDE DEF f
  <2>3. QED
    BY <1>t, <2>1, <2>2, WorkerMoves
<1>3. CASE FindMatchingRules(w)
  <2>1. \A s \in RuleStatus : wk[w].pc = "match" => Matched(w, s) \subseteq Rule
    BY <1>t, WebhookAssumption DEF Matched
  <2> DEFINE f == [wk[w] EXCEPT !.pc = "work", !.store = Matched(w, "paused"), !.fire = Matched(w, "active")]
  <2>2. SetWk(w, f) /\ UNCHANGED <<marker, dl, event, msg, rule, item, rq, faults, hist>> /\ wk[w].pc = "match"
    BY <1>3 DEF FindMatchingRules, ingest
  <2>3. Matched(w, "paused") \subseteq Rule /\ Matched(w, "active") \subseteq Rule
    BY <2>1, <2>2 DEF RuleStatus
  <2>4. f \in WorkerState /\ f.pc = "work" /\ f.ev = wk[w].ev
    BY <1>t, <2>3 DEF WorkerState
  <2> HIDE DEF f
  <2>5. QED
    BY <1>t, <2>2, <2>4, WorkerMoves
<1>4. CASE StoreQueuedWebhook(w)
  <2> DEFINE r == First(wk[w].store)
             f == [wk[w] EXCEPT !.store = @ \ {r}]
             g == [status |-> "queued", ev |-> wk[w].ev, rule |-> r]
  <2>1. wk[w].pc = "work" /\ r \in Rule
    BY <1>4, <1>t, FirstIsLeast, WebhookAssumption DEF StoreQueuedWebhook, WorkerState
  <2>2. f \in WorkerState /\ f.pc = "work" /\ f.ev = wk[w].ev
    BY <1>t, <2>1 DEF WorkerState
  <2>3. SetWk(w, f) /\ UNCHANGED <<marker, dl, event, msg, rule, rq, faults>>
    BY <1>4 DEF StoreQueuedWebhook, ingest
  <2>4. PICK i \in Item : /\ FreshItem(i) /\ item' = [item EXCEPT ![i] = g]
                          /\ hist' = [hist EXCEPT !.late = IF rule[r] = "active" THEN @ \cup {i} ELSE @]
    BY <1>4 DEF StoreQueuedWebhook
  <2>5. hist' \in HistState
    BY <1>t, <2>4 DEF HistState
  <2>6. g \in ItemState /\ g.status # "none" /\ g.ev = wk[w].ev /\ g.rule \in Rule
    BY <1>t, <2>1 DEF ItemState, ItemStatus
  <2>7. item[i] = NoItem
    BY <2>4 DEF FreshItem, TypeInv
  <2> HIDE DEF f, g, r
  <2>8. item' \in [Item -> ItemState] /\ item'[i] = g /\ \A j \in Item \ {i} : item'[j] = item[j]
    BY <1>t, <2>4, <2>6
  <2>9. ItemsGrow
    BY <1>t, <2>1, <2>6, <2>7, <2>8 DEF ItemsGrow, Stored, Sent
  <2>10. EventsStay /\ msg' \in [Delivery -> MessageState] /\ MessagesStay
    BY <1>t, <2>3 DEF EventsStay, MessagesStay, MessagesAreSent
  <2>11. faults' \in 0 .. MaxFaults
    BY <1>t, <2>3
  <2>12. QED
    BY <1>t, <2>1, <2>2, <2>3, <2>5, <2>8, <2>9, <2>10, <2>11, WorkerTyped
<1>5. CASE PutEntry(w)
  <2> DEFINE r == First(wk[w].fire)
             f == [wk[w] EXCEPT !.pc = "send", !.at = r]
             c == [hist.entries EXCEPT ![Job(w, r)] = @ + 1]
  <2>1. wk[w].pc = "work" /\ r \in Rule
    BY <1>5, <1>t, FirstIsLeast, WebhookAssumption DEF PutEntry, WorkerState
  <2>2. f \in WorkerState /\ f.pc = "send" /\ f.ev = wk[w].ev /\ f.at = r
    BY <1>t, <2>1 DEF WorkerState
  <2>3. SetWk(w, f) /\ UNCHANGED <<marker, dl, event, msg, rule, item, rq, faults>>
        /\ hist' = [hist EXCEPT !.entries = c]
    BY <1>5 DEF PutEntry, ingest
  <2>4. c \in [Pair -> Nat]
    BY <1>t, <2>1, Counted DEF HistState, Job, Pair
  <2> HIDE DEF c, f, r
  <2>5. hist' \in HistState
    BY <1>t, <2>3, <2>4 DEF HistState
  <2>6. QED
    BY <1>t, <2>1, <2>2, <2>3, <2>5, WorkerMoves
<1>6. CASE QueueLaunch(w)
  <2> DEFINE r == wk[w].at
             f == [wk[w] EXCEPT !.pc = "work", !.fire = @ \ {wk[w].at}, !.at = None]
             c == [hist.jobs EXCEPT ![Job(w, r)] = @ + 1]
             b == [hist.fired EXCEPT ![Job(w, r)] = @ + 1]
  <2>1. wk[w].pc = "send" /\ r \in Rule
    BY <1>6, <1>t DEF QueueLaunch
  <2>2. f \in WorkerState /\ f.pc = "work" /\ f.ev = wk[w].ev
    BY <1>t, <2>1 DEF WorkerState
  <2>3. SetWk(w, f) /\ UNCHANGED <<marker, dl, event, msg, rule, item, rq, faults>>
        /\ hist' = [hist EXCEPT !.jobs = c, !.fired = b]
    BY <1>6 DEF QueueLaunch, ingest
  <2>4. c \in [Pair -> Nat] /\ b \in [Pair -> Nat]
    BY <1>t, <2>1, Counted DEF HistState, Job, Pair
  <2> HIDE DEF c, b, f, r
  <2>5. hist' \in HistState
    BY <1>t, <2>3, <2>4 DEF HistState
  <2>6. QED
    BY <1>t, <2>1, <2>2, <2>3, <2>5, WorkerMoves
<1>7. CASE MarkProcessed(w)
  <2> DEFINE f == [wk[w] EXCEPT !.pc = "ack"]
  <2>1. f \in WorkerState /\ f.pc = "ack" /\ f.ev = wk[w].ev
    BY <1>t DEF WorkerState
  <2>2. SetWk(w, f) /\ UNCHANGED <<marker, dl, msg, rule, item, rq, faults, hist>> /\ wk[w].pc = "work"
        /\ event' = [event EXCEPT ![wk[w].ev] = "processed"]
    BY <1>7 DEF MarkProcessed, ingest
  <2> HIDE DEF f
  <2>3. wk[w].ev \in Delivery /\ event[wk[w].ev] # "none"
    BY <1>t, <2>2 DEF Sent
  <2>4. EventsStay
    BY <1>t, <2>2, <2>3 DEF EventsStay
  <2>5. msg' \in [Delivery -> MessageState] /\ MessagesStay /\ item' \in [Item -> ItemState] /\ ItemsGrow
    BY <1>t, <2>2 DEF MessagesStay, MessagesAreSent, ItemsGrow
  <2>6. QED
    BY <1>t, <2>1, <2>2, <2>4, <2>5, WorkerTyped
<1>8. CASE Ack(w)
  <2>1. SetWk(w, IdleWorker) /\ UNCHANGED <<marker, dl, event, rule, item, rq, faults, hist>> /\ wk[w].pc = "ack"
        /\ MsgTo(wk[w].ev, "deleted")
    BY <1>8 DEF Ack, ingest, MsgTo
  <2>2. wk[w].ev \in Delivery /\ msg[wk[w].ev].state # "none"
    BY <1>t, <2>1 DEF Sent
  <2>3. /\ msg' \in [Delivery -> MessageState] /\ msg'[wk[w].ev].state = "deleted"
        /\ \A e \in Delivery \ {wk[w].ev} : msg'[e] = msg[e]
    BY <1>t, <2>1, <2>2, MsgToSets
  <2>4. MessagesStay
    BY <1>t, <2>2, <2>3 DEF MessagesStay, MessagesAreSent
  <2>5. EventsStay /\ item' \in [Item -> ItemState] /\ ItemsGrow
    BY <1>t, <2>1 DEF EventsStay, ItemsGrow
  <2>6. QED
    BY <1>t, <1>i, <2>1, <2>3, <2>4, <2>5, WorkerTyped
<1>9. CASE WorkerFails(w)
  <2>1. SetWk(w, IdleWorker) /\ UNCHANGED <<marker, dl, event, msg, rule, item, rq, hist>> /\ faults' \in 0 .. MaxFaults
    BY <1>9, FaultTyped DEF WorkerFails, ingest
  <2>2. QED
    BY <1>t, <1>i, <2>1, WorkerMoves
<1>10. QED
  BY <1>1, <1>2, <1>3, <1>4, <1>5, <1>6, <1>7, <1>8, <1>9 DEF WorkerStep

(* A request sets a status, works through the items it has read, or        *)
(* cancels one: the ingest and the workers are as they were, and an item   *)
(* at most changes its status.                                             *)
Restatus == \A i \in Item : item'[i] = item[i] \/
              (item[i] # NoItem /\ \E s \in ItemStatus \ {"none"} : item'[i] = [item[i] EXCEPT !.status = s])

LEMMA RequestTyped ==
  ASSUME TypeInv, NEW q \in Req, NEW f \in RequestState, SetRq(q, f),
         UNCHANGED <<marker, dl, event, msg, wk, faults>>, rule' \in [Rule -> RuleStatus],
         f.pc \notin {"idle", "done"} => f.rule \in Rule,
         f.pc \in {"idle", "read", "done"} => f.todo = {},
         f.pc \in {"entry", "send"} => f.todo # {},
         \A i \in f.todo : item[i] # NoItem,
         item' \in [Item -> ItemState], Restatus, hist' \in HistState
  PROVE  TypeInv'
<1>t. rq \in [Req -> RequestState] /\ RequestsHoldItems /\ item \in [Item -> ItemState]
  BY DEF TypeInv, TypeOK
<1>1. rq' \in [Req -> RequestState] /\ rq'[q] = f /\ \A p \in Req \ {q} : rq'[p] = rq[p]
  BY <1>t DEF SetRq
<1>2. \A i \in Item : /\ item'[i].ev = item[i].ev /\ item'[i].rule = item[i].rule
                      /\ item[i] # NoItem => item'[i].status # "none"
  <2>1. SUFFICES ASSUME NEW i \in Item
                 PROVE  /\ item'[i].ev = item[i].ev /\ item'[i].rule = item[i].rule
                        /\ item[i] # NoItem => item'[i].status # "none"
    OBVIOUS
  <2>2. CASE item'[i] = item[i]
    BY <2>2 DEF TypeInv
  <2>3. CASE item[i] # NoItem /\ \E s \in ItemStatus \ {"none"} : item'[i] = [item[i] EXCEPT !.status = s]
    BY <1>t, <2>3 DEF ItemState
  <2>4. QED
    BY <2>2, <2>3 DEF Restatus
<1>3. \A i \in Item : (item[i] = NoItem) <=> (item'[i] = NoItem)
  <2>1. ASSUME NEW i \in Item, item[i] = NoItem PROVE item'[i] = NoItem
    BY <2>1 DEF Restatus
  <2>2. ASSUME NEW i \in Item, item[i] # NoItem PROVE item'[i] # NoItem
    BY <1>2, <2>2 DEF NoItem
  <2>3. QED
    BY <2>1, <2>2
<1>4. \A i \in Item : \/ item'[i] = NoItem
                      \/ item'[i].status # "none" /\ item'[i].ev \in Delivery /\ item'[i].rule \in Rule
  BY <1>2, <1>3 DEF TypeInv
<1>5. RequestsHoldItems'
  <2>1. \A p \in Req : rq[p].todo \subseteq Item
    BY <1>t DEF RequestState
  <2>2. \A i \in f.todo : i \in Item
    BY DEF RequestState
  <2>3. ASSUME NEW p \in Req
        PROVE  /\ rq'[p].pc \notin {"idle", "done"} => rq'[p].rule \in Rule
               /\ rq'[p].pc \in {"idle", "read", "done"} => rq'[p].todo = {}
               /\ rq'[p].pc \in {"entry", "send"} => rq'[p].todo # {}
               /\ \A i \in rq'[p].todo : item'[i] # NoItem
    <3>1. CASE p = q
      BY <1>1, <1>3, <2>2, <3>1
    <3>2. CASE p # q
      BY <1>t, <1>1, <1>3, <2>1, <3>2 DEF RequestsHoldItems
    <3>3. QED
      BY <3>1, <3>2
  <2>4. QED
    BY <2>3 DEF RequestsHoldItems
<1>6. MessagesAreSent' /\ WorkersHoldMessages'
  BY DEF TypeInv, MessagesAreSent, WorkersHoldMessages, Sent
<1>7. \A i \in Item :
       \/ item'[i] = NoItem
       \/ item'[i].status \in ItemStatus /\ item'[i].rule \in Rule /\ event'[item'[i].ev] # "none"
  <2>1. ASSUME NEW i \in Item, item'[i] # NoItem
        PROVE  item'[i].status \in ItemStatus /\ item'[i].rule \in Rule /\ event'[item'[i].ev] # "none"
    <3>1. item'[i].status \in ItemStatus
      BY DEF ItemState
    <3>2. item[i] # NoItem /\ event' = event
      BY <1>3, <2>1
    <3>3. event[item[i].ev] # "none"
      BY <3>2 DEF TypeInv, TypeOK
    <3>4. QED
      BY <1>2, <1>4, <2>1, <3>1, <3>2, <3>3
  <2>2. QED
    BY <2>1
<1>8. TypeOK'
  BY <1>1, <1>7 DEF TypeInv, TypeOK
<1>9. QED
  BY <1>4, <1>5, <1>6, <1>8 DEF TypeInv

LEMMA StatusTyped ==
  ASSUME TypeInv, NEW q \in Req, NEW k \in {"pause", "resume", "delete"}, NEW s \in RuleStatus,
         SetStatus(q, k, s)
  PROVE  TypeInv'
<1>1. PICK r \in Asked :
        /\ rule' = [rule EXCEPT ![r] = s]
        /\ SetRq(q, [IdleReq EXCEPT !.rule = r, !.pc = IF k = "resume" THEN "read" ELSE "done"])
        /\ hist' = [hist EXCEPT !.deleted = IF k = "delete" THEN @ \cup {r} ELSE @]
  BY DEF SetStatus
<1> DEFINE f == [IdleReq EXCEPT !.rule = r, !.pc = IF k = "resume" THEN "read" ELSE "done"]
<1>2. r \in Rule
  BY WebhookAssumption
<1>3. f \in RequestState /\ f.pc \in {"read", "done"} /\ f.rule = r /\ f.todo = {}
  BY <1>2 DEF IdleReq, RequestState
<1>4. SetRq(q, f) /\ UNCHANGED <<marker, dl, event, msg, wk, faults, item>>
  BY <1>1 DEF SetStatus, pipeline, ingest
<1> HIDE DEF f
<1>5. hist' \in HistState
  BY <1>1, <1>2 DEF TypeInv, HistState
<1>6. rule' \in [Rule -> RuleStatus] /\ item' \in [Item -> ItemState] /\ Restatus
  BY <1>1, <1>4 DEF TypeInv, TypeOK, Restatus
<1>7. QED
  BY <1>2, <1>3, <1>4, <1>5, <1>6, RequestTyped

(* One item's status is set.                                               *)
LEMMA OneRestatus ==
  ASSUME item \in [Item -> ItemState], NEW i \in Item, item[i] # NoItem,
         NEW s \in ItemStatus \ {"none"}, item' = [item EXCEPT ![i].status = s]
  PROVE  /\ item' \in [Item -> ItemState] /\ Restatus
         /\ item'[i] = [item[i] EXCEPT !.status = s] /\ \A j \in Item \ {i} : item'[j] = item[j]
<1> DEFINE g == [item[i] EXCEPT !.status = s]
<1>1. g \in ItemState
  BY DEF ItemState
<1>2. item' = [item EXCEPT ![i] = g] /\ g = [item[i] EXCEPT !.status = s]
  OBVIOUS
<1> HIDE DEF g
<1>3. item' \in [Item -> ItemState] /\ item'[i] = g /\ \A j \in Item \ {i} : item'[j] = item[j]
  BY <1>1, <1>2
<1>4. QED
  BY <1>2, <1>3 DEF Restatus

LEMMA RequestStepTyped ==
  ASSUME TypeInv, NEW q \in Req, RequestStarts(q) \/ RequestProceeds(q) PROVE TypeInv'
<1>t. /\ rq[q] \in RequestState /\ hist \in HistState /\ item \in [Item -> ItemState]
      /\ rule \in [Rule -> RuleStatus]
      /\ rq[q].pc \notin {"idle", "done"} => rq[q].rule \in Rule
      /\ rq[q].pc \in {"idle", "read", "done"} => rq[q].todo = {}
      /\ rq[q].pc \in {"entry", "send"} => rq[q].todo # {}
      /\ \A i \in rq[q].todo : item[i] # NoItem
  BY DEF TypeInv, TypeOK, RequestsHoldItems
<1>u. item' = item => item' \in [Item -> ItemState] /\ Restatus
  BY <1>t DEF Restatus
<1>0. \A S \in SUBSET Item : S # {} => First(S) \in S
  BY FirstIsLeast, WebhookAssumption
<1>s. rq[q].todo \subseteq Item
  BY <1>t DEF RequestState
<1>a. \A i \in Item : /\ item[i] # NoItem => item[i].ev \in Delivery /\ item[i].rule \in Rule
                      /\ item[i].status # "none" => item[i] # NoItem
  BY DEF TypeInv, NoItem
<1>q. \A r \in Rule : Queue(r) \subseteq Item /\ \A i \in Queue(r) : item[i] # NoItem
  BY DEF Queue, NoItem
<1>1. CASE Pause(q) \/ Delete(q) \/ Activate(q)
  BY <1>1, StatusTyped DEF Pause, Delete, Activate, RuleStatus
<1>2. CASE FindItem(q)
  <2>0. PICK r \in Asked : \E i \in Queue(r) : SetRq(q, [pc |-> "flip", rule |-> r, todo |-> {i}])
    BY <1>2 DEF FindItem
  <2>1. PICK i \in Queue(r) : SetRq(q, [pc |-> "flip", rule |-> r, todo |-> {i}])
    BY <2>0
  <2> DEFINE f == [pc |-> "flip", rule |-> r, todo |-> {i}]
  <2>2. r \in Rule
    BY WebhookAssumption
  <2>3. f \in RequestState /\ f.pc = "flip" /\ f.rule = r /\ f.todo = {i} /\ item[i] # NoItem
    BY <1>q, <2>2 DEF RequestState
  <2>4. SetRq(q, f) /\ UNCHANGED <<marker, dl, event, msg, wk, faults, rule, item, hist>>
    BY <1>2, <2>1 DEF FindItem, pipeline, ingest
  <2> HIDE DEF f
  <2>5. QED
    BY <1>t, <1>u, <2>2, <2>3, <2>4, RequestTyped
<1>3. CASE CancelItem(q)
  <2>1. PICK i \in Item :
          /\ item[i].status # "none" /\ item' = [item EXCEPT ![i].status = "cancelled"]
          /\ hist' = [hist EXCEPT !.raced = IF \E p \in Req : i \in rq[p].todo THEN @ \cup {i} ELSE @,
                                  !.late = @ \ {i}]
    BY <1>3 DEF CancelItem
  <2> DEFINE f == [rq[q] EXCEPT !.pc = "done"]
  <2>2. rq[q].pc = "idle" /\ SetRq(q, f) /\ UNCHANGED <<marker, dl, event, msg, wk, faults, rule>>
    BY <1>3 DEF CancelItem, pipeline, ingest
  <2>3. f \in RequestState /\ f.pc = "done" /\ f.todo = {}
    BY <1>t, <2>2 DEF RequestState
  <2> HIDE DEF f
  <2>4. item' \in [Item -> ItemState] /\ Restatus
    BY <1>a, <1>t, <2>1, OneRestatus DEF ItemStatus
  <2>5. hist' \in HistState
    BY <1>t, <2>1 DEF HistState
  <2>6. QED
    BY <1>t, <2>2, <2>3, <2>4, <2>5, RequestTyped
<1>4. CASE ReadQueue(q)
  <2> DEFINE f == [rq[q] EXCEPT !.todo = Queue(rq[q].rule), !.pc = "flip"]
  <2>1. rq[q].pc = "read" /\ SetRq(q, f) /\ UNCHANGED <<marker, dl, event, msg, wk, faults, rule, item, hist>>
    BY <1>4 DEF ReadQueue, pipeline, ingest
  <2>2. f \in RequestState /\ f.pc = "flip" /\ f.rule = rq[q].rule /\ f.todo = Queue(rq[q].rule)
        /\ rq[q].rule \in Rule
    BY <1>t, <1>q, <2>1 DEF RequestState
  <2> HIDE DEF f
  <2>3. QED
    BY <1>t, <1>u, <1>q, <2>1, <2>2, RequestTyped
<1>5. CASE Flip(q)
  <2> DEFINE i == First(rq[q].todo)
             f == [rq[q] EXCEPT !.pc = "entry"]
  <2>1. /\ rq[q].pc = "flip" /\ rq[q].todo # {} /\ SetRq(q, f) /\ item' = [item EXCEPT ![i].status = "released"]
        /\ UNCHANGED <<marker, dl, event, msg, wk, faults, rule>> /\ hist' = [hist EXCEPT !.late = @ \ {i}]
    BY <1>5 DEF Flip, pipeline, ingest
  <2>2. i \in Item /\ item[i] # NoItem
    BY <1>0, <1>s, <1>t, <2>1
  <2>3. f \in RequestState /\ f.pc = "entry" /\ f.todo = rq[q].todo /\ f.rule = rq[q].rule
    BY <1>t DEF RequestState
  <2> HIDE DEF i, f
  <2>4. item' \in [Item -> ItemState] /\ Restatus
    BY <1>t, <2>1, <2>2, OneRestatus DEF ItemStatus
  <2>5. hist' \in HistState
    BY <1>t, <2>1 DEF HistState
  <2>6. QED
    BY <1>t, <2>1, <2>3, <2>4, <2>5, RequestTyped
<1>p. rq[q].pc \in {"entry", "send"} => At(q) \in Pair
  BY <1>0, <1>s, <1>t, <1>a DEF At, Pair
<1>6. CASE ReleaseEntry(q)
  <2> DEFINE f == [rq[q] EXCEPT !.pc = "send"]
             c == [hist.entries EXCEPT ![At(q)] = @ + 1]
  <2>1. /\ rq[q].pc = "entry" /\ SetRq(q, f) /\ hist' = [hist EXCEPT !.entries = c]
        /\ UNCHANGED <<marker, dl, event, msg, wk, faults, rule, item>>
    BY <1>6 DEF ReleaseEntry, pipeline, ingest
  <2>2. f \in RequestState /\ f.pc = "send" /\ f.todo = rq[q].todo /\ f.rule = rq[q].rule
    BY <1>t DEF RequestState
  <2>3. c \in [Pair -> Nat]
    BY <1>t, <1>p, <2>1, Counted DEF HistState
  <2> HIDE DEF c, f
  <2>4. hist' \in HistState
    BY <1>t, <2>1, <2>3 DEF HistState
  <2>5. QED
    BY <1>t, <1>u, <2>1, <2>2, <2>4, RequestTyped
<1>7. CASE ReleaseSend(q)
  <2> DEFINE f == [rq[q] EXCEPT !.pc = "flip", !.todo = rq[q].todo \ {First(rq[q].todo)}]
             c == [hist.jobs EXCEPT ![At(q)] = @ + 1]
  <2>1. /\ rq[q].pc = "send" /\ SetRq(q, f) /\ hist' = [hist EXCEPT !.jobs = c]
        /\ UNCHANGED <<marker, dl, event, msg, wk, faults, rule, item>>
    BY <1>7 DEF ReleaseSend, pipeline, ingest
  <2>2. f \in RequestState /\ f.pc = "flip" /\ f.todo \subseteq rq[q].todo /\ f.rule = rq[q].rule
    BY <1>t DEF RequestState
  <2>3. c \in [Pair -> Nat]
    BY <1>t, <1>p, <2>1, Counted DEF HistState
  <2> HIDE DEF c, f
  <2>4. hist' \in HistState
    BY <1>t, <2>1, <2>3 DEF HistState
  <2>5. QED
    BY <1>t, <1>u, <2>1, <2>2, <2>4, RequestTyped
<1>8. CASE ReleaseDone(q)
  <2> DEFINE f == [rq[q] EXCEPT !.pc = "done"]
  <2>1. /\ rq[q].pc = "flip" /\ rq[q].todo = {} /\ SetRq(q, f)
        /\ UNCHANGED <<marker, dl, event, msg, wk, faults, rule, item, hist>>
    BY <1>8 DEF ReleaseDone, pipeline, ingest
  <2>2. f \in RequestState /\ f.pc = "done" /\ f.todo = {}
    BY <1>t, <2>1 DEF RequestState
  <2> HIDE DEF f
  <2>3. QED
    BY <1>t, <1>u, <2>1, <2>2, RequestTyped
<1>9. QED
  BY <1>1, <1>2, <1>3, <1>4, <1>5, <1>6, <1>7, <1>8 DEF RequestStarts, RequestProceeds

LEMMA WebhookTypeStep == TypeInv /\ [Next]_vars => TypeInv'
<1> SUFFICES ASSUME TypeInv, [Next]_vars PROVE TypeInv'
  OBVIOUS
<1>1. CASE UNCHANGED vars
  BY <1>1 DEF vars, TypeInv, TypeOK, MessagesAreSent, WorkersHoldMessages, RequestsHoldItems, Sent
<1>2. CASE Next
  BY <1>1, <1>2, DeliveryTyped, ReappearTyped, WorkerStepTyped, RequestStepTyped DEF Next, Rest
<1>3. QED
  BY <1>1, <1>2

(* Items and processes hold what the code gives them, and every queued     *)
(* webhook, message and job names an event that is stored.                 *)
THEOREM WebhookTypeCorrect == Spec => []TypeOK
<1>1. Init => TypeInv
  BY WebhookInit
<1>2. TypeInv /\ [Next]_vars => TypeInv'
  BY WebhookTypeStep
<1>3. TypeInv => TypeOK
  BY DEF TypeInv
<1>4. QED
  BY <1>1, <1>2, <1>3, PTL DEF Spec
=============================================================================
