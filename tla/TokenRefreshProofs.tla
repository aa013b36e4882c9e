------------------------- MODULE TokenRefreshProofs -------------------------
(***************************************************************************)
(* The refresh token of a connection is not lost, a fresh one shows no     *)
(* false warning and a deleted connection does not come back, whatever the *)
(* number of workers, callers and requests, of jobs and of faults - but    *)
(* for what a write over a changed record does, which the properties name. *)
(***************************************************************************)
EXTENDS TokenRefresh, TLAPS

(* What the actors' local variables may hold.                              *)
ActorPc == {"idle", "read", "fetch", "exchange", "store", "warn", "throw", "ack", "probe",
            "verdict", "remove", "done"}
ActorState == [pc : ActorPc, kind : AskKind \cup {"none"}, job : Job \cup {None},
               token : Token \cup {None}, seen : {"none", "healthy", "warning"},
               raced : BOOLEAN, final : BOOLEAN]
PastState == [deleted : BOOLEAN, raced : BOOLEAN, unsaved : BOOLEAN, unwell : BOOLEAN]

(* Jobs are in one pair of hands: a message is received when it is visible *)
(* and held while it is hidden, and its receives stay within the redrive   *)
(* policy.  Only a job's actor warns, acknowledges or throws.              *)
HandsOff ==
  /\ \A a, b \in Actor : act[a].job # None /\ act[a].job = act[b].job => a = b
  /\ \A j \in Job : job[j].state = "visible" => job[j].received < MaxReceive
  /\ \A a \in Actor : /\ act[a].kind = "job" => act[a].job \in Job
                      /\ act[a].pc \in {"warn", "throw", "ack"} => act[a].kind = "job"
                      /\ act[a].pc = "read" => act[a].kind # "none"
                      /\ act[a].pc = "verdict" => act[a].seen # "none"
TokenTypeInv ==
  /\ TokenTypeOK
  /\ act \in [Actor -> ActorState]
  /\ past \in PastState
  /\ HandsOff

(* A worker comes to a refresh only with a token near its end, and a test  *)
(* writes "warning" only for a token it found not working.                 *)
NotFresh == conn.left \notin 2 .. 3
JobsFindTokenOld ==
  \A a \in Actor : act[a].kind = "job" /\ act[a].pc \in {"fetch", "exchange", "store", "warn"}
                     => act[a].raced \/ NotFresh
VerdictIsDue ==
  \A a \in Actor : At(a, "verdict") /\ act[a].seen = "warning"
                     => act[a].raced \/ past.unwell \/ conn.left = 0

(* Among the actors about to store a token of an unchanged record one      *)
(* stores the newest.                                                      *)
NewestAtHand == \E a \in Actor : At(a, "store") /\ act[a].token = newest
StoresEndWithNewest ==
  conn.whole /\ ~past.unsaved /\ ~past.raced =>
    \A a \in Actor : At(a, "store") /\ ~act[a].raced => act[a].token = newest \/ NewestAtHand

(* When the record is gone, whoever is past its reading has been raced.    *)
Engaged(a) == act[a].pc \in {"fetch", "exchange", "store", "warn", "probe", "verdict", "remove"}
GoneIsNoticed ==
  /\ conn.whole => conn.there
  /\ ~conn.there => \A a \in Actor : Engaged(a) => act[a].raced

TokenInv ==
  /\ RefreshTokenKept /\ StoresEndWithNewest
  /\ NoFalseWarning /\ JobsFindTokenOld /\ VerdictIsDue
  /\ DeletedStaysDeleted /\ GoneIsNoticed

----------------------------------------------------------------------------
(* Type correctness.                                                       *)

LEMMA TokenTypeInit == TokenInit => TokenTypeInv
<1> SUFFICES ASSUME TokenInit PROVE TokenTypeInv
  OBVIOUS
<1>1. IdleActor \in ActorState
  BY DEF IdleActor, ActorState, ActorPc
<1>2. act \in [Actor -> ActorState]
  BY <1>1 DEF TokenInit
<1>3. past \in PastState
  BY DEF TokenInit, PastState
<1>4. \A a \in Actor : act[a] = IdleActor
  BY DEF TokenInit
<1>5. HandsOff
  BY <1>4, TokenAssumption DEF TokenInit, HandsOff, IdleActor
<1>6. TokenTypeOK
  BY <1>4, TokenAssumption DEF TokenInit, TokenTypeOK, IdleActor
<1>7. QED
  BY <1>2, <1>3, <1>5, <1>6 DEF TokenTypeInv

(* A step of the actors that leaves the queue alone: each keeps its job or *)
(* gives it up.                                                            *)
ActsTyped ==
  /\ act' \in [Actor -> ActorState]
  /\ \A b \in Actor :
       /\ act'[b].job \in {None, act[b].job}
       /\ act'[b].kind = "job" => act[b].kind = "job" /\ act'[b].job = act[b].job
       /\ act'[b].pc \in {"warn", "throw", "ack"} => act'[b].kind = "job"
       /\ act'[b].pc = "read" => act[b].pc = "read" /\ act'[b].kind = act[b].kind
       /\ act'[b].pc = "verdict" => act'[b].seen # "none"
       /\ act'[b].pc \in {"exchange", "store"} => act'[b].token \in Token

JobsHeld == \A a \in Actor : act[a].job # None => job[act[a].job].state = "hidden"

LEMMA ActsTypedKeep ==
  ASSUME TokenTypeInv, ActsTyped, job' = job
  PROVE  HandsOff' /\ JobsHeld'
<1>1. HandsOff'
  BY DEF TokenTypeInv, HandsOff, ActsTyped
<1>2. JobsHeld'
  BY DEF TokenTypeInv, TokenTypeOK, JobsHeld, ActsTyped
<1>3. QED
  BY <1>1, <1>2

(* An actor that is done keeps its job only as a request, which has none.  *)
LEMMA OverTyped ==
  ASSUME TokenTypeInv, NEW a \in Actor
  PROVE  /\ Over(a) \in ActorState
         /\ Over(a).job \in {None, act[a].job}
         /\ Over(a).kind # "job"
         /\ Over(a).pc \in {"idle", "done"}
<1>1. act[a] \in ActorState
  BY DEF TokenTypeInv
<1>2. IdleActor \in ActorState /\ IdleActor.job = None /\ IdleActor.kind = "none" /\ IdleActor.pc = "idle"
  BY DEF IdleActor, ActorState, ActorPc
<1>3. CASE act[a].kind = "job"
  BY <1>2, <1>3 DEF Over
<1>4. CASE act[a].kind # "job"
  BY <1>1, <1>4 DEF Over, ActorState, ActorPc
<1>5. QED
  BY <1>3, <1>4

(* One actor moves on.                                                     *)
LEMMA OneActs ==
  ASSUME TokenTypeInv, NEW a \in Actor, NEW f \in ActorState, act' = [act EXCEPT ![a] = f],
         f.job \in {None, act[a].job},
         f.kind = "job" => act[a].kind = "job" /\ f.job = act[a].job,
         f.pc \in {"warn", "throw", "ack"} => f.kind = "job",
         f.pc # "read", f.pc = "verdict" => f.seen # "none",
         f.pc \in {"exchange", "store"} => f.token \in Token
  PROVE  ActsTyped
  BY DEF ActsTyped, TokenTypeInv, TokenTypeOK, HandsOff

(* An actor fails.                                                         *)
LEMMA FailsTyped ==
  ASSUME TokenTypeInv, NEW a \in Actor, NEW p \in BOOLEAN, Fails(a, p)
  PROVE  ActsTyped
<1> DEFINE f == IF act[a].kind = "job" THEN [act[a] EXCEPT !.pc = "warn", !.final = p] ELSE Over(a)
<1>1. act[a] \in ActorState
  BY DEF TokenTypeInv
<1>2. f \in ActorState /\ f.job \in {None, act[a].job} /\ (f.kind = "job" => act[a].kind = "job" /\ f.job = act[a].job)
  BY <1>1, OverTyped DEF ActorState, ActorPc
<1>3. f.pc \in {"warn", "throw", "ack"} => f.kind = "job"
  BY <1>1, OverTyped DEF ActorState, ActorPc
<1>4. f.pc \notin {"read", "verdict", "exchange", "store"}
  BY <1>1, OverTyped DEF ActorState, ActorPc
<1>5. act' = [act EXCEPT ![a] = f]
  BY DEF Fails
<1>6. QED
  BY <1>2, <1>3, <1>4, <1>5, OneActs

(* A write of the record: the writer moves on, the others learn of it.     *)
LEMMA WritesTyped ==
  ASSUME TokenTypeInv, NEW a \in Actor, NEW f \in ActorState, NEW rec, WriteConn(a, rec, f),
         rec.there \in BOOLEAN,
         f.job \in {None, act[a].job},
         f.kind = "job" => act[a].kind = "job" /\ f.job = act[a].job,
         f.pc \in {"warn", "throw", "ack"} => f.kind = "job",
         f.pc \notin {"read", "verdict", "exchange", "store"}
  PROVE  ActsTyped /\ past' \in PastState /\ conn' = rec
<1>1. act \in [Actor -> ActorState] /\ past \in PastState
  BY DEF TokenTypeInv
<1>2. past' \in PastState
  BY <1>1 DEF WriteConn, PastState, ActorState
<1>3. \A b \in Actor : [act[b] EXCEPT !.raced = TRUE] \in ActorState
  BY <1>1 DEF ActorState
<1>4. act' \in [Actor -> ActorState]
  BY <1>1, <1>3 DEF WriteConn
<1>5. \A b \in Actor \ {a} : /\ act'[b].job = act[b].job /\ act'[b].kind = act[b].kind
                           /\ act'[b].pc = act[b].pc /\ act'[b].token = act[b].token
                           /\ act'[b].seen = act[b].seen
  BY <1>1 DEF WriteConn, ActorState
<1>6. act'[a] = f
  BY DEF WriteConn
<1>7. ActsTyped
  BY <1>4, <1>5, <1>6 DEF ActsTyped, TokenTypeInv, TokenTypeOK, HandsOff
<1>8. QED
  BY <1>2, <1>7 DEF WriteConn

(* The record the code writes is one the type allows.                      *)
ConnTyped(rec) ==
  /\ rec \in [there : BOOLEAN, whole : BOOLEAN, status : {"none", "healthy", "warning"},
              refresh : Token \cup {None}, left : 0 .. 3 \cup {None}]
  /\ rec.there => rec.status # "none"

LEMMA RecordsTyped ==
  ASSUME TokenTypeInv
  PROVE  /\ ConnTyped(conn) /\ ConnTyped(Absent)
         /\ \A t \in Token : ConnTyped(Refreshed(t))
         /\ \A s \in {"healthy", "warning"} : ConnTyped(WithStatus(s))
<1>1. ConnTyped(conn)
  BY DEF TokenTypeInv, TokenTypeOK, ConnTyped
<1>2. ConnTyped(Absent)
  BY DEF Absent, ConnTyped
<1>3. ASSUME NEW t \in Token PROVE ConnTyped(Refreshed(t))
  <2>1. 3 \in 0 .. 3 \cup {None} /\ t \in Token \cup {None} /\ TRUE \in BOOLEAN
    OBVIOUS
  <2> DEFINE three == 3
  <2>2. three \in 0 .. 3 \cup {None}
    BY <2>1
  <2> HIDE DEF three
  <2>3. [[[[conn EXCEPT !.there = TRUE] EXCEPT !.status = "healthy"] EXCEPT !.refresh = t] EXCEPT !.left = three]
          \in [there : BOOLEAN, whole : BOOLEAN, status : {"none", "healthy", "warning"},
              refresh : Token \cup {None}, left : 0 .. 3 \cup {None}]
    BY <1>1, <2>2 DEF ConnTyped
  <2>4. QED
    BY <1>1, <2>3 DEF Refreshed, ConnTyped, three
<1>4. \A s \in {"healthy", "warning"} : ConnTyped(WithStatus(s))
  BY <1>1 DEF WithStatus, ConnTyped
<1>5. QED
  BY <1>1, <1>2, <1>3, <1>4

(* The parts together again.                                               *)
LEMMA TypePutTogether ==
  ASSUME TokenTypeInv, ActsTyped, job' = job, ConnTyped(conn'), past' \in PastState,
         newest' \in Token, mishaps' \in 0 .. MaxTokenFaults
  PROVE  TokenTypeInv'
<1>1. HandsOff' /\ JobsHeld'
  BY ActsTypedKeep
<1>2. act' \in [Actor -> ActorState]
  BY DEF ActsTyped
<1>3. \A a \in Actor : act'[a].pc \in {"exchange", "store"} => act'[a].token \in Token
  BY DEF ActsTyped
<1>4. job' \in [Job -> [state : {"none", "visible", "hidden", "done", "dead"}, received : 0 .. MaxReceive,
                      known : BOOLEAN]]
  BY DEF TokenTypeInv, TokenTypeOK
<1>5. TokenTypeOK'
  BY <1>1, <1>3, <1>4 DEF TokenTypeOK, ConnTyped, JobsHeld
<1>6. QED
  BY <1>1, <1>2, <1>5 DEF TokenTypeInv

LEMMA MishapTyped ==
  ASSUME TokenTypeInv, NEW k, Mishap(k) \/ NoMishap
  PROVE  mishaps' \in 0 .. MaxTokenFaults
  BY TokenAssumption DEF Mishap, NoMishap, TokenTypeInv, TokenTypeOK

(* The steps of an actor that write neither the record nor the queue.      *)
LEMMA QuietTyped ==
  ASSUME TokenTypeInv, NEW a \in Actor,
         ReadConn(a) \/ FetchToken(a) \/ Exchange(a) \/ Refused(a) \/ AnswerLost(a)
           \/ StoreFails(a) \/ Probe(a)
  PROVE  TokenTypeInv'
<1>t. /\ act \in [Actor -> ActorState] /\ act[a] \in ActorState /\ past \in PastState
      /\ newest \in Token /\ mishaps \in 0 .. MaxTokenFaults /\ ConnTyped(conn)
      /\ Over(a) \in ActorState /\ Over(a).job \in {None, act[a].job} /\ Over(a).kind # "job"
      /\ Over(a).pc \in {"idle", "done"}
  BY OverTyped, RecordsTyped DEF TokenTypeInv, TokenTypeOK
<1>1. CASE ReadConn(a)
  <2> DEFINE next == AfterRead(act[a].kind)
             f == [act[a] EXCEPT !.pc = next, !.seen = conn.status, !.raced = FALSE, !.final = next = "warn"]
  <2>1. At(a, "read") /\ act[a].kind \in AskKind
    BY <1>t, <1>1 DEF ReadConn, At, TokenTypeInv, HandsOff, ActorState
  <2>2. /\ next \in {"ack", "fetch", "warn", "done", "probe", "remove"}
        /\ next \in {"ack", "warn"} => act[a].kind = "job"
    BY <2>1 DEF AfterRead, JobReads, AskKind
  <2>3. CASE next = "done"
    <3>1. act' = [act EXCEPT ![a] = Over(a)]
      BY <1>1, <2>3 DEF ReadConn
    <3>2. QED
      BY <1>t, <1>1, <3>1, OneActs, TypePutTogether DEF ReadConn
  <2>4. CASE next # "done"
    <3>1. act' = [act EXCEPT ![a] = f]
      BY <1>1, <2>4 DEF ReadConn
    <3> DEFINE warn == next = "warn"
    <3>w. warn \in BOOLEAN
      OBVIOUS
    <3>f. f = [act[a] EXCEPT !.pc = next, !.seen = conn.status, !.raced = FALSE, !.final = warn]
      OBVIOUS
    <3> HIDE DEF next, warn, f
    <3>2. /\ f \in ActorState /\ f.job = act[a].job /\ f.kind = act[a].kind /\ f.pc = next
      BY <1>t, <2>2, <2>4, <3>w, <3>f DEF ActorState, ActorPc, ConnTyped
    <3>3. ActsTyped
      BY <2>2, <3>1, <3>2, OneActs DEF TokenTypeInv, HandsOff
    <3>4. QED
      BY <1>t, <1>1, <3>3, TypePutTogether DEF ReadConn
  <2>5. QED
    BY <2>3, <2>4
<1>2. CASE FetchToken(a)
  <2>1. CASE conn.refresh = None
    BY <1>t, <1>2, <2>1, FailsTyped, TypePutTogether DEF FetchToken
  <2>2. CASE conn.refresh # None
    <3> DEFINE f == [[act[a] EXCEPT !.pc = "exchange"] EXCEPT !.token = conn.refresh]
    <3>1. f \in ActorState /\ f.job = act[a].job /\ f.kind = act[a].kind /\ f.pc = "exchange" /\ f.token \in Token
      BY <1>t, <2>2 DEF ActorState, ActorPc, ConnTyped
    <3>2. act' = [act EXCEPT ![a] = f]
      BY <1>t, <1>2, <2>2 DEF FetchToken
    <3>3. ActsTyped
      BY <3>1, <3>2, OneActs DEF TokenTypeInv, HandsOff
    <3>4. QED
      BY <1>t, <1>2, <3>3, TypePutTogether DEF FetchToken
  <2>3. QED
    BY <2>1, <2>2
<1>3. CASE Exchange(a)
  <2> DEFINE f == [[act[a] EXCEPT !.pc = "store"] EXCEPT !.token = newest + 1]
  <2>1. newest' = newest + 1 /\ newest' \in Token
    BY <1>3 DEF Exchange
  <2>2. f \in ActorState /\ f.job = act[a].job /\ f.kind = act[a].kind /\ f.pc = "store" /\ f.token \in Token
    BY <1>t, <2>1 DEF ActorState, ActorPc
  <2>3. act' = [act EXCEPT ![a] = f]
    BY <1>t, <1>3 DEF Exchange
  <2>4. ActsTyped
    BY <2>2, <2>3, OneActs DEF TokenTypeInv, HandsOff
  <2>5. QED
    BY <1>t, <1>3, <2>1, <2>4, TypePutTogether DEF Exchange
<1>4. CASE Refused(a)
  BY <1>t, <1>4, FailsTyped, MishapTyped, TypePutTogether DEF Refused
<1>5. CASE AnswerLost(a)
  <2>1. past' \in PastState
    BY <1>t, <1>5 DEF AnswerLost, PastState
  <2>2. QED
    BY <1>t, <1>5, <2>1, FailsTyped, MishapTyped, TypePutTogether DEF AnswerLost
<1>6. CASE StoreFails(a)
  <2>1. past' \in PastState
    BY <1>t, <1>6 DEF StoreFails, PastState
  <2>2. QED
    BY <1>t, <1>6, <2>1, FailsTyped, MishapTyped, TypePutTogether DEF StoreFails
<1>7. CASE Probe(a)
  <2>1. past' \in PastState
    BY <1>t, <1>7 DEF Probe, PastState
  <2>2. ActsTyped
    <3>1. PICK found \in {"healthy", "warning"} :
            act' = [act EXCEPT ![a] = IF act[a].seen = found THEN Over(a)
                                      ELSE [[act[a] EXCEPT !.pc = "verdict"] EXCEPT !.seen = found]]
      BY <1>7 DEF Probe
    <3> DEFINE f == [[act[a] EXCEPT !.pc = "verdict"] EXCEPT !.seen = found]
    <3>2. f \in ActorState /\ f.job = act[a].job /\ f.kind = act[a].kind /\ f.pc = "verdict" /\ f.seen = found
      BY <1>t DEF ActorState, ActorPc
    <3>3. CASE act[a].seen = found
      BY <1>t, <3>1, <3>3, OneActs
    <3>4. CASE act[a].seen # found
      <4>1. act' = [act EXCEPT ![a] = f]
        BY <3>1, <3>4
      <4>2. QED
        BY <3>2, <4>1, OneActs DEF TokenTypeInv, HandsOff
    <3>5. QED
      BY <3>3, <3>4
  <2>3. QED
    BY <1>t, <1>7, <2>1, <2>2, TypePutTogether DEF Probe
<1>8. QED
  BY <1>1, <1>2, <1>3, <1>4, <1>5, <1>6, <1>7

(* The writers of the record.                                              *)
LEMMA WriterTyped ==
  ASSUME TokenTypeInv, NEW a \in Actor, UpdateTokens(a) \/ Warn(a) \/ Verdict(a) \/ Remove(a)
  PROVE  TokenTypeInv'
<1>t. /\ act \in [Actor -> ActorState] /\ act[a] \in ActorState
      /\ newest \in Token /\ mishaps \in 0 .. MaxTokenFaults
      /\ Over(a) \in ActorState /\ Over(a).job \in {None, act[a].job} /\ Over(a).kind # "job"
      /\ Over(a).pc \in {"idle", "done"}
  BY OverTyped DEF TokenTypeInv, TokenTypeOK
<1>m. \A pc \in {"ack", "throw"} : [act[a] EXCEPT !.pc = pc] \in ActorState
  BY <1>t DEF ActorState, ActorPc
<1>1. CASE UpdateTokens(a)
  <2> DEFINE f == IF act[a].kind = "job" THEN [act[a] EXCEPT !.pc = "ack"] ELSE Over(a)
             rec == Refreshed(act[a].token)
  <2>1. ConnTyped(rec)
    BY <1>1, RecordsTyped DEF UpdateTokens, At, TokenTypeInv, TokenTypeOK
  <2>2. /\ f \in ActorState /\ f.job \in {None, act[a].job}
        /\ (f.kind = "job" => act[a].kind = "job" /\ f.job = act[a].job)
        /\ (f.pc \in {"warn", "throw", "ack"} => f.kind = "job")
        /\ f.pc \notin {"read", "verdict", "exchange", "store"}
    BY <1>t, <1>m DEF ActorState
  <2>3. WriteConn(a, rec, f) /\ rec.there \in BOOLEAN
    BY <1>1, <2>1 DEF UpdateTokens, ConnTyped
  <2> HIDE DEF f, rec
  <2>4. ActsTyped /\ past' \in PastState /\ conn' = rec
    BY <2>2, <2>3, WritesTyped
  <2>5. QED
    BY <1>t, <1>1, <2>1, <2>4, TypePutTogether DEF UpdateTokens
<1>2. CASE Warn(a)
  <2> DEFINE f == [act[a] EXCEPT !.pc = IF act[a].final THEN "ack" ELSE "throw"]
             rec == WithStatus("warning")
  <2>1. ConnTyped(rec)
    BY RecordsTyped
  <2>2. act[a].kind = "job"
    BY <1>2 DEF Warn, At, TokenTypeInv, HandsOff
  <2>3. f \in ActorState /\ f.job = act[a].job /\ f.kind = "job" /\ f.pc \in {"ack", "throw"}
    BY <1>t, <1>m, <2>2 DEF ActorState
  <2>4. WriteConn(a, rec, f) /\ rec.there \in BOOLEAN
    BY <1>2, <2>1 DEF Warn, ConnTyped
  <2> HIDE DEF f, rec
  <2>5. ActsTyped /\ past' \in PastState /\ conn' = rec
    BY <2>2, <2>3, <2>4, WritesTyped
  <2>6. QED
    BY <1>t, <1>2, <2>1, <2>5, TypePutTogether DEF Warn
<1>3. CASE Verdict(a)
  <2>0. act[a].seen \in {"healthy", "warning"}
    BY <1>t, <1>3 DEF Verdict, At, TokenTypeInv, HandsOff, ActorState
  <2>1. ConnTyped(WithStatus(act[a].seen)) /\ WithStatus(act[a].seen).there \in BOOLEAN
    BY <2>0, RecordsTyped DEF ConnTyped
  <2>2. ActsTyped /\ past' \in PastState /\ conn' = WithStatus(act[a].seen)
    BY <1>t, <1>3, <2>1, WritesTyped DEF Verdict
  <2>3. QED
    BY <1>t, <1>3, <2>1, <2>2, TypePutTogether DEF Verdict
<1>4. CASE Remove(a)
  <2>1. ConnTyped(Absent) /\ Absent.there \in BOOLEAN
    BY RecordsTyped DEF ConnTyped
  <2>2. ActsTyped /\ past' \in PastState /\ conn' = Absent
    BY <1>t, <1>4, <2>1, WritesTyped DEF Remove
  <2>3. QED
    BY <1>t, <1>4, <2>1, <2>2, TypePutTogether DEF Remove
<1>5. QED
  BY <1>1, <1>2, <1>3, <1>4

(* Those that touch the queue: the sender, the receiver, whoever finishes. *)
JobItem == [state : {"none", "visible", "hidden", "done", "dead"}, received : 0 .. MaxReceive, known : BOOLEAN]

LEMMA GivesBackTyped ==
  ASSUME TokenTypeInv, NEW a \in Actor, act[a].kind = "job", act' = [act EXCEPT ![a] = IdleActor],
         \E s \in {"visible", "done", "dead"} :
            /\ job' = [job EXCEPT ![act[a].job].state = s]
            /\ s = "visible" => job[act[a].job].received < MaxReceive,
         conn' = conn, newest' = newest, past' \in PastState, mishaps' \in 0 .. MaxTokenFaults
  PROVE  TokenTypeInv'
<1>t. act \in [Actor -> ActorState] /\ act[a].job \in Job /\ job \in [Job -> JobItem] /\ None \notin Job
  BY TokenAssumption DEF TokenTypeInv, TokenTypeOK, HandsOff, JobItem
<1>i. /\ IdleActor \in ActorState /\ IdleActor.job = None /\ IdleActor.kind = "none" /\ IdleActor.pc = "idle"
  BY DEF IdleActor, ActorState, ActorPc
<1>1. PICK s \in {"visible", "done", "dead"} : /\ job' = [job EXCEPT ![act[a].job].state = s]
                                             /\ s = "visible" => job[act[a].job].received < MaxReceive
  OBVIOUS
<1>2. job' \in [Job -> JobItem]
  BY <1>t, <1>1 DEF JobItem
<1>3. act' \in [Actor -> ActorState]
  BY <1>t, <1>i
<1>4. HandsOff'
  BY <1>t, <1>i, <1>1 DEF TokenTypeInv, HandsOff, JobItem
<1>5. \A b \in Actor : act'[b].job # None => job'[act'[b].job].state = "hidden"
  BY <1>t, <1>i, <1>1 DEF TokenTypeInv, TokenTypeOK, HandsOff, JobItem
<1>6. \A b \in Actor : act'[b].pc \in {"exchange", "store"} => act'[b].token \in Token
  BY <1>t, <1>i DEF TokenTypeInv, TokenTypeOK
<1>7. TokenTypeOK'
  BY <1>2, <1>5, <1>6 DEF TokenTypeInv, TokenTypeOK, JobItem
<1>8. QED
  BY <1>3, <1>4, <1>7 DEF TokenTypeInv

LEMMA QueueTyped ==
  ASSUME TokenTypeInv, NEW a \in Actor, Begin(a) \/ Ack(a) \/ Throw(a) \/ ActorCrashes(a)
  PROVE  TokenTypeInv'
<1>t. act \in [Actor -> ActorState] /\ act[a] \in ActorState /\ job \in [Job -> JobItem] /\ None \notin Job
      /\ newest \in Token /\ mishaps \in 0 .. MaxTokenFaults /\ past \in PastState /\ ConnTyped(conn)
  BY TokenAssumption, RecordsTyped DEF TokenTypeInv, TokenTypeOK, HandsOff, JobItem
<1>1. CASE Ack(a)
  <2>1. act[a].kind = "job"
    BY <1>1 DEF Ack, At, TokenTypeInv, HandsOff
  <2>2. QED
    BY <1>t, <1>1, <2>1, GivesBackTyped DEF Ack
<1>2. CASE Throw(a)
  <2>1. act[a].kind = "job"
    BY <1>2 DEF Throw, At, TokenTypeInv, HandsOff
  <2>2. QED
    BY <1>t, <1>2, <2>1, GivesBackTyped DEF Throw, BackInQueue
<1>3. CASE ActorCrashes(a)
  <2>1. past' \in PastState /\ mishaps' \in 0 .. MaxTokenFaults
    BY <1>t, <1>3, MishapTyped DEF ActorCrashes, PastState
  <2>2. CASE act[a].kind = "job"
    BY <1>t, <1>3, <2>1, <2>2, GivesBackTyped DEF ActorCrashes, BackInQueue, Over
  <2>3. CASE act[a].kind # "job"
    BY <1>t, <1>3, <2>1, <2>3, OverTyped, OneActs, TypePutTogether DEF ActorCrashes
  <2>4. QED
    BY <2>2, <2>3
<1>4. CASE Begin(a)
  <2>i. /\ IdleActor \in ActorState /\ IdleActor.job = None /\ IdleActor.kind = "none" /\ IdleActor.pc = "idle"
        /\ act[a].pc = "idle"
    BY <1>4 DEF IdleActor, ActorState, ActorPc, Begin, At
  <2>1. ASSUME NEW k \in Asks[a] \ {"job"}, job' = job,
               act' = [act EXCEPT ![a] = [IdleActor EXCEPT !.pc = "read", !.kind = k]]
        PROVE  TokenTypeInv'
    <3> DEFINE f == [[IdleActor EXCEPT !.pc = "read"] EXCEPT !.kind = k]
    <3>1. k \in AskKind \ {"job"} /\ k # "none"
      BY TokenAssumption DEF AskKind
    <3>2. f \in ActorState /\ f.job = None /\ f.kind = k /\ f.pc = "read"
      BY <2>i, <3>1 DEF ActorState, ActorPc, IdleActor
    <3>3. act' = [act EXCEPT ![a] = f]
      BY <2>1
    <3>j. job' = job
      BY <2>1
    <3> HIDE DEF f
    <3>4. act' \in [Actor -> ActorState]
      BY <1>t, <3>2, <3>3
    <3>5. HandsOff'
      BY <1>t, <3>j, <3>1, <3>2, <3>3 DEF TokenTypeInv, HandsOff
    <3>6. TokenTypeOK'
      <4>1. conn' = conn /\ newest' = newest /\ mishaps' = mishaps
        BY <1>4 DEF Begin
      <4>2. QED
        BY <1>t, <4>1, <3>j, <3>2, <3>3 DEF TokenTypeInv, TokenTypeOK
    <3>7. QED
      BY <1>t, <1>4, <3>4, <3>5, <3>6 DEF Begin, TokenTypeInv
  <2>2. ASSUME NEW j \in Job, job[j].state = "visible",
               job' = [job EXCEPT ![j].state = "hidden", ![j].received = @ + 1],
               NEW pc \in {"read", "ack"},
               act' = [act EXCEPT ![a] = [IdleActor EXCEPT !.pc = pc, !.kind = "job", !.job = j]]
        PROVE  TokenTypeInv'
    <3> DEFINE f == [[[IdleActor EXCEPT !.pc = pc] EXCEPT !.kind = "job"] EXCEPT !.job = j]
               g == [[job[j] EXCEPT !.state = "hidden"] EXCEPT !.received = job[j].received + 1]
    <3>1. f \in ActorState /\ f.job = j /\ f.kind = "job" /\ f.pc = pc
      BY <2>i DEF ActorState, ActorPc, IdleActor, AskKind
    <3>2. act' = [act EXCEPT ![a] = f]
      BY <2>2
    <3>3. g \in JobItem /\ g.state = "hidden"
      <4>1. job[j].received < MaxReceive
        BY <2>2 DEF TokenTypeInv, HandsOff
      <4>2. job[j].received + 1 \in 0 .. MaxReceive
        BY <1>t, <4>1, TokenAssumption DEF JobItem
      <4>3. QED
        BY <1>t, <4>2 DEF JobItem
    <3>4. job' = [job EXCEPT ![j] = g]
      BY <1>t, <2>2
    <3> HIDE DEF f, g
    <3>5. \A b \in Actor : act[b].job # j
      BY <1>t, <2>2 DEF TokenTypeInv, TokenTypeOK
    <3>6. act' \in [Actor -> ActorState] /\ job' \in [Job -> JobItem]
      BY <1>t, <3>1, <3>2, <3>3, <3>4
    <3>7. HandsOff'
      BY <1>t, <3>1, <3>2, <3>3, <3>4, <3>5 DEF TokenTypeInv, HandsOff
    <3>8. \A b \in Actor : act'[b].job # None => job'[act'[b].job].state = "hidden"
      BY <1>t, <3>1, <3>2, <3>3, <3>4, <3>5 DEF TokenTypeInv, TokenTypeOK, HandsOff
    <3>9. \A b \in Actor : act'[b].pc \in {"exchange", "store"} => act'[b].token \in Token
      BY <1>t, <3>1, <3>2 DEF TokenTypeInv, TokenTypeOK
    <3>10. TokenTypeOK'
      BY <1>t, <1>4, <3>6, <3>8, <3>9 DEF Begin, TokenTypeInv, TokenTypeOK, JobItem
    <3>11. QED
      BY <1>t, <1>4, <3>6, <3>7, <3>10 DEF Begin, TokenTypeInv
  <2>3. QED
    <3>1. CASE \E k \in Asks[a] \ {"job"} :
                 job' = job /\ act' = [act EXCEPT ![a] = [IdleActor EXCEPT !.pc = "read", !.kind = k]]
      BY <2>1, <3>1
    <3>2. CASE \E j \in Job :
                 /\ job[j].state = "visible"
                 /\ job' = [job EXCEPT ![j].state = "hidden", ![j].received = @ + 1]
                 /\ act' = [act EXCEPT ![a] = [IdleActor EXCEPT !.pc = IF job[j].known THEN "read" ELSE "ack",
                                                           !.kind = "job", !.job = j]]
      BY <2>2, <3>2
    <3>3. QED
      BY <1>4, <3>1, <3>2 DEF Begin
<1>5. QED
  BY <1>1, <1>2, <1>3, <1>4

(* The type invariant of every step.                                       *)
LEMMA TokenTypeStep == TokenTypeInv /\ [TokenNext]_tokenVars => TokenTypeInv'
<1> SUFFICES ASSUME TokenTypeInv, [TokenNext]_tokenVars PROVE TokenTypeInv'
  OBVIOUS
<1>t. /\ act \in [Actor -> ActorState] /\ past \in PastState /\ newest \in Token
      /\ mishaps \in 0 .. MaxTokenFaults /\ ConnTyped(conn) /\ job \in [Job -> JobItem]
  BY RecordsTyped DEF TokenTypeInv, TokenTypeOK, JobItem
<1>1. CASE Ages
  <2>1. conn.left - 1 \in 0 .. 3 \cup {None}
    BY <1>1 DEF Ages
  <2>2. ConnTyped(conn')
    BY <1>t, <1>1, <2>1 DEF Ages, ConnTyped
  <2>3. ActsTyped
    BY <1>1, <1>t DEF Ages, ActsTyped, TokenTypeInv, TokenTypeOK, HandsOff
  <2>4. QED
    BY <1>t, <1>1, <2>2, <2>3, TypePutTogether DEF Ages
<1>2. CASE Queue
  <2>1. PICK j \in Job : /\ job[j].state = "none"
                         /\ job' = [job EXCEPT ![j] = [state |-> "visible", received |-> 0, known |-> conn.whole]]
    BY <1>2 DEF Queue
  <2>2. job' \in [Job -> JobItem]
    BY <1>t, <2>1, TokenAssumption DEF JobItem, ConnTyped
  <2>3. HandsOff'
    BY <1>t, <1>2, <2>1, TokenAssumption DEF Queue, TokenTypeInv, HandsOff
  <2>4. \A b \in Actor : act'[b].job # None => job'[act'[b].job].state = "hidden"
    BY <1>t, <1>2, <2>1 DEF Queue, TokenTypeInv, TokenTypeOK, HandsOff
  <2>5. TokenTypeOK'
    BY <1>t, <1>2, <2>2, <2>4 DEF Queue, TokenTypeInv, TokenTypeOK, JobItem
  <2>6. QED
    BY <1>t, <1>2, <2>3, <2>5 DEF Queue, TokenTypeInv
<1>3. ASSUME NEW a \in Actor, Handles(a) PROVE TokenTypeInv'
  BY <1>3, QuietTyped, WriterTyped, QueueTyped DEF Handles
<1>4. CASE UNCHANGED tokenVars
  BY <1>4 DEF tokenVars, TokenTypeInv, TokenTypeOK, HandsOff
<1>5. QED
  BY <1>1, <1>2, <1>3, <1>4 DEF TokenNext

----------------------------------------------------------------------------
(* The invariant.                                                          *)

LEMMA TokenInvInit == TokenInit => TokenInv
<1> SUFFICES ASSUME TokenInit PROVE TokenInv
  OBVIOUS
<1>1. \A a \in Actor : act[a].pc = "idle"
  BY DEF TokenInit, IdleActor
<1>2. RefreshTokenKept /\ StoresEndWithNewest
  BY <1>1 DEF TokenInit, RefreshTokenKept, StoresEndWithNewest, At
<1>3. NoFalseWarning /\ JobsFindTokenOld /\ VerdictIsDue
  BY <1>1 DEF TokenInit, NoFalseWarning, JobsFindTokenOld, VerdictIsDue, At
<1>4. DeletedStaysDeleted /\ GoneIsNoticed
  BY <1>1 DEF TokenInit, DeletedStaysDeleted, GoneIsNoticed, Engaged
<1>5. QED
  BY <1>2, <1>3, <1>4 DEF TokenInv

(* What one actor may do alone, without a write of the record: stop short  *)
(* of storing a token (an exchanged one is lost), come to a refresh only   *)
(* with an old token, to a verdict only with a reason, and to anything     *)
(* only if there is a record.                                              *)
Alone(a) ==
  /\ conn' = conn /\ \A b \in Actor \ {a} : act'[b] = act[b]
  /\ past'.raced = past.raced /\ past'.deleted = past.deleted
  /\ past.unsaved => past'.unsaved
  /\ past.unwell => past'.unwell
  /\ newest' = newest \/ past'.unsaved
MayBe(a) ==
  /\ ~At(a, "store")'
  /\ At(a, "store") => past'.unsaved
  /\ act'[a].kind = "job" /\ act'[a].pc \in {"fetch", "exchange", "store", "warn"}
       => act'[a].raced \/ NotFresh
  /\ At(a, "verdict")' /\ act'[a].seen = "warning" => act'[a].raced \/ past'.unwell \/ conn.left = 0
  /\ ~conn.there /\ Engaged(a)' => act'[a].raced

LEMMA AloneKeeps ==
  ASSUME TokenTypeInv, TokenInv, NEW a \in Actor, Alone(a), MayBe(a)
  PROVE  TokenInv'
<1>2. RefreshTokenKept' /\ StoresEndWithNewest'
  <2>1. CASE ~past'.unsaved
    <3>1. \A b \in Actor : /\ At(b, "store")' <=> At(b, "store")
                           /\ At(b, "store") => act'[b] = act[b]
      BY <2>1 DEF Alone, MayBe, At
    <3>2. newest' = newest /\ conn' = conn /\ past'.raced = past.raced /\ ~past.unsaved
      BY <2>1 DEF Alone
    <3>3. NewestAtHand' <=> NewestAtHand
      BY <3>1, <3>2 DEF NewestAtHand
    <3>4. RefreshTokenKept'
      BY <3>1, <3>2, <3>3 DEF TokenInv, RefreshTokenKept, NewestAtHand
    <3>5. StoresEndWithNewest'
      BY <3>1, <3>2, <3>3 DEF TokenInv, StoresEndWithNewest
    <3>6. QED
      BY <3>4, <3>5
  <2>2. CASE past'.unsaved
    BY <2>2 DEF RefreshTokenKept, StoresEndWithNewest
  <2>3. QED
    BY <2>1, <2>2
<1>3. NoFalseWarning'
  BY DEF TokenInv, NoFalseWarning, Alone
<1>4. JobsFindTokenOld'
  BY DEF TokenInv, JobsFindTokenOld, Alone, MayBe, NotFresh
<1>5. VerdictIsDue'
  BY DEF TokenInv, VerdictIsDue, Alone, MayBe, At
<1>6. DeletedStaysDeleted' /\ GoneIsNoticed'
  BY DEF TokenInv, DeletedStaysDeleted, GoneIsNoticed, Engaged, Alone, MayBe
<1>7. QED
  BY <1>2, <1>3, <1>4, <1>5, <1>6 DEF TokenInv

(* A failure leaves an actor warning, or done.                             *)
LEMMA FailsMayBe ==
  ASSUME TokenTypeInv, TokenInv, NEW a \in Actor, NEW p \in BOOLEAN, Fails(a, p),
         act[a].pc \in {"fetch", "exchange", "store"}, At(a, "store") => past'.unsaved
  PROVE  MayBe(a) /\ \A b \in Actor \ {a} : act'[b] = act[b]
<1>t. act \in [Actor -> ActorState] /\ act[a] \in ActorState
  BY DEF TokenTypeInv
<1>1. CASE act[a].kind = "job"
  <2> DEFINE f == [[act[a] EXCEPT !.pc = "warn"] EXCEPT !.final = p]
  <2>1. act' = [act EXCEPT ![a] = f]
    BY <1>1, <1>t DEF Fails
  <2>2. f.pc = "warn" /\ f.raced = act[a].raced
    BY <1>t DEF ActorState
  <2> HIDE DEF f
  <2>3. act'[a].pc = "warn" /\ act'[a].raced = act[a].raced
    BY <1>t, <2>1, <2>2
  <2>4. act[a].raced \/ NotFresh
    BY <1>1 DEF TokenInv, JobsFindTokenOld
  <2>5. ~conn.there => act[a].raced
    BY DEF TokenInv, GoneIsNoticed, Engaged
  <2>6. QED
    BY <1>t, <2>1, <2>3, <2>4, <2>5 DEF MayBe, At
<1>2. CASE act[a].kind # "job"
  <2>1. act' = [act EXCEPT ![a] = Over(a)]
    BY <1>2 DEF Fails
  <2>2. QED
    BY <1>t, <2>1, OverTyped DEF MayBe, At, Engaged
<1>3. QED
  BY <1>1, <1>2

LEMMA AloneSteps ==
  ASSUME TokenTypeInv, TokenInv, NEW a \in Actor,
         \/ Begin(a) \/ ReadConn(a) \/ FetchToken(a) \/ Refused(a) \/ AnswerLost(a)
         \/ StoreFails(a) \/ Probe(a) \/ Ack(a) \/ Throw(a) \/ ActorCrashes(a)
  PROVE  TokenInv'
<1>t. act \in [Actor -> ActorState] /\ act[a] \in ActorState /\ past \in PastState /\ ConnTyped(conn)
  BY RecordsTyped DEF TokenTypeInv
<1>i. IdleActor.pc = "idle"
  BY DEF IdleActor
<1>o. Over(a).pc \in {"idle", "done"}
  BY OverTyped
<1>1. CASE Begin(a)
  <2>1. act'[a].pc \in {"read", "ack"} /\ \A b \in Actor \ {a} : act'[b] = act[b]
    <3>1. CASE \E k \in Asks[a] \ {"job"} : act' = [act EXCEPT ![a] = [IdleActor EXCEPT !.pc = "read", !.kind = k]]
      BY <1>t, <3>1 DEF IdleActor
    <3>2. CASE \E j \in Job : act' = [act EXCEPT ![a] = [IdleActor EXCEPT !.pc = IF job[j].known THEN "read" ELSE "ack",
                                                            !.kind = "job", !.job = j]]
      BY <1>t, <3>2 DEF IdleActor
    <3>3. QED
      BY <1>1, <3>1, <3>2 DEF Begin
  <2>2. MayBe(a)
    BY <1>1, <2>1 DEF Begin, MayBe, At, Engaged
  <2>3. QED
    BY <1>1, <2>1, <2>2, AloneKeeps DEF Begin, Alone
<1>2. CASE ReadConn(a)
  <2> DEFINE next == AfterRead(act[a].kind)
  <2>1. At(a, "read") /\ act[a].kind \in AskKind
    BY <1>t, <1>2 DEF ReadConn, At, TokenTypeInv, HandsOff, ActorState
  <2>2. /\ next \in {"ack", "fetch", "warn", "done", "probe", "remove"}
        /\ act[a].kind = "job" /\ next \in {"fetch", "warn"} => NotFresh
        /\ ~conn.there => next \in {"ack", "done"}
    BY <2>1 DEF AfterRead, JobReads, AskKind, NotFresh, TokenInv, GoneIsNoticed
  <2>3. CASE next = "done"
    <3>1. act' = [act EXCEPT ![a] = Over(a)]
      BY <1>2, <2>3 DEF ReadConn
    <3>2. MayBe(a)
      BY <1>t, <1>o, <2>1, <3>1 DEF MayBe, At, Engaged
    <3>3. QED
      BY <1>t, <1>2, <3>1, <3>2, AloneKeeps DEF ReadConn, Alone
  <2>4. CASE next # "done"
    <3> DEFINE f == [act[a] EXCEPT !.pc = next, !.seen = conn.status, !.raced = FALSE, !.final = next = "warn"]
    <3>1. act' = [act EXCEPT ![a] = f]
      BY <1>2, <2>4 DEF ReadConn
    <3>2. f.pc = next /\ f.kind = act[a].kind
      BY <1>t DEF ActorState
    <3> HIDE DEF next, f
    <3>3. MayBe(a)
      BY <1>t, <2>1, <2>2, <3>1, <3>2 DEF MayBe, At, Engaged
    <3>4. Alone(a)
      BY <1>t, <1>2, <3>1 DEF ReadConn, Alone
    <3>5. QED
      BY <3>3, <3>4, AloneKeeps
  <2>5. QED
    BY <2>3, <2>4
<1>3. CASE FetchToken(a)
  <2>1. CASE conn.refresh = None
    <3>1. Fails(a, TRUE) /\ act[a].pc = "fetch"
      BY <1>3, <2>1 DEF FetchToken, At
    <3>2. QED
      BY <1>3, <3>1, FailsMayBe, AloneKeeps DEF FetchToken, At, Alone
  <2>2. CASE conn.refresh # None
    <3> DEFINE f == [[act[a] EXCEPT !.pc = "exchange"] EXCEPT !.token = conn.refresh]
    <3>1. act' = [act EXCEPT ![a] = f] /\ act[a].pc = "fetch"
      BY <1>t, <1>3, <2>2 DEF FetchToken, At
    <3>2. f.pc = "exchange" /\ f.kind = act[a].kind /\ f.raced = act[a].raced
      BY <1>t DEF ActorState
    <3> HIDE DEF f
    <3>3. MayBe(a)
      BY <1>t, <3>1, <3>2 DEF MayBe, At, Engaged, TokenInv, JobsFindTokenOld, GoneIsNoticed
    <3>4. Alone(a)
      BY <1>t, <1>3, <3>1 DEF FetchToken, Alone
    <3>5. QED
      BY <3>3, <3>4, AloneKeeps
  <2>3. QED
    BY <2>1, <2>2
<1>4. CASE Refused(a)
  BY <1>4, FailsMayBe, AloneKeeps DEF Refused, At, Alone
<1>5. CASE AnswerLost(a)
  <2>1. past'.unsaved /\ past'.raced = past.raced /\ past'.deleted = past.deleted /\ past'.unwell = past.unwell
    BY <1>t, <1>5 DEF AnswerLost, PastState
  <2>2. QED
    BY <1>5, <2>1, FailsMayBe, AloneKeeps DEF AnswerLost, At, Alone
<1>6. CASE StoreFails(a)
  <2>1. past'.unsaved /\ past'.raced = past.raced /\ past'.deleted = past.deleted /\ past'.unwell = past.unwell
    BY <1>t, <1>6 DEF StoreFails, PastState
  <2>2. QED
    BY <1>6, <2>1, FailsMayBe, AloneKeeps DEF StoreFails, At, Alone
<1>7. CASE Probe(a)
  <2>1. PICK healthy \in BOOLEAN :
          /\ past' = [past EXCEPT !.unwell = @ \/ (~healthy /\ conn.left # 0)]
          /\ act' = [act EXCEPT ![a] = LET found == IF healthy THEN "healthy" ELSE "warning"
                                       IN IF @.seen = found THEN Over(a)
                                          ELSE [@ EXCEPT !.pc = "verdict", !.seen = found]]
    BY <1>7 DEF Probe
  <2> DEFINE found == IF healthy THEN "healthy" ELSE "warning"
             f == [[act[a] EXCEPT !.pc = "verdict"] EXCEPT !.seen = found]
  <2>2. /\ past'.raced = past.raced /\ past'.deleted = past.deleted /\ past'.unsaved = past.unsaved
        /\ past.unwell => past'.unwell
        /\ found = "warning" => past'.unwell \/ conn.left = 0
    BY <1>t, <2>1 DEF PastState
  <2>3. f.pc = "verdict" /\ f.seen = found /\ f.raced = act[a].raced /\ f.kind = act[a].kind
    BY <1>t DEF ActorState
  <2>4. act' = [act EXCEPT ![a] = Over(a)] \/ act' = [act EXCEPT ![a] = f]
    BY <1>t, <2>1
  <2> HIDE DEF f, found
  <2>5. MayBe(a)
    BY <1>t, <1>o, <1>7, <2>2, <2>3, <2>4 DEF Probe, MayBe, At, Engaged, TokenInv, GoneIsNoticed
  <2>6. Alone(a)
    BY <1>t, <1>7, <2>2, <2>4 DEF Probe, Alone
  <2>7. QED
    BY <2>5, <2>6, AloneKeeps
<1>8. CASE Ack(a) \/ Throw(a)
  <2>1. MayBe(a)
    BY <1>t, <1>i, <1>8 DEF Ack, Throw, MayBe, At, Engaged
  <2>2. Alone(a)
    BY <1>t, <1>8 DEF Ack, Throw, Alone
  <2>3. QED
    BY <2>1, <2>2, AloneKeeps
<1>9. CASE ActorCrashes(a)
  <2>1. /\ past'.raced = past.raced /\ past'.deleted = past.deleted /\ past'.unwell = past.unwell
        /\ past.unsaved => past'.unsaved
        /\ At(a, "store") => past'.unsaved
    BY <1>t, <1>9 DEF ActorCrashes, PastState
  <2>2. MayBe(a)
    BY <1>t, <1>o, <1>9, <2>1 DEF ActorCrashes, MayBe, At, Engaged
  <2>3. Alone(a)
    BY <1>t, <1>9, <2>1 DEF ActorCrashes, Alone
  <2>4. QED
    BY <2>2, <2>3, AloneKeeps
<1>10. QED
  BY <1>1, <1>2, <1>3, <1>4, <1>5, <1>6, <1>7, <1>8, <1>9

(* The platform gives a newer token: it is at hand.                        *)
LEMMA ExchangeKeeps ==
  ASSUME TokenTypeInv, TokenInv, NEW a \in Actor, Exchange(a)
  PROVE  TokenInv'
<1>t. act \in [Actor -> ActorState] /\ act[a] \in ActorState
  BY DEF TokenTypeInv
<1> DEFINE f == [[act[a] EXCEPT !.pc = "store"] EXCEPT !.token = newest + 1]
<1>1. act' = [act EXCEPT ![a] = f]
  BY <1>t DEF Exchange
<1>2. f.pc = "store" /\ f.token = newest + 1 /\ f.kind = act[a].kind /\ f.raced = act[a].raced
  BY <1>t DEF ActorState
<1> HIDE DEF f
<1>3. act'[a] = f /\ \A b \in Actor \ {a} : act'[b] = act[b]
  BY <1>t, <1>1
<1>4. act[a].pc = "exchange" /\ newest' = newest + 1 /\ conn' = conn /\ past' = past
  BY DEF Exchange, At
<1>5. NewestAtHand'
  BY <1>2, <1>3, <1>4 DEF NewestAtHand, At
<1>6. RefreshTokenKept' /\ StoresEndWithNewest'
  BY <1>5 DEF RefreshTokenKept, StoresEndWithNewest, NewestAtHand
<1>7. JobsFindTokenOld'
  BY <1>2, <1>3, <1>4 DEF TokenInv, JobsFindTokenOld, NotFresh
<1>8. VerdictIsDue' /\ NoFalseWarning'
  BY <1>2, <1>3, <1>4 DEF TokenInv, VerdictIsDue, NoFalseWarning, At
<1>9. DeletedStaysDeleted' /\ GoneIsNoticed'
  BY <1>2, <1>3, <1>4 DEF TokenInv, DeletedStaysDeleted, GoneIsNoticed, Engaged
<1>10. QED
  BY <1>6, <1>7, <1>8, <1>9 DEF TokenInv

(* Whoever writes the record races all the others who are at work.         *)
LEMMA WriteRaces ==
  ASSUME TokenTypeInv, NEW a \in Actor, NEW rec, NEW f, WriteConn(a, rec, f),
         f.pc \in {"idle", "done", "ack", "throw"}
  PROVE  /\ conn' = rec
         /\ \A b \in Actor : act'[b].pc \notin {"idle", "done", "ack", "throw"}
              => b # a /\ act'[b].raced /\ act'[b].pc = act[b].pc
         /\ past'.raced <=> past.raced \/ act[a].raced
         /\ past'.deleted <=> past.deleted \/ ~rec.there
         /\ past'.unsaved = past.unsaved /\ past'.unwell = past.unwell
<1>1. act \in [Actor -> ActorState] /\ past \in PastState
  BY DEF TokenTypeInv
<1>2. act'[a] = f
  BY DEF WriteConn
<1>3. \A b \in Actor \ {a} : /\ act'[b].pc = act[b].pc
                           /\ Working(b) => act'[b].raced
  BY <1>1 DEF WriteConn, ActorState
<1>4. /\ past'.raced <=> past.raced \/ act[a].raced
      /\ past'.deleted <=> past.deleted \/ ~rec.there
      /\ past'.unsaved = past.unsaved /\ past'.unwell = past.unwell
  BY <1>1 DEF WriteConn, PastState, ActorState
<1>5. QED
  BY <1>2, <1>3, <1>4 DEF WriteConn, Working

LEMMA WriteKeeps ==
  ASSUME TokenTypeInv, TokenInv, NEW a \in Actor, NEW rec, NEW f, WriteConn(a, rec, f),
         f.pc \in {"idle", "done", "ack", "throw"},
         newest' = newest,
         rec.whole = conn.whole \/ rec.whole = FALSE,
         rec.there \/ ~rec.whole,
         rec.whole => rec.there,
         rec.there /\ ~conn.there => act[a].raced,
         rec.left = 3 /\ rec.status = "warning" => past.raced \/ past.unwell \/ act[a].raced,
         \/ rec.whole = FALSE
         \/ rec.refresh = conn.refresh /\ ~At(a, "store")
         \/ At(a, "store") /\ rec.refresh = act[a].token
  PROVE  TokenInv'
<1>w. /\ conn' = rec
      /\ \A b \in Actor : act'[b].pc \notin {"idle", "done", "ack", "throw"}
           => b # a /\ act'[b].raced /\ act'[b].pc = act[b].pc
      /\ past'.raced <=> past.raced \/ act[a].raced
      /\ past'.deleted <=> past.deleted \/ ~rec.there
      /\ past'.unsaved = past.unsaved /\ past'.unwell = past.unwell
  BY WriteRaces
<1>t. act \in [Actor -> ActorState]
  BY DEF TokenTypeInv
<1>1. StoresEndWithNewest' /\ JobsFindTokenOld' /\ VerdictIsDue'
  BY <1>w DEF StoresEndWithNewest, JobsFindTokenOld, VerdictIsDue, At
<1>2. GoneIsNoticed'
  BY <1>w DEF GoneIsNoticed, Engaged
<1>3. DeletedStaysDeleted'
  BY <1>w DEF TokenInv, DeletedStaysDeleted
<1>4. NoFalseWarning'
  BY <1>w DEF NoFalseWarning
<1>5. RefreshTokenKept'
  <2> SUFFICES ASSUME rec.whole, ~past.unsaved, ~past.raced, ~act[a].raced
               PROVE  rec.refresh = newest \/ NewestAtHand'
    BY <1>w DEF RefreshTokenKept, NewestAtHand
  <2>s. conn.whole
    OBVIOUS
  <2>o. ASSUME NEW b \in Actor, b # a, At(b, "store"), act[b].token = newest
        PROVE  NewestAtHand'
    <3>1. act'[b].pc = "store" /\ act'[b].token = newest
      BY <1>t, <2>o DEF WriteConn, At, ActorState
    <3>2. QED
      BY <3>1 DEF NewestAtHand, At
  <2>1. CASE rec.refresh = conn.refresh /\ ~At(a, "store")
    BY <2>s, <2>o, <2>1 DEF TokenInv, RefreshTokenKept
  <2>2. CASE At(a, "store") /\ rec.refresh = act[a].token
    <3>1. act[a].token = newest \/ NewestAtHand
      BY <2>s, <2>2 DEF TokenInv, StoresEndWithNewest
    <3>2. QED
      BY <2>o, <2>2, <3>1 DEF NewestAtHand
  <2>3. QED
    BY <2>1, <2>2
<1>6. QED
  BY <1>1, <1>2, <1>3, <1>4, <1>5 DEF TokenInv

LEMMA WriterSteps ==
  ASSUME TokenTypeInv, TokenInv, NEW a \in Actor, UpdateTokens(a) \/ Warn(a) \/ Verdict(a) \/ Remove(a)
  PROVE  TokenInv'
<1>t. act \in [Actor -> ActorState] /\ act[a] \in ActorState /\ ConnTyped(conn)
  BY RecordsTyped DEF TokenTypeInv
<1>o. Over(a).pc \in {"idle", "done"}
  BY OverTyped
<1>g. (conn.whole => conn.there) /\ (~conn.there /\ Engaged(a) => act[a].raced)
  BY DEF TokenInv, GoneIsNoticed
<1>1. CASE UpdateTokens(a)
  <2> DEFINE f == IF act[a].kind = "job" THEN [act[a] EXCEPT !.pc = "ack"] ELSE Over(a)
             rec == Refreshed(act[a].token)
  <2>1. WriteConn(a, rec, f) /\ At(a, "store") /\ newest' = newest
    BY <1>1 DEF UpdateTokens
  <2>2. f.pc \in {"idle", "done", "ack", "throw"}
    BY <1>t, <1>o DEF ActorState
  <2>3. rec.whole = conn.whole /\ rec.there /\ rec.status = "healthy" /\ rec.refresh = act[a].token
    BY <1>t DEF Refreshed, ConnTyped
  <2>4. ~conn.there => act[a].raced
    BY <1>g, <2>1 DEF Engaged, At
  <2> HIDE DEF f, rec
  <2>5. QED
    BY <1>g, <2>1, <2>2, <2>3, <2>4, WriteKeeps
<1>2. CASE Warn(a)
  <2> DEFINE f == [act[a] EXCEPT !.pc = IF act[a].final THEN "ack" ELSE "throw"]
             rec == WithStatus("warning")
  <2>1. WriteConn(a, rec, f) /\ act[a].pc = "warn" /\ newest' = newest /\ act[a].kind = "job"
    BY <1>2 DEF Warn, At, TokenTypeInv, HandsOff
  <2>2. f.pc \in {"idle", "done", "ack", "throw"}
    BY <1>t DEF ActorState
  <2>3. rec.whole = conn.whole /\ rec.there /\ rec.refresh = conn.refresh /\ rec.left = conn.left
    BY <1>t DEF WithStatus, ConnTyped
  <2>4. (~conn.there => act[a].raced) /\ (act[a].raced \/ NotFresh)
    BY <1>g, <2>1 DEF Engaged, TokenInv, JobsFindTokenOld
  <2> HIDE DEF f, rec
  <2>5. rec.left = 3 => act[a].raced
    BY <2>3, <2>4 DEF NotFresh
  <2>6. QED
    BY <1>g, <2>1, <2>2, <2>3, <2>4, <2>5, WriteKeeps DEF At
<1>3. CASE Verdict(a)
  <2> DEFINE rec == WithStatus(act[a].seen)
  <2>1. WriteConn(a, rec, Over(a)) /\ act[a].pc = "verdict" /\ newest' = newest
    BY <1>3 DEF Verdict, At
  <2>2. /\ rec.whole = conn.whole /\ rec.there /\ rec.refresh = conn.refresh /\ rec.left = conn.left
        /\ rec.status = act[a].seen
    BY <1>t DEF WithStatus, ConnTyped
  <2>3. /\ ~conn.there => act[a].raced
        /\ act[a].seen = "warning" => act[a].raced \/ past.unwell \/ conn.left = 0
    BY <1>g, <2>1 DEF Engaged, At, TokenInv, VerdictIsDue
  <2> HIDE DEF rec
  <2>4. rec.left = 3 /\ rec.status = "warning" => past.raced \/ past.unwell \/ act[a].raced
    BY <2>2, <2>3
  <2>5. ~At(a, "store")
    BY <2>1 DEF At
  <2>6. QED
    BY <1>g, <1>o, <2>1, <2>2, <2>3, <2>4, <2>5, WriteKeeps
<1>4. CASE Remove(a)
  <2>1. WriteConn(a, Absent, Over(a)) /\ newest' = newest
    BY <1>4 DEF Remove
  <2>2. ~Absent.there /\ Absent.whole = FALSE /\ Absent.status = "none"
    BY DEF Absent
  <2>3. QED
    BY <1>o, <2>1, <2>2, WriteKeeps
<1>5. QED
  BY <1>1, <1>2, <1>3, <1>4

(* Time brings no token nearer to fresh, and a job touches no record.      *)
LEMMA OutsideSteps == ASSUME TokenTypeInv, TokenInv, Ages \/ Queue PROVE TokenInv'
<1>t. ConnTyped(conn)
  BY RecordsTyped
<1>1. CASE Ages
  <2>1. /\ conn'.there = conn.there /\ conn'.whole = conn.whole /\ conn'.refresh = conn.refresh
        /\ conn'.left = conn.left - 1 /\ conn.left \in 1 .. 3
    BY <1>t, <1>1 DEF Ages, ConnTyped
  <2>2. UNCHANGED <<newest, act, past>>
    BY <1>1 DEF Ages
  <2>3. RefreshTokenKept' /\ StoresEndWithNewest'
    BY <2>1, <2>2 DEF TokenInv, RefreshTokenKept, StoresEndWithNewest, NewestAtHand, At
  <2>4. JobsFindTokenOld' /\ VerdictIsDue' /\ NoFalseWarning'
    BY <2>1, <2>2 DEF TokenInv, JobsFindTokenOld, NotFresh, VerdictIsDue, NoFalseWarning, At
  <2>5. DeletedStaysDeleted' /\ GoneIsNoticed'
    BY <2>1, <2>2 DEF TokenInv, DeletedStaysDeleted, GoneIsNoticed, Engaged
  <2>6. QED
    BY <2>3, <2>4, <2>5 DEF TokenInv
<1>2. CASE Queue
  BY <1>2 DEF Queue, TokenInv, RefreshTokenKept, StoresEndWithNewest, NewestAtHand, JobsFindTokenOld,
     NotFresh, VerdictIsDue, NoFalseWarning, DeletedStaysDeleted, GoneIsNoticed, Engaged, At
<1>3. QED
  BY <1>1, <1>2

LEMMA TokenInvStep == TokenTypeInv /\ TokenInv /\ [TokenNext]_tokenVars => TokenInv'
<1> SUFFICES ASSUME TokenTypeInv, TokenInv, [TokenNext]_tokenVars PROVE TokenInv'
  OBVIOUS
<1>1. ASSUME NEW a \in Actor, Handles(a) PROVE TokenInv'
  BY <1>1, AloneSteps, ExchangeKeeps, WriterSteps DEF Handles
<1>2. CASE UNCHANGED tokenVars
  BY <1>2 DEF tokenVars, TokenInv, RefreshTokenKept, StoresEndWithNewest, NewestAtHand, JobsFindTokenOld,
     NotFresh, VerdictIsDue, NoFalseWarning, DeletedStaysDeleted, GoneIsNoticed, Engaged, At
<1>3. QED
  BY <1>1, <1>2, OutsideSteps DEF TokenNext

----------------------------------------------------------------------------
(* The state variables hold what the code gives them, a held job is hidden *)
(* from the other workers and a token is stored only if it was exchanged.  *)
THEOREM TokenTypeCorrect == TokenSpec => []TokenTypeOK
<1>1. TokenTypeInv => TokenTypeOK
  BY DEF TokenTypeInv
<1>2. QED
  BY <1>1, TokenTypeInit, TokenTypeStep, PTL DEF TokenSpec

LEMMA TokenInvariant == TokenSpec => []TokenInv
  BY TokenTypeInit, TokenTypeStep, TokenInvInit, TokenInvStep, PTL DEF TokenSpec

(* However many workers, callers and requests exchange the connection's    *)
(* rotating token at once, wherever one of them dies: the newest is stored *)
(* or about to be, unless it was lost on the way or a stale write came.    *)
THEOREM NewestTokenKept == TokenSpec => []RefreshTokenKept
<1>1. TokenInv => RefreshTokenKept
  BY DEF TokenInv
<1>2. QED
  BY <1>1, TokenInvariant, PTL

(* A token just refreshed is not reported as a problem by a job that began *)
(* while it was old.                                                       *)
THEOREM FreshTokenHealthy == TokenSpec => []NoFalseWarning
<1>1. TokenInv => NoFalseWarning
  BY DEF TokenInv
<1>2. QED
  BY <1>1, TokenInvariant, PTL

(* Nobody who starts after the deletion of a connection brings it back.    *)
THEOREM DeletionStands == TokenSpec => []DeletedStaysDeleted
<1>1. TokenInv => DeletedStaysDeleted
  BY DEF TokenInv
<1>2. QED
  BY <1>1, TokenInvariant, PTL
=============================================================================
