------------------------ MODULE SfRegistrationProofs ------------------------
(***************************************************************************)
(* Whoever was told that it is registered is, and a rotation stands: for   *)
(* any number of registration requests, administrators, bootstrap tokens   *)
(* and faults.                                                             *)
(***************************************************************************)
EXTENDS SfRegistration, TLAPS

BootState == [issued : BOOLEAN, redeemed : BOOLEAN, expired : BOOLEAN, key : {"none", "same", "other"},
              secret : Caller \cup {Nil}, persisted : BOOLEAN, rotated : BOOLEAN]
CallerPc == {"idle", "why", "app", "persist", "mark", "done"}
CallerState == [pc : CallerPc, token : Boot \cup {Nil}, key : {"none", "same", "other"},
                secret : Caller \cup {Nil}, heals : BOOLEAN, answer : Caller \cup {Nil}]
AdminState == [pc : {"idle", "clear", "issue", "done"}, found : BOOLEAN]

(* A redeemed token has the secret of the request that redeemed it.        *)
SfTypeInv ==
  /\ boot \in [Boot -> BootState] /\ caller \in [Caller -> CallerState]
  /\ admin \in [Admin -> AdminState]
  /\ slot \in Caller \cup {Nil} /\ app \in BOOLEAN /\ upsets \in 0 .. MaxSfFaults
  /\ told \in [removed : SUBSET Caller, late : BOOLEAN]
  /\ \A t \in Boot : /\ boot[t].redeemed => boot[t].issued /\ boot[t].secret \in Caller
                     /\ boot[t].persisted => boot[t].redeemed

(* A request works on the secret of its token, and is told no other; the   *)
(* requests that redeemed two tokens are two.                              *)
AtWork(c) == caller[c].pc \in {"app", "persist", "mark"}
RequestsHoldSecrets ==
  \A c \in Caller :
    LET t == caller[c].token
    IN /\ caller[c].pc = "idle" => t = Nil /\ caller[c].answer = Nil
       /\ caller[c].pc # "idle" => t \in Boot /\ boot[t].issued
       /\ AtWork(c) => boot[t].redeemed /\ caller[c].secret = boot[t].secret
       /\ caller[c].pc = "why" => boot[t].redeemed \/ boot[t].expired
       /\ caller[c].answer # Nil => /\ caller[c].pc = "done" /\ boot[t].redeemed
                                   /\ caller[c].answer = boot[t].secret
RedeemersDiffer ==
  \A t \in Boot : boot[t].redeemed => caller[boot[t].secret].token = t

(* A token's secret was stored at some time: it is marked, or a request is *)
(* about to mark it or has answered.  It is still there if it is the       *)
(* newest token, no rotation cleared it and nothing came late.             *)
WasStored(t) == \/ boot[t].persisted
                \/ \E c \in Caller : caller[c].token = t /\ (caller[c].pc = "mark" \/ caller[c].answer # Nil)
StoredStays ==
  \A t \in Boot : boot[t].issued /\ WasStored(t) /\ Newer(t) = {} /\ ~boot[t].rotated /\ ~told.late
                   => slot = boot[t].secret

(* A removed secret is that of a request that has been made, and belongs   *)
(* to a marked token nobody is at work on.                                 *)
RemovedWasAsked == \A c \in told.removed : caller[c].pc # "idle"
RemovedIsOver ==
  \A t \in Boot : boot[t].redeemed /\ boot[t].secret \in told.removed
    => boot[t].persisted /\ \A c \in Caller : caller[c].token = t => ~AtWork(c)

SfInv == RequestsHoldSecrets /\ RedeemersDiffer /\ StoredStays
         /\ RemovedWasAsked /\ RemovedIsOver /\ RotationStands

----------------------------------------------------------------------------
LEMMA SfStart == SfInit => SfTypeInv /\ SfInv
<1> SUFFICES ASSUME SfInit PROVE SfTypeInv /\ SfInv
  OBVIOUS
<1>1. /\ Unissued \in BootState /\ Issued \in BootState /\ Waiting \in CallerState
      /\ ~Unissued.redeemed /\ ~Unissued.persisted /\ ~Issued.redeemed /\ ~Issued.persisted
      /\ Waiting.pc = "idle" /\ Waiting.token = Nil /\ Waiting.answer = Nil
  BY DEF Unissued, Issued, Waiting, BootState, CallerState, CallerPc
<1>2. /\ \A t \in Boot : boot[t] \in BootState /\ ~boot[t].redeemed /\ ~boot[t].persisted
      /\ \A c \in Caller : caller[c] = Waiting
  BY <1>1 DEF SfInit
<1>3. boot \in [Boot -> BootState] /\ caller \in [Caller -> CallerState]
  BY <1>1 DEF SfInit
<1>4. admin \in [Admin -> AdminState] /\ told \in [removed : SUBSET Caller, late : BOOLEAN]
  BY DEF SfInit, AdminState
<1>5. SfTypeInv
  BY <1>2, <1>3, <1>4, SfAssumption DEF SfInit, SfTypeInv
<1>6. RequestsHoldSecrets /\ RedeemersDiffer /\ RotationStands
  BY <1>1, <1>2 DEF SfInit, RequestsHoldSecrets, RedeemersDiffer, RotationStands, AtWork
<1>7. StoredStays /\ RemovedWasAsked /\ RemovedIsOver
  BY <1>1, <1>2 DEF SfInit, StoredStays, WasStored, RemovedWasAsked, RemovedIsOver
<1>8. QED
  BY <1>5, <1>6, <1>7 DEF SfInv

(* A request moves on; token, secret and answer are what they were, but    *)
(* for an answer.                                                          *)
GoesOn(c, f) ==
  /\ caller' = [caller EXCEPT ![c] = f]
  /\ f \in CallerState /\ f.token = caller[c].token /\ f.pc # "idle"

LEMMA UpsetTyped ==
  ASSUME SfTypeInv, NEW k, Upset(k) \/ NoUpset PROVE upsets' \in 0 .. MaxSfFaults
  BY SfAssumption DEF Upset, NoUpset, SfTypeInv

(* A step that touches neither tokens nor slot: nobody comes to the mark.  *)
LEMMA GoesOnKeeps ==
  ASSUME SfTypeInv, SfInv, NEW c \in Caller, NEW f, GoesOn(c, f), caller[c].pc # "idle",
         f.pc # "mark", f.pc # "why",
         f.pc \in {"app", "persist"} =>
           /\ boot[f.token].redeemed /\ f.secret = boot[f.token].secret
           /\ ~boot[f.token].persisted \/ AtWork(c),
         f.answer # Nil => f.pc = "done" /\ boot[f.token].redeemed /\ f.answer = boot[f.token].secret
                           /\ WasStored(f.token),
         UNCHANGED <<boot, slot, told, admin>>, app' \in BOOLEAN, upsets' \in 0 .. MaxSfFaults
  PROVE  SfTypeInv' /\ SfInv'
<1>t. caller \in [Caller -> CallerState] /\ caller' \in [Caller -> CallerState]
  BY DEF SfTypeInv, GoesOn
<1>c. caller'[c] = f /\ \A d \in Caller \ {c} : caller'[d] = caller[d]
  BY <1>t DEF GoesOn
<1>u. f.token = caller[c].token /\ f.pc # "idle" /\ f.token \in Boot
  BY DEF GoesOn, SfInv, RequestsHoldSecrets
<1>1. SfTypeInv'
  BY <1>t DEF SfTypeInv
<1>2. RequestsHoldSecrets'
  BY <1>c, <1>u DEF SfInv, RequestsHoldSecrets, AtWork
<1>3. RedeemersDiffer' /\ RemovedWasAsked' /\ RotationStands'
  BY <1>c, <1>u DEF SfInv, RedeemersDiffer, RemovedWasAsked, RotationStands, SfTypeInv
<1>4. StoredStays'
  <2>1. \A t \in Boot : WasStored(t)' => WasStored(t)
    BY <1>c, <1>u DEF WasStored
  <2>2. QED
    BY <2>1 DEF SfInv, StoredStays, Newer
<1>5. RemovedIsOver'
  BY <1>c, <1>u DEF SfInv, RemovedIsOver, AtWork
<1>6. QED
  BY <1>1, <1>2, <1>3, <1>4, <1>5 DEF SfInv

LEMMA PcChange ==
  ASSUME SfTypeInv, NEW c \in Caller, NEW pc \in CallerPc \ {"idle"}
  PROVE  LET f == [caller[c] EXCEPT !.pc = pc]
         IN /\ f \in CallerState /\ f.token = caller[c].token /\ f.secret = caller[c].secret
            /\ f.answer = caller[c].answer /\ f.pc = pc
            /\ Go(c, pc) => GoesOn(c, f)
<1>1. caller[c] \in CallerState /\ caller \in [Caller -> CallerState]
  BY DEF SfTypeInv
<1> DEFINE f == [caller[c] EXCEPT !.pc = pc]
<1>2. f \in CallerState /\ f.token = caller[c].token /\ f.secret = caller[c].secret
      /\ f.answer = caller[c].answer /\ f.pc = pc
  BY <1>1 DEF CallerState, CallerPc
<1>3. ASSUME Go(c, pc) PROVE GoesOn(c, f)
  <2>1. caller' = [caller EXCEPT ![c] = f]
    BY <1>1, <1>3 DEF Go
  <2>2. QED
    BY <1>2, <2>1 DEF GoesOn
<1>4. QED
  BY <1>2, <1>3

(* A request that is refused.                                              *)
LEMMA RefuseKeeps ==
  ASSUME SfTypeInv, SfInv, NEW c \in Caller, Refuse(c), caller[c].pc \notin {"idle", "done"},
         UNCHANGED <<boot, slot, told, admin>>, app' \in BOOLEAN, upsets' \in 0 .. MaxSfFaults
  PROVE  SfTypeInv' /\ SfInv'
<1> DEFINE f == [caller[c] EXCEPT !.pc = "done"]
<1>1. f \in CallerState /\ f.token = caller[c].token /\ f.answer = caller[c].answer /\ f.pc = "done"
      /\ GoesOn(c, f)
  BY PcChange DEF CallerPc, Refuse
<1>2. caller[c].answer = Nil
  BY DEF SfInv, RequestsHoldSecrets
<1> HIDE DEF f
<1>3. QED
  BY <1>1, <1>2, GoesOnKeeps

(* Answering.                                                              *)
LEMMA AnswerForm ==
  ASSUME SfTypeInv, NEW c \in Caller, NEW s \in Caller, Answers(c, s)
  PROVE  \E f \in CallerState : GoesOn(c, f) /\ f.pc = "done" /\ f.answer = s
<1>1. caller[c] \in CallerState /\ caller \in [Caller -> CallerState]
  BY DEF SfTypeInv
<1> DEFINE f == [[caller[c] EXCEPT !.pc = "done"] EXCEPT !.answer = s]
<1>2. f \in CallerState /\ f.token = caller[c].token /\ f.answer = s /\ f.pc = "done"
  BY <1>1 DEF CallerState, CallerPc
<1>3. caller' = [caller EXCEPT ![c] = f]
  BY <1>1 DEF Answers
<1>4. QED
  BY <1>2, <1>3 DEF GoesOn

LEMMA ReplayKeeps ==
  ASSUME SfTypeInv, SfInv, NEW c \in Caller, Replay(c) PROVE SfTypeInv' /\ SfInv'
<1> DEFINE t == caller[c].token
<1>t. /\ caller[c] \in CallerState /\ caller \in [Caller -> CallerState]
      /\ caller[c].pc = "why" /\ t \in Boot /\ caller[c].answer = Nil
      /\ UNCHANGED <<boot, slot, told, admin>> /\ app' \in BOOLEAN /\ upsets' \in 0 .. MaxSfFaults
  BY DEF SfTypeInv, SfInv, RequestsHoldSecrets, Replay, Stage
<1>1. CASE Refuse(c)
  BY <1>t, <1>1, RefuseKeeps
<1>2. CASE ~Refuse(c)
  <2>1. ~boot[t].expired
    BY <1>2 DEF Replay
  <2>2. boot[t].redeemed /\ boot[t].secret \in Caller
    BY <1>t, <2>1 DEF SfInv, RequestsHoldSecrets, SfTypeInv
  <2>3. CASE Heals(t)
    <3> DEFINE f == [[[caller[c] EXCEPT !.pc = "app"] EXCEPT !.secret = boot[t].secret] EXCEPT !.heals = TRUE]
    <3>1. f \in CallerState /\ f.token = t /\ f.secret = boot[t].secret /\ f.pc = "app" /\ f.answer = Nil
      BY <1>t, <2>2 DEF CallerState, CallerPc
    <3>2. caller' = [caller EXCEPT ![c] = f]
      BY <1>t, <1>2, <2>3 DEF Replay
    <3>3. ~boot[t].persisted
      BY <2>3 DEF Heals
    <3> HIDE DEF f
    <3>4. GoesOn(c, f)
      BY <3>1, <3>2 DEF GoesOn
    <3>5. QED
      BY <1>t, <2>2, <3>1, <3>3, <3>4, GoesOnKeeps
  <2>4. CASE ~Heals(t)
    <3>1. Answers(c, boot[t].secret)
      BY <1>2, <2>4 DEF Replay
    <3>2. PICK f \in CallerState : GoesOn(c, f) /\ f.pc = "done" /\ f.answer = boot[t].secret
      BY <2>2, <3>1, AnswerForm
    <3>3. WasStored(t) /\ f.token = t
      BY <2>4, <3>2 DEF WasStored, Heals, GoesOn
    <3>4. QED
      BY <1>t, <2>2, <3>2, <3>3, GoesOnKeeps
  <2>5. QED
    BY <2>3, <2>4
<1>3. QED
  BY <1>1, <1>2

LEMMA ResolveKeeps ==
  ASSUME SfTypeInv, SfInv, NEW c \in Caller, ResolveApp(c) PROVE SfTypeInv' /\ SfInv'
<1>t. /\ caller[c].pc = "app" /\ AtWork(c) /\ caller[c].answer = Nil
      /\ boot[caller[c].token].redeemed /\ caller[c].secret = boot[caller[c].token].secret
      /\ UNCHANGED <<boot, slot, told, admin>> /\ app' \in BOOLEAN /\ upsets' \in 0 .. MaxSfFaults
  BY DEF SfTypeInv, SfInv, RequestsHoldSecrets, ResolveApp, Stage, AtWork
<1>1. CASE Refuse(c)
  BY <1>t, <1>1, RefuseKeeps
<1>2. CASE Go(c, "persist")
  <2> DEFINE f == [caller[c] EXCEPT !.pc = "persist"]
  <2>1. f \in CallerState /\ f.token = caller[c].token /\ f.answer = caller[c].answer /\ f.pc = "persist"
        /\ f.secret = caller[c].secret /\ GoesOn(c, f)
    BY <1>2, PcChange DEF CallerPc
  <2> HIDE DEF f
  <2>2. QED
    BY <1>t, <2>1, GoesOnKeeps
<1>3. QED
  BY <1>1, <1>2 DEF ResolveApp

(* The secret is stored: of the newest token, or it comes late.            *)
LEMMA PersistKeeps ==
  ASSUME SfTypeInv, SfInv, NEW c \in Caller, Persist(c) PROVE SfTypeInv' /\ SfInv'
<1> DEFINE t == caller[c].token
<1>t. /\ caller[c].pc = "persist" /\ AtWork(c) /\ caller[c].answer = Nil /\ t \in Boot /\ boot[t].issued
      /\ boot[t].redeemed /\ caller[c].secret = boot[t].secret /\ boot[t].secret \in Caller
      /\ UNCHANGED <<boot, app, admin>> /\ app \in BOOLEAN
      /\ caller \in [Caller -> CallerState]
  BY DEF SfTypeInv, SfInv, RequestsHoldSecrets, Persist, Stage, AtWork
<1>1. CASE Refuse(c) /\ Upset("writeFails") /\ UNCHANGED <<slot, told>>
  BY <1>t, <1>1, UpsetTyped, RefuseKeeps
<1>2. CASE /\ slot' = caller[c].secret
           /\ told' = [told EXCEPT !.late = @ \/ Newer(t) # {}]
           /\ Go(c, "mark") /\ NoUpset
  <2> DEFINE f == [caller[c] EXCEPT !.pc = "mark"]
  <2>1. f \in CallerState /\ f.token = t /\ f.answer = Nil /\ f.pc = "mark"
        /\ f.secret = caller[c].secret /\ GoesOn(c, f)
    BY <1>t, <1>2, PcChange DEF CallerPc
  <2> HIDE DEF f
  <2>2. caller'[c] = f /\ \A d \in Caller \ {c} : caller'[d] = caller[d]
    BY <1>t, <2>1 DEF GoesOn
  <2>3. /\ told' \in [removed : SUBSET Caller, late : BOOLEAN] /\ told'.removed = told.removed
        /\ told'.late <=> told.late \/ Newer(t) # {}
    BY <1>2 DEF SfTypeInv
  <2>4. SfTypeInv'
    BY <1>t, <1>2, <2>1, <2>3, UpsetTyped DEF SfTypeInv, GoesOn
  <2>5. RequestsHoldSecrets'
    BY <1>t, <2>1, <2>2 DEF SfInv, RequestsHoldSecrets, AtWork
  <2>6. RedeemersDiffer' /\ RemovedWasAsked'
    BY <1>t, <2>1, <2>2, <2>3 DEF SfInv, RedeemersDiffer, RemovedWasAsked, SfTypeInv
  <2>7. RemovedIsOver'
    BY <1>t, <2>1, <2>2, <2>3 DEF SfInv, RemovedIsOver, AtWork
  <2>8. RotationStands'
    BY <1>t, <1>2, <2>3 DEF SfInv, RemovedIsOver, RotationStands
  <2>9. StoredStays'
    <3> SUFFICES ASSUME NEW u \in Boot, boot[u].issued, Newer(u) = {}, ~told'.late
                 PROVE  slot' = boot[u].secret
      BY <1>t DEF StoredStays, Newer
    <3>1. Newer(t) = {}
      BY <2>3
    <3>2. ~(u > t) /\ ~(t > u)
      BY <1>t, <3>1 DEF Newer
    <3>3. u = t
      <4>1. u \in Nat /\ t \in Nat
        BY <1>t, SfAssumption
      <4> HIDE DEF t
      <4>2. QED
        BY <3>2, <4>1
    <3>4. QED
      BY <1>t, <1>2, <3>3
  <2>10. QED
    BY <2>4, <2>5, <2>6, <2>7, <2>8, <2>9 DEF SfInv
<1>3. QED
  BY <1>1, <1>2, <1>t DEF Persist

(* The mark, and the answer with it.                                       *)
LEMMA MarkKeeps ==
  ASSUME SfTypeInv, SfInv, NEW c \in Caller, Mark(c) PROVE SfTypeInv' /\ SfInv'
<1> DEFINE t == caller[c].token
<1>t. /\ caller[c].pc = "mark" /\ AtWork(c) /\ caller[c].answer = Nil /\ t \in Boot /\ boot[t].issued
      /\ boot[t].redeemed /\ caller[c].secret = boot[t].secret /\ boot[t].secret \in Caller
      /\ UNCHANGED <<slot, app, admin, told>> /\ app \in BOOLEAN
      /\ caller \in [Caller -> CallerState] /\ boot \in [Boot -> BootState] /\ boot[t] \in BootState
      /\ WasStored(t)
  BY DEF SfTypeInv, SfInv, RequestsHoldSecrets, Mark, Stage, AtWork, WasStored
<1>u. upsets' \in 0 .. MaxSfFaults
  BY UpsetTyped DEF Mark
<1>1. CASE boot' = [boot EXCEPT ![t].persisted = TRUE] /\ Answers(c, caller[c].secret)
  <2> DEFINE g == [boot[t] EXCEPT !.persisted = TRUE]
  <2>1. g \in BootState /\ g.issued = boot[t].issued /\ g.redeemed = boot[t].redeemed /\ g.secret = boot[t].secret
        /\ g.rotated = boot[t].rotated /\ g.persisted /\ g.expired = boot[t].expired
    BY <1>t DEF BootState
  <2>2. boot' = [boot EXCEPT ![t] = g]
    BY <1>t, <1>1
  <2> HIDE DEF g
  <2>3. /\ boot' \in [Boot -> BootState]
        /\ \A u \in Boot : /\ boot'[u].issued = boot[u].issued /\ boot'[u].redeemed = boot[u].redeemed
                           /\ boot'[u].secret = boot[u].secret /\ boot'[u].rotated = boot[u].rotated
                           /\ boot'[u].expired = boot[u].expired
                           /\ boot'[u].persisted <=> boot[u].persisted \/ u = t
    BY <1>t, <2>1, <2>2
  <2>4. PICK f \in CallerState : GoesOn(c, f) /\ f.pc = "done" /\ f.answer = boot[t].secret
    BY <1>t, <1>1, AnswerForm
  <2>5. caller'[c] = f /\ (\A d \in Caller \ {c} : caller'[d] = caller[d]) /\ f.token = t
        /\ caller' \in [Caller -> CallerState]
    BY <1>t, <2>4 DEF GoesOn
  <2>6. SfTypeInv'
    BY <1>t, <1>u, <2>3, <2>5 DEF SfTypeInv
  <2>7. RequestsHoldSecrets'
    BY <1>t, <2>3, <2>4, <2>5 DEF SfInv, RequestsHoldSecrets, AtWork
  <2>8. RedeemersDiffer' /\ RemovedWasAsked' /\ RotationStands'
    BY <1>t, <2>3, <2>4, <2>5 DEF SfInv, RedeemersDiffer, RemovedWasAsked, RotationStands, SfTypeInv
  <2>9. RemovedIsOver'
    BY <1>t, <2>3, <2>4, <2>5 DEF SfInv, RemovedIsOver, AtWork
  <2>10. StoredStays'
    <3>1. \A u \in Boot : WasStored(u)' => WasStored(u)
      BY <1>t, <2>3, <2>4, <2>5 DEF WasStored
    <3>2. \A u \in Boot : Newer(u)' = Newer(u)
      BY <2>3 DEF Newer
    <3>3. QED
      BY <1>t, <2>3, <3>1, <3>2 DEF SfInv, StoredStays
  <2>11. QED
    BY <2>6, <2>7, <2>8, <2>9, <2>10 DEF SfInv
<1>2. CASE UNCHANGED boot /\ Refuse(c)
  BY <1>t, <1>u, <1>2, RefuseKeeps
<1>3. CASE UNCHANGED boot /\ Answers(c, caller[c].secret)
  <2>1. PICK f \in CallerState : GoesOn(c, f) /\ f.pc = "done" /\ f.answer = boot[t].secret
    BY <1>t, <1>3, AnswerForm
  <2>2. f.token = t
    BY <2>1 DEF GoesOn
  <2>3. QED
    BY <1>t, <1>u, <1>3, <2>1, <2>2, GoesOnKeeps
<1>4. QED
  BY <1>1, <1>2, <1>3, <1>t DEF Mark

LEMMA CrashKeeps ==
  ASSUME SfTypeInv, SfInv, NEW c \in Caller, CallerCrashes(c) PROVE SfTypeInv' /\ SfInv'
  BY UpsetTyped, RefuseKeeps DEF CallerCrashes, SfTypeInv

(* A request arrives.  If its token is redeemable it becomes the redeemer. *)
LEMMA RedeemKeeps ==
  ASSUME SfTypeInv, SfInv, NEW c \in Caller, Redeem(c) PROVE SfTypeInv' /\ SfInv'
<1>1. PICK t \in Boot, key \in {"same", "other"} :
        /\ boot[t].issued
        /\ boot' = IF Redeemable(t)
                   THEN [boot EXCEPT ![t].redeemed = TRUE, ![t].key = key, ![t].secret = c, ![t].persisted = FALSE]
                   ELSE boot
        /\ caller' = [caller EXCEPT ![c] = [@ EXCEPT !.token = t, !.key = key, !.secret = c,
                                                     !.pc = IF Redeemable(t) THEN "app" ELSE "why"]]
  BY DEF Redeem
<1>t. /\ caller[c].pc = "idle" /\ caller[c].token = Nil /\ caller[c].answer = Nil
      /\ caller \in [Caller -> CallerState] /\ caller[c] \in CallerState
      /\ boot \in [Boot -> BootState] /\ boot[t] \in BootState
      /\ UNCHANGED <<slot, app, admin, upsets, told>> /\ Nil \notin Boot /\ Nil \notin Caller
  BY SfAssumption DEF SfTypeInv, SfInv, RequestsHoldSecrets, Redeem, Stage
<1> DEFINE pc == IF Redeemable(t) THEN "app" ELSE "why"
           f == [[[[caller[c] EXCEPT !.token = t] EXCEPT !.key = key] EXCEPT !.secret = c] EXCEPT !.pc = pc]
<1>f. f \in CallerState /\ f.token = t /\ f.secret = c /\ f.pc = pc /\ f.answer = Nil
  BY <1>t DEF CallerState, CallerPc
<1>2. caller' = [caller EXCEPT ![c] = f]
  BY <1>1, <1>t
<1> HIDE DEF f
<1>3. caller'[c] = f /\ (\A d \in Caller \ {c} : caller'[d] = caller[d]) /\ caller' \in [Caller -> CallerState]
  BY <1>t, <1>2, <1>f
<1>4. CASE ~Redeemable(t)
  <2>1. boot' = boot /\ f.pc = "why" /\ (boot[t].redeemed \/ boot[t].expired)
    BY <1>1, <1>4, <1>f DEF Redeemable
  <2>2. SfTypeInv'
    BY <1>t, <1>3, <2>1 DEF SfTypeInv
  <2>3. RequestsHoldSecrets'
    BY <1>1, <1>t, <1>3, <1>f, <2>1 DEF SfInv, RequestsHoldSecrets, AtWork
  <2>4. RedeemersDiffer' /\ RemovedWasAsked' /\ RotationStands'
    BY <1>t, <1>3, <2>1 DEF SfInv, RedeemersDiffer, RemovedWasAsked, RotationStands, SfTypeInv
  <2>5. RemovedIsOver'
    BY <1>t, <1>3, <1>f, <2>1 DEF SfInv, RemovedIsOver, AtWork
  <2>6. StoredStays'
    <3>1. \A u \in Boot : WasStored(u)' => WasStored(u)
      BY <1>t, <1>3, <1>f, <2>1 DEF WasStored
    <3>2. QED
      BY <1>t, <2>1, <3>1 DEF SfInv, StoredStays, Newer
  <2>7. QED
    BY <2>2, <2>3, <2>4, <2>5, <2>6 DEF SfInv
<1>5. CASE Redeemable(t)
  <2> DEFINE g == [[[[boot[t] EXCEPT !.redeemed = TRUE] EXCEPT !.key = key] EXCEPT !.secret = c] EXCEPT !.persisted = FALSE]
  <2>1. g \in BootState /\ g.issued /\ g.redeemed /\ g.secret = c /\ ~g.persisted /\ g.rotated = boot[t].rotated
        /\ g.expired = boot[t].expired
    BY <1>1, <1>t DEF BootState
  <2>2. boot' = [boot EXCEPT ![t] = g]
    BY <1>1, <1>5, <1>t
  <2> HIDE DEF g
  <2>3. /\ boot'[t] = g /\ (\A u \in Boot \ {t} : boot'[u] = boot[u]) /\ boot' \in [Boot -> BootState]
        /\ \A u \in Boot : boot'[u].issued <=> boot[u].issued
    BY <1>1, <1>t, <2>1, <2>2
  <2>4. ~boot[t].redeemed /\ ~boot[t].persisted /\ f.pc = "app"
    BY <1>5, <1>f DEF Redeemable, SfTypeInv
  <2>5. \A d \in Caller : caller[d].token = t => ~AtWork(d) /\ caller[d].answer = Nil
    BY <2>4 DEF SfInv, RequestsHoldSecrets
  <2>6. SfTypeInv'
    BY <1>t, <1>3, <2>1, <2>3 DEF SfTypeInv
  <2>7. RequestsHoldSecrets'
    BY <1>1, <1>t, <1>3, <1>f, <2>1, <2>3, <2>4, <2>5 DEF SfInv, RequestsHoldSecrets, AtWork
  <2>8. \A u \in Boot \ {t} : boot[u].redeemed => boot[u].secret # c
    BY <1>t DEF SfInv, RedeemersDiffer
  <2>9. RedeemersDiffer' /\ RemovedWasAsked' /\ RotationStands'
    BY <1>t, <1>3, <1>f, <2>1, <2>3, <2>8 DEF SfInv, RedeemersDiffer, RemovedWasAsked, RotationStands, SfTypeInv
  <2>10. ~WasStored(t)' /\ \A u \in Boot : WasStored(u)' => WasStored(u)
    BY <1>t, <1>3, <1>f, <2>1, <2>3, <2>4, <2>5 DEF WasStored, AtWork
  <2>11. StoredStays'
    <3>1. \A u \in Boot : Newer(u)' = Newer(u)
      BY <2>3 DEF Newer
    <3>2. QED
      BY <1>t, <2>1, <2>3, <2>10, <3>1 DEF SfInv, StoredStays
  <2>12. c \notin told.removed
    BY <1>t DEF SfInv, RemovedWasAsked
  <2>13. RemovedIsOver'
    BY <1>t, <1>3, <1>f, <2>1, <2>3, <2>12 DEF SfInv, RemovedIsOver, AtWork
  <2>14. QED
    BY <2>6, <2>7, <2>9, <2>11, <2>13 DEF SfInv
<1>6. QED
  BY <1>4, <1>5

----------------------------------------------------------------------------
(* A day passes, the platform is installed: neither is the registration's. *)
LEMMA OutsideKeeps ==
  ASSUME SfTypeInv, SfInv, Expires \/ Installed PROVE SfTypeInv' /\ SfInv'
<1>t. boot \in [Boot -> BootState]
  BY DEF SfTypeInv
<1>1. CASE Installed
  BY <1>1 DEF Installed, SfTypeInv, SfInv, RequestsHoldSecrets, RedeemersDiffer, StoredStays, WasStored, Newer,
     RemovedWasAsked, RemovedIsOver, RotationStands, AtWork
<1>2. CASE Expires
  <2>1. PICK t \in Boot : boot[t].issued /\ boot' = [boot EXCEPT ![t].expired = TRUE]
    BY <1>2 DEF Expires
  <2> DEFINE g == [boot[t] EXCEPT !.expired = TRUE]
  <2>2. g \in BootState /\ g.issued = boot[t].issued /\ g.redeemed = boot[t].redeemed /\ g.secret = boot[t].secret
        /\ g.rotated = boot[t].rotated /\ g.persisted = boot[t].persisted /\ g.expired
    BY <1>t DEF BootState
  <2>3. boot' = [boot EXCEPT ![t] = g]
    BY <1>t, <2>1
  <2> HIDE DEF g
  <2>4. /\ boot' \in [Boot -> BootState]
        /\ \A u \in Boot : /\ boot'[u].issued = boot[u].issued /\ boot'[u].redeemed = boot[u].redeemed
                           /\ boot'[u].secret = boot[u].secret /\ boot'[u].rotated = boot[u].rotated
                           /\ boot'[u].persisted = boot[u].persisted
                           /\ boot[u].expired => boot'[u].expired
    BY <1>t, <2>2, <2>3
  <2>5. UNCHANGED <<slot, app, caller, admin, told>> /\ upsets' \in 0 .. MaxSfFaults
    BY <1>2, UpsetTyped DEF Expires
  <2>6. SfTypeInv'
    BY <2>4, <2>5 DEF SfTypeInv
  <2>7. RequestsHoldSecrets' /\ RedeemersDiffer'
    BY <2>4, <2>5 DEF SfInv, RequestsHoldSecrets, RedeemersDiffer, AtWork
  <2>8. RemovedWasAsked' /\ RotationStands' /\ RemovedIsOver'
    BY <2>4, <2>5 DEF SfInv, RemovedWasAsked, RotationStands, RemovedIsOver, AtWork
  <2>9. StoredStays'
    <3>1. \A u \in Boot : (WasStored(u)' <=> WasStored(u)) /\ Newer(u)' = Newer(u)
      BY <2>4, <2>5 DEF WasStored, Newer
    <3>2. QED
      BY <2>4, <2>5, <3>1 DEF SfInv, StoredStays
  <2>10. QED
    BY <2>6, <2>7, <2>8, <2>9 DEF SfInv
<1>3. QED
  BY <1>1, <1>2

(* The administrator's steps.                                              *)
LEMMA ReadKeeps ==
  ASSUME SfTypeInv, SfInv, NEW a \in Admin, ReadRegistrations(a) PROVE SfTypeInv' /\ SfInv'
<1>1. UNCHANGED <<boot, slot, app, caller, upsets, told>>
  BY DEF ReadRegistrations
<1>2. admin' \in [Admin -> AdminState]
  BY DEF ReadRegistrations, SfTypeInv, AdminState
<1>3. QED
  BY <1>1, <1>2 DEF SfTypeInv, SfInv, RequestsHoldSecrets, RedeemersDiffer, StoredStays, WasStored, Newer,
     RemovedWasAsked, RemovedIsOver, RotationStands, AtWork

LEMMA AdminMoves ==
  ASSUME SfTypeInv, NEW a \in Admin, NEW pc \in {"issue", "done"}, admin' = [admin EXCEPT ![a].pc = pc]
  PROVE  admin' \in [Admin -> AdminState]
<1>1. admin \in [Admin -> AdminState]
  BY DEF SfTypeInv
<1>2. [admin[a] EXCEPT !.pc = pc] \in AdminState
  BY <1>1 DEF AdminState
<1>3. admin' = [admin EXCEPT ![a] = [admin[a] EXCEPT !.pc = pc]]
  BY <1>1
<1>4. QED
  BY <1>1, <1>2, <1>3

LEMMA ClearKeeps ==
  ASSUME SfTypeInv, SfInv, NEW a \in Admin, ClearSecrets(a) PROVE SfTypeInv' /\ SfInv'
<1>t. boot \in [Boot -> BootState] /\ UNCHANGED <<app, caller, upsets>> /\ admin' \in [Admin -> AdminState]
      /\ Nil \notin Caller
  BY AdminMoves, SfAssumption DEF SfTypeInv, ClearSecrets
<1>1. CASE ~admin[a].found
  BY <1>t, <1>1 DEF ClearSecrets, SfTypeInv, SfInv, RequestsHoldSecrets, RedeemersDiffer, StoredStays, WasStored, Newer,
     RemovedWasAsked, RemovedIsOver, RotationStands, AtWork
<1>2. CASE admin[a].found
  <2> DEFINE gone == {boot[t].secret : t \in {u \in Boot : boot[u].redeemed /\ boot[u].persisted /\ ~InFlight(u)}}
  <2>1. /\ slot' = Nil /\ boot' = [t \in Boot |-> Cleared(t)]
        /\ told' = [told EXCEPT !.removed = @ \cup gone]
    BY <1>2 DEF ClearSecrets
  <2>2. ASSUME NEW t \in Boot
        PROVE  /\ Cleared(t) \in BootState /\ Cleared(t).issued = boot[t].issued
               /\ Cleared(t).redeemed = boot[t].redeemed /\ Cleared(t).secret = boot[t].secret
               /\ Cleared(t).persisted = boot[t].persisted /\ Cleared(t).expired = boot[t].expired
               /\ boot[t].issued => Cleared(t).rotated
    <3> DEFINE r == boot[t].rotated \/ boot[t].issued
    <3>1. r \in BOOLEAN /\ (boot[t].issued => r)
      BY <1>t DEF BootState
    <3>2. Cleared(t) = [boot[t] EXCEPT !.rotated = r]
      BY DEF Cleared
    <3> HIDE DEF r
    <3>3. QED
      BY <1>t, <3>1, <3>2 DEF BootState
  <2>3. /\ boot' \in [Boot -> BootState]
        /\ \A t \in Boot : /\ boot'[t].issued = boot[t].issued /\ boot'[t].redeemed = boot[t].redeemed
                           /\ boot'[t].secret = boot[t].secret /\ boot'[t].persisted = boot[t].persisted
                           /\ boot'[t].expired = boot[t].expired
                           /\ boot[t].issued => boot'[t].rotated
    BY <2>1, <2>2
  <2>4. gone \in SUBSET Caller
    BY DEF SfTypeInv
  <2>5. /\ told' \in [removed : SUBSET Caller, late : BOOLEAN] /\ told'.removed = told.removed \cup gone
    BY <2>1, <2>4 DEF SfTypeInv
  <2>6. SfTypeInv'
    BY <1>t, <2>1, <2>3, <2>5 DEF SfTypeInv
  <2>7. RequestsHoldSecrets' /\ RedeemersDiffer'
    BY <1>t, <2>3 DEF SfInv, RequestsHoldSecrets, RedeemersDiffer, AtWork
  <2>8. StoredStays'
    BY <2>3 DEF StoredStays
  <2>9. RotationStands'
    BY <1>t, <2>1, <2>5 DEF RotationStands, SfTypeInv
  <2>10. RemovedWasAsked'
    <3>1. ASSUME NEW t \in Boot, boot[t].redeemed PROVE caller[boot[t].secret].pc # "idle"
      BY <3>1, SfAssumption DEF SfInv, RedeemersDiffer, RequestsHoldSecrets, SfTypeInv
    <3>2. QED
      BY <1>t, <2>5, <3>1 DEF SfInv, RemovedWasAsked
  <2>11. RemovedIsOver'
    <3> SUFFICES ASSUME NEW t \in Boot, boot[t].redeemed, boot[t].secret \in gone
                 PROVE  boot[t].persisted /\ \A c \in Caller : caller[c].token = t => ~AtWork(c)
      BY <1>t, <2>3, <2>5 DEF SfInv, RemovedIsOver, AtWork
    <3>1. PICK u \in Boot : boot[u].redeemed /\ boot[u].persisted /\ ~InFlight(u) /\ boot[u].secret = boot[t].secret
      OBVIOUS
    <3>2. u = t
      BY <3>1 DEF SfInv, RedeemersDiffer
    <3>3. QED
      BY <3>1, <3>2 DEF InFlight, AtWork
  <2>12. QED
    BY <2>6, <2>7, <2>8, <2>9, <2>10, <2>11 DEF SfInv
<1>3. QED
  BY <1>1, <1>2

LEMMA IssueKeeps ==
  ASSUME SfTypeInv, SfInv, NEW a \in Admin, IssueToken(a) PROVE SfTypeInv' /\ SfInv'
<1>1. PICK t \in Boot : ~boot[t].issued /\ boot' = [boot EXCEPT ![t] = Issued]
  BY DEF IssueToken
<1>t. boot \in [Boot -> BootState] /\ UNCHANGED <<slot, app, caller, upsets, told>> /\ admin' \in [Admin -> AdminState]
  BY AdminMoves DEF SfTypeInv, IssueToken
<1>i. Issued \in BootState /\ Issued.issued /\ ~Issued.redeemed /\ ~Issued.persisted
  BY DEF Issued, Unissued, BootState
<1>2. /\ boot'[t] = Issued /\ (\A u \in Boot \ {t} : boot'[u] = boot[u]) /\ boot' \in [Boot -> BootState]
  BY <1>t, <1>1, <1>i
<1>3. ~boot[t].redeemed /\ ~boot[t].persisted
  BY <1>1 DEF SfTypeInv
<1>4. \A c \in Caller : caller[c].pc # "idle" => caller[c].token # t
  BY <1>1 DEF SfInv, RequestsHoldSecrets
<1>5. SfTypeInv'
  BY <1>t, <1>2, <1>i DEF SfTypeInv
<1>6. RequestsHoldSecrets'
  BY <1>t, <1>2, <1>i, <1>4 DEF SfInv, RequestsHoldSecrets, AtWork
<1>7. RedeemersDiffer' /\ RemovedWasAsked' /\ RotationStands'
  BY <1>t, <1>2, <1>i DEF SfInv, RedeemersDiffer, RemovedWasAsked, RotationStands
<1>8. RemovedIsOver'
  BY <1>t, <1>2, <1>i DEF SfInv, RemovedIsOver, AtWork
<1>9. StoredStays'
  <2>1. ~WasStored(t)'
    BY <1>t, <1>2, <1>i, <1>4 DEF WasStored, SfInv, RequestsHoldSecrets
  <2>2. \A u \in Boot \ {t} : (WasStored(u)' <=> WasStored(u)) /\ Newer(u) \subseteq Newer(u)'
    BY <1>t, <1>1, <1>2 DEF WasStored, Newer
  <2>3. QED
    BY <1>t, <1>2, <2>1, <2>2 DEF SfInv, StoredStays
<1>10. QED
  BY <1>5, <1>6, <1>7, <1>8, <1>9 DEF SfInv

LEMMA SfStep == SfTypeInv /\ SfInv /\ [SfNext]_sfVars => SfTypeInv' /\ SfInv'
<1> SUFFICES ASSUME SfTypeInv, SfInv, [SfNext]_sfVars PROVE SfTypeInv' /\ SfInv'
  OBVIOUS
<1>1. CASE UNCHANGED sfVars
  BY <1>1 DEF sfVars, SfTypeInv, SfInv, RequestsHoldSecrets, RedeemersDiffer, StoredStays, WasStored, Newer,
     RemovedWasAsked, RemovedIsOver, RotationStands, AtWork
<1>2. QED
  BY <1>1, RedeemKeeps, ReplayKeeps, ResolveKeeps, PersistKeeps, MarkKeeps, CrashKeeps, OutsideKeeps,
     ReadKeeps, ClearKeeps, IssueKeeps DEF SfNext

LEMMA SfInvariant == SfSpec => [](SfTypeInv /\ SfInv)
  BY SfStart, SfStep, PTL DEF SfSpec

----------------------------------------------------------------------------
(* Tokens, slot, requests and faults stay what the code makes them.        *)
THEOREM SfTypeCorrect == SfSpec => []SfTypeOK
<1>1. SfTypeInv => SfTypeOK
  BY DEF SfTypeInv, SfTypeOK, CallerState, CallerPc
<1>2. QED
  BY <1>1, SfInvariant, PTL

(* The answer a request got for the newest token is the secret in the      *)
(* slot, whoever of many stored it and whoever died, unless a rotation     *)
(* cleared it or a request for an older token came late.                   *)
THEOREM AnsweredSecretVerifies == SfSpec => []SecretVerifies
<1>1. SfTypeInv /\ SfInv => SecretVerifies
  BY DEF SfInv, RequestsHoldSecrets, StoredStays, WasStored, SecretVerifies
<1>2. QED
  BY <1>1, SfInvariant, PTL

(* No replay puts a secret back that a rotation removed from the slot, if  *)
(* its token was marked and nobody was at work on it.                      *)
THEOREM RemovedStaysRemoved == SfSpec => []RotationStands
<1>1. SfInv => RotationStands
  BY DEF SfInv
<1>2. QED
  BY <1>1, SfInvariant, PTL
=============================================================================
