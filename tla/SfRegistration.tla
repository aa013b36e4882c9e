--------------------------- MODULE SfRegistration ---------------------------
(***************************************************************************)
(* The registration of a Salesforce organisation with the webhook of one   *)
(* rule: a bootstrap token is redeemed for a stored secret, once and with   *)
(* safe replays (bootstrap-token.service, routes/sf-registration), and an   *)
(* administrator rotates the secret (routes/sf-rotate-secret) or issues     *)
(* another token (routes/sf-bootstrap-tokens).  There is one organisation  *)
(* and one webhook, hence one slot; the rule exists and is enabled.         *)
(***************************************************************************)
EXTENDS Integers, FiniteSets

CONSTANTS
  Caller,       \* registration requests; each brings a secret of its own, its id
  Admin,        \* requests of administrators
  Boot,         \* bootstrap tokens, in the order in which they are issued
  Nil,
  SfFault,      \* which faults the environment may inject
  MaxSfFaults   \* bound on the number of injected faults

ASSUME SfAssumption ==
  /\ IsFiniteSet(Caller) /\ IsFiniteSet(Admin) /\ Boot \subseteq Nat /\ 1 \in Boot
  /\ Nil \notin Caller /\ Nil \notin Boot /\ MaxSfFaults \in Nat

VARIABLES
  boot,     \* the bootstrap-tokens items
  slot,     \* the secret under sfRegistrations[<sfOrgId>#<webhookKey>], or Nil
  app,      \* the platform is installed for the rule
  caller,   \* the registration requests
  admin,    \* the administrators' requests
  upsets,   \* faults injected so far
  told      \* history: secrets a rotation removed for good; a registration
            \* stored its secret after a newer token had been issued

sfVars == <<boot, slot, app, caller, admin, upsets, told>>

Unissued == [issued |-> FALSE, redeemed |-> FALSE, expired |-> FALSE, key |-> "none", secret |-> Nil,
             persisted |-> FALSE, rotated |-> FALSE]
Issued   == [Unissued EXCEPT !.issued = TRUE]
Waiting  == [pc |-> "idle", token |-> Nil, key |-> "none", secret |-> Nil, heals |-> FALSE, answer |-> Nil]

SfInit ==
  /\ boot = [t \in Boot |-> IF t = 1 THEN Issued ELSE Unissued]
  /\ slot = Nil
  /\ app \in BOOLEAN
  /\ caller = [c \in Caller |-> Waiting]
  /\ admin = [a \in Admin |-> [pc |-> "idle", found |-> FALSE]]
  /\ upsets = 0
  /\ told = [removed |-> {}, late |-> FALSE]

Upset(kind) == kind \in SfFault /\ upsets < MaxSfFaults /\ upsets' = upsets + 1
NoUpset     == UNCHANGED upsets

Stage(c, pc) == caller[c].pc = pc
Go(c, pc)    == caller' = [caller EXCEPT ![c].pc = pc]
Refuse(c)    == Go(c, "done")
Answers(c, secret) == caller' = [caller EXCEPT ![c].pc = "done", ![c].answer = secret]
InFlight(t)  == \E c \in Caller : caller[c].token = t /\ caller[c].pc \notin {"idle", "done"}
Newer(t)     == {u \in Boot : u > t /\ boot[u].issued}

----------------------------------------------------------------------------
(* The token's day is over, or the platform gets installed. *)
Expires == /\ \E t \in Boot : boot[t].issued /\ ~boot[t].expired
                              /\ boot' = [boot EXCEPT ![t].expired = TRUE]
           /\ Upset("expiry")
           /\ UNCHANGED <<slot, app, caller, admin, told>>
Installed == /\ ~app /\ app' = TRUE
             /\ UNCHANGED <<boot, slot, caller, admin, upsets, told>>

(* A request arrives with any token its Flow may hold.  redeemBootstrapToken *)
(* flips the token on condition that it is neither redeemed nor expired.     *)
Redeemable(t) == boot[t].issued /\ ~boot[t].redeemed /\ ~boot[t].expired
Redeem(c) ==
  /\ Stage(c, "idle")
  /\ \E t \in Boot, key \in {"same", "other"} :
       /\ boot[t].issued
       /\ boot' = IF Redeemable(t)
                  THEN [boot EXCEPT ![t].redeemed = TRUE, ![t].key = key, ![t].secret = c, ![t].persisted = FALSE]
                  ELSE boot
       /\ caller' = [caller EXCEPT ![c] = [@ EXCEPT !.token = t, !.key = key, !.secret = c,
                                                    !.pc = IF Redeemable(t) THEN "app" ELSE "why"]]
  /\ UNCHANGED <<slot, app, admin, upsets, told>>

(* The flip was refused: the item says why.  The same idempotency key is a  *)
(* replay, healed when the first request did not get to store the secret.   *)
(* (Faulty: the cached answer is trusted; every replay stores again.)       *)
HealsNever(t)  == FALSE
HealsAlways(t) == TRUE

Heals(t) == ~boot[t].persisted

Replay(c) ==
  /\ Stage(c, "why")
  /\ LET t == caller[c].token
     IN IF boot[t].expired \/ boot[t].key # caller[c].key THEN Refuse(c)
        ELSE IF Heals(t)
        THEN caller' = [caller EXCEPT ![c] = [@ EXCEPT !.pc = "app", !.secret = boot[t].secret, !.heals = TRUE]]
        ELSE Answers(c, boot[t].secret)
  /\ UNCHANGED <<boot, slot, app, admin, upsets, told>>

(* resolveOrgAppForRule: without the platform the request ends with a 500.  *)
ResolveApp(c) ==
  /\ Stage(c, "app")
  /\ IF app THEN Go(c, "persist") ELSE Refuse(c)
  /\ UNCHANGED <<boot, slot, app, admin, upsets, told>>

(* persistSfRegistration, without a condition on the slot or on the token.  *)
Persist(c) ==
  /\ Stage(c, "persist")
  /\ \/ /\ slot' = caller[c].secret
        /\ told' = [told EXCEPT !.late = @ \/ Newer(caller[c].token) # {}]
        /\ Go(c, "mark") /\ NoUpset
     \/ Upset("writeFails") /\ Refuse(c) /\ UNCHANGED <<slot, told>>
  /\ UNCHANGED <<boot, app, admin>>

(* markBootstrapTokenPersisted: a failure is an error for a replay and is   *)
(* passed over by the first request.                                        *)
Mark(c) ==
  /\ Stage(c, "mark")
  /\ LET t == caller[c].token
     IN \/ boot' = [boot EXCEPT ![t].persisted = TRUE] /\ Answers(c, caller[c].secret) /\ NoUpset
        \/ Upset("writeFails") /\ UNCHANGED boot
           /\ IF caller[c].heals THEN Refuse(c) ELSE Answers(c, caller[c].secret)
  /\ UNCHANGED <<slot, app, admin, told>>

(* The process dies, or its answer is lost. *)
CallerCrashes(c) ==
  /\ caller[c].pc \notin {"idle", "done"} /\ Upset("crash")
  /\ Refuse(c)
  /\ UNCHANGED <<boot, slot, app, admin, told>>

(* Rotation: read the app, remove the keys found there, issue a token. *)
ReadRegistrations(a) ==
  /\ admin[a].pc = "idle"
  /\ admin' = [admin EXCEPT ![a] = [pc |-> IF app THEN "clear" ELSE "done", found |-> slot # Nil]]
  /\ UNCHANGED <<boot, slot, app, caller, upsets, told>>
Cleared(t) == [boot[t] EXCEPT !.rotated = @ \/ boot[t].issued]
ClearSecrets(a) ==
  /\ admin[a].pc = "clear"
  /\ IF admin[a].found
     THEN /\ slot' = Nil
          /\ boot' = [t \in Boot |-> Cleared(t)]
          /\ told' = [told EXCEPT !.removed = @ \cup {boot[t].secret : t \in
                        {u \in Boot : boot[u].redeemed /\ boot[u].persisted /\ ~InFlight(u)}}]
     ELSE UNCHANGED <<slot, boot, told>>
  /\ admin' = [admin EXCEPT ![a].pc = "issue"]
  /\ UNCHANGED <<app, caller, upsets>>
(* createBootstrapToken; sf-bootstrap-tokens does no more than this. *)
IssueToken(a) ==
  /\ admin[a].pc \in {"idle", "issue"}
  /\ \E t \in Boot : /\ ~boot[t].issued /\ \A u \in Boot : u < t => boot[u].issued
                     /\ boot' = [boot EXCEPT ![t] = Issued]
  /\ admin' = [admin EXCEPT ![a].pc = "done"]
  /\ UNCHANGED <<slot, app, caller, upsets, told>>

SfNext ==
  \/ Expires \/ Installed
  \/ \E c \in Caller : Redeem(c) \/ Replay(c) \/ ResolveApp(c) \/ Persist(c) \/ Mark(c) \/ CallerCrashes(c)
  \/ \E a \in Admin : ReadRegistrations(a) \/ ClearSecrets(a) \/ IssueToken(a)

SfSpec == SfInit /\ [][SfNext]_sfVars

----------------------------------------------------------------------------
SfTypeOK ==
  /\ \A t \in Boot : /\ boot[t].redeemed => boot[t].issued /\ boot[t].secret \in Caller
                     /\ boot[t].persisted => boot[t].redeemed
  /\ slot \in Caller \cup {Nil} /\ app \in BOOLEAN
  /\ \A c \in Caller : caller[c].answer \in Caller \cup {Nil} /\ caller[c].pc \in
                         {"idle", "why", "app", "persist", "mark", "done"}
  /\ upsets \in 0 .. MaxSfFaults

(* Whoever was told that it is registered is registered: the secret of any *)
(* answer for the newest token is the one that will verify its webhooks,   *)
(* whichever of several requests stored it and wherever one of them died,  *)
(* unless a rotation has removed it or a request for an older token stored *)
(* its own secret later.                                                   *)
SecretVerifies ==
  \A c \in Caller :
    LET t == caller[c].token
    IN caller[c].answer # Nil /\ Newer(t) = {} /\ ~boot[t].rotated /\ ~told.late => slot = caller[c].answer

(* A rotation stands: a secret it removed is not stored again by a replay   *)
(* of its token, if the token was marked and no request for it was under   *)
(* way at that moment.                                                     *)
RotationStands == slot \notin told.removed
=============================================================================
