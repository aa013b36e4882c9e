---------------------------- MODULE TokenRefresh ----------------------------
(***************************************************************************)
(* The OAuth tokens of one platform connection and everybody who writes    *)
(* them: the scheduler's jobs and the token-refresh worker, the Maestro    *)
(* client that refreshes on demand, and the routes that refresh, test and  *)
(* delete the connection.  The platform gives a new refresh token with     *)
(* each exchange and may refuse a token that is not the newest.  As        *)
(* everywhere, one action ends with one read or write of shared state.     *)
(***************************************************************************)
EXTENDS Integers, FiniteSets

CONSTANTS
  Actor, Asks,   \* who runs, and what each may run: Asks[a]
  Job,           \* messages of the token-refresh queue
  Token,         \* refresh tokens, in the order in which the platform gives them
  None,
  MaxReceive,    \* maxReceiveCount of the queue's redrive policy
  TokenFault,    \* which faults the environment may inject
  MaxTokenFaults \* bound on the number of injected faults

AskKind == {"job", "call", "manual", "test", "delete"}
ASSUME TokenAssumption ==
  /\ IsFiniteSet(Actor) /\ Asks \in [Actor -> SUBSET AskKind]
  /\ Token \subseteq Nat /\ 1 \in Token /\ IsFiniteSet(Job)
  /\ None \notin Token /\ None \notin Job /\ None \notin Nat
  /\ MaxReceive \in Nat \ {0} /\ MaxTokenFaults \in Nat

VARIABLES
  conn,     \* the platform-connections item
  newest,   \* the newest refresh token the platform has given
  job,      \* the token-refresh queue
  act,      \* the actors
  mishaps,  \* faults injected so far
  past      \* history: deleted; an actor wrote over what another had changed
            \* since it read; an exchanged token was never stored; a working
            \* token failed its test

tokenVars == <<conn, newest, job, act, mishaps, past>>

(* left: time to expiry.  3 is more than 15 minutes, 2 more than 10, 1 more *)
(* than 5, 0 the rest.  A record an update creates lacks what it does not   *)
(* set: organisation and platform ("whole" is FALSE), and possibly tokens.  *)
Absent == [there |-> FALSE, whole |-> FALSE, status |-> "none", refresh |-> None, left |-> None]
IdleActor == [pc |-> "idle", kind |-> "none", job |-> None, token |-> None, seen |-> "none",
              raced |-> FALSE, final |-> FALSE]

TokenInit ==
  /\ conn = [there |-> TRUE, whole |-> TRUE, status |-> "healthy", refresh |-> 1, left |-> 3]
  /\ newest = 1
  /\ job = [j \in Job |-> [state |-> "none", received |-> 0, known |-> TRUE]]
  /\ act = [a \in Actor |-> IdleActor]
  /\ mishaps = 0
  /\ past = [deleted |-> FALSE, raced |-> FALSE, unsaved |-> FALSE, unwell |-> FALSE]

Mishap(kind) == kind \in TokenFault /\ mishaps < MaxTokenFaults /\ mishaps' = mishaps + 1
NoMishap     == UNCHANGED mishaps

At(a, pc)      == act[a].pc = pc
Working(b)     == act[b].pc \notin {"idle", "done"}
(* A worker takes its next message; a request is over. *)
Over(a)        == IF act[a].kind = "job" THEN IdleActor ELSE [act[a] EXCEPT !.pc = "done"]

(* Actor a replaces the item and goes on as "self": whoever else is at work *)
(* has read a record that is gone.                                          *)
WriteConn(a, record, self) ==
  /\ conn' = record
  /\ act' = [b \in Actor |-> IF b = a THEN self
                             ELSE IF Working(b) THEN [act[b] EXCEPT !.raced = TRUE] ELSE act[b]]
  /\ past' = [past EXCEPT !.raced = @ \/ act[a].raced,
                          !.deleted = @ \/ ~record.there]

----------------------------------------------------------------------------
(* Time passes. *)
Ages ==
  /\ conn.left \in 1 .. 3
  /\ conn' = [conn EXCEPT !.left = @ - 1]
  /\ UNCHANGED <<newest, job, act, mishaps, past>>

(* queueExpiringTokenRefreshes: one job, with the platform of the record. *)
Queue ==
  /\ conn.there /\ conn.left \in 0 .. 2
  /\ \E j \in Job : /\ job[j].state = "none"
                    /\ job' = [job EXCEPT ![j] = [state |-> "visible", received |-> 0, known |-> conn.whole]]
  /\ UNCHANGED <<conn, newest, act, mishaps, past>>

(* A request arrives, or a worker receives a job. *)
Begin(a) ==
  /\ At(a, "idle")
  /\ \/ /\ \E k \in Asks[a] \ {"job"} : act' = [act EXCEPT ![a] = [IdleActor EXCEPT !.pc = "read", !.kind = k]]
        /\ UNCHANGED job
     \/ /\ "job" \in Asks[a]
        /\ \E j \in Job :
             /\ job[j].state = "visible"
             /\ job' = [job EXCEPT ![j].state = "hidden", ![j].received = @ + 1]
             /\ act' = [act EXCEPT ![a] = [IdleActor EXCEPT !.pc = IF job[j].known THEN "read" ELSE "ack",
                                                            !.kind = "job", !.job = j]]
  /\ UNCHANGED <<conn, newest, mishaps, past>>

(* What each does with the record it reads first. *)
(* (Faulty: the worker goes on without a record.)                           *)
JobReadsOn == IF conn.there /\ conn.left \in 2 .. 3 THEN "ack" ELSE "fetch"

JobReads ==
  CASE ~conn.there -> "ack"
    [] conn.there /\ conn.left \in 2 .. 3 -> "ack"
    [] conn.there /\ conn.left \notin 2 .. 3 /\ conn.refresh = None -> "warn"
    [] OTHER -> "fetch"

AfterRead(kind) ==
  CASE kind = "job"    -> JobReads
    [] kind = "call"   -> IF conn.whole /\ conn.left = 0 /\ conn.refresh # None THEN "fetch" ELSE "done"
    [] kind = "manual" -> IF conn.whole THEN "fetch" ELSE "done"
    [] kind = "test"   -> IF conn.whole THEN "probe" ELSE "done"
    [] kind = "delete" -> IF conn.whole THEN "remove" ELSE "done"

ReadConn(a) ==
  /\ At(a, "read")
  /\ LET next == AfterRead(act[a].kind)
     IN act' = [act EXCEPT ![a] = IF next = "done" THEN Over(a)
                                  ELSE [act[a] EXCEPT !.pc = next, !.seen = conn.status,
                                                      !.raced = FALSE, !.final = next = "warn"]]
  /\ UNCHANGED <<conn, newest, job, mishaps, past>>

(* A failure: the worker's catch block, or an error for the caller. *)
Fails(a, permanent) ==
  act' = [act EXCEPT ![a] = IF @.kind = "job" THEN [@ EXCEPT !.pc = "warn", !.final = permanent] ELSE Over(a)]

(* getRefreshToken reads the record a second time. *)
FetchToken(a) ==
  /\ At(a, "fetch")
  /\ IF conn.refresh = None THEN Fails(a, TRUE)
     ELSE act' = [act EXCEPT ![a].pc = "exchange", ![a].token = conn.refresh]
  /\ UNCHANGED <<conn, newest, job, mishaps, past>>

(* refreshToken at the platform: a new token, a refusal of a token that is  *)
(* no longer the newest, or no answer, with or without an exchange.         *)
Exchange(a) ==
  /\ At(a, "exchange") /\ newest + 1 \in Token
  /\ newest' = newest + 1
  /\ act' = [act EXCEPT ![a].pc = "store", ![a].token = newest + 1]
  /\ UNCHANGED <<conn, job, mishaps, past>>
Refused(a) ==
  /\ At(a, "exchange")
  /\ \/ act[a].token # newest /\ NoMishap
     \/ Mishap("platformDown")
  /\ Fails(a, FALSE)
  /\ UNCHANGED <<conn, newest, job, past>>
AnswerLost(a) ==
  /\ At(a, "exchange") /\ newest + 1 \in Token
  /\ Mishap("answerLost")
  /\ newest' = newest + 1
  /\ Fails(a, FALSE)
  /\ past' = [past EXCEPT !.unsaved = TRUE]
  /\ UNCHANGED <<conn, job>>

(* updateTokens, without a condition: it creates a record that is gone. *)
(* The faulty ones keep the old refresh token; leave the status.            *)
RefreshedAccessOnly(token) == [conn EXCEPT !.there = TRUE, !.status = "healthy", !.left = 3]
RefreshedQuietly(token)    == [conn EXCEPT !.there = TRUE, !.refresh = token, !.left = 3]

Refreshed(token) == [conn EXCEPT !.there = TRUE, !.status = "healthy", !.refresh = token, !.left = 3]

UpdateTokens(a) ==
  /\ At(a, "store")
  /\ WriteConn(a, Refreshed(act[a].token), IF act[a].kind = "job" THEN [act[a] EXCEPT !.pc = "ack"] ELSE Over(a))
  /\ UNCHANGED <<newest, job, mishaps>>
StoreFails(a) ==
  /\ At(a, "store") /\ Mishap("writeFails")
  /\ Fails(a, FALSE)
  /\ past' = [past EXCEPT !.unsaved = TRUE]
  /\ UNCHANGED <<conn, newest, job>>

(* updateConnectionStatus, again without a condition. *)
WithStatus(status) == [conn EXCEPT !.there = TRUE, !.status = status]
Warn(a) ==
  /\ At(a, "warn")
  /\ WriteConn(a, WithStatus("warning"), [act[a] EXCEPT !.pc = IF act[a].final THEN "ack" ELSE "throw"])
  /\ UNCHANGED <<newest, job, mishaps>>

(* POST /:id/test: the verdict is written if the status read differs. *)
Probe(a) ==
  /\ At(a, "probe")
  /\ \E healthy \in BOOLEAN :
       /\ past' = [past EXCEPT !.unwell = @ \/ (~healthy /\ conn.left # 0)]
       /\ act' = [act EXCEPT ![a] = LET found == IF healthy THEN "healthy" ELSE "warning"
                                    IN IF @.seen = found THEN Over(a)
                                       ELSE [@ EXCEPT !.pc = "verdict", !.seen = found]]
  /\ UNCHANGED <<conn, newest, job, mishaps>>
Verdict(a) ==
  /\ At(a, "verdict")
  /\ WriteConn(a, WithStatus(act[a].seen), Over(a))
  /\ UNCHANGED <<newest, job, mishaps>>

(* DELETE /:id, and the callback that replaces a connection. *)
Remove(a) ==
  /\ At(a, "remove")
  /\ WriteConn(a, Absent, Over(a))
  /\ UNCHANGED <<newest, job, mishaps>>

(* The worker deletes a message it has finished with; one that threw comes  *)
(* back until the redrive policy takes it.                                  *)
Ack(a) ==
  /\ At(a, "ack")
  /\ job' = [job EXCEPT ![act[a].job].state = "done"]
  /\ act' = [act EXCEPT ![a] = IdleActor]
  /\ UNCHANGED <<conn, newest, mishaps, past>>
(* (Faulty: the redrive policy is not applied.)                             *)
BackForEver(j) == [job EXCEPT ![j].state = "visible"]
BackInQueue(j) == [job EXCEPT ![j].state = IF job[j].received < MaxReceive THEN "visible" ELSE "dead"]
Throw(a) ==
  /\ At(a, "throw")
  /\ job' = BackInQueue(act[a].job)
  /\ act' = [act EXCEPT ![a] = IdleActor]
  /\ UNCHANGED <<conn, newest, mishaps, past>>

(* The process dies.  What it had exchanged is lost. *)
ActorCrashes(a) ==
  /\ Working(a) /\ Mishap("crash")
  /\ act' = [act EXCEPT ![a] = Over(a)]
  /\ job' = IF act[a].kind = "job" THEN BackInQueue(act[a].job) ELSE job
  /\ past' = [past EXCEPT !.unsaved = @ \/ At(a, "store")]
  /\ UNCHANGED <<conn, newest>>

Handles(a) ==
  \/ Begin(a) \/ ReadConn(a) \/ FetchToken(a)
  \/ Exchange(a) \/ Refused(a) \/ AnswerLost(a)
  \/ UpdateTokens(a) \/ StoreFails(a) \/ Warn(a)
  \/ Probe(a) \/ Verdict(a) \/ Remove(a)
  \/ Ack(a) \/ Throw(a) \/ ActorCrashes(a)
TokenNext == Ages \/ Queue \/ \E a \in Actor : Handles(a)

TokenSpec == TokenInit /\ [][TokenNext]_tokenVars

----------------------------------------------------------------------------
TokenTypeOK ==
  /\ conn \in [there : BOOLEAN, whole : BOOLEAN, status : {"none", "healthy", "warning"},
               refresh : Token \cup {None}, left : 0 .. 3 \cup {None}]
  /\ conn.there => conn.status # "none"
  /\ newest \in Token
  /\ job \in [Job -> [state : {"none", "visible", "hidden", "done", "dead"}, received : 0 .. MaxReceive,
                      known : BOOLEAN]]
  /\ \A a \in Actor : /\ act[a].job # None => job[act[a].job].state = "hidden"
                      /\ act[a].pc \in {"exchange", "store"} => act[a].token \in Token
  /\ mishaps \in 0 .. MaxTokenFaults

(* The connection never loses its refresh token: the newest token is the   *)
(* one stored, or somebody is about to store it, unless its answer was lost *)
(* or somebody wrote over a record that had changed since it was read.     *)
RefreshTokenKept ==
  conn.whole /\ ~past.unsaved /\ ~past.raced =>
    conn.refresh = newest \/ \E a \in Actor : At(a, "store") /\ act[a].token = newest

(* A connection with tokens just refreshed shows a warning only if a test  *)
(* of a working token failed, or the warning (or the tokens) were written  *)
(* over a record that had changed since it was read.                       *)
NoFalseWarning ==
  conn.left = 3 /\ conn.status = "warning" => past.raced \/ past.unwell

(* A deleted connection comes back only by an actor that had read it       *)
(* before it was deleted: no job, call or request that starts afterwards    *)
(* writes a record for it.                                                 *)
DeletedStaysDeleted == past.deleted /\ conn.there => past.raced
=============================================================================
