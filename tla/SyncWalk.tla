------------------------------ MODULE SyncWalk ------------------------------
(***************************************************************************)
(* How the instance sync gets to every running instance (lib/scheduler): a *)
(* pass walks a few pages of the table from the cursor the last pass left, *)
(* asks Maestro for one list per workflow, and fetches an instance that is *)
(* not on the list by itself, a few per pass and not again for a while when *)
(* the fetch fails.  What the sync does to one instance, step by step, is   *)
(* in InstanceRequests; here it is one step, nobody else writes, and the    *)
(* question is whether an instance is reached at all.                       *)
(***************************************************************************)
EXTENDS Integers, FiniteSets, FiniteSetsExt

CONSTANTS
  Slot,           \* the places of the instances in the order of a table scan
  WorkflowOf,     \* the workflow of the instance in each place
  Listed,         \* those on the first (only) page of Maestro's list
  Missing,        \* those Maestro does not know any more
  Unlinked,       \* the workflows without a Maestro id or a Docusign connection
  PageSize, MaxPages,   \* items in a page, MAX_SYNC_SCAN_PAGES
  MaxFallbacks,   \* MAX_FALLBACKS_PER_PASS
  BackoffTicks,   \* FALLBACK_RETRY_MS, in ticks of the cron
  MaxSetbacks     \* bound on the number of injected faults

ASSUME WalkAssumption ==
  /\ IsFiniteSet(Slot) /\ Slot \subseteq Nat \ {0}
  /\ Listed \subseteq Slot /\ Missing \subseteq Slot \ Listed
  /\ PageSize \in Nat \ {0} /\ MaxPages \in Nat \ {0}
  /\ {MaxFallbacks, BackoffTicks, MaxSetbacks} \subseteq Nat

VARIABLES
  table,      \* WorkflowInstances: the status of each item, or "absent"
  upstream,   \* the same instances at Maestro
  cursor,     \* syncScanCursor: the last place evaluated, 0 for undefined
  backoff,    \* instanceFallbackBackoff: ticks left (its clearing at 10 000
              \* entries is left out)
  limited,    \* isRateLimited
  walk,       \* the pass under way
  setbacks    \* faults injected so far

walkVars == <<table, upstream, cursor, backoff, limited, walk, setbacks>>

NoPass == [pc |-> "idle", pages |-> 0, running |-> {}, group |-> {}, ended |-> {}, fallbacks |-> 0]

(* Some instances have been launched before the process started.            *)
WalkInit ==
  /\ table \in [Slot -> {"absent", "running"}]
  /\ upstream = [i \in Slot |-> "running"]
  /\ cursor = 0
  /\ backoff = [i \in Slot |-> 0]
  /\ limited = FALSE
  /\ walk = NoPass
  /\ setbacks = 0

Setback   == setbacks < MaxSetbacks /\ setbacks' = setbacks + 1
NoSetback == UNCHANGED setbacks

----------------------------------------------------------------------------
(* A launch puts an instance anywhere in the scan's order; workflows end.   *)
InstanceAppears(i) ==
  /\ table[i] = "absent" /\ table' = [table EXCEPT ![i] = "running"]
  /\ UNCHANGED <<upstream, cursor, backoff, limited, walk, setbacks>>
InstanceEnds(i) ==
  /\ table[i] # "absent" /\ upstream[i] = "running" /\ upstream' = [upstream EXCEPT ![i] = "ended"]
  /\ UNCHANGED <<table, cursor, backoff, limited, walk, setbacks>>

(* The cron's tick: time passes for the back-offs, a pass starts unless one *)
(* is under way (instanceSyncInFlight) or Maestro's limit was hit.          *)
StartPass ==
  /\ walk.pc = "idle" /\ ~limited
  /\ walk' = [NoPass EXCEPT !.pc = "scan"]
  /\ backoff' = [i \in Slot |-> IF backoff[i] = 0 THEN 0 ELSE backoff[i] - 1]
  /\ UNCHANGED <<table, upstream, cursor, limited, setbacks>>
LimitPasses ==
  /\ limited /\ limited' = FALSE
  /\ UNCHANGED <<table, upstream, cursor, backoff, walk, setbacks>>

(* One page of the scan: PageSize items after the cursor, whatever their    *)
(* status; the filter is applied to what was read.                          *)
Rest == {i \in Slot : table[i] # "absent" /\ i > cursor}
Page == {i \in Rest : Cardinality({k \in Rest : k <= i}) <= PageSize}
(* Faulty variant: the scan restarts from the table's start on every pass.  *)
RestartCursor == IF Page = Rest \/ walk.pages + 1 = MaxPages THEN 0 ELSE Max(Page)
LastEvaluatedKey == IF Page = Rest THEN 0 ELSE Max(Page)
ScanPage ==
  /\ walk.pc = "scan"
  /\ cursor' = LastEvaluatedKey
  /\ LET running == walk.running \cup {i \in Page : table[i] = "running"}
         more    == LastEvaluatedKey # 0 /\ walk.pages + 1 < MaxPages
     IN walk' = [walk EXCEPT !.pages = @ + 1, !.running = running,
                             !.pc = IF more THEN "scan" ELSE IF running = {} THEN "idle" ELSE "workflow"]
  /\ UNCHANGED <<table, upstream, backoff, limited, setbacks>>
ScanFails ==
  /\ walk.pc = "scan" /\ Setback
  /\ walk' = NoPass
  /\ UNCHANGED <<table, upstream, cursor, backoff, limited>>

(* The next workflow, in the order its instances were found: its connection *)
(* and Maestro's list.  A workflow not linked to Maestro is passed over on  *)
(* every pass, another one after an error; the limit ends the pass, and the *)
(* cursor stays where it got to.                                            *)
Group == {i \in walk.running : WorkflowOf[i] = WorkflowOf[Min(walk.running)]}
Ungrouped(g, pc) == [walk EXCEPT !.running = @ \ g, !.pc = pc]
AfterGroup(rest) == IF rest = {} THEN "idle" ELSE "workflow"
HitLimit == Setback /\ limited' = TRUE /\ walk' = NoPass
Linked == WorkflowOf[Min(walk.running)] \notin Unlinked
ListInstances ==
  /\ walk.pc = "workflow"
  /\ \/ /\ Linked
        /\ walk' = [Ungrouped(Group, "instance") EXCEPT
                      !.group = Group, !.ended = {i \in Group \cap Listed : upstream[i] = "ended"}]
        /\ NoSetback /\ UNCHANGED limited
     \/ /\ walk' = Ungrouped(Group, AfterGroup(walk.running \ Group))
        /\ IF Linked THEN Setback ELSE NoSetback
        /\ UNCHANGED limited
     \/ Linked /\ HitLimit
  /\ UNCHANGED <<table, upstream, cursor, backoff>>

(* One instance of the group: from the list, or by a fetch of its own.      *)
Current  == Min(walk.group)
Done     == [walk EXCEPT !.group = @ \ {Current},
                         !.pc = IF @ = "instance" /\ walk.group # {Current} THEN @ ELSE AfterGroup(walk.running)]
Fetched  == [Done EXCEPT !.fallbacks = @ + 1]
Put(over) == table' = IF over THEN [table EXCEPT ![Current] = "ended"] ELSE table
SyncListed ==
  /\ walk.pc = "instance" /\ Current \in Listed
  /\ walk' = Done
  /\ \/ Put(Current \in walk.ended) /\ NoSetback
     \/ Current \in walk.ended /\ Setback /\ UNCHANGED table
  /\ UNCHANGED <<upstream, cursor, backoff, limited>>
MayFetch == backoff[Current] = 0 /\ walk.fallbacks < MaxFallbacks
FallbackDenied ==
  /\ walk.pc = "instance" /\ Current \notin Listed /\ ~MayFetch
  /\ walk' = Done
  /\ UNCHANGED <<table, upstream, cursor, backoff, limited, setbacks>>
WithBackoff == [backoff EXCEPT ![Current] = BackoffTicks]
FetchInstance ==
  /\ walk.pc = "instance" /\ Current \notin Listed /\ MayFetch
  /\ \/ /\ Current \notin Missing /\ walk' = Fetched
        /\ backoff' = [backoff EXCEPT ![Current] = 0]
        /\ Put(upstream[Current] = "ended") /\ NoSetback /\ UNCHANGED limited
     \/ /\ IF Current \in Missing THEN NoSetback ELSE Setback
        /\ walk' = Fetched /\ backoff' = WithBackoff /\ UNCHANGED <<table, limited>>
     \/ HitLimit /\ UNCHANGED <<table, backoff>>
  /\ UNCHANGED <<upstream, cursor>>

(* The process restarts: cursor, back-offs and guard live in its memory.    *)
Restart ==
  /\ Setback
  /\ cursor' = 0 /\ backoff' = [i \in Slot |-> 0] /\ limited' = FALSE /\ walk' = NoPass
  /\ UNCHANGED <<table, upstream>>

Pass == StartPass \/ ScanPage \/ ListInstances \/ SyncListed \/ FallbackDenied \/ FetchInstance
WalkNext ==
  \/ Pass \/ LimitPasses \/ ScanFails \/ Restart
  \/ \E i \in Slot : InstanceAppears(i) \/ InstanceEnds(i)

(* The cron ticks, a limit passes, and every workflow ends some day.  New   *)
(* instances, errors and restarts may come or not.                          *)
WalkFairness ==
  /\ WF_walkVars(Pass) /\ WF_walkVars(LimitPasses)
  /\ \A i \in Slot : WF_walkVars(InstanceEnds(i))

----------------------------------------------------------------------------
WalkTypeOK ==
  /\ table \in [Slot -> {"absent", "running", "ended"}]
  /\ upstream \in [Slot -> {"running", "ended"}]
  /\ cursor \in Slot \cup {0}
  /\ backoff \in [Slot -> 0 .. BackoffTicks]
  /\ limited \in BOOLEAN
  /\ walk \in [pc : {"idle", "scan", "workflow", "instance"}, pages : 0 .. MaxPages, running : SUBSET Slot,
               group : SUBSET Slot, ended : SUBSET Slot, fallbacks : 0 .. MaxFallbacks]
  /\ walk.pc = "workflow" => walk.running # {}
  /\ walk.pc = "instance" => walk.group # {}
  /\ setbacks \in 0 .. MaxSetbacks

(* "Bounded per tick, full coverage across ticks": the sync catches up with *)
(* Maestro, wherever in the table an ended instance is, on the list or off   *)
(* it, and however many others are in its way, those that cannot be asked   *)
(* for among them (Missing, Unlinked).  It takes a back-off that outlasts a *)
(* lap of the table: with a shorter one, MaxFallbacks missing instances     *)
(* take every fetch of their window, and one behind them none.              *)
Askable == {i \in Slot \ Missing : WorkflowOf[i] \notin Unlinked}
Behind == \E i \in Askable : table[i] = "running" /\ upstream[i] = "ended"
SyncCatchesUp == Behind ~> ~Behind
=============================================================================
