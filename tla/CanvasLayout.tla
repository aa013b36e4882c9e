---------------------------- MODULE CanvasLayout ----------------------------
(***************************************************************************)
(* The cell of one node of the flow canvas: the pages that show and move it *)
(* (FlowBuilderPage.tsx) and the organisation's flowPositions map they save *)
(* it in (flow-layout.service.ts).  Writes are per key, so the other nodes  *)
(* of the canvas would not tell more.  A visit is one mount of the page in  *)
(* the tab; the store of the tab (flowStore.ts) outlives it, and so do the  *)
(* timer and the request its closures hold.  Of the other devices only what *)
(* they write matters.                                                      *)
(***************************************************************************)
EXTENDS Naturals, FiniteSets

CONSTANTS
  Cell,             \* grid cells
  Nowhere,          \* no cell
  Visits,           \* bound: visits of the page, one after the other
  Early,            \* bound: the saves of flushNow
  MaxDrops,         \* bound: moves by the user
  MaxElsewhere,     \* bound: moves saved by other devices
  MaxBadRequests,   \* bound: failed requests
  CanvasStart       \* what the map may hold for the node at first

ASSUME CanvasAssumption ==
  /\ IsFiniteSet(Cell) /\ IsFiniteSet(Early) /\ Nowhere \notin Cell
  /\ Visits \in Nat /\ MaxDrops \in Nat /\ MaxElsewhere \in Nat /\ MaxBadRequests \in Nat
  /\ CanvasStart \subseteq {"empty", "legacy", "cell"}

VARIABLES
  stored,      \* flowPositions[node]: its cell, and whether in pixels (legacy)
  shown,       \* savedCells[node] of the tab's store
  data,        \* what the tab knows of the GET: nothing, an error, an answer
  visit,       \* the page's refs, and its GET and PATCH under way
  early,       \* the saves of flushNow
  drop,        \* the user's moves so far, and the cell of the last one
  others,      \* moves of other devices so far
  badRequests  \* failed requests so far

canvasVars == <<stored, shown, data, visit, early, drop, others, badRequests>>

Visit  == 1..Visits
CellOr == Cell \cup {Nowhere}

(* dirtyCellsRef, pinCellsRef, flushTimerRef, recentlySavedRef and         *)
(* migratedLegacyRef; the PATCH in flight with what it carries; the GET     *)
(* with what it read.  Two histories: unsaved, no request has yet brought    *)
(* the server the cell of the visit's last move; old, the answer was read   *)
(* before one had.                                                          *)
NewVisit ==
  [st |-> "unopened", dirty |-> Nowhere, pin |-> Nowhere, timer |-> FALSE,
   guard |-> FALSE, migrated |-> FALSE, flush |-> "none", move |-> Nowhere,
   placed |-> Nowhere, get |-> "idle", got |-> Nowhere, legacy |-> FALSE,
   unsaved |-> FALSE, old |-> FALSE]
NewSave == [st |-> "free", of |-> Nowhere, move |-> Nowhere, placed |-> Nowhere]

CanvasInit ==
  /\ \E kind \in CanvasStart, c \in Cell :
       stored = [cell |-> IF kind = "empty" THEN Nowhere ELSE c, legacy |-> kind = "legacy"]
  /\ shown = Nowhere
  /\ data = "none"
  /\ visit = [v \in Visit |-> NewVisit]
  /\ early = [k \in Early |-> NewSave]
  /\ drop = [count |-> 0, last |-> Nowhere]
  /\ others = 0
  /\ badRequests = 0

IsOpen(v)  == visit[v].st = "open"
Pending(v) == visit[v].dirty # Nowhere \/ visit[v].pin # Nowhere

(* The page is mounted; its refs are new, the tab's store is not.           *)
Mount(v) ==
  /\ visit[v].st = "unopened"
  /\ \A u \in 1..(v - 1) : visit[u].st = "gone"
  /\ visit' = [visit EXCEPT ![v].st = "open"]
  /\ UNCHANGED <<stored, shown, data, early, drop, others, badRequests>>

(* setFlowPositions: a move overwrites the key, a pin only creates it, and  *)
(* is left out when the same request moves the node.                        *)
Written(move, placed) ==
  IF move # Nowhere THEN [cell |-> move, legacy |-> FALSE]
  ELSE IF placed # Nowhere /\ stored.cell = Nowhere THEN [cell |-> placed, legacy |-> FALSE]
  ELSE stored

(* Whether the last move of visit v is still unsaved once `move` is.        *)
StillUnsaved(v, move) ==
  visit[v].unsaved /\ move # visit[v].dirty

(* onNodeDragStop, commitKeyboardMoves: the store, then queueSave.  A drag  *)
(* that ends in the cell it began in moves nothing.                         *)
Drop(v, c) ==
  /\ IsOpen(v) /\ data # "none" /\ drop.count < MaxDrops
  /\ c # shown
  /\ shown' = c
  /\ visit' = [visit EXCEPT ![v].dirty = c, ![v].timer = TRUE,
                            ![v].unsaved = ~(visit[v].flush = "saved" /\ visit[v].move = c),
                            ![v].old = visit[v].get = "answered"]
  /\ drop' = [count |-> drop.count + 1, last |-> c]
  /\ UNCHANGED <<stored, data, early, others, badRequests>>

(* The effect that pins a default placement, once the layout is known.      *)
PinDefault(v, c) ==
  /\ IsOpen(v) /\ data = "answer" /\ shown = Nowhere
  /\ shown' = c
  /\ visit' = [visit EXCEPT ![v].pin = c, ![v].timer = TRUE]
  /\ UNCHANGED <<stored, data, early, drop, others, badRequests>>

(* The timer of scheduleFlush fires, on a mounted page or not: what is      *)
(* queued is sent.  (With a PATCH in flight it only sets itself again.)     *)
TimerFires(v) ==
  /\ visit[v].timer /\ visit[v].flush = "none"
  /\ visit' = [visit EXCEPT ![v].timer = FALSE,
                            ![v].flush = IF Pending(v) THEN "sent" ELSE "none",
                            ![v].move = visit[v].dirty, ![v].placed = visit[v].pin]
  /\ UNCHANGED <<stored, shown, data, early, drop, others, badRequests>>

(* The server handles the PATCH.                                            *)
Save(v) ==
  /\ visit[v].flush = "sent"
  /\ stored' = Written(visit[v].move, visit[v].placed)
  /\ visit' = [visit EXCEPT ![v].flush = "saved", ![v].unsaved = StillUnsaved(v, visit[v].move)]
  /\ UNCHANGED <<shown, data, early, drop, others, badRequests>>

(* flushNow's then(send, send): what waited for the PATCH in flight goes.   *)
SendChained(v) ==
  early' = [k \in Early |-> IF early[k].st = "chained" /\ early[k].of = v
                              THEN [early[k] EXCEPT !.st = "sent"] ELSE early[k]]

(* saveFlowLayout succeeds: what was sent, and is still what is queued, is  *)
(* done; what came meanwhile is flushed again.                              *)
Saved(v) ==
  LET dirty == IF visit[v].dirty = visit[v].move THEN Nowhere ELSE visit[v].dirty
      pin   == IF visit[v].pin = visit[v].placed THEN Nowhere ELSE visit[v].pin
  IN /\ visit[v].flush = "saved"
     /\ visit' = [visit EXCEPT ![v].flush = "none", ![v].move = Nowhere, ![v].placed = Nowhere,
                               ![v].guard = @ \/ (IsOpen(v) /\ visit[v].move # Nowhere),
                               ![v].dirty = dirty, ![v].pin = pin,
                               ![v].timer = @ \/ dirty # Nowhere \/ pin # Nowhere]
     /\ SendChained(v)
     /\ UNCHANGED <<stored, shown, data, drop, others, badRequests>>

(* saveFlowLayout fails, before or after the server wrote: try again later. *)
SaveFails(v) ==
  /\ visit[v].flush # "none" /\ badRequests < MaxBadRequests
  /\ visit' = [visit EXCEPT ![v].flush = "none", ![v].move = Nowhere, ![v].placed = Nowhere,
                            ![v].timer = TRUE]
  /\ SendChained(v)
  /\ badRequests' = badRequests + 1
  /\ UNCHANGED <<stored, shown, data, drop, others>>

(* flushNow: what is queued is sent at once, or after the PATCH in flight;  *)
(* it stays queued, and the page does not wait for the answer.              *)
FlushNow(v) ==
  IF ~Pending(v) THEN UNCHANGED early
  ELSE \E k \in Early :
         /\ early[k].st = "free"
         /\ early' = [early EXCEPT ![k] =
              [st |-> IF visit[v].flush = "none" THEN "sent" ELSE "chained", of |-> v,
               move |-> visit[v].dirty, placed |-> visit[v].pin]]

(* The tab is hidden.                                                       *)
Hide(v) ==
  /\ IsOpen(v) /\ Pending(v) /\ FlushNow(v)
  /\ UNCHANGED <<stored, shown, data, visit, drop, others, badRequests>>

(* The page is unmounted.  A PATCH in flight goes on, and what follows its  *)
(* answer, a new timer included, does too; the refs that only onSuccess     *)
(* reads are read no more.                                                  *)
Unmount(v) ==
  /\ IsOpen(v) /\ FlushNow(v)
  /\ visit' = [visit EXCEPT ![v].st = "gone", ![v].timer = FALSE, ![v].get = "idle",
                            ![v].got = Nowhere, ![v].legacy = FALSE,
                            ![v].guard = FALSE, ![v].migrated = FALSE, ![v].old = FALSE]
  /\ UNCHANGED <<stored, shown, data, drop, others, badRequests>>

(* The server handles a save of flushNow, or it is lost ("best-effort").    *)
EarlySave(k) ==
  /\ early[k].st = "sent"
  /\ early' = [early EXCEPT ![k] = [NewSave EXCEPT !.st = "done"]]
  /\ stored' = Written(early[k].move, early[k].placed)
  /\ visit' = [visit EXCEPT ![early[k].of].unsaved = StillUnsaved(early[k].of, early[k].move)]
  /\ UNCHANGED <<shown, data, drop, others, badRequests>>

EarlyLost(k) ==
  /\ early[k].st = "sent" /\ badRequests < MaxBadRequests
  /\ early' = [early EXCEPT ![k] = [NewSave EXCEPT !.st = "done"]]
  /\ badRequests' = badRequests + 1
  /\ UNCHANGED <<stored, shown, data, visit, drop, others>>

(* The server reads for the GET of the 10 s poll (its answer has yet to     *)
(* arrive).                                                                 *)
Answer(v) ==
  /\ IsOpen(v) /\ visit[v].get = "idle"
  /\ visit' = [visit EXCEPT ![v].get = "answered", ![v].got = stored.cell,
                            ![v].legacy = stored.legacy, ![v].old = visit[v].unsaved]
  /\ UNCHANGED <<stored, shown, data, early, drop, others, badRequests>>

(* onSuccess: the answer is shown unless the node has a move that is not    *)
(* acknowledged or was a moment ago; a legacy entry is saved again, once.   *)
AdoptedUnlessDirty(v) == visit[v].got # Nowhere /\ visit[v].dirty = Nowhere   \* faulty: no guard
Adopted(v) == visit[v].got # Nowhere /\ visit[v].dirty = Nowhere /\ ~visit[v].guard

OnSuccess(v) ==
  LET migrate == Adopted(v) /\ visit[v].legacy /\ ~visit[v].migrated
  IN /\ visit[v].get = "answered"
     /\ data' = "answer"
     /\ shown' = IF Adopted(v) THEN visit[v].got ELSE shown
     /\ visit' = [visit EXCEPT ![v].get = "idle", ![v].got = Nowhere, ![v].legacy = FALSE,
                               ![v].old = FALSE,
                               ![v].migrated = @ \/ migrate,
                               ![v].dirty = IF migrate THEN visit[v].got ELSE @,
                               ![v].timer = @ \/ migrate]
     /\ UNCHANGED <<stored, early, drop, others, badRequests>>

(* The first GET fails: the page shows the default cells, and pins none.    *)
PollFails(v) ==
  /\ IsOpen(v) /\ data = "none" /\ badRequests < MaxBadRequests
  /\ data' = "error"
  /\ badRequests' = badRequests + 1
  /\ UNCHANGED <<stored, shown, visit, early, drop, others>>

(* RECENT_SAVE_GUARD_MS have passed since the acknowledgement.  They are     *)
(* meant to outlast a GET that was answered before the save.                *)
GuardExpires(v) ==
  /\ visit[v].guard /\ ~visit[v].old
  /\ visit' = [visit EXCEPT ![v].guard = FALSE]
  /\ UNCHANGED <<stored, shown, data, early, drop, others, badRequests>>

(* The PATCH of another device is handled. *)
Elsewhere(c) ==
  /\ others < MaxElsewhere
  /\ stored' = [cell |-> c, legacy |-> FALSE]
  /\ others' = others + 1
  /\ UNCHANGED <<shown, data, visit, early, drop, badRequests>>

CanvasNext ==
  \/ \E v \in Visit :
       \/ Mount(v) \/ (\E c \in Cell : Drop(v, c) \/ PinDefault(v, c))
       \/ TimerFires(v) \/ Save(v) \/ Saved(v) \/ SaveFails(v)
       \/ Hide(v) \/ Unmount(v)
       \/ Answer(v) \/ OnSuccess(v) \/ PollFails(v) \/ GuardExpires(v)
  \/ \E k \in Early : EarlySave(k) \/ EarlyLost(k)
  \/ \E c \in Cell : Elsewhere(c)

CanvasSpec == CanvasInit /\ [][CanvasNext]_canvasVars

-----------------------------------------------------------------------------
(* Type invariant of the canvas. *)
CanvasTypeOK ==
  /\ stored \in [cell : CellOr, legacy : BOOLEAN]
  /\ shown \in CellOr /\ data \in {"none", "error", "answer"}
  /\ visit \in [Visit -> [st : {"unopened", "open", "gone"}, dirty : CellOr, pin : CellOr,
       timer : BOOLEAN, guard : BOOLEAN, migrated : BOOLEAN, flush : {"none", "sent", "saved"},
       move : CellOr, placed : CellOr, get : {"idle", "answered"}, got : CellOr,
       legacy : BOOLEAN, unsaved : BOOLEAN, old : BOOLEAN]]
  /\ early \in [Early -> [st : {"free", "chained", "sent", "done"}, of : Visit \cup {Nowhere},
       move : CellOr, placed : CellOr]]
  /\ drop.count \in 0..MaxDrops /\ drop.last \in CellOr
  /\ others \in 0..MaxElsewhere /\ badRequests \in 0..MaxBadRequests

(* "Locally-dirty or just-saved nodes win over anything the server reports" *)
(* (FlowBuilderPage.tsx): an answer the server read before it was sent the  *)
(* visit's last move never moves the node on that page, whatever fails, is   *)
(* saved again, or is moved on another device meanwhile.                            *)
NoSnapBack ==
  [][\A v \in Visit :
       visit[v].get = "answered" /\ visit[v].old /\ visit'[v].get = "idle"
         => shown' = shown]_canvasVars

(* "Exactly one PATCH is in flight at a time: overlapping requests for the  *)
(* same key could complete out of order and persist the older cell"         *)
(* (FlowBuilderPage.tsx): with nothing left to send, the server has the     *)
(* cell the node was dropped on last.                                       *)
LastDropStands ==
  /\ drop.count > 0
  /\ \A v \in Visit : visit[v].dirty = Nowhere /\ visit[v].flush = "none"
  /\ \A k \in Early : early[k].st \notin {"chained", "sent"}
  => stored.cell = drop.last
=============================================================================
