------------------------------ MODULE MCParts ------------------------------
(***************************************************************************)
(* Six parts of the system for TLC: the tokens of a connection, the        *)
(* registration of a Salesforce organisation, the drafts of a Bulk Upload,  *)
(* the cap its runs share, the walk of the instance sync and the saving of   *)
(* the canvas.  They share no table, queue or process that the questions    *)
(* asked of them depend on, so their interleavings show nothing that none   *)
(* of them shows alone: a behaviour of this instance follows one part, the  *)
(* others stay put.                                                         *)
(***************************************************************************)
EXTENDS TokenRefresh, SfRegistration, BulkDrafts, ReleaseCap, SyncWalk, CanvasLayout, TLC

CONSTANTS worker, request, other   \* the actors of the token side

AsksDef == worker  :> {"job"}
        @@ request :> {"call", "manual", "test"}
        @@ other   :> {"manual", "delete"}
RunOfDef      == <<1, 1, 2>>
WorkflowOfDef == <<1, 2, 3, 2>>

VARIABLE side

vars == <<tokenVars, sfVars, draftVars, capVars, walkVars, canvasVars, side>>

Init ==
  /\ TokenInit /\ SfInit /\ DraftInit /\ CapInit /\ WalkInit /\ CanvasInit
  /\ side \in {"tokens", "registration", "drafts", "cap", "sync", "canvas"}
  /\ side # "registration" => app
  /\ side # "sync" => \A i \in Slot : table[i] = "absent"
  /\ stored.cell \in IF side = "canvas" THEN {Nowhere, 1} ELSE {Nowhere}   \* cells are alike

Tokens       == side = "tokens" /\ TokenNext
                /\ UNCHANGED <<sfVars, draftVars, capVars, walkVars, canvasVars, side>>
Registration == side = "registration" /\ SfNext
                /\ UNCHANGED <<tokenVars, draftVars, capVars, walkVars, canvasVars, side>>
Drafts       == side = "drafts" /\ DraftNext
                /\ UNCHANGED <<tokenVars, sfVars, capVars, walkVars, canvasVars, side>>
Capped       == side = "cap" /\ CapNext
                /\ UNCHANGED <<tokenVars, sfVars, draftVars, walkVars, canvasVars, side>>
Sync         == side = "sync" /\ WalkNext
                /\ UNCHANGED <<tokenVars, sfVars, draftVars, capVars, canvasVars, side>>
Canvas       == side = "canvas" /\ CanvasNext
                /\ UNCHANGED <<tokenVars, sfVars, draftVars, capVars, walkVars, side>>

Next == Tokens \/ Registration \/ Drafts \/ Capped \/ Sync \/ Canvas

(* WalkFairness, for the side of the sync; of the others no liveness is     *)
(* asked.                                                                   *)
Fairness ==
  /\ WF_walkVars(side = "sync" /\ Pass) /\ WF_walkVars(side = "sync" /\ LimitPasses)
  /\ \A i \in Slot : WF_walkVars(side = "sync" /\ InstanceEnds(i))

FairSpec == Init /\ [][Next]_vars /\ Fairness

(* Type invariant of every side. *)
TypeOK == TokenTypeOK /\ SfTypeOK /\ DraftTypeOK /\ CapTypeOK /\ WalkTypeOK
          /\ CanvasTypeOK
=============================================================================
