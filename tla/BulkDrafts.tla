----------------------------- MODULE BulkDrafts -----------------------------
(***************************************************************************)
(* The drafts of a Bulk Upload before they run (routes/batch-processors and *)
(* batch.service): an upload replaces the drafts of the processor by a new  *)
(* one, a preflight and a start read the rows and put them back, the start  *)
(* makes the run running, and the processor may be deleted.  Every call of  *)
(* the database is a step; rows are put one by one, and one may be left     *)
(* unprocessed.  What happens to a running run is in BulkUpload, which      *)
(* begins with the start modelled here.                                     *)
(***************************************************************************)
EXTENDS Integers, FiniteSets, FiniteSetsExt

CONSTANTS
  Draft,        \* run ids, in the order in which uploads create them
  FileRow,      \* the rows of a file
  Problem,      \* those that do not fit the workflow's schema
  Wizard,       \* requests to the routes, numbered as they arrive
  NoDraft,
  DraftFault,   \* which faults the environment may inject
  MaxDraftFaults

ASSUME DraftAssumption ==
  /\ Draft \subseteq Nat /\ 1 \in Draft /\ IsFiniteSet(FileRow) /\ FileRow \subseteq Nat /\ Problem \subseteq FileRow
  /\ Wizard \subseteq Nat /\ NoDraft \notin Draft /\ MaxDraftFaults \in Nat

VARIABLES
  there,   \* the batch-processors item exists
  draft,   \* the batch-runs items
  sheet,   \* the batch-rows items: status of each row, or "none"
  wz,      \* the requests
  slips,   \* faults injected so far
  seen     \* history: runs two requests held at once, runs ever created,
           \* starts of each run, rows whose put was lost or that an upload
           \* deleted

draftVars == <<there, draft, sheet, wz, slips, seen>>

(* A run that is not there; an update of it (an upsert) makes a stub of it  *)
(* that belongs to no processor.                                            *)
NoRun  == [status |-> "none", owned |-> FALSE, pinned |-> FALSE, rows |-> {}, skip |-> FALSE]
Blank  == [r \in FileRow |-> "none"]
Asking == [pc |-> "idle", ask |-> "none", run |-> NoDraft, holds |-> {}, drops |-> {}, read |-> Blank,
           left |-> {}, rows |-> {}, skip |-> FALSE]

(* One draft was uploaded before. *)
DraftInit ==
  /\ there = TRUE
  /\ draft = [d \in Draft |-> IF d = 1 THEN [NoRun EXCEPT !.status = "draft", !.owned = TRUE] ELSE NoRun]
  /\ sheet = [d \in Draft |-> IF d = 1 THEN [r \in FileRow |-> "staged"] ELSE Blank]
  /\ wz = [w \in Wizard |-> Asking]
  /\ slips = 0
  /\ seen = [met |-> {}, created |-> {1}, starts |-> [d \in Draft |-> 0], lost |-> {}]

Slip(kind) == kind \in DraftFault /\ slips < MaxDraftFaults /\ slips' = slips + 1
NoSlip     == UNCHANGED slips
In(w, pc)  == wz[w].pc = pc
To(w, pc)  == [wz[w] EXCEPT !.pc = pc]
Answered(w) == [Asking EXCEPT !.pc = "done"]
Wz(w, new) == wz' = [wz EXCEPT ![w] = new]
Met(w, ds) == seen.met \cup {d \in ds : \E v \in Wizard \ {w} : d \in wz[v].holds}

----------------------------------------------------------------------------
(* A request arrives with its input and loads the processor; one for a run  *)
(* goes on to load it and checks what it finds.                             *)
Arrives(w) ==
  /\ In(w, "idle") /\ there /\ \A v \in Wizard : v < w => ~In(v, "idle")
  /\ \/ /\ \E ask \in {"upload", "delete"} : Wz(w, [To(w, "list") EXCEPT !.ask = ask])
        /\ UNCHANGED seen
     \/ \E d \in seen.created :
          /\ \/ Wz(w, [To(w, "load") EXCEPT !.ask = "preflight", !.run = d, !.holds = {d}])
             \/ \E rows \in SUBSET FileRow \ {{}}, skip \in BOOLEAN :
                  Wz(w, [To(w, "load") EXCEPT !.ask = "start", !.run = d, !.holds = {d},
                                              !.rows = rows, !.skip = skip])
          /\ seen' = [seen EXCEPT !.met = Met(w, {d})]
  /\ UNCHANGED <<there, draft, sheet, slips>>
Checkable(d) == draft[d].owned /\ draft[d].status = "draft"
Startable(d) == Checkable(d) /\ draft[d].pinned
LoadRun(w) ==
  /\ In(w, "load")
  /\ LET d == wz[w].run
     IN Wz(w, IF (IF wz[w].ask = "start" THEN Startable(d) ELSE Checkable(d)) THEN To(w, "read") ELSE Answered(w))
  /\ UNCHANGED <<there, draft, sheet, slips, seen>>

(* getRowsByRun, then validateRunRows.                                      *)
ReadSheet(w) ==
  /\ In(w, "read")
  /\ LET read == sheet[wz[w].run]
     IN Wz(w, [To(w, "put") EXCEPT !.read = read, !.left = {r \in FileRow : read[r] # "none"}])
  /\ UNCHANGED <<there, draft, sheet, slips, seen>>

(* The status a row is put with: staged by the upload, as it was read by a  *)
(* preflight, and by a start queued, or skipped for its problems, or staged  *)
(* again when it is not selected.                                           *)
Planned(rows, skip, r) ==
  IF r \notin rows THEN "staged" ELSE IF skip /\ r \in Problem THEN "skipped" ELSE "queued"
(* Faulty variant: rows that are not selected keep the status they had.     *)
KeptAsRead(w, r) ==
  IF wz[w].ask = "upload" THEN "staged"
  ELSE IF wz[w].ask = "preflight" \/ r \notin wz[w].rows THEN wz[w].read[r]
  ELSE Planned(wz[w].rows, wz[w].skip, r)
PutAs(w, r) ==
  CASE wz[w].ask = "upload"    -> "staged"
    [] wz[w].ask = "preflight" -> wz[w].read[r]
    [] OTHER                   -> Planned(wz[w].rows, wz[w].skip, r)
(* putRows: after three tries an unprocessed item is passed over.           *)
PutRowOf(w) ==
  /\ In(w, "put") /\ wz[w].left # {}
  /\ LET r == Min(wz[w].left)
         d == wz[w].run
     IN /\ Wz(w, [wz[w] EXCEPT !.left = @ \ {r}])
        /\ \/ /\ sheet' = [sheet EXCEPT ![d][r] = PutAs(w, r)] /\ NoSlip
              /\ seen' = [seen EXCEPT !.lost = IF wz[w].ask = "preflight" THEN @ ELSE @ \ {<<d, r>>}]
           \/ /\ Slip("unprocessed") /\ UNCHANGED sheet
              /\ seen' = [seen EXCEPT !.lost = IF wz[w].ask = "preflight" THEN @ ELSE @ \cup {<<d, r>>}]
  /\ UNCHANGED <<there, draft>>

(* The last write: nothing for an upload, updateRun for the other two.      *)
UpdateDraft(w) ==
  /\ In(w, "put") /\ wz[w].left = {}
  /\ LET d == wz[w].run
     IN CASE wz[w].ask = "upload"    -> UNCHANGED <<draft, seen>>
          [] wz[w].ask = "preflight" -> draft' = [draft EXCEPT ![d].pinned = TRUE] /\ UNCHANGED seen
          [] OTHER -> /\ draft' = [draft EXCEPT ![d].status = "running", ![d].rows = wz[w].rows,
                                                ![d].skip = wz[w].skip]
                      /\ seen' = [seen EXCEPT !.starts[d] = @ + 1]
  /\ Wz(w, Answered(w))
  /\ UNCHANGED <<there, sheet, slips>>

----------------------------------------------------------------------------
(* getRunsByProcessor: an upload goes for the drafts, a deletion is refused  *)
(* while a run is active.                                                   *)
OwnedIn(status) == {d \in Draft : draft[d].owned /\ draft[d].status = status}
ListRuns(w) ==
  /\ In(w, "list")
  /\ \/ /\ wz[w].ask = "upload"
        /\ Wz(w, [To(w, "drop") EXCEPT !.drops = OwnedIn("draft"), !.holds = OwnedIn("draft")])
        /\ seen' = [seen EXCEPT !.met = Met(w, OwnedIn("draft"))]
     \/ /\ wz[w].ask = "delete" /\ OwnedIn("running") # {}
        /\ Wz(w, Answered(w)) /\ UNCHANGED seen
     \/ /\ wz[w].ask = "delete" /\ OwnedIn("running") = {}
        /\ Wz(w, [To(w, "remove") EXCEPT !.holds = Draft])
        /\ seen' = [seen EXCEPT !.met = Met(w, Draft)]
  /\ UNCHANGED <<there, draft, sheet, slips>>

(* deleteDraftRuns, one draft after the other: its rows as a query finds     *)
(* them, then the run, whatever it has become.                              *)
DropRows(w) ==
  /\ In(w, "drop") /\ wz[w].drops # {}
  /\ Wz(w, To(w, "drop run"))
  /\ \/ sheet' = [sheet EXCEPT ![Min(wz[w].drops)] = Blank] /\ NoSlip
     \/ /\ Slip("unprocessed")
        /\ \E r \in FileRow : sheet' = [sheet EXCEPT ![Min(wz[w].drops)] =
                                          [k \in FileRow |-> IF k = r THEN @[k] ELSE "none"]]
  /\ seen' = [seen EXCEPT !.lost = @ \cup ({Min(wz[w].drops)} \X FileRow)]
  /\ UNCHANGED <<there, draft>>
DropRun(w) ==
  /\ In(w, "drop run")
  /\ draft' = [draft EXCEPT ![Min(wz[w].drops)] = NoRun]
  /\ Wz(w, [To(w, "drop") EXCEPT !.drops = @ \ {Min(@)}])
  /\ UNCHANGED <<there, sheet, slips, seen>>

(* createRunWithRows: the run first, then its rows.  (Its runNumber is one   *)
(* more than the largest it finds, so two uploads may share one.)           *)
CreateRun(w) ==
  /\ In(w, "drop") /\ wz[w].drops = {} /\ Draft \ seen.created # {}
  /\ LET d == Min(Draft \ seen.created)
     IN /\ draft' = [draft EXCEPT ![d] = [NoRun EXCEPT !.status = "draft", !.owned = TRUE]]
        /\ Wz(w, [To(w, "put") EXCEPT !.run = d, !.left = FileRow, !.holds = {d}])
        /\ seen' = [seen EXCEPT !.created = @ \cup {d}, !.met = Met(w, {d})]
  /\ UNCHANGED <<there, sheet, slips>>

RemoveProcessor(w) ==
  /\ In(w, "remove")
  /\ there' = FALSE
  /\ Wz(w, Answered(w))
  /\ UNCHANGED <<draft, sheet, slips, seen>>

(* A call of the database throws, or the process dies.                      *)
WizardFails(w) ==
  /\ wz[w].pc \notin {"idle", "done"} /\ Slip("failure")
  /\ Wz(w, Answered(w))
  /\ seen' = [seen EXCEPT !.lost = IF wz[w].ask = "upload" THEN @ \cup ({wz[w].run} \X wz[w].left) ELSE @]
  /\ UNCHANGED <<there, draft, sheet>>

DraftNext ==
  \E w \in Wizard :
    \/ Arrives(w) \/ LoadRun(w) \/ ReadSheet(w) \/ PutRowOf(w) \/ UpdateDraft(w)
    \/ ListRuns(w) \/ DropRows(w) \/ DropRun(w) \/ CreateRun(w) \/ RemoveProcessor(w)
    \/ WizardFails(w)

DraftSpec == DraftInit /\ [][DraftNext]_draftVars

----------------------------------------------------------------------------
RowStatuses == {"none", "staged", "queued", "skipped"}
DraftTypeOK ==
  /\ there \in BOOLEAN
  /\ draft \in [Draft -> [status : {"none", "draft", "running"}, owned : BOOLEAN, pinned : BOOLEAN,
                          rows : SUBSET FileRow, skip : BOOLEAN]]
  /\ sheet \in [Draft -> [FileRow -> RowStatuses]]
  /\ \A w \in Wizard : /\ wz[w].pc \in {"idle", "load", "read", "put", "list", "drop", "drop run", "remove", "done"}
                       /\ wz[w].pc \in {"load", "read", "put"} => wz[w].run \in Draft
                       /\ wz[w].pc = "drop run" => wz[w].drops # {}
  /\ slips \in 0 .. MaxDraftFaults

(* A run that is running was started once and is whole: its processor is    *)
(* there, and its rows are what its start selected, whatever failed starts,  *)
(* preflights and uploads came before; unless two requests ever held it at   *)
(* once, and but for the rows whose put was lost or that an upload deleted   *)
(* before it failed.                                                        *)
StartedIsWhole ==
  \A d \in Draft : draft[d].status = "running" /\ d \notin seen.met =>
    /\ there /\ draft[d].owned /\ seen.starts[d] = 1
    /\ \A r \in FileRow : <<d, r>> \in seen.lost \/ sheet[d][r] = Planned(draft[d].rows, draft[d].skip, r)
=============================================================================
