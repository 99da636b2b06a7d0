---------------------------- MODULE HiddenItems ----------------------------
(***************************************************************************)
(* The life of a desktop file that BentoDesk takes into a zone: hiding it, *)
(* recording it in the safety manifest, the zone model in memory and in    *)
(* zones.bin, restoring, moving, renaming, recycling and dragging it out,  *)
(* with I/O failures at every file operation and a crash between any two   *)
(* effects.  Handlers run one at a time on the UI thread; the user and     *)
(* other programs touch the desktop between their steps.                   *)
(*                                                                         *)
(* Simplifications.  One desktop directory, so an original path is a leaf  *)
(* name.  A file's content is a member of Files; a copy has the same       *)
(* content.  A manifest write is atomic here (ManifestStore models its     *)
(* steps).  Icons, grid positions, file_missing flags and attributes are   *)
(* left out.  A handler that returns early changes nothing and is not an   *)
(* action.                                                                 *)
(***************************************************************************)
EXTENDS Naturals

CONSTANTS
  Files,           \* user files, by content
  Names,           \* leaf names on the desktop
  Zones,           \* zone ids
  MaxAlt,          \* how many disambiguating suffixes a hidden name can take
  MaxItemId,       \* stands for u64::MAX, the largest item id of a zone
  NoFile, NoPath, NoJob, NoDrag,
  ConcurrentUser,  \* may a file appear at the path a handler works on?
  MayCrash         \* may the process die?

ASSUME SentinelAssumption == NoFile \notin Files
ASSUME FlagAssumption == ConcurrentUser \in BOOLEAN /\ MayCrash \in BOOLEAN
ASSUME BoundAssumption == MaxAlt \in Nat /\ MaxItemId \in Nat

\* A path below .bentodesk: the zone directory, the leaf name, and 0 for the
\* plain name or the number of the suffix that made it unique.
HiddenPaths == [zone : Zones, leaf : Names, alt : 0..MaxAlt]
ASSUME NoPathAssumption == NoPath \notin HiddenPaths

ItemIds == 1..MaxItemId

\* ZoneItem: original_path (or path, for an item left on the desktop) and
\* hidden_path.  The two optional paths are set together.
Items == [zone : Zones, id : ItemIds, name : Names,
          hid : HiddenPaths \cup {NoPath}]

\* ManifestEntry: the paths that recovery needs.
Entries == [orig : Names, hid : HiddenPaths]

\* The hide or restore in flight: an AddItem (also while it is rolled back)
\* or a RemoveItem.
Jobs == [why : {"add", "remove"}, zone : Zones, id : 0..MaxItemId,
         name : Names, hid : HiddenPaths]

Pcs == {"idle", "hideCopied", "hideStored",
        "restoreChecked", "restoreCopied", "restoreMoved"}

VARIABLES
  desktop,    \* what each desktop path holds
  hidden,     \* what each hidden path holds
  manifest,   \* .bentodesk/manifest.json
  items,      \* the items of all zones, in memory
  alive,      \* the zones that exist, in memory
  dirty,      \* AppState.dirty
  bin,        \* zones.bin
  pc, job,    \* the handler in flight
  drag,       \* the item a drag-out was started for
  released,   \* history: files the user gave up
  exposed     \* history: files whose manifest cover the code gave up

files   == <<desktop, hidden>>
model   == <<items, alive, dirty>>
handler == <<pc, job>>
vars    == <<desktop, hidden, manifest, items, alive, dirty, bin, pc, job,
             drag, released, exposed>>

TypeOK ==
  /\ desktop \in [Names -> Files \cup {NoFile}]
  /\ hidden \in [HiddenPaths -> Files \cup {NoFile}]
  /\ manifest \subseteq Entries
  /\ items \subseteq Items
  /\ alive \subseteq Zones
  /\ dirty \in BOOLEAN
  /\ bin \in [items : SUBSET Items, alive : SUBSET Zones]
  /\ pc \in Pcs
  /\ job \in Jobs \cup {NoJob}
  /\ pc # "idle" => job \in Jobs
  /\ drag \in Items \cup {NoDrag}
  /\ released \subseteq Files
  /\ exposed \subseteq Files

Init ==
  /\ desktop = [n \in Names |-> NoFile]
  /\ hidden = [h \in HiddenPaths |-> NoFile]
  /\ manifest = {}
  /\ items = {}
  /\ alive = Zones
  /\ dirty = FALSE
  /\ bin = [items |-> {}, alive |-> Zones]
  /\ pc = "idle"
  /\ job = NoJob
  /\ drag = NoDrag
  /\ released = {}
  /\ exposed = {}

----------------------------------------------------------------------------
(* Helpers *)

Visible(f) == \E n \in Names : desktop[n] = f
Stowed(f)  == \E h \in HiddenPaths : hidden[h] = f

ItemsOf(z) == {i \in items : i.zone = z}

\* next_item_id: one more than the largest id of the zone.
IsNextId(z, n) ==
  /\ \A i \in ItemsOf(z) : i.id < n
  /\ n = 1 \/ \E i \in ItemsOf(z) : i.id = n - 1

\* next_item_id_if_taken: keep the id unless the target zone uses it.
IsIdInTarget(z, id, n) ==
  IF \E i \in ItemsOf(z) : i.id = id THEN IsNextId(z, n) ELSE n = id

\* unique_hidden_path: the plain name, or a fresh suffix when it is taken.
UniqueHiddenPath(z, n, h) ==
  /\ h.zone = z /\ h.leaf = n
  /\ hidden[h] = NoFile
  /\ h.alt # 0 => hidden[[h EXCEPT !.alt = 0]] # NoFile

\* Files that lose their manifest entry when the entries in es go away.
LosesCover(es) == {hidden[e.hid] : e \in es} \ {NoFile}

\* manifest_add: the entry supersedes those of the same original path.
ManifestAdd(n, h) ==
  LET superseded == {e \in manifest : e.orig = n}
  IN  /\ manifest' = (manifest \ superseded) \cup {[orig |-> n, hid |-> h]}
      /\ exposed' = exposed \cup (LosesCover(superseded) \ {hidden[h]})

\* manifest_remove, whose failure its callers only log.
ManifestRemove(n) ==
  LET matching == {e \in manifest : e.orig = n}
  IN  \/ /\ manifest' = manifest \ matching
         /\ exposed' = exposed \cup LosesCover(matching)
      \/ UNCHANGED <<manifest, exposed>>

\* add_item_with_metadata, then mark_dirty.
AddModelItem(z, n, h) ==
  \E id \in ItemIds :
    /\ IsNextId(z, id)
    /\ items' = items \cup {[zone |-> z, id |-> id, name |-> n, hid |-> h]}
    /\ dirty' = TRUE
    /\ UNCHANGED alive

RemoveModelItem(z, id) ==
  /\ items' = {i \in items : ~(i.zone = z /\ i.id = id)}
  /\ dirty' = TRUE
  /\ UNCHANGED alive

GoIdle == pc' = "idle" /\ job' = NoJob

----------------------------------------------------------------------------
(* AddItem: add_item_to_zone and hide_file *)

\* The checks before any file is touched.
CanAdd(z, n) ==
  /\ pc = "idle"
  /\ z \in alive
  /\ desktop[n] # NoFile
  /\ \A i \in ItemsOf(z) : i.id # MaxItemId

AddJob(z, n, h) ==
  job' = [why |-> "add", zone |-> z, id |-> 0, name |-> n, hid |-> h]

\* fs::rename of the source into the hidden tree.
HideByRename(z, n) ==
  /\ CanAdd(z, n)
  /\ \E h \in HiddenPaths :
       /\ UniqueHiddenPath(z, n, h)
       /\ hidden' = [hidden EXCEPT ![h] = desktop[n]]
       /\ AddJob(z, n, h)
  /\ desktop' = [desktop EXCEPT ![n] = NoFile]
  /\ pc' = "hideStored"
  /\ UNCHANGED <<manifest, model, bin, drag, released, exposed>>

\* The rename fails and the copy of the fallback succeeds.
HideByCopy(z, n) ==
  /\ CanAdd(z, n)
  /\ \E h \in HiddenPaths :
       /\ UniqueHiddenPath(z, n, h)
       /\ hidden' = [hidden EXCEPT ![h] = desktop[n]]
       /\ AddJob(z, n, h)
  /\ pc' = "hideCopied"
  /\ UNCHANGED <<desktop, manifest, model, bin, drag, released, exposed>>

HideCopyFinish ==
  /\ pc = "hideCopied"
  /\ desktop[job.name] # NoFile
  /\ desktop' = [desktop EXCEPT ![job.name] = NoFile]
  /\ pc' = "hideStored"
  /\ UNCHANGED <<hidden, manifest, model, bin, job, drag, released, exposed>>

\* The source cannot be deleted: the copy is removed, best effort, and the
\* item is added without hiding its file.
HideCopyAbort ==
  /\ pc = "hideCopied"
  /\ hidden' \in {hidden, [hidden EXCEPT ![job.hid] = NoFile]}
  /\ AddModelItem(job.zone, job.name, NoPath)
  /\ GoIdle
  /\ UNCHANGED <<desktop, manifest, bin, drag, released, exposed>>

\* Stealth is off, its configuration is unavailable, or hide_file failed with
\* nothing changed: the item keeps its desktop path.
AddUnhidden(z, n) ==
  /\ CanAdd(z, n)
  /\ AddModelItem(z, n, NoPath)
  /\ UNCHANGED <<files, manifest, bin, handler, drag, released, exposed>>

\* manifest_add succeeds and the item enters the zone.
HideCommit ==
  /\ pc = "hideStored"
  /\ ManifestAdd(job.name, job.hid)
  /\ AddModelItem(job.zone, job.name, job.hid)
  /\ GoIdle
  /\ UNCHANGED <<files, bin, drag, released>>

\* manifest_add fails: rollback_after_manifest_failure calls restore_file.
HideRollback ==
  /\ pc = "hideStored"
  /\ desktop[job.name] = NoFile
  /\ pc' = "restoreChecked"
  /\ UNCHANGED <<files, manifest, model, bin, job, drag, released, exposed>>

\* The rollback fails too (HiddenWithoutManifest): the zone model keeps the
\* recovery paths, the manifest has none.
KeepHiddenWithoutManifest ==
  /\ AddModelItem(job.zone, job.name, job.hid)
  /\ exposed' = exposed \cup {hidden[job.hid]}

HideUnrecorded ==
  /\ pc = "hideStored"
  /\ desktop[job.name] # NoFile
  /\ KeepHiddenWithoutManifest
  /\ GoIdle
  /\ UNCHANGED <<files, manifest, bin, drag, released>>

----------------------------------------------------------------------------
(* RemoveItem, and restore_file for it and for the rollback of AddItem *)

\* An item that was never hidden leaves the model only.
RemoveUnhidden(i) ==
  /\ pc = "idle"
  /\ i.hid = NoPath
  /\ RemoveModelItem(i.zone, i.id)
  /\ UNCHANGED <<files, manifest, bin, handler, drag, released, exposed>>

\* A faulty restore that does not look at the destination.
RestoreBeginUnchecked(i) ==
  /\ pc = "idle"
  /\ i.hid # NoPath
  /\ hidden[i.hid] # NoFile
  /\ job' = [why |-> "remove", zone |-> i.zone, id |-> i.id,
             name |-> i.name, hid |-> i.hid]
  /\ pc' = "restoreChecked"
  /\ UNCHANGED <<files, manifest, model, bin, drag, released, exposed>>

\* A faulty restore that drops the manifest entry before the file is back.
RestoreBeginUntracked(i) ==
  /\ pc = "idle"
  /\ i.hid # NoPath
  /\ hidden[i.hid] # NoFile
  /\ desktop[i.name] = NoFile
  /\ job' = [why |-> "remove", zone |-> i.zone, id |-> i.id,
             name |-> i.name, hid |-> i.hid]
  /\ pc' = "restoreChecked"
  /\ manifest' = {e \in manifest : e.orig # i.name}
  /\ UNCHANGED <<files, model, bin, drag, released, exposed>>

\* restore_file's checks pass: the hidden file is there, the destination free.
RestoreBegin(i) ==
  /\ pc = "idle"
  /\ i.hid # NoPath
  /\ hidden[i.hid] # NoFile
  /\ desktop[i.name] = NoFile
  /\ job' = [why |-> "remove", zone |-> i.zone, id |-> i.id,
             name |-> i.name, hid |-> i.hid]
  /\ pc' = "restoreChecked"
  /\ UNCHANGED <<files, manifest, model, bin, drag, released, exposed>>

\* fs::rename replaces whatever is at the destination by now.
RestoreByRename ==
  /\ pc = "restoreChecked"
  /\ desktop' = [desktop EXCEPT ![job.name] = hidden[job.hid]]
  /\ hidden' = [hidden EXCEPT ![job.hid] = NoFile]
  /\ pc' = "restoreMoved"
  /\ UNCHANGED <<manifest, model, bin, job, drag, released, exposed>>

\* copy_file_without_overwrite fails when the destination exists.
RestoreByCopy ==
  /\ pc = "restoreChecked"
  /\ desktop[job.name] = NoFile
  /\ desktop' = [desktop EXCEPT ![job.name] = hidden[job.hid]]
  /\ pc' = "restoreCopied"
  /\ UNCHANGED <<hidden, manifest, model, bin, job, drag, released, exposed>>

RestoreCopyFinish ==
  /\ pc = "restoreCopied"
  /\ hidden' = [hidden EXCEPT ![job.hid] = NoFile]
  /\ pc' = "restoreMoved"
  /\ UNCHANGED <<desktop, manifest, model, bin, job, drag, released, exposed>>

\* A failed restore keeps the item (remove) or ends in HiddenWithoutManifest.
RestoreFails ==
  /\ GoIdle
  /\ \/ job.why = "remove" /\ UNCHANGED <<model, exposed>>
     \/ job.why = "add" /\ KeepHiddenWithoutManifest

\* A faulty fallback that cleans up both copies.
RestoreCopyAbortBoth ==
  /\ pc = "restoreCopied"
  /\ desktop' = [desktop EXCEPT ![job.name] = NoFile]
  /\ hidden' = [hidden EXCEPT ![job.hid] = NoFile]
  /\ RestoreFails
  /\ UNCHANGED <<manifest, bin, drag, released>>

\* The hidden source cannot be deleted: the destination is cleaned up, best
\* effort.
RestoreCopyAbort ==
  /\ pc = "restoreCopied"
  /\ desktop' \in {desktop, [desktop EXCEPT ![job.name] = NoFile]}
  /\ RestoreFails
  /\ UNCHANGED <<hidden, manifest, bin, drag, released>>

RestoreGivesUp ==
  /\ pc = "restoreChecked"
  /\ RestoreFails
  /\ UNCHANGED <<files, manifest, bin, drag, released>>

\* restore_file_tracked drops the manifest entry, then RemoveItem drops the
\* item.
RemoveCommit ==
  /\ pc = "restoreMoved"
  /\ job.why = "remove"
  /\ ManifestRemove(job.name)
  /\ RemoveModelItem(job.zone, job.id)
  /\ GoIdle
  /\ UNCHANGED <<files, bin, drag, released>>

\* The rollback succeeded: hide_file reports the manifest error and the item
\* is added with its desktop path.
RollbackDone ==
  /\ pc = "restoreMoved"
  /\ job.why = "add"
  /\ AddModelItem(job.zone, job.name, NoPath)
  /\ GoIdle
  /\ UNCHANGED <<files, manifest, bin, drag, released, exposed>>

----------------------------------------------------------------------------
(* MoveItemToZone, RenameItemFile, DeleteItemFileToRecycleBin, DeleteZone *)

\* A faulty move that wraps past the largest item id instead of failing.
MoveModelItemOverflow(i, z, h) ==
  \E id \in 1..(MaxItemId + 1) :
    /\ IsIdInTarget(z, i.id, id)
    /\ items' = (items \ {i}) \cup
                {[zone |-> z, id |-> id, name |-> i.name, hid |-> h]}
    /\ dirty' = TRUE
    /\ UNCHANGED alive

\* move_item_to_zone: the item changes zone, id when its id is taken there,
\* and hidden path when its file moved.
MoveModelItem(i, z, h) ==
  \E id \in ItemIds :
    /\ IsIdInTarget(z, i.id, id)
    /\ items' = (items \ {i}) \cup
                {[zone |-> z, id |-> id, name |-> i.name, hid |-> h]}
    /\ dirty' = TRUE
    /\ UNCHANGED alive

CanMove(i, z) == pc = "idle" /\ z \in alive /\ z # i.zone

\* move_hidden_item_file_between_zones returns None (no hidden file, target
\* name taken, I/O error) and only the layout moves.  Its copy fallback can
\* leave a copy behind.
MoveLayoutOnly(i, z) ==
  /\ CanMove(i, z)
  /\ MoveModelItem(i, z, i.hid)
  /\ \/ UNCHANGED hidden
     \/ /\ i.hid # NoPath
        /\ hidden[i.hid] # NoFile
        /\ hidden[[i.hid EXCEPT !.zone = z]] = NoFile
        /\ hidden' = [hidden EXCEPT ![[i.hid EXCEPT !.zone = z]] = hidden[i.hid]]
  /\ UNCHANGED <<desktop, manifest, bin, handler, drag, released, exposed>>

\* The hidden file moves under the same name into the target zone's directory.
\* The manifest keeps the old path.
MoveWithFile(i, z) ==
  /\ CanMove(i, z)
  /\ i.hid # NoPath
  /\ hidden[i.hid] # NoFile
  /\ LET target == [i.hid EXCEPT !.zone = z]
     IN  /\ hidden[target] = NoFile
         /\ hidden' = [hidden EXCEPT ![i.hid] = NoFile, ![target] = hidden[i.hid]]
         /\ MoveModelItem(i, z, target)
  /\ exposed' = exposed \cup {hidden[i.hid]}
  /\ UNCHANGED <<desktop, manifest, bin, handler, drag, released>>

\* update_item_file_metadata and mark_dirty.
RenameModelItem(i, n, h) ==
  /\ items' = (items \ {i}) \cup {[i EXCEPT !.name = n, !.hid = h]}
  /\ dirty' = TRUE
  /\ UNCHANGED alive

\* The hidden file is renamed in place and so is the original path; the
\* manifest keeps both old paths.
RenameHidden(i, n) ==
  /\ pc = "idle"
  /\ i.hid # NoPath
  /\ hidden[i.hid] # NoFile
  /\ LET target == [zone |-> i.hid.zone, leaf |-> n, alt |-> 0]
     IN  /\ hidden[target] = NoFile
         /\ hidden' = [hidden EXCEPT ![i.hid] = NoFile, ![target] = hidden[i.hid]]
         /\ RenameModelItem(i, n, target)
  /\ exposed' = exposed \cup {hidden[i.hid]}
  /\ UNCHANGED <<desktop, manifest, bin, handler, drag, released>>

RenameUnhidden(i, n) ==
  /\ pc = "idle"
  /\ i.hid = NoPath
  /\ desktop[i.name] # NoFile
  /\ desktop[n] = NoFile
  /\ desktop' = [desktop EXCEPT ![i.name] = NoFile, ![n] = desktop[i.name]]
  /\ RenameModelItem(i, n, NoPath)
  /\ UNCHANGED <<hidden, manifest, bin, handler, drag, released, exposed>>

\* The file at an item's filesystem path, and the removal of that file.
FileOf(i) == IF i.hid # NoPath THEN hidden[i.hid] ELSE desktop[i.name]

TakeFileOf(i) ==
  /\ FileOf(i) # NoFile
  /\ released' = released \cup {FileOf(i)}
  /\ IF i.hid # NoPath
     THEN hidden' = [hidden EXCEPT ![i.hid] = NoFile] /\ UNCHANGED desktop
     ELSE desktop' = [desktop EXCEPT ![i.name] = NoFile] /\ UNCHANGED hidden

\* Recycled: the item leaves the model, the manifest entry stays.
RecycleItemFile(i) ==
  /\ pc = "idle"
  /\ TakeFileOf(i)
  /\ RemoveModelItem(i.zone, i.id)
  /\ UNCHANGED <<manifest, bin, handler, drag, exposed>>

\* The zone goes with its items; their hidden files stay where they are.
DeleteZone(z) ==
  /\ pc = "idle"
  /\ z \in alive
  /\ alive' = alive \ {z}
  /\ items' = items \ ItemsOf(z)
  /\ dirty' = TRUE
  /\ UNCHANGED <<files, manifest, bin, handler, drag, released, exposed>>

----------------------------------------------------------------------------
(* Drag-out: the modal loop lets other handlers run before it finishes *)

DragBegin(i) ==
  /\ pc = "idle" /\ drag = NoDrag
  /\ drag' = i
  /\ UNCHANGED <<files, manifest, model, bin, handler, released, exposed>>

\* Copied, Dropped, Cancelled, an error, or MOVE with the source still there.
DragKeepsModel ==
  /\ pc = "idle" /\ drag # NoDrag
  /\ drag' = NoDrag
  /\ UNCHANGED <<files, manifest, model, bin, handler, released, exposed>>

\* manifest_remove only for a hidden item whose file is gone.
ForgetMovedOut(removed) ==
  LET gone == {i \in removed : i.hid # NoPath /\ hidden'[i.hid] = NoFile}
  IN  IF gone = {} THEN UNCHANGED <<manifest, exposed>>
      ELSE \E i \in gone : ManifestRemove(i.name)

\* The target moved the file: remove_item_model_after_shell_move removes the
\* item that has the dragged item's zone and id now.
DragMoved ==
  /\ pc = "idle" /\ drag # NoDrag
  /\ TakeFileOf(drag)
  /\ LET removed == {i \in ItemsOf(drag.zone) : i.id = drag.id}
     IN  /\ items' = items \ removed
         /\ dirty' = (dirty \/ removed # {})
         /\ ForgetMovedOut(removed)
  /\ drag' = NoDrag
  /\ UNCHANGED <<alive, bin, handler>>

----------------------------------------------------------------------------
(* Persistence, crash, and the world outside *)

\* flush_dirty_zones after the queue is drained; a failed write leaves the
\* dirty flag set and is not a step.
Flush ==
  /\ pc = "idle" /\ dirty
  /\ bin' = [items |-> items, alive |-> alive]
  /\ dirty' = FALSE
  /\ UNCHANGED <<files, manifest, items, alive, handler, drag, released, exposed>>

\* The process dies and starts again from zones.bin.
Crash ==
  /\ MayCrash
  /\ items' = bin.items /\ alive' = bin.alive /\ dirty' = FALSE
  /\ GoIdle
  /\ drag' = NoDrag
  /\ exposed' = IF pc \in {"hideStored", "restoreChecked"} /\ job.why = "add"
                THEN exposed \cup {hidden[job.hid]}
                ELSE exposed
  /\ UNCHANGED <<files, manifest, bin, released>>

\* Another program or the user puts a new file on the desktop.
UserCreates(f, n) ==
  /\ ~Visible(f) /\ ~Stowed(f) /\ f \notin released
  /\ desktop[n] = NoFile
  /\ (pc # "idle" /\ n = job.name) => ConcurrentUser
  /\ desktop' = [desktop EXCEPT ![n] = f]
  /\ UNCHANGED <<hidden, manifest, model, bin, handler, drag, released, exposed>>

UserDeletes(n) ==
  /\ desktop[n] # NoFile
  /\ released' = released \cup {desktop[n]}
  /\ desktop' = [desktop EXCEPT ![n] = NoFile]
  /\ UNCHANGED <<hidden, manifest, model, bin, handler, drag, exposed>>

----------------------------------------------------------------------------

AddItem == \/ \E z \in Zones, n \in Names :
                HideByRename(z, n) \/ HideByCopy(z, n) \/ AddUnhidden(z, n)
           \/ HideCopyFinish \/ HideCopyAbort
           \/ HideCommit \/ HideRollback \/ HideUnrecorded \/ RollbackDone

RemoveItem == \/ \E i \in items : RemoveUnhidden(i) \/ RestoreBegin(i)
              \/ RemoveCommit

RestoreFile == \/ RestoreByRename \/ RestoreByCopy \/ RestoreCopyFinish
               \/ RestoreCopyAbort \/ RestoreGivesUp

ItemFileOps == \E i \in items :
                 \/ \E z \in Zones : MoveLayoutOnly(i, z) \/ MoveWithFile(i, z)
                 \/ \E n \in Names : RenameHidden(i, n) \/ RenameUnhidden(i, n)
                 \/ RecycleItemFile(i)

DragOut == (\E i \in items : DragBegin(i)) \/ DragKeepsModel \/ DragMoved

User == \/ \E f \in Files, n \in Names : UserCreates(f, n)
        \/ \E n \in Names : UserDeletes(n)

Next == \/ AddItem \/ RemoveItem \/ RestoreFile \/ ItemFileOps \/ DragOut
        \/ \E z \in Zones : DeleteZone(z)
        \/ Flush \/ Crash
        \/ User

Spec == Init /\ [][Next]_vars

----------------------------------------------------------------------------
(* Properties *)

\* Between its steps a handler never loses the file it works on: the stored
\* copy is there, and while two copies exist they are of the same file, or the
\* user has meanwhile deleted the one on the desktop.
CopiesAgree == \/ desktop[job.name] = hidden[job.hid]
               \/ desktop[job.name] = NoFile /\ hidden[job.hid] \in released

JobStored ==
  /\ pc \notin {"idle", "restoreMoved"} => hidden[job.hid] # NoFile
  /\ pc \in {"hideCopied", "hideStored"} => job.why = "add"

JobHoldsFile ==
  /\ JobStored
  /\ pc = "restoreChecked" => desktop[job.name] = NoFile
  /\ pc \in {"hideCopied", "restoreCopied"} => CopiesAgree

\* A file is covered while it is visible other than as the copy of an
\* unfinished restore, while the manifest leads to it, or while the hide that
\* stored it is still in flight.
OnDesktop(f)  == \E n \in Names : desktop[n] = f /\ ~(pc = "restoreCopied" /\ n = job.name)
InManifest(f) == \E e \in manifest : hidden[e.hid] = f
InFlight(f)   == /\ pc \in {"hideStored", "restoreChecked", "restoreCopied"}
                 /\ job.why = "add" /\ hidden[job.hid] = f

Recoverable(f) ==
  Stowed(f) => \/ f \in released \cup exposed
               \/ OnDesktop(f) \/ InManifest(f) \/ InFlight(f)

\* A hidden file that was not given up can be found through the manifest (or
\* is also on the desktop), unless one of the code's known gaps exposed it: it
\* was renamed or moved between zones while hidden, its entry was superseded
\* or dropped for another file of the same original path, HiddenWithoutManifest
\* was reported for it, or the process died between the move and the manifest
\* write.
RecoverableUnlessExposed == \A f \in Files : Recoverable(f)

\* The application keeps the promise of FileCustody.
Place(f) == IF f \in released THEN "released"
            ELSE IF Visible(f) THEN "visible"
            ELSE IF Stowed(f) THEN "stowed"
            ELSE "absent"

PlaceOf == [f \in Files |-> Place(f)]

Custody == INSTANCE FileCustody WITH place <- PlaceOf

KeepsCustody == Custody!Spec

\* What the documentation of the stealth module says of the manifest, taken at
\* an item whose hidden file changes its path: the manifest still leads to it.
ManifestTracksMovedFiles ==
  [][\A i \in items, j \in items' :
       /\ i.hid # NoPath /\ j.hid # NoPath /\ i.hid # j.hid
       /\ hidden[i.hid] # NoFile /\ hidden'[j.hid] = hidden[i.hid]
       /\ hidden'[i.hid] = NoFile
       /\ \E e \in manifest : e.hid = i.hid
       => \E e \in manifest' : e.hid = j.hid]_vars
=============================================================================
