------------------------------ MODULE ZonesFile ------------------------------
(***************************************************************************)
(* The layout of the zones in memory and in zones.bin, over the lives of   *)
(* the process: the healing from the recovery bundle and the two loads a   *)
(* start performs (bootstrap.rs, then the first paint), the edits, the     *)
(* flush of a dirty layout and the last save at WM_DESTROY.                *)
(*                                                                         *)
(* A layout is one value; some layouts can be written but not read back,   *)
(* because encode has no limits where decode has (4096 items in a zone,    *)
(* 256 members in a stack, 16384 zones).                                   *)
(*                                                                         *)
(* Simplifications: write_zones_atomic is one step, for it stages and      *)
(* syncs zones.bin.tmp, which nothing ever reads, and replaces zones.bin   *)
(* by one MoveFileExW (JsonStore takes such a write apart); no legacy      *)
(* layout.json; no command arrives between the start and the first paint;  *)
(* what the loads repair (duplicate ids, geometry) is an Edit that follows *)
(* them.                                                                   *)
(***************************************************************************)
CONSTANTS Layouts, Empty,   \* the layouts; the one without zones
          TooBig,           \* layouts that decode rejects
          NoLayout,         \* no layout: no bundle, no file
          Faults            \* what may go wrong in a run

ASSUME LayoutsAssumption ==
    /\ Empty \in Layouts /\ TooBig \subseteq Layouts \ {Empty}
    /\ NoLayout \notin Layouts
ASSUME FaultsAssumption == Faults \subseteq {"read", "heal restore", "heal write"}

INSTANCE DiskFile WITH Values <- Layouts, NoValue <- NoLayout

VARIABLES file,         \* zones.bin
          bundle,       \* layout in the recovery bundle, or NoLayout
          memory, dirty,    \* AppState::zones, AppState::dirty
          phase,        \* how far this process has come
          seen,         \* this process has read zones.bin, or there is none
                        \* to read (history)
          saved         \* last layout written to zones.bin, or found there
                        \* (history)

vars == <<file, bundle, memory, dirty, phase, seen, saved>>

TypeOK ==
    /\ file \in File /\ bundle \in Layouts \cup {NoLayout}
    /\ memory \in Layouts /\ dirty \in BOOLEAN
    /\ phase \in {"off", "heal", "load", "paint", "running"}
    /\ seen \in BOOLEAN /\ saved \in Layouts

Decodes(f) == Readable(f) /\ f.value \notin TooBig

(* The layout read_zones returns: none at all is an empty one.             *)
LayoutOf(f) == IF Decodes(f) THEN f.value ELSE Empty

Init ==
    /\ file \in {Absent, Torn} \cup {Synced(v) : v \in Layouts \ TooBig}
    /\ bundle \in Layouts \cup {NoLayout}
    /\ memory = Empty /\ dirty = FALSE /\ phase = "off" /\ seen = FALSE
    /\ saved = LayoutOf(file)

Write(layout) == file' = Synced(layout) /\ saved' = layout

-----------------------------------------------------------------------------
Start ==
    /\ phase = "off" /\ phase' = "heal"
    /\ memory' = Empty /\ dirty' = FALSE /\ seen' = FALSE
    /\ UNCHANGED <<file, bundle, saved>>

(* startup_heal_recovery_bundle: a file that reads needs no healing, one   *)
(* that cannot be opened gets none.                                        *)
HealNotNeeded ==
    /\ phase = "heal" /\ phase' = "load"
    /\ Decodes(file) \/ (Exists(file) /\ "read" \in Faults)
    /\ UNCHANGED <<file, bundle, memory, dirty, seen, saved>>

(* quarantine_corrupt could not rename the file.                           *)
HealQuarantineFails ==
    /\ phase = "heal" /\ phase' = "load"
    /\ Exists(file) /\ ~Decodes(file)
    /\ UNCHANGED <<file, bundle, memory, dirty, seen, saved>>

(* No bundle, one whose layout does not decode, or one of whose other      *)
(* stores, which are restored before the layout is, cannot be restored.    *)
HealWithoutBundle ==
    /\ phase = "heal" /\ phase' = "load"
    /\ ~Decodes(file)
    /\ bundle \in {NoLayout} \cup TooBig \/ "heal restore" \in Faults
    /\ file' = Absent
    /\ UNCHANGED <<bundle, memory, dirty, seen, saved>>

\* A faulty healing that does not notice that its write failed.
HealIgnoresErrors ==
    /\ phase = "heal" /\ phase' = "load"
    /\ ~Decodes(file) /\ bundle \in Layouts \ TooBig
    /\ memory' = bundle /\ dirty' = FALSE
    /\ Write(bundle) \/ (file' = Absent /\ UNCHANGED saved)
    /\ UNCHANGED <<bundle, seen>>

HealFromBundle ==
    /\ phase = "heal" /\ phase' = "load"
    /\ ~Decodes(file) /\ bundle \in Layouts \ TooBig
    /\ memory' = bundle
    /\ \/ Write(bundle) /\ dirty' = FALSE
       \/ /\ "heal write" \in Faults
          /\ file' = Absent /\ dirty' = TRUE /\ UNCHANGED saved
    /\ UNCHANGED <<bundle, seen>>

-----------------------------------------------------------------------------
(* load_startup_zones_or_migrate_legacy, then load_zones_once at the first *)
(* paint: both read the file, install what they read and set a corrupt     *)
(* file aside.                                                             *)
Loading(next) ==
    \/ phase = "load" /\ next = "paint"
    \/ phase = "paint" /\ next = "running"

LoadZones == \E next \in {"paint", "running"} :
    /\ Loading(next) /\ phase' = next
    /\ Decodes(file) \/ ~Exists(file)
    /\ memory' = LayoutOf(file) /\ seen' = TRUE
    /\ UNCHANGED <<file, bundle, dirty, saved>>

LoadQuarantinesOnAnyError == \E next \in {"paint", "running"} :
    /\ Loading(next) /\ phase' = next
    /\ Exists(file) /\ (~Decodes(file) \/ "read" \in Faults)
    /\ file' \in {Absent, file} /\ seen' = TRUE
    /\ UNCHANGED <<bundle, memory, dirty, saved>>

LoadQuarantines == \E next \in {"paint", "running"} :
    /\ Loading(next) /\ phase' = next
    /\ Exists(file) /\ ~Decodes(file)
    /\ file' \in {Absent, file} /\ seen' = TRUE
    /\ UNCHANGED <<bundle, memory, dirty, saved>>

(* "IO / permission / other -- leave the file in place."                   *)
LoadCannotRead == \E next \in {"paint", "running"} :
    /\ Loading(next) /\ Exists(file) /\ "read" \in Faults /\ phase' = next
    /\ UNCHANGED <<file, bundle, memory, dirty, seen, saved>>

-----------------------------------------------------------------------------
(* Any command, timer or bundle restore that changes the zones.            *)
Edit(layout) ==
    /\ phase = "running" /\ memory' = layout /\ dirty' = TRUE
    /\ UNCHANGED <<file, bundle, phase, seen, saved>>

FlushIgnoresErrors ==
    /\ phase = "running" /\ dirty
    /\ dirty' = FALSE
    /\ (Write(memory) \/ UNCHANGED <<file, saved>>)
    /\ UNCHANGED <<bundle, memory, phase, seen>>

(* flush_dirty_zones; a write that fails leaves everything as it is, the   *)
(* layout dirty.                                                           *)
Flush ==
    /\ phase = "running" /\ dirty
    /\ Write(memory) /\ dirty' = FALSE
    /\ UNCHANGED <<bundle, memory, phase, seen>>

(* capture_recovery_bundle, at the user's request.                         *)
CaptureBundle ==
    /\ phase = "running" /\ bundle' = memory
    /\ UNCHANGED <<file, memory, dirty, phase, seen, saved>>

(* WM_DESTROY: one last attempt to save a dirty layout.                    *)
Exit ==
    /\ phase = "running" /\ dirty /\ Write(memory) /\ phase' = "off"
    /\ UNCHANGED <<bundle, memory, dirty, seen>>

(* The process dies, or exits with nothing to save or without being able.  *)
Crash ==
    /\ phase # "off" /\ phase' = "off"
    /\ UNCHANGED <<file, bundle, memory, dirty, seen, saved>>

Next ==
    \/ Start
    \/ HealNotNeeded \/ HealQuarantineFails \/ HealWithoutBundle \/ HealFromBundle
    \/ LoadZones \/ LoadQuarantines \/ LoadCannotRead
    \/ \E layout \in Layouts : Edit(layout)
    \/ Flush \/ CaptureBundle \/ Exit \/ Crash

Spec == Init /\ [][Next]_vars

-----------------------------------------------------------------------------
(* flush_dirty_zones relies on the dirty flag alone: a layout that is not  *)
(* dirty is the one the next start will find, unless this process could    *)
(* not read the file.                                                      *)
CleanMeansSaved ==
    phase = "running" /\ ~dirty /\ seen => memory = LayoutOf(file)

(* The layout of the last successful save, however long ago and whatever   *)
(* crashes came since, is the one the program shows when it next starts    *)
(* and can read the file.                                                  *)
SavedLayoutComesBack ==
    [][phase = "paint" /\ phase' = "running" /\ seen' => memory' = saved]_vars

(* Once a start has a layout with zones in memory that counts as saved, be *)
(* it from the bundle or from zones.bin, its later steps do not replace    *)
(* it.  (One that is dirty was restored from the bundle without reaching   *)
(* zones.bin, and the load that follows does replace it by an empty one.)  *)
StartupKeepsLayout ==
    [][(phase \in {"load", "paint"} /\ ~dirty) => memory = Empty \/ memory' = memory]_vars

(* load_zones_once leaves a file it could not open in place                *)
(* (state/window.rs:100): a layout on disk that this process never read is *)
(* not overwritten by it.                                                  *)
UnreadFileKept == [][Readable(file) /\ ~seen => file' = file]_vars
=============================================================================
