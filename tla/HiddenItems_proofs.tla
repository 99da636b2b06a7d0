------------------------- MODULE HiddenItems_proofs -------------------------
(***************************************************************************)
(* Theorems about HiddenItems for every set of files, names and zones and  *)
(* every value of the bounds.  Only TypeCorrect holds when other programs  *)
(* race a restore; the others assume ~ConcurrentUser.                      *)
(***************************************************************************)
EXTENDS HiddenItems, TLAPS

USE SentinelAssumption, FlagAssumption, BoundAssumption, NoPathAssumption

(* A handler adds an item with an id of the zone's range. *)
LEMMA AddModelItemType ==
  ASSUME TypeOK, NEW z \in Zones, NEW n \in Names,
         NEW h \in HiddenPaths \cup {NoPath}, AddModelItem(z, n, h)
  PROVE  items' \subseteq Items /\ alive' \subseteq Zones /\ dirty' \in BOOLEAN
BY DEF TypeOK, AddModelItem, Items

LEMMA RemoveModelItemType ==
  ASSUME TypeOK, NEW z, NEW id, RemoveModelItem(z, id)
  PROVE  items' \subseteq Items /\ alive' \subseteq Zones /\ dirty' \in BOOLEAN
BY DEF TypeOK, RemoveModelItem

LEMMA MoveModelItemType ==
  ASSUME TypeOK, NEW z \in Zones, NEW i \in items,
         NEW h \in HiddenPaths \cup {NoPath}, MoveModelItem(i, z, h)
  PROVE  items' \subseteq Items /\ alive' \subseteq Zones /\ dirty' \in BOOLEAN
BY DEF TypeOK, MoveModelItem, Items

LEMMA RenameModelItemType ==
  ASSUME TypeOK, NEW n \in Names, NEW i \in items,
         NEW h \in HiddenPaths \cup {NoPath}, RenameModelItem(i, n, h)
  PROVE  items' \subseteq Items /\ alive' \subseteq Zones /\ dirty' \in BOOLEAN
BY DEF TypeOK, RenameModelItem, Items

(* The manifest operations keep entries and expose files of the user. *)
LEMMA LosesCoverType == TypeOK => \A es \in SUBSET manifest : LosesCover(es) \subseteq Files
BY DEF TypeOK, LosesCover, Entries

LEMMA ManifestAddType ==
  ASSUME TypeOK, NEW n \in Names, NEW h \in HiddenPaths, ManifestAdd(n, h)
  PROVE  manifest' \subseteq Entries /\ exposed' \subseteq Files
<1>1. {e \in manifest : e.orig = n} \in SUBSET manifest
  OBVIOUS
<1> QED BY <1>1, LosesCoverType DEF ManifestAdd, TypeOK, Entries

LEMMA ManifestRemoveType ==
  ASSUME TypeOK, NEW n \in Names, ManifestRemove(n)
  PROVE  manifest' \subseteq Entries /\ exposed' \subseteq Files
<1>1. {e \in manifest : e.orig = n} \in SUBSET manifest
  OBVIOUS
<1> QED BY <1>1, LosesCoverType DEF ManifestRemove, TypeOK, Entries

LEMMA TypeInit == Init => TypeOK
<1> SUFFICES ASSUME Init PROVE TypeOK
  OBVIOUS
<1>1. /\ desktop \in [Names -> Files \cup {NoFile}]
      /\ hidden \in [HiddenPaths -> Files \cup {NoFile}]
  BY DEF Init
<1>2. bin \in [items : SUBSET Items, alive : SUBSET Zones]
  BY DEF Init
<1>3. pc \in Pcs /\ job \in Jobs \cup {NoJob} /\ (pc # "idle" => job \in Jobs)
  BY DEF Init, Pcs
<1>4. /\ manifest \subseteq Entries /\ items \subseteq Items /\ alive \subseteq Zones
      /\ dirty \in BOOLEAN /\ drag \in Items \cup {NoDrag}
      /\ released \subseteq Files /\ exposed \subseteq Files
  BY DEF Init
<1> QED BY <1>1, <1>2, <1>3, <1>4 DEF TypeOK

(* Each group of actions keeps the types. *)
LEMMA TypeAddItem == TypeOK /\ JobStored /\ AddItem => TypeOK'
<1> SUFFICES ASSUME TypeOK, JobStored, AddItem PROVE TypeOK'
  OBVIOUS
<1> USE DEF Pcs
<1>1. ASSUME NEW z \in Zones, NEW n \in Names, HideByRename(z, n) PROVE TypeOK'
  BY <1>1 DEF TypeOK, HideByRename, AddJob, Jobs, CanAdd, UniqueHiddenPath, model
<1>2. ASSUME NEW z \in Zones, NEW n \in Names, HideByCopy(z, n) PROVE TypeOK'
  BY <1>2 DEF TypeOK, HideByCopy, AddJob, Jobs, CanAdd, UniqueHiddenPath, model
<1>3. ASSUME NEW z \in Zones, NEW n \in Names, AddUnhidden(z, n) PROVE TypeOK'
  BY <1>3, AddModelItemType DEF TypeOK, AddUnhidden, files, handler
<1>4. CASE HideCopyFinish
  BY <1>4 DEF TypeOK, HideCopyFinish, model
<1>5. CASE HideCopyAbort
  <2>1. job \in Jobs /\ AddModelItem(job.zone, job.name, NoPath)
    BY <1>5 DEF TypeOK, HideCopyAbort
  <2>2. items' \subseteq Items /\ alive' \subseteq Zones /\ dirty' \in BOOLEAN
    BY <2>1, AddModelItemType DEF Jobs
  <2> QED BY <1>5, <2>1, <2>2 DEF TypeOK, HideCopyAbort, GoIdle
<1>6. CASE HideCommit
  <2>1. /\ job \in Jobs /\ AddModelItem(job.zone, job.name, job.hid)
        /\ ManifestAdd(job.name, job.hid)
    BY <1>6 DEF TypeOK, HideCommit
  <2>2. items' \subseteq Items /\ alive' \subseteq Zones /\ dirty' \in BOOLEAN
    BY <2>1, AddModelItemType DEF Jobs
  <2>3. manifest' \subseteq Entries /\ exposed' \subseteq Files
    BY <2>1, ManifestAddType DEF Jobs
  <2> QED BY <1>6, <2>2, <2>3 DEF TypeOK, HideCommit, GoIdle, files
<1>7. CASE HideRollback
  BY <1>7 DEF TypeOK, HideRollback, files, model
<1>8. CASE HideUnrecorded
  <2>1. job \in Jobs /\ AddModelItem(job.zone, job.name, job.hid)
    BY <1>8 DEF TypeOK, HideUnrecorded, KeepHiddenWithoutManifest
  <2>2. items' \subseteq Items /\ alive' \subseteq Zones /\ dirty' \in BOOLEAN
    BY <2>1, AddModelItemType DEF Jobs
  <2>3. exposed' \subseteq Files
    BY <1>8, <2>1 DEF TypeOK, HideUnrecorded, KeepHiddenWithoutManifest, JobStored, Jobs
  <2> QED BY <1>8, <2>2, <2>3 DEF TypeOK, HideUnrecorded, GoIdle, files
<1>9. CASE RollbackDone
  <2>1. job \in Jobs /\ AddModelItem(job.zone, job.name, NoPath)
    BY <1>9 DEF TypeOK, RollbackDone
  <2>2. items' \subseteq Items /\ alive' \subseteq Zones /\ dirty' \in BOOLEAN
    BY <2>1, AddModelItemType DEF Jobs
  <2> QED BY <1>9, <2>2 DEF TypeOK, RollbackDone, GoIdle, files
<1> QED BY <1>1, <1>2, <1>3, <1>4, <1>5, <1>6, <1>7, <1>8, <1>9 DEF AddItem

LEMMA TypeRemoveItem == TypeOK /\ RemoveItem => TypeOK'
<1> SUFFICES ASSUME TypeOK, RemoveItem PROVE TypeOK'
  OBVIOUS
<1> USE DEF Pcs
<1>1. ASSUME NEW i \in items, RemoveUnhidden(i) PROVE TypeOK'
  BY <1>1, RemoveModelItemType DEF TypeOK, RemoveUnhidden, files, handler
<1>2. ASSUME NEW i \in items, RestoreBegin(i) PROVE TypeOK'
  <2>1. job' \in Jobs
    BY <1>2 DEF TypeOK, RestoreBegin, Jobs, Items, ItemIds
  <2> QED BY <1>2, <2>1 DEF TypeOK, RestoreBegin, files, model
<1>3. CASE RemoveCommit
  <2>1. /\ job \in Jobs /\ RemoveModelItem(job.zone, job.id)
        /\ ManifestRemove(job.name)
    BY <1>3 DEF TypeOK, RemoveCommit
  <2>2. items' \subseteq Items /\ alive' \subseteq Zones /\ dirty' \in BOOLEAN
    BY <2>1, RemoveModelItemType DEF Jobs
  <2>3. manifest' \subseteq Entries /\ exposed' \subseteq Files
    BY <2>1, ManifestRemoveType DEF Jobs
  <2> QED BY <1>3, <2>2, <2>3 DEF TypeOK, RemoveCommit, GoIdle, files
<1> QED BY <1>1, <1>2, <1>3 DEF RemoveItem

LEMMA TypeRestoreFile == TypeOK /\ JobStored /\ RestoreFile => TypeOK'
<1> SUFFICES ASSUME TypeOK, JobStored, RestoreFile PROVE TypeOK'
  OBVIOUS
<1> USE DEF Pcs
<1>1. CASE RestoreByRename
  BY <1>1 DEF TypeOK, RestoreByRename, Jobs, model
<1>2. CASE RestoreByCopy
  BY <1>2 DEF TypeOK, RestoreByCopy, Jobs, model
<1>3. CASE RestoreCopyFinish
  BY <1>3 DEF TypeOK, RestoreCopyFinish, Jobs, model
<1>4. ASSUME pc \in {"restoreChecked", "restoreCopied"}, RestoreFails
      PROVE  /\ items' \subseteq Items /\ alive' \subseteq Zones /\ dirty' \in BOOLEAN
             /\ exposed' \subseteq Files
  <2>1. job \in Jobs /\ hidden[job.hid] \in Files
    BY <1>4 DEF TypeOK, JobStored, Jobs
  <2>2. CASE job.why = "remove"
    BY <1>4, <2>2 DEF RestoreFails, model, TypeOK
  <2>3. CASE job.why = "add"
    <3>1. AddModelItem(job.zone, job.name, job.hid)
      BY <1>4, <2>3 DEF RestoreFails, KeepHiddenWithoutManifest
    <3>2. items' \subseteq Items /\ alive' \subseteq Zones /\ dirty' \in BOOLEAN
      BY <2>1, <3>1, AddModelItemType DEF Jobs
    <3> QED BY <1>4, <2>1, <2>3, <3>2 DEF RestoreFails, KeepHiddenWithoutManifest, TypeOK
  <2> QED BY <2>1, <2>2, <2>3 DEF Jobs
<1>5. CASE RestoreCopyAbort
  BY <1>4, <1>5 DEF TypeOK, RestoreCopyAbort, RestoreFails, GoIdle
<1>6. CASE RestoreGivesUp
  BY <1>4, <1>6 DEF TypeOK, RestoreGivesUp, RestoreFails, GoIdle, files
<1> QED BY <1>1, <1>2, <1>3, <1>5, <1>6 DEF RestoreFile

(* The file an item stands for is a user's file when it is there. *)
LEMMA TakeFileOfType ==
  ASSUME TypeOK, NEW i \in Items, TakeFileOf(i)
  PROVE  /\ desktop' \in [Names -> Files \cup {NoFile}]
         /\ hidden' \in [HiddenPaths -> Files \cup {NoFile}]
         /\ released' \subseteq Files
BY DEF TypeOK, TakeFileOf, FileOf, Items

LEMMA TypeItemFileOps == TypeOK /\ ItemFileOps => TypeOK'
<1> SUFFICES ASSUME TypeOK, NEW i \in items,
                    \/ \E z \in Zones : MoveLayoutOnly(i, z) \/ MoveWithFile(i, z)
                    \/ \E n \in Names : RenameHidden(i, n) \/ RenameUnhidden(i, n)
                    \/ RecycleItemFile(i)
             PROVE  TypeOK'
  BY DEF ItemFileOps
<1>0. i \in Items
  BY DEF TypeOK
<1>1. ASSUME NEW z \in Zones, MoveLayoutOnly(i, z) PROVE TypeOK'
  <2>1. items' \subseteq Items /\ alive' \subseteq Zones /\ dirty' \in BOOLEAN
    BY <1>0, <1>1, MoveModelItemType DEF MoveLayoutOnly, Items
  <2>2. hidden' \in [HiddenPaths -> Files \cup {NoFile}]
    <3>1. CASE UNCHANGED hidden
      BY <3>1 DEF TypeOK
    <3>2. CASE i.hid # NoPath /\ hidden' = [hidden EXCEPT ![[i.hid EXCEPT !.zone = z]] = hidden[i.hid]]
      <4>1. i.hid \in HiddenPaths
        BY <1>0, <3>2 DEF Items
      <4>2. \A x : [hidden EXCEPT ![x] = hidden[i.hid]] \in [HiddenPaths -> Files \cup {NoFile}]
        BY <4>1 DEF TypeOK
      <4> QED BY <3>2, <4>2
    <3> QED BY <1>1, <3>1, <3>2 DEF MoveLayoutOnly
  <2> QED BY <1>1, <2>1, <2>2 DEF TypeOK, MoveLayoutOnly, handler
<1>2. ASSUME NEW z \in Zones, MoveWithFile(i, z) PROVE TypeOK'
  <2> DEFINE target == [i.hid EXCEPT !.zone = z]
  <2>1. i.hid \in HiddenPaths /\ target \in HiddenPaths /\ hidden[i.hid] \in Files
    BY <1>0, <1>2 DEF MoveWithFile, Items, TypeOK, HiddenPaths
  <2>2. items' \subseteq Items /\ alive' \subseteq Zones /\ dirty' \in BOOLEAN
    BY <1>2, <2>1, MoveModelItemType DEF MoveWithFile
  <2> QED BY <1>2, <2>1, <2>2 DEF TypeOK, MoveWithFile, handler
<1>3. ASSUME NEW n \in Names, RenameHidden(i, n) PROVE TypeOK'
  <2> DEFINE target == [zone |-> i.hid.zone, leaf |-> n, alt |-> 0]
  <2>0. i.hid \in HiddenPaths /\ hidden[i.hid] \in Files
    BY <1>0, <1>3 DEF RenameHidden, Items, TypeOK
  <2>1. target \in HiddenPaths
    BY <2>0 DEF HiddenPaths
  <2>2. items' \subseteq Items /\ alive' \subseteq Zones /\ dirty' \in BOOLEAN
    BY <1>3, <2>1, RenameModelItemType DEF RenameHidden
  <2> QED BY <1>3, <2>0, <2>1, <2>2 DEF TypeOK, RenameHidden, handler
<1>4. ASSUME NEW n \in Names, RenameUnhidden(i, n) PROVE TypeOK'
  <2>1. items' \subseteq Items /\ alive' \subseteq Zones /\ dirty' \in BOOLEAN
    BY <1>4, RenameModelItemType DEF RenameUnhidden
  <2> QED BY <1>0, <1>4, <2>1 DEF TypeOK, RenameUnhidden, handler, Items
<1>5. CASE RecycleItemFile(i)
  BY <1>0, <1>5, TakeFileOfType, RemoveModelItemType DEF TypeOK, RecycleItemFile, handler
<1> QED BY <1>1, <1>2, <1>3, <1>4, <1>5

LEMMA TypeDragOut == TypeOK /\ DragOut => TypeOK'
<1> SUFFICES ASSUME TypeOK, DragOut PROVE TypeOK'
  OBVIOUS
<1>1. ASSUME NEW i \in items, DragBegin(i) PROVE TypeOK'
  BY <1>1 DEF TypeOK, DragBegin, files, model, handler
<1>2. CASE DragKeepsModel
  BY <1>2 DEF TypeOK, DragKeepsModel, files, model, handler
<1>3. CASE DragMoved
  <2>1. drag \in Items
    BY <1>3 DEF TypeOK, DragMoved
  <2> DEFINE removed == {i \in ItemsOf(drag.zone) : i.id = drag.id}
  <2>2. manifest' \subseteq Entries /\ exposed' \subseteq Files
    <3>1. removed \subseteq Items
      BY DEF ItemsOf, TypeOK
    <3>2. CASE UNCHANGED <<manifest, exposed>>
      BY <3>2 DEF TypeOK
    <3>3. CASE \E i \in removed : ManifestRemove(i.name)
      <4>1. PICK i \in removed : ManifestRemove(i.name)
        BY <3>3
      <4>2. i.name \in Names
        BY <3>1, <4>1 DEF Items
      <4> QED BY <4>1, <4>2, ManifestRemoveType
    <3> QED BY <1>3, <3>2, <3>3 DEF DragMoved, ForgetMovedOut
  <2>3. items' \subseteq Items /\ alive' \subseteq Zones /\ dirty' \in BOOLEAN
    BY <1>3 DEF DragMoved, TypeOK
  <2> QED BY <1>3, <2>1, <2>2, <2>3, TakeFileOfType DEF TypeOK, DragMoved, handler
<1> QED BY <1>1, <1>2, <1>3 DEF DragOut

LEMMA TypeUser == TypeOK /\ User => TypeOK'
<1> SUFFICES ASSUME TypeOK, User PROVE TypeOK'
  OBVIOUS
<1>1. ASSUME NEW f \in Files, NEW n \in Names, UserCreates(f, n) PROVE TypeOK'
  BY <1>1 DEF TypeOK, UserCreates, model, handler
<1>2. ASSUME NEW n \in Names, UserDeletes(n) PROVE TypeOK'
  BY <1>2 DEF TypeOK, UserDeletes, model, handler
<1> QED BY <1>1, <1>2 DEF User

LEMMA TypeOther ==
  ASSUME TypeOK, JobStored,
         (\E z \in Zones : DeleteZone(z)) \/ Flush \/ Crash \/ UNCHANGED vars
  PROVE  TypeOK'
<1> USE DEF Pcs
<1>1. ASSUME NEW z \in Zones, DeleteZone(z) PROVE TypeOK'
  BY <1>1 DEF TypeOK, DeleteZone, files, handler
<1>2. CASE Flush
  BY <1>2 DEF TypeOK, Flush, files, handler
<1>3. CASE Crash
  <2>1. exposed' \subseteq Files
    BY <1>3 DEF TypeOK, JobStored, Crash, Jobs
  <2> QED BY <1>3, <2>1 DEF TypeOK, Crash, GoIdle, files
<1>4. CASE UNCHANGED vars
  BY <1>4 DEF TypeOK, vars
<1> QED BY <1>1, <1>2, <1>3, <1>4

LEMMA TypeStep == TypeOK /\ JobStored /\ [Next]_vars => TypeOK'
BY TypeAddItem, TypeRemoveItem, TypeRestoreFile, TypeItemFileOps, TypeDragOut,
   TypeUser, TypeOther DEF Next

(* Whoever acts, the hidden file of the handler in flight stays. *)
LEMMA StoredStep == TypeOK /\ JobStored /\ [Next]_vars => JobStored'
<1> SUFFICES ASSUME TypeOK, JobStored, [Next]_vars PROVE JobStored'
  OBVIOUS
<1> USE DEF JobStored, TypeOK, Pcs
<1>1. CASE AddItem
  <2>1. ASSUME NEW z \in Zones, NEW n \in Names, HideByRename(z, n) PROVE JobStored'
    BY <2>1 DEF HideByRename, AddJob, CanAdd, UniqueHiddenPath
  <2>2. ASSUME NEW z \in Zones, NEW n \in Names, HideByCopy(z, n) PROVE JobStored'
    BY <2>2 DEF HideByCopy, AddJob, CanAdd, UniqueHiddenPath
  <2>3. ASSUME NEW z \in Zones, NEW n \in Names, AddUnhidden(z, n) PROVE JobStored'
    BY <2>3 DEF AddUnhidden, handler, files
  <2>4. CASE HideCopyFinish \/ HideRollback
    BY <2>4 DEF HideCopyFinish, HideRollback, files
  <2>5. CASE HideCopyAbort \/ HideCommit \/ HideUnrecorded \/ RollbackDone
    BY <2>5 DEF HideCopyAbort, HideCommit, HideUnrecorded, RollbackDone, GoIdle
  <2> QED BY <1>1, <2>1, <2>2, <2>3, <2>4, <2>5 DEF AddItem
<1>2. CASE RemoveItem
  BY <1>2 DEF RemoveItem, RemoveUnhidden, RestoreBegin, RemoveCommit, handler, files, GoIdle
<1>3. CASE RestoreFile
  BY <1>3 DEF RestoreFile, RestoreByRename, RestoreByCopy, RestoreCopyFinish,
              RestoreCopyAbort, RestoreGivesUp, RestoreFails, GoIdle, files
<1>4. CASE ItemFileOps
  BY <1>4 DEF ItemFileOps, MoveLayoutOnly, MoveWithFile, RenameHidden, RenameUnhidden,
              RecycleItemFile, CanMove, handler
<1>5. CASE DragOut
  BY <1>5 DEF DragOut, DragBegin, DragKeepsModel, DragMoved, handler
<1>6. CASE User
  BY <1>6 DEF User, UserCreates, UserDeletes, handler
<1>7. CASE (\E z \in Zones : DeleteZone(z)) \/ Flush \/ Crash \/ UNCHANGED vars
  BY <1>7 DEF DeleteZone, Flush, Crash, vars, handler, files, GoIdle
<1> QED BY <1>1, <1>2, <1>3, <1>4, <1>5, <1>6, <1>7 DEF Next

(* Every reachable state is well typed, whatever other programs do to the  *)
(* desktop: handlers write only user files, manifest entries and items of  *)
(* the declared ranges, and an item id never exceeds the largest one.      *)
THEOREM TypeCorrect == Spec => []TypeOK
<1>1. Init => TypeOK /\ JobStored
  BY TypeInit DEF Init, JobStored
<1>2. TypeOK /\ JobStored /\ [Next]_vars => (TypeOK /\ JobStored)'
  BY TypeStep, StoredStep
<1> QED BY <1>1, <1>2, PTL DEF Spec

----------------------------------------------------------------------------
(* Without programs that race a restore, a handler keeps its file.          *)

LEMMA JobHoldsFileStep ==
  ASSUME ~ConcurrentUser, TypeOK, JobHoldsFile, [Next]_vars
  PROVE  JobHoldsFile'
<1>1. JobStored'
  BY StoredStep DEF JobHoldsFile
<1>2. (pc = "restoreChecked" => desktop[job.name] = NoFile)'
  <2> SUFFICES ASSUME pc' = "restoreChecked" PROVE desktop'[job'.name] = NoFile
    OBVIOUS
  <2> USE DEF JobHoldsFile, TypeOK
  <2>1. CASE AddItem
    BY <2>1 DEF AddItem, HideByRename, HideByCopy, AddUnhidden, HideCopyFinish,
                HideCopyAbort, HideCommit, HideRollback, HideUnrecorded, RollbackDone,
                CanAdd, GoIdle, handler, files
  <2>2. CASE RemoveItem
    BY <2>2 DEF RemoveItem, RemoveUnhidden, RestoreBegin, RemoveCommit, handler, files, GoIdle
  <2>3. CASE RestoreFile
    BY <2>3 DEF RestoreFile, RestoreByRename, RestoreByCopy, RestoreCopyFinish,
                RestoreCopyAbort, RestoreGivesUp, RestoreFails, GoIdle
  <2>4. CASE ItemFileOps
    BY <2>4 DEF ItemFileOps, MoveLayoutOnly, MoveWithFile, RenameHidden, RenameUnhidden,
                RecycleItemFile, CanMove, handler
  <2>5. CASE DragOut
    BY <2>5 DEF DragOut, DragBegin, DragKeepsModel, DragMoved, handler
  <2>6. CASE User
    BY <2>6 DEF User, UserCreates, UserDeletes, handler, Jobs
  <2>7. CASE (\E z \in Zones : DeleteZone(z)) \/ Flush \/ Crash \/ UNCHANGED vars
    BY <2>7 DEF DeleteZone, Flush, Crash, vars, handler, files, GoIdle
  <2> QED BY <2>1, <2>2, <2>3, <2>4, <2>5, <2>6, <2>7 DEF Next
<1>3. (pc \in {"hideCopied", "restoreCopied"} => CopiesAgree)'
  <2> SUFFICES ASSUME pc' \in {"hideCopied", "restoreCopied"} PROVE CopiesAgree'
    OBVIOUS
  <2> USE DEF JobHoldsFile, TypeOK, CopiesAgree
  <2>1. CASE AddItem
    <3>1. ASSUME NEW z \in Zones, NEW n \in Names, HideByCopy(z, n) PROVE CopiesAgree'
      BY <3>1 DEF HideByCopy, AddJob, CanAdd, UniqueHiddenPath
    <3> QED BY <2>1, <3>1 DEF AddItem, HideByRename, AddUnhidden, HideCopyFinish,
                HideCopyAbort, HideCommit, HideRollback, HideUnrecorded, RollbackDone,
                CanAdd, GoIdle, handler, files
  <2>2. CASE RemoveItem
    BY <2>2 DEF RemoveItem, RemoveUnhidden, RestoreBegin, RemoveCommit, handler, files, GoIdle
  <2>3. CASE RestoreFile
    BY <2>3 DEF RestoreFile, RestoreByRename, RestoreByCopy, RestoreCopyFinish,
                RestoreCopyAbort, RestoreGivesUp, RestoreFails, GoIdle, Jobs
  <2>4. CASE ItemFileOps
    BY <2>4 DEF ItemFileOps, MoveLayoutOnly, MoveWithFile, RenameHidden, RenameUnhidden,
                RecycleItemFile, CanMove, handler
  <2>5. CASE DragOut
    BY <2>5 DEF DragOut, DragBegin, DragKeepsModel, DragMoved, handler
  <2>6. CASE User
    <3>1. job \in Jobs /\ hidden[job.hid] \in Files
      BY <2>6 DEF User, UserCreates, UserDeletes, handler, JobStored, Jobs
    <3>2. ASSUME NEW f \in Files, NEW n \in Names, UserCreates(f, n) PROVE CopiesAgree'
      BY <3>1, <3>2 DEF UserCreates, handler, Jobs
    <3>3. ASSUME NEW n \in Names, UserDeletes(n) PROVE CopiesAgree'
      BY <3>1, <3>3 DEF UserDeletes, handler, Jobs
    <3> QED BY <2>6, <3>2, <3>3 DEF User
  <2>7. CASE (\E z \in Zones : DeleteZone(z)) \/ Flush \/ Crash \/ UNCHANGED vars
    BY <2>7 DEF DeleteZone, Flush, Crash, vars, handler, files, GoIdle
  <2> QED BY <2>1, <2>2, <2>3, <2>4, <2>5, <2>6, <2>7 DEF Next
<1> QED BY <1>1, <1>2, <1>3 DEF JobHoldsFile

(* While no other program creates a file at the path a handler works on,   *)
(* a hide or restore in flight never loses its file: the stored copy is    *)
(* there until the restore has put it back, a restore never lands on an    *)
(* occupied path, and two copies are copies of one file.                   *)
THEOREM HandlersHoldFiles == ~ConcurrentUser => (Spec => []JobHoldsFile)
<1> SUFFICES ASSUME ~ConcurrentUser PROVE Spec => []JobHoldsFile
  OBVIOUS
<1>1. Init => JobHoldsFile
  BY DEF Init, JobHoldsFile, JobStored
<1>2. TypeOK /\ JobHoldsFile /\ [Next]_vars => JobHoldsFile'
  BY JobHoldsFileStep
<1> QED BY <1>1, <1>2, TypeCorrect, PTL DEF Spec

----------------------------------------------------------------------------
(* A stowed file stays recoverable, unless it is exposed.                   *)

(* No manifest operation drops the entry of a file it does not expose. *)
EntriesExposed ==
  \A e \in manifest : \/ e \in manifest' \/ hidden[e.hid] \in exposed' \cup {NoFile}

LEMMA ManifestAddCover ==
  ASSUME TypeOK, NEW n \in Names, NEW h \in HiddenPaths, ManifestAdd(n, h), UNCHANGED hidden
  PROVE  /\ \A f \in Files : InManifest(f) => InManifest(f)' \/ f \in exposed'
         /\ \A f \in Files : hidden[h] = f => InManifest(f)'
         /\ exposed \subseteq exposed'
<1> DEFINE entry == [orig |-> n, hid |-> h]
<1>1. entry \in manifest' /\ entry.hid = h
  BY DEF ManifestAdd
<1>2. \A f \in Files : hidden[h] = f => InManifest(f)'
  BY <1>1 DEF InManifest
<1>3. ASSUME NEW f \in Files, InManifest(f), ~InManifest(f)' PROVE f \in exposed'
  <2>1. PICK e \in manifest : hidden[e.hid] = f
    BY <1>3 DEF InManifest
  <2>2. e.orig = n /\ f # hidden[h]
    BY <1>2, <1>3, <2>1 DEF ManifestAdd, InManifest
  <2> QED BY <2>1, <2>2 DEF ManifestAdd, LosesCover
<1> QED BY <1>2, <1>3 DEF ManifestAdd

LEMMA ManifestRemoveCover ==
  ASSUME NEW n, ManifestRemove(n)
  PROVE  EntriesExposed /\ exposed \subseteq exposed'
BY DEF ManifestRemove, EntriesExposed, LosesCover

(* What a step may do to a file without touching its cover. *)
LEMMA CoverKept ==
  ASSUME NEW f \in Files, Recoverable(f),
         released \subseteq released', exposed \subseteq exposed',
         Stowed(f)' => Stowed(f),
         OnDesktop(f) \/ InManifest(f) \/ InFlight(f) =>
           OnDesktop(f)' \/ InManifest(f)' \/ InFlight(f)' \/ f \in released' \cup exposed'
  PROVE  Recoverable(f)'
BY DEF Recoverable

LEMMA RecoverableAddItem ==
  ASSUME TypeOK, JobHoldsFile, NEW f \in Files, Recoverable(f), AddItem
  PROVE  Recoverable(f)'
<1> USE DEF TypeOK
<1>1. ASSUME NEW z \in Zones, NEW n \in Names, HideByRename(z, n) PROVE Recoverable(f)'
  <2>1. PICK h \in HiddenPaths : /\ hidden[h] = NoFile
                                 /\ hidden' = [hidden EXCEPT ![h] = desktop[n]]
                                 /\ job' = [why |-> "add", zone |-> z, id |-> 0,
                                            name |-> n, hid |-> h]
    BY <1>1 DEF HideByRename, UniqueHiddenPath, AddJob
  <2>2. /\ pc = "idle" /\ pc' = "hideStored" /\ UNCHANGED <<manifest, released, exposed>>
        /\ desktop' = [desktop EXCEPT ![n] = NoFile]
    BY <1>1 DEF HideByRename, CanAdd
  <2>3. CASE desktop[n] = f
    BY <2>1, <2>2, <2>3 DEF Recoverable, InFlight
  <2>4. CASE desktop[n] # f
    <3>1. OnDesktop(f) => OnDesktop(f)'
      BY <2>2, <2>4 DEF OnDesktop
    <3>2. InManifest(f) => InManifest(f)'
      BY <2>1, <2>2 DEF InManifest, Entries
    <3>3. Stowed(f)' => Stowed(f)
      BY <2>1, <2>4 DEF Stowed
    <3>4. ~InFlight(f)
      BY <2>2 DEF InFlight
    <3> QED BY <2>2, <3>1, <3>2, <3>3, <3>4, CoverKept
  <2> QED BY <2>3, <2>4
<1>2. ASSUME NEW z \in Zones, NEW n \in Names, HideByCopy(z, n) PROVE Recoverable(f)'
  <2>1. PICK h \in HiddenPaths : /\ hidden[h] = NoFile
                                 /\ hidden' = [hidden EXCEPT ![h] = desktop[n]]
    BY <1>2 DEF HideByCopy, UniqueHiddenPath
  <2>2. pc = "idle" /\ pc' = "hideCopied" /\ UNCHANGED <<desktop, manifest, released, exposed>>
    BY <1>2 DEF HideByCopy, CanAdd
  <2>3. OnDesktop(f) => OnDesktop(f)'
    BY <2>2 DEF OnDesktop
  <2>4. InManifest(f) => InManifest(f)'
    BY <2>1, <2>2 DEF InManifest, Entries
  <2>5. Stowed(f)' => Stowed(f) \/ OnDesktop(f)'
    BY <2>1, <2>2 DEF Stowed, OnDesktop
  <2>6. ~InFlight(f)
    BY <2>2 DEF InFlight
  <2> QED BY <2>2, <2>3, <2>4, <2>5, <2>6 DEF Recoverable
<1>3. ASSUME NEW z \in Zones, NEW n \in Names, AddUnhidden(z, n) PROVE Recoverable(f)'
  BY <1>3 DEF AddUnhidden, files, handler, Recoverable, Stowed, OnDesktop, InManifest, InFlight
<1>4. CASE HideCopyFinish
  <2>1. job \in Jobs /\ job.why = "add" /\ desktop[job.name] = hidden[job.hid]
    BY <1>4 DEF HideCopyFinish, JobHoldsFile, JobStored, CopiesAgree
  <2>2. /\ pc = "hideCopied" /\ pc' = "hideStored"
        /\ UNCHANGED <<hidden, manifest, job, released, exposed>>
        /\ desktop' = [desktop EXCEPT ![job.name] = NoFile]
    BY <1>4 DEF HideCopyFinish
  <2>3. CASE hidden[job.hid] = f
    BY <2>1, <2>2, <2>3 DEF Recoverable, InFlight
  <2>4. CASE hidden[job.hid] # f
    <3>1. OnDesktop(f) => OnDesktop(f)'
      BY <2>1, <2>2, <2>4 DEF OnDesktop
    <3> QED BY <2>2, <3>1 DEF Recoverable, Stowed, InManifest, InFlight
  <2> QED BY <2>3, <2>4
<1>5. CASE HideCopyAbort
  <2>1. job \in Jobs /\ CopiesAgree
    BY <1>5 DEF HideCopyAbort, JobHoldsFile
  <2>2. /\ pc = "hideCopied" /\ pc' = "idle" /\ UNCHANGED <<desktop, manifest, released, exposed>>
        /\ hidden' \in {hidden, [hidden EXCEPT ![job.hid] = NoFile]}
    BY <1>5 DEF HideCopyAbort, GoIdle
  <2>3. OnDesktop(f) => OnDesktop(f)'
    BY <2>2 DEF OnDesktop
  <2>4. InManifest(f) => InManifest(f)' \/ hidden[job.hid] = f
    BY <2>1, <2>2 DEF InManifest, Entries, Jobs
  <2>5. hidden[job.hid] = f => OnDesktop(f)' \/ f \in released
    BY <2>1, <2>2 DEF CopiesAgree, OnDesktop, Jobs
  <2>6. Stowed(f)' => Stowed(f)
    BY <2>2 DEF Stowed
  <2>7. ~InFlight(f)
    BY <2>2 DEF InFlight
  <2> QED BY <2>2, <2>3, <2>4, <2>5, <2>6, <2>7 DEF Recoverable
<1>6. CASE HideCommit
  <2>1. job \in Jobs /\ ManifestAdd(job.name, job.hid) /\ pc = "hideStored"
        /\ pc' = "idle" /\ UNCHANGED <<desktop, hidden, released>>
    BY <1>6 DEF HideCommit, GoIdle, files
  <2>2. /\ InManifest(f) => InManifest(f)' \/ f \in exposed'
        /\ hidden[job.hid] = f => InManifest(f)'
        /\ exposed \subseteq exposed'
    BY <2>1, ManifestAddCover DEF Jobs
  <2>3. InFlight(f) => InManifest(f)'
    BY <2>2 DEF InFlight
  <2>4. OnDesktop(f) => OnDesktop(f)'
    BY <2>1 DEF OnDesktop
  <2> QED BY <2>1, <2>2, <2>3, <2>4, CoverKept DEF Stowed
<1>7. CASE HideRollback
  BY <1>7 DEF HideRollback, files, model, Recoverable, Stowed, OnDesktop, InManifest, InFlight
<1>8. CASE HideUnrecorded
  BY <1>8 DEF HideUnrecorded, KeepHiddenWithoutManifest, GoIdle, files,
              Recoverable, Stowed, OnDesktop, InManifest, InFlight
<1>9. CASE RollbackDone
  BY <1>9 DEF RollbackDone, GoIdle, files,
              Recoverable, Stowed, OnDesktop, InManifest, InFlight
<1> QED BY <1>1, <1>2, <1>3, <1>4, <1>5, <1>6, <1>7, <1>8, <1>9 DEF AddItem

LEMMA RecoverableRemoveItem ==
  ASSUME TypeOK, NEW f \in Files, Recoverable(f), RemoveItem
  PROVE  Recoverable(f)'
<1> USE DEF TypeOK
<1>1. ASSUME NEW i \in items, RemoveUnhidden(i) PROVE Recoverable(f)'
  BY <1>1 DEF RemoveUnhidden, files, handler, Recoverable, Stowed, OnDesktop, InManifest, InFlight
<1>2. ASSUME NEW i \in items, RestoreBegin(i) PROVE Recoverable(f)'
  BY <1>2 DEF RestoreBegin, files, Recoverable, Stowed, OnDesktop, InManifest, InFlight
<1>3. CASE RemoveCommit
  <2>1. /\ pc = "restoreMoved" /\ pc' = "idle" /\ UNCHANGED <<desktop, hidden, released>>
        /\ ManifestRemove(job.name)
    BY <1>3 DEF RemoveCommit, GoIdle, files
  <2>2. InManifest(f) => InManifest(f)' \/ f \in exposed'
    BY <2>1, ManifestRemoveCover DEF EntriesExposed, InManifest
  <2>3. OnDesktop(f) => OnDesktop(f)'
    BY <2>1 DEF OnDesktop
  <2>4. ~InFlight(f)
    BY <2>1 DEF InFlight
  <2> QED BY <2>1, <2>2, <2>3, <2>4, CoverKept, ManifestRemoveCover DEF Stowed
<1> QED BY <1>1, <1>2, <1>3 DEF RemoveItem

LEMMA RecoverableRestoreFile ==
  ASSUME TypeOK, JobHoldsFile, NEW f \in Files, Recoverable(f), RestoreFile
  PROVE  Recoverable(f)'
<1> USE DEF TypeOK
<1>1. CASE RestoreByRename
  <2>1. job \in Jobs /\ desktop[job.name] = NoFile
    BY <1>1 DEF RestoreByRename, JobHoldsFile
  <2>2. /\ pc = "restoreChecked" /\ pc' = "restoreMoved"
        /\ UNCHANGED <<manifest, job, released, exposed>>
        /\ desktop' = [desktop EXCEPT ![job.name] = hidden[job.hid]]
        /\ hidden' = [hidden EXCEPT ![job.hid] = NoFile]
    BY <1>1 DEF RestoreByRename
  <2>3. CASE hidden[job.hid] = f
    BY <2>1, <2>2, <2>3 DEF Recoverable, OnDesktop, Jobs
  <2>4. CASE hidden[job.hid] # f
    <3>1. OnDesktop(f) => OnDesktop(f)'
      BY <2>1, <2>2 DEF OnDesktop, Jobs
    <3>2. InManifest(f) => InManifest(f)'
      BY <2>2, <2>4 DEF InManifest, Entries
    <3>3. Stowed(f)' => Stowed(f)
      BY <2>2 DEF Stowed
    <3>4. ~InFlight(f)
      BY <2>4 DEF InFlight
    <3> QED BY <2>2, <3>1, <3>2, <3>3, <3>4, CoverKept
  <2> QED BY <2>3, <2>4
<1>2. CASE RestoreByCopy
  <2>1. job \in Jobs /\ desktop[job.name] = NoFile
    BY <1>2 DEF RestoreByCopy
  <2>2. /\ pc = "restoreChecked" /\ pc' = "restoreCopied"
        /\ UNCHANGED <<hidden, manifest, job, released, exposed>>
        /\ desktop' = [desktop EXCEPT ![job.name] = hidden[job.hid]]
    BY <1>2 DEF RestoreByCopy
  <2>3. OnDesktop(f) => OnDesktop(f)'
    BY <2>1, <2>2 DEF OnDesktop, Jobs
  <2> QED BY <2>2, <2>3, CoverKept DEF Stowed, InManifest, InFlight
<1>3. CASE RestoreCopyFinish
  <2>1. job \in Jobs /\ CopiesAgree
    BY <1>3 DEF RestoreCopyFinish, JobHoldsFile
  <2>2. /\ pc = "restoreCopied" /\ pc' = "restoreMoved"
        /\ UNCHANGED <<desktop, manifest, job, released, exposed>>
        /\ hidden' = [hidden EXCEPT ![job.hid] = NoFile]
    BY <1>3 DEF RestoreCopyFinish
  <2>3. hidden[job.hid] = f => OnDesktop(f)' \/ f \in released
    BY <2>1, <2>2 DEF CopiesAgree, OnDesktop, Jobs
  <2>4. OnDesktop(f) => OnDesktop(f)'
    BY <2>2 DEF OnDesktop
  <2>5. InManifest(f) => InManifest(f)' \/ hidden[job.hid] = f
    BY <2>1, <2>2 DEF InManifest, Entries, Jobs
  <2>6. Stowed(f)' => Stowed(f)
    BY <2>2 DEF Stowed
  <2> QED BY <2>2, <2>3, <2>4, <2>5, <2>6 DEF Recoverable, InFlight
<1>4. ASSUME pc \in {"restoreChecked", "restoreCopied"}, RestoreFails, UNCHANGED <<hidden, manifest, released>>,
             desktop' \in {desktop, [desktop EXCEPT ![job.name] = NoFile]},
             pc = "restoreChecked" => UNCHANGED desktop
      PROVE  Recoverable(f)'
  <2>1. pc' = "idle" /\ exposed \subseteq exposed'
    BY <1>4 DEF RestoreFails, GoIdle, KeepHiddenWithoutManifest
  <2>2. InFlight(f) => f \in exposed'
    BY <1>4 DEF InFlight, RestoreFails, KeepHiddenWithoutManifest
  <2>3. OnDesktop(f) => OnDesktop(f)'
    BY <1>4, <2>1 DEF OnDesktop
  <2> QED BY <1>4, <2>1, <2>2, <2>3, CoverKept DEF Stowed, InManifest
<1>5. CASE RestoreCopyAbort
  BY <1>4, <1>5 DEF RestoreCopyAbort
<1>6. CASE RestoreGivesUp
  BY <1>4, <1>6 DEF RestoreGivesUp, files
<1> QED BY <1>1, <1>2, <1>3, <1>5, <1>6 DEF RestoreFile

(* A hidden file that moves inside the hidden tree is exposed; the entry of *)
(* another file never leads to either end of the move.                      *)
LEMMA RecoverableMovedFile ==
  ASSUME TypeOK, NEW f \in Files, Recoverable(f), pc = "idle", pc' = "idle",
         NEW from \in HiddenPaths, NEW to \in HiddenPaths,
         hidden[to] = NoFile, hidden[from] # NoFile,
         hidden' = [hidden EXCEPT ![from] = NoFile, ![to] = hidden[from]],
         exposed' = exposed \cup {hidden[from]},
         UNCHANGED <<desktop, manifest, released>>
  PROVE  Recoverable(f)'
<1> USE DEF TypeOK
<1>1. CASE hidden[from] = f
  BY <1>1 DEF Recoverable
<1>2. CASE hidden[from] # f
  <2>1. Stowed(f)' => Stowed(f)
    BY <1>2 DEF Stowed
  <2>2. InManifest(f) => InManifest(f)'
    BY <1>2 DEF InManifest, Entries
  <2>3. OnDesktop(f) => OnDesktop(f)'
    BY DEF OnDesktop
  <2>4. ~InFlight(f)
    BY DEF InFlight
  <2> QED BY <2>1, <2>2, <2>3, <2>4, CoverKept
<1> QED BY <1>1, <1>2

(* The file an item stands for is given up, no other loses its place. *)
LEMMA TakeFileOfCover ==
  ASSUME TypeOK, NEW f \in Files, NEW i \in Items, TakeFileOf(i),
         pc = "idle", pc' = "idle", f \notin released'
  PROVE  /\ Stowed(f)' => Stowed(f)
         /\ OnDesktop(f) => OnDesktop(f)'
         /\ \A e \in manifest : hidden[e.hid] = f => hidden'[e.hid] = f
<1> USE DEF TypeOK, Items, Entries, TakeFileOf, FileOf
<1>1. Stowed(f)' => Stowed(f)
  BY DEF Stowed
<1>2. OnDesktop(f) => OnDesktop(f)'
  BY DEF OnDesktop
<1>3. \A e \in manifest : hidden[e.hid] = f => hidden'[e.hid] = f
  OBVIOUS
<1> QED BY <1>1, <1>2, <1>3

LEMMA RecoverableItemFileOps ==
  ASSUME TypeOK, NEW f \in Files, Recoverable(f), ItemFileOps
  PROVE  Recoverable(f)'
<1> SUFFICES ASSUME NEW i \in items,
                    \/ \E z \in Zones : MoveLayoutOnly(i, z) \/ MoveWithFile(i, z)
                    \/ \E n \in Names : RenameHidden(i, n) \/ RenameUnhidden(i, n)
                    \/ RecycleItemFile(i)
             PROVE  Recoverable(f)'
  BY DEF ItemFileOps
<1> USE DEF TypeOK
<1>0. i \in Items /\ (i.hid # NoPath => i.hid \in HiddenPaths)
  BY DEF Items
<1>1. ASSUME NEW z \in Zones, MoveLayoutOnly(i, z) PROVE Recoverable(f)'
  <2> DEFINE target == [i.hid EXCEPT !.zone = z]
  <2>1. /\ pc = "idle" /\ UNCHANGED <<desktop, manifest, handler, released, exposed>>
        /\ \/ UNCHANGED hidden
           \/ /\ i.hid # NoPath /\ hidden[target] = NoFile
              /\ hidden' = [hidden EXCEPT ![target] = hidden[i.hid]]
    BY <1>1 DEF MoveLayoutOnly, CanMove
  <2>2. Stowed(f)' => Stowed(f)
    <3> HIDE DEF target
    <3> QED BY <1>0, <2>1 DEF Stowed
  <2>3. InManifest(f) => InManifest(f)'
    <3> HIDE DEF target
    <3> QED BY <1>0, <2>1 DEF InManifest, Entries
  <2> HIDE DEF target
  <2>4. OnDesktop(f) => OnDesktop(f)'
    BY <2>1 DEF OnDesktop, handler
  <2>5. ~InFlight(f)
    BY <2>1 DEF InFlight
  <2> QED BY <2>1, <2>2, <2>3, <2>4, <2>5, CoverKept
<1>2. ASSUME NEW z \in Zones, MoveWithFile(i, z) PROVE Recoverable(f)'
  <2> DEFINE target == [i.hid EXCEPT !.zone = z]
  <2>1. /\ pc = "idle" /\ UNCHANGED <<desktop, manifest, handler, released>>
        /\ i.hid # NoPath /\ hidden[i.hid] # NoFile /\ hidden[target] = NoFile
        /\ hidden' = [hidden EXCEPT ![i.hid] = NoFile, ![target] = hidden[i.hid]]
        /\ exposed' = exposed \cup {hidden[i.hid]}
    BY <1>2 DEF MoveWithFile, CanMove
  <2>2. i.hid \in HiddenPaths /\ target \in HiddenPaths
    BY <1>0, <2>1 DEF HiddenPaths
  <2> HIDE DEF target
  <2> QED BY <2>1, <2>2, RecoverableMovedFile DEF handler
<1>3. ASSUME NEW n \in Names, RenameHidden(i, n) PROVE Recoverable(f)'
  <2> DEFINE target == [zone |-> i.hid.zone, leaf |-> n, alt |-> 0]
  <2>1. /\ pc = "idle" /\ UNCHANGED <<desktop, manifest, handler, released>>
        /\ i.hid # NoPath /\ hidden[i.hid] # NoFile /\ hidden[target] = NoFile
        /\ hidden' = [hidden EXCEPT ![i.hid] = NoFile, ![target] = hidden[i.hid]]
        /\ exposed' = exposed \cup {hidden[i.hid]}
    BY <1>3 DEF RenameHidden
  <2>2. i.hid \in HiddenPaths
    BY <1>0, <2>1
  <2>3. target \in HiddenPaths
    BY <2>2 DEF HiddenPaths
  <2> HIDE DEF target
  <2> QED BY <2>1, <2>2, <2>3, RecoverableMovedFile DEF handler
<1>4. ASSUME NEW n \in Names, RenameUnhidden(i, n) PROVE Recoverable(f)'
  <2>1. /\ pc = "idle" /\ UNCHANGED <<hidden, manifest, handler, released, exposed>>
        /\ desktop[n] = NoFile /\ desktop[i.name] # NoFile
        /\ desktop' = [desktop EXCEPT ![i.name] = NoFile, ![n] = desktop[i.name]]
    BY <1>4 DEF RenameUnhidden
  <2>2. OnDesktop(f) => OnDesktop(f)'
    BY <1>0, <2>1 DEF OnDesktop, handler, Items
  <2> QED BY <2>1, <2>2, CoverKept DEF Stowed, InManifest, InFlight, handler
<1>5. CASE RecycleItemFile(i)
  <2>1. /\ pc = "idle" /\ UNCHANGED <<manifest, handler, exposed>> /\ TakeFileOf(i)
    BY <1>5 DEF RecycleItemFile
  <2>2. released \subseteq released'
    BY <2>1 DEF TakeFileOf
  <2>3. CASE f \in released'
    BY <2>3 DEF Recoverable
  <2>4. CASE f \notin released'
    <3>1. /\ Stowed(f)' => Stowed(f)
          /\ OnDesktop(f) => OnDesktop(f)'
          /\ \A e \in manifest : hidden[e.hid] = f => hidden'[e.hid] = f
      BY <1>0, <2>1, <2>4, TakeFileOfCover DEF handler
    <3> QED BY <2>1, <2>2, <3>1, CoverKept DEF InManifest, InFlight
  <2> QED BY <2>3, <2>4
<1> QED BY <1>1, <1>2, <1>3, <1>4, <1>5

LEMMA RecoverableDragOut ==
  ASSUME TypeOK, NEW f \in Files, Recoverable(f), DragOut
  PROVE  Recoverable(f)'
<1>1. CASE (\E i \in items : DragBegin(i)) \/ DragKeepsModel
  BY <1>1 DEF DragBegin, DragKeepsModel, files, handler,
              Recoverable, Stowed, OnDesktop, InManifest, InFlight
<1>2. CASE DragMoved
  <2>1. /\ pc = "idle" /\ UNCHANGED handler /\ TakeFileOf(drag) /\ drag \in Items
        /\ released \subseteq released'
    BY <1>2 DEF DragMoved, TypeOK, TakeFileOf
  <2>2. EntriesExposed /\ exposed \subseteq exposed'
    <3>1. UNCHANGED <<manifest, exposed>> => EntriesExposed
      BY DEF EntriesExposed
    <3> QED BY <1>2, <3>1, ManifestRemoveCover DEF DragMoved, ForgetMovedOut
  <2>3. CASE f \in released'
    BY <2>3 DEF Recoverable
  <2>4. CASE f \notin released'
    <3>1. /\ Stowed(f)' => Stowed(f)
          /\ OnDesktop(f) => OnDesktop(f)'
          /\ \A e \in manifest : hidden[e.hid] = f => hidden'[e.hid] = f
      BY <2>1, <2>4, TakeFileOfCover DEF handler
    <3>2. InManifest(f) => InManifest(f)' \/ f \in exposed'
      BY <2>2, <3>1 DEF InManifest, EntriesExposed
    <3> QED BY <2>1, <2>2, <3>1, <3>2, CoverKept DEF InFlight
  <2> QED BY <2>3, <2>4
<1> QED BY <1>1, <1>2 DEF DragOut

LEMMA RecoverableUser ==
  ASSUME ~ConcurrentUser, TypeOK, NEW f \in Files, Recoverable(f), User
  PROVE  Recoverable(f)'
<1> USE DEF TypeOK
<1>1. ASSUME NEW g \in Files, NEW n \in Names, UserCreates(g, n) PROVE Recoverable(f)'
  <2>1. /\ desktop[n] = NoFile /\ desktop' = [desktop EXCEPT ![n] = g]
        /\ UNCHANGED <<hidden, manifest, handler, released, exposed>>
    BY <1>1 DEF UserCreates
  <2>2. OnDesktop(f) => OnDesktop(f)'
    BY <2>1 DEF OnDesktop, handler
  <2> QED BY <2>1, <2>2, CoverKept DEF Stowed, InManifest, InFlight, handler
<1>2. ASSUME NEW n \in Names, UserDeletes(n) PROVE Recoverable(f)'
  <2>1. /\ desktop' = [desktop EXCEPT ![n] = NoFile] /\ released' = released \cup {desktop[n]}
        /\ UNCHANGED <<hidden, manifest, handler, exposed>>
    BY <1>2 DEF UserDeletes
  <2>2. OnDesktop(f) => OnDesktop(f)' \/ f \in released'
    BY <2>1 DEF OnDesktop, handler
  <2> QED BY <2>1, <2>2, CoverKept DEF Stowed, InManifest, InFlight, handler
<1> QED BY <1>1, <1>2 DEF User

LEMMA RecoverableOther ==
  ASSUME TypeOK, JobHoldsFile, NEW f \in Files, Recoverable(f),
         (\E z \in Zones : DeleteZone(z)) \/ Flush \/ Crash \/ UNCHANGED vars
  PROVE  Recoverable(f)'
<1> USE DEF TypeOK
<1>1. CASE (\E z \in Zones : DeleteZone(z)) \/ Flush \/ UNCHANGED vars
  BY <1>1 DEF DeleteZone, Flush, vars, files, handler,
              Recoverable, Stowed, OnDesktop, InManifest, InFlight
<1>2. CASE Crash
  <2>1. /\ pc' = "idle" /\ UNCHANGED <<desktop, hidden, manifest, released>>
        /\ exposed' = IF pc \in {"hideStored", "restoreChecked"} /\ job.why = "add"
                      THEN exposed \cup {hidden[job.hid]} ELSE exposed
    BY <1>2 DEF Crash, GoIdle, files
  <2>2. OnDesktop(f) => OnDesktop(f)'
    BY <2>1 DEF OnDesktop
  <2>3. InFlight(f) => OnDesktop(f)' \/ f \in released' \cup exposed'
    <3>1. pc = "restoreCopied" => CopiesAgree /\ job \in Jobs
      BY DEF JobHoldsFile
    <3>2. pc = "restoreCopied" /\ InFlight(f) => OnDesktop(f)' \/ f \in released
      BY <2>1, <3>1 DEF InFlight, CopiesAgree, OnDesktop, Jobs
    <3> QED BY <2>1, <3>2 DEF InFlight
  <2> QED BY <2>1, <2>2, <2>3, CoverKept DEF Stowed, InManifest
<1> QED BY <1>1, <1>2

(* Without racing programs, every file in the hidden tree that the user has *)
(* not given up can be found through the manifest, is on the desktop too,   *)
(* or is the file of the hide in flight, unless one of the gaps the code    *)
(* has exposed it.  This holds through I/O failures at any file operation   *)
(* and a crash between any two of them.                                     *)
THEOREM FilesStayRecoverable == ~ConcurrentUser => (Spec => []RecoverableUnlessExposed)
<1> SUFFICES ASSUME ~ConcurrentUser PROVE Spec => []RecoverableUnlessExposed
  OBVIOUS
<1>1. Init => RecoverableUnlessExposed
  BY DEF Init, RecoverableUnlessExposed, Recoverable, Stowed
<1>2. TypeOK /\ JobHoldsFile /\ RecoverableUnlessExposed /\ [Next]_vars
      => RecoverableUnlessExposed'
  <2> SUFFICES ASSUME TypeOK, JobHoldsFile, [Next]_vars, NEW f \in Files, Recoverable(f)
               PROVE  Recoverable(f)'
    BY DEF RecoverableUnlessExposed
  <2> QED BY RecoverableAddItem, RecoverableRemoveItem, RecoverableRestoreFile,
             RecoverableItemFileOps, RecoverableDragOut, RecoverableUser,
             RecoverableOther DEF Next
<1>3. Spec => []JobHoldsFile
  BY HandlersHoldFiles
<1> QED BY <1>1, <1>2, <1>3, TypeCorrect, PTL DEF Spec

----------------------------------------------------------------------------
(* HiddenItems implements FileCustody.                                      *)

\* The step gives up no file but f, and where it writes, f or nothing was
\* there and f or nothing is there now.
OnlyTouches(f) ==
  /\ \A g \in Files \ {f} : g \in released' <=> g \in released
  /\ \A n \in Names : \/ desktop'[n] = desktop[n]
                      \/ {desktop[n], desktop'[n]} \subseteq {f, NoFile}
  /\ \A h \in HiddenPaths : \/ hidden'[h] = hidden[h]
                            \/ {hidden[h], hidden'[h]} \subseteq {f, NoFile}

\* The moves that FileCustody allows, and staying.
AllowedMove(p, q) ==
  \/ q = p
  \/ p = "absent" /\ q = "visible"
  \/ p = "visible" /\ q = "stowed"
  \/ p = "stowed" /\ q = "visible"
  \/ p \in {"visible", "stowed"} /\ q = "released"

LEMMA OthersStay ==
  ASSUME NEW f \in Files, OnlyTouches(f), NEW g \in Files \ {f}
  PROVE  Place(g)' = Place(g)
<1>1. Visible(g)' <=> Visible(g)
  BY DEF OnlyTouches, Visible
<1>2. Stowed(g)' <=> Stowed(g)
  BY DEF OnlyTouches, Stowed
<1> QED BY <1>1, <1>2 DEF OnlyTouches, Place

(* A step that changes the place of one file, in an allowed way, is a step of *)
(* FileCustody.                                                               *)
LEMMA OneFileMoves ==
  ASSUME NEW f \in Files, AllowedMove(Place(f), Place(f)'), OnlyTouches(f)
  PROVE  [Custody!Next]_PlaceOf
<1>1. \A g \in Files \ {f} : Place(g)' = Place(g)
  BY OthersStay
<1>2. PlaceOf' = [PlaceOf EXCEPT ![f] = Place(f)'] /\ PlaceOf[f] = Place(f)
  BY <1>1 DEF PlaceOf
<1>3. CASE Place(f)' = Place(f)
  BY <1>2, <1>3 DEF PlaceOf
<1>4. CASE Place(f)' # Place(f)
  <2>1. Custody!Appear(f) \/ Custody!Stow(f) \/ Custody!Return(f) \/ Custody!Release(f)
    BY <1>2, <1>4 DEF AllowedMove, Custody!Appear, Custody!Stow, Custody!Return,
       Custody!Release
  <2> QED BY <2>1 DEF Custody!Next
<1> QED BY <1>3, <1>4

LEMMA NoFileMoves ==
  ASSUME UNCHANGED <<desktop, hidden, released>>
  PROVE  [Custody!Next]_PlaceOf
BY DEF PlaceOf, Place, Visible, Stowed

LEMMA CustodyAddItem ==
  ASSUME TypeOK, JobHoldsFile, AddItem
  PROVE  [Custody!Next]_PlaceOf
<1> USE DEF TypeOK
<1>1. ASSUME NEW z \in Zones, NEW n \in Names, HideByRename(z, n)
      PROVE  [Custody!Next]_PlaceOf
  <2>1. PICK f \in Files : f = desktop[n]
    BY <1>1 DEF HideByRename, CanAdd
  <2>2. PICK h \in HiddenPaths : hidden[h] = NoFile /\ hidden' = [hidden EXCEPT ![h] = f]
    BY <1>1, <2>1 DEF HideByRename, UniqueHiddenPath
  <2>3. desktop' = [desktop EXCEPT ![n] = NoFile] /\ UNCHANGED released
    BY <1>1 DEF HideByRename
  <2>4. OnlyTouches(f)
    BY <2>1, <2>2, <2>3 DEF OnlyTouches
  <2>5. Visible(f) /\ Stowed(f)'
    BY <2>1, <2>2 DEF Visible, Stowed
  <2>6. AllowedMove(Place(f), Place(f)')
    BY <2>3, <2>5 DEF AllowedMove, Place
  <2> QED BY <2>4, <2>6, OneFileMoves
<1>2. ASSUME NEW z \in Zones, NEW n \in Names, HideByCopy(z, n)
      PROVE  [Custody!Next]_PlaceOf
  <2>1. PICK f \in Files : f = desktop[n]
    BY <1>2 DEF HideByCopy, CanAdd
  <2>2. PICK h \in HiddenPaths : hidden[h] = NoFile /\ hidden' = [hidden EXCEPT ![h] = f]
    BY <1>2, <2>1 DEF HideByCopy, UniqueHiddenPath
  <2>3. UNCHANGED <<desktop, released>>
    BY <1>2 DEF HideByCopy
  <2>4. OnlyTouches(f)
    BY <2>2, <2>3 DEF OnlyTouches
  <2>5. Visible(f) /\ Visible(f)'
    BY <2>1, <2>3 DEF Visible
  <2>6. AllowedMove(Place(f), Place(f)')
    BY <2>3, <2>5 DEF AllowedMove, Place
  <2> QED BY <2>4, <2>6, OneFileMoves
<1>3. CASE HideCopyFinish
  <2>1. job \in Jobs /\ job.name \in Names /\ job.hid \in HiddenPaths
    BY <1>3 DEF HideCopyFinish, Jobs
  <2>2. PICK f \in Files : f = desktop[job.name] /\ f = hidden[job.hid]
    BY <1>3, <2>1 DEF HideCopyFinish, JobHoldsFile, CopiesAgree
  <2>3. desktop' = [desktop EXCEPT ![job.name] = NoFile] /\ UNCHANGED <<hidden, released>>
    BY <1>3 DEF HideCopyFinish
  <2>4. OnlyTouches(f)
    BY <2>1, <2>2, <2>3 DEF OnlyTouches
  <2>5. Visible(f) /\ Stowed(f)'
    BY <2>1, <2>2, <2>3 DEF Visible, Stowed
  <2>6. AllowedMove(Place(f), Place(f)')
    BY <2>3, <2>5 DEF AllowedMove, Place
  <2> QED BY <2>4, <2>6, OneFileMoves
<1>4. CASE HideCopyAbort
  <2>1. job \in Jobs /\ job.name \in Names /\ job.hid \in HiddenPaths
    BY <1>4 DEF HideCopyAbort, Jobs
  <2>2. PICK f \in Files : f = hidden[job.hid]
    BY <1>4, <2>1 DEF HideCopyAbort, JobHoldsFile, JobStored
  <2>3. /\ hidden' \in {hidden, [hidden EXCEPT ![job.hid] = NoFile]}
        /\ UNCHANGED <<desktop, released>>
    BY <1>4 DEF HideCopyAbort
  <2>4. OnlyTouches(f)
    BY <2>1, <2>2, <2>3 DEF OnlyTouches
  <2>5. (Visible(f) /\ Visible(f)') \/ f \in released
    BY <1>4, <2>1, <2>2, <2>3 DEF HideCopyAbort, JobHoldsFile, CopiesAgree, Visible
  <2>6. AllowedMove(Place(f), Place(f)')
    BY <2>3, <2>5 DEF AllowedMove, Place
  <2> QED BY <2>4, <2>6, OneFileMoves
<1>5. CASE \/ \E z \in Zones, n \in Names : AddUnhidden(z, n)
           \/ HideCommit \/ HideRollback \/ HideUnrecorded \/ RollbackDone
  <2>1. UNCHANGED <<desktop, hidden, released>>
    BY <1>5 DEF AddUnhidden, HideCommit, HideRollback, HideUnrecorded, RollbackDone, files
  <2> QED BY <2>1, NoFileMoves
<1> QED BY <1>1, <1>2, <1>3, <1>4, <1>5 DEF AddItem

LEMMA CustodyRestoreFile ==
  ASSUME TypeOK, JobHoldsFile, RestoreFile
  PROVE  [Custody!Next]_PlaceOf
<1> USE DEF TypeOK
<1>0. job \in Jobs /\ job.name \in Names /\ job.hid \in HiddenPaths
  BY DEF RestoreFile, RestoreByRename, RestoreByCopy, RestoreCopyFinish,
         RestoreCopyAbort, RestoreGivesUp, Jobs
<1>1. PICK f \in Files : f = hidden[job.hid]
  BY <1>0 DEF RestoreFile, RestoreByRename, RestoreByCopy, RestoreCopyFinish,
         RestoreCopyAbort, RestoreGivesUp, JobHoldsFile, JobStored
<1>2. Stowed(f)
  BY <1>0, <1>1 DEF Stowed
<1>3. UNCHANGED released
  BY DEF RestoreFile, RestoreByRename, RestoreByCopy, RestoreCopyFinish,
         RestoreCopyAbort, RestoreGivesUp
<1>4. CASE RestoreByRename \/ RestoreByCopy
  <2>1. /\ desktop[job.name] = NoFile /\ desktop' = [desktop EXCEPT ![job.name] = f]
        /\ hidden' \in {hidden, [hidden EXCEPT ![job.hid] = NoFile]}
    BY <1>1, <1>4 DEF RestoreByRename, RestoreByCopy, JobHoldsFile
  <2>2. OnlyTouches(f)
    BY <1>0, <1>1, <1>3, <2>1 DEF OnlyTouches
  <2>3. Visible(f)'
    BY <1>0, <2>1 DEF Visible
  <2>4. AllowedMove(Place(f), Place(f)')
    BY <1>2, <1>3, <2>3 DEF AllowedMove, Place
  <2> QED BY <2>2, <2>4, OneFileMoves
<1>5. CASE RestoreCopyFinish
  <2>1. hidden' = [hidden EXCEPT ![job.hid] = NoFile] /\ UNCHANGED desktop
    BY <1>5 DEF RestoreCopyFinish
  <2>2. OnlyTouches(f)
    BY <1>0, <1>1, <1>3, <2>1 DEF OnlyTouches
  <2>3. (Visible(f) /\ Visible(f)') \/ f \in released
    BY <1>0, <1>1, <1>5, <2>1 DEF RestoreCopyFinish, JobHoldsFile, CopiesAgree, Visible
  <2>4. AllowedMove(Place(f), Place(f)')
    BY <1>3, <2>3 DEF AllowedMove, Place
  <2> QED BY <2>2, <2>4, OneFileMoves
<1>6. CASE RestoreCopyAbort
  <2>1. /\ desktop' \in {desktop, [desktop EXCEPT ![job.name] = NoFile]} /\ UNCHANGED hidden
        /\ desktop[job.name] \in {f, NoFile}
    BY <1>1, <1>6 DEF RestoreCopyAbort, JobHoldsFile, CopiesAgree
  <2>2. OnlyTouches(f)
    BY <1>0, <1>1, <1>3, <2>1 DEF OnlyTouches
  <2>3. Stowed(f)' /\ (Visible(f)' => Visible(f))
    BY <1>2, <2>1 DEF Stowed, Visible
  <2>4. AllowedMove(Place(f), Place(f)')
    BY <1>2, <1>3, <2>3 DEF AllowedMove, Place
  <2> QED BY <2>2, <2>4, OneFileMoves
<1>7. CASE RestoreGivesUp
  BY <1>3, <1>7, NoFileMoves DEF RestoreGivesUp, files
<1> QED BY <1>4, <1>5, <1>6, <1>7 DEF RestoreFile

(* A file that changes its path within the hidden tree stays stowed. *)
LEMMA CustodyMovedFile ==
  ASSUME TypeOK, NEW from \in HiddenPaths, NEW to \in HiddenPaths,
         hidden[from] # NoFile, hidden[to] = NoFile,
         \/ hidden' = [hidden EXCEPT ![from] = NoFile, ![to] = hidden[from]]
         \/ hidden' = [hidden EXCEPT ![to] = hidden[from]],
         UNCHANGED <<desktop, released>>
  PROVE  [Custody!Next]_PlaceOf
<1> USE DEF TypeOK
<1>1. PICK f \in Files : f = hidden[from]
  OBVIOUS
<1>2. OnlyTouches(f)
  BY <1>1 DEF OnlyTouches
<1>3. Stowed(f) /\ Stowed(f)' /\ (Visible(f)' <=> Visible(f))
  BY <1>1 DEF Stowed, Visible
<1>4. AllowedMove(Place(f), Place(f)')
  BY <1>3 DEF AllowedMove, Place
<1> QED BY <1>2, <1>4, OneFileMoves

(* Taking the file an item stands for is a release. *)
LEMMA CustodyTakeFileOf ==
  ASSUME TypeOK, NEW i \in Items, TakeFileOf(i)
  PROVE  [Custody!Next]_PlaceOf
<1> USE DEF TypeOK
<1>1. PICK f \in Files : f = FileOf(i)
  BY DEF TakeFileOf, FileOf, Items
<1>2. OnlyTouches(f)
  BY <1>1 DEF OnlyTouches, TakeFileOf, FileOf, Items
<1>3. Visible(f) \/ Stowed(f)
  BY <1>1 DEF FileOf, Visible, Stowed, Items
<1>4. f \in released'
  BY <1>1 DEF TakeFileOf
<1>5. AllowedMove(Place(f), Place(f)')
  BY <1>3, <1>4 DEF AllowedMove, Place
<1> QED BY <1>2, <1>5, OneFileMoves

LEMMA CustodyItemFileOps ==
  ASSUME TypeOK, ItemFileOps
  PROVE  [Custody!Next]_PlaceOf
<1> SUFFICES ASSUME NEW i \in items,
                    \/ \E z \in Zones : MoveLayoutOnly(i, z) \/ MoveWithFile(i, z)
                    \/ \E n \in Names : RenameHidden(i, n) \/ RenameUnhidden(i, n)
                    \/ RecycleItemFile(i)
             PROVE  [Custody!Next]_PlaceOf
  BY DEF ItemFileOps
<1>0. i \in Items /\ (i.hid # NoPath => i.hid \in HiddenPaths)
  BY DEF Items, TypeOK
<1>1. ASSUME NEW z \in Zones, MoveLayoutOnly(i, z) \/ MoveWithFile(i, z)
      PROVE  [Custody!Next]_PlaceOf
  <2> DEFINE target == [i.hid EXCEPT !.zone = z]
  <2>1. UNCHANGED <<desktop, released>>
    BY <1>1 DEF MoveLayoutOnly, MoveWithFile
  <2>2. CASE UNCHANGED hidden
    BY <2>1, <2>2, NoFileMoves
  <2>3. CASE ~UNCHANGED hidden
    <3>1. /\ i.hid # NoPath /\ hidden[i.hid] # NoFile /\ hidden[target] = NoFile
          /\ \/ hidden' = [hidden EXCEPT ![i.hid] = NoFile, ![target] = hidden[i.hid]]
             \/ hidden' = [hidden EXCEPT ![target] = hidden[i.hid]]
      BY <1>1, <2>3 DEF MoveLayoutOnly, MoveWithFile
    <3>2. i.hid \in HiddenPaths /\ target \in HiddenPaths
      BY <1>0, <3>1 DEF HiddenPaths
    <3> HIDE DEF target
    <3> QED BY <2>1, <3>1, <3>2, CustodyMovedFile
  <2> QED BY <2>2, <2>3
<1>2. ASSUME NEW n \in Names, RenameHidden(i, n)
      PROVE  [Custody!Next]_PlaceOf
  <2> DEFINE target == [zone |-> i.hid.zone, leaf |-> n, alt |-> 0]
  <2>1. /\ i.hid # NoPath /\ hidden[i.hid] # NoFile /\ hidden[target] = NoFile
        /\ hidden' = [hidden EXCEPT ![i.hid] = NoFile, ![target] = hidden[i.hid]]
        /\ UNCHANGED <<desktop, released>>
    BY <1>2 DEF RenameHidden
  <2>2. i.hid \in HiddenPaths
    BY <1>0, <2>1
  <2>3. target \in HiddenPaths
    BY <2>2 DEF HiddenPaths
  <2> HIDE DEF target
  <2> QED BY <2>1, <2>2, <2>3, CustodyMovedFile
<1>3. ASSUME NEW n \in Names, RenameUnhidden(i, n)
      PROVE  [Custody!Next]_PlaceOf
  <2>1. /\ desktop[n] = NoFile /\ desktop[i.name] # NoFile /\ i.name \in Names
        /\ desktop' = [desktop EXCEPT ![i.name] = NoFile, ![n] = desktop[i.name]]
        /\ UNCHANGED <<hidden, released>>
    BY <1>0, <1>3 DEF RenameUnhidden, Items
  <2>2. PICK f \in Files : f = desktop[i.name]
    BY <2>1 DEF TypeOK
  <2>3. OnlyTouches(f)
    BY <2>1, <2>2 DEF OnlyTouches, TypeOK
  <2>4. Visible(f) /\ Visible(f)'
    BY <2>1, <2>2 DEF Visible, TypeOK
  <2>5. AllowedMove(Place(f), Place(f)')
    BY <2>1, <2>4 DEF AllowedMove, Place
  <2> QED BY <2>3, <2>5, OneFileMoves
<1>4. CASE RecycleItemFile(i)
  BY <1>0, <1>4, CustodyTakeFileOf DEF RecycleItemFile
<1> QED BY <1>1, <1>2, <1>3, <1>4

LEMMA CustodyUser ==
  ASSUME TypeOK, User
  PROVE  [Custody!Next]_PlaceOf
<1> USE DEF TypeOK
<1>1. ASSUME NEW f \in Files, NEW n \in Names, UserCreates(f, n)
      PROVE  [Custody!Next]_PlaceOf
  <2>1. /\ ~Visible(f) /\ ~Stowed(f) /\ f \notin released /\ desktop[n] = NoFile
        /\ desktop' = [desktop EXCEPT ![n] = f] /\ UNCHANGED <<hidden, released>>
    BY <1>1 DEF UserCreates
  <2>2. OnlyTouches(f)
    BY <2>1 DEF OnlyTouches
  <2>3. Visible(f)'
    BY <2>1 DEF Visible
  <2>4. AllowedMove(Place(f), Place(f)')
    BY <2>1, <2>3 DEF AllowedMove, Place
  <2> QED BY <2>2, <2>4, OneFileMoves
<1>2. ASSUME NEW n \in Names, UserDeletes(n)
      PROVE  [Custody!Next]_PlaceOf
  <2>1. PICK f \in Files : f = desktop[n]
    BY <1>2 DEF UserDeletes
  <2>2. /\ released' = released \cup {f} /\ desktop' = [desktop EXCEPT ![n] = NoFile]
        /\ UNCHANGED hidden
    BY <1>2, <2>1 DEF UserDeletes
  <2>3. OnlyTouches(f)
    BY <2>1, <2>2 DEF OnlyTouches
  <2>4. Visible(f)
    BY <2>1 DEF Visible
  <2>5. AllowedMove(Place(f), Place(f)')
    BY <2>2, <2>4 DEF AllowedMove, Place
  <2> QED BY <2>3, <2>5, OneFileMoves
<1> QED BY <1>1, <1>2 DEF User

LEMMA CustodyOther ==
  ASSUME TypeOK,
         RemoveItem \/ DragOut \/ (\E z \in Zones : DeleteZone(z)) \/ Flush \/ Crash
         \/ UNCHANGED vars
  PROVE  [Custody!Next]_PlaceOf
<1>1. CASE DragMoved
  BY <1>1, CustodyTakeFileOf DEF DragMoved, TypeOK
<1>2. CASE ~DragMoved
  <2>1. UNCHANGED <<desktop, hidden, released>>
    BY <1>2 DEF RemoveItem, RemoveUnhidden, RestoreBegin, RemoveCommit, DragOut, DragBegin,
                DragKeepsModel, DeleteZone, Flush, Crash, vars, files
  <2> QED BY <2>1, NoFileMoves
<1> QED BY <1>1, <1>2

(* HiddenItems implements FileCustody while no other program races a        *)
(* handler: across hides, restores, moves, renames, failures of every file  *)
(* operation and crashes, a file the user has not given up is never lost    *)
(* and never replaced by another one.                                       *)
THEOREM CustodyIsKept == ~ConcurrentUser => (Spec => KeepsCustody)
<1> SUFFICES ASSUME ~ConcurrentUser PROVE Spec => KeepsCustody
  OBVIOUS
<1>1. Init => Custody!Init
  BY DEF Init, Custody!Init, PlaceOf, Place, Visible, Stowed
<1>2. TypeOK /\ JobHoldsFile /\ [Next]_vars => [Custody!Next]_PlaceOf
  BY CustodyAddItem, CustodyRestoreFile, CustodyItemFileOps, CustodyUser, CustodyOther
     DEF Next
<1>3. Spec => []JobHoldsFile
  BY HandlersHoldFiles
<1> QED BY <1>1, <1>2, <1>3, TypeCorrect, PTL DEF Spec, KeepsCustody, Custody!Spec

=============================================================================
