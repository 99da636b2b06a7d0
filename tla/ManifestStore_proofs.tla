------------------------- MODULE ManifestStore_proofs -------------------------
(***************************************************************************)
(* Proofs about ManifestStore, for every set of original paths.  As long   *)
(* as neither the final rename fails nor the process dies while the        *)
(* manifest is rotated away (Faults is empty; the run manifest_crash shows *)
(* what happens otherwise), the manifest that is loaded is the one the     *)
(* last successful save left, and the store is a register of entry lists.  *)
(***************************************************************************)
EXTENDS ManifestStore, TLAPS

(* What the proofs carry from step to step: no file of the manifest is     *)
(* ever torn, there is a manifest before it is rotated, the temporary file *)
(* is whole when it is swapped in, and without a manifest there is no      *)
(* backup either, but for the one Rotate has just made of it.              *)
FilesAreWhole ==
    /\ \A f \in {primary, backup} : Exists(f) => Readable(f)
    /\ (pc \in {"remove backup", "rotate"}) => Exists(primary)
    /\ (pc \in {"remove backup", "rotate", "swap"}) => tmp = Cached(staged)
    /\ ~Exists(primary) /\ pc # "swap" => ~Exists(backup)

SaveInv ==
    /\ TypeOK /\ FilesAreWhole
    /\ pc = "idle" <=> staged = NoManifest
    /\ Content = acked

LEMMA FileFacts ==
  /\ Absent \in File /\ Torn \in File /\ ~Exists(Absent)
  /\ \A m \in SUBSET Originals :
        /\ Cached(m) \in File /\ Exists(Cached(m)) /\ Readable(Cached(m))
        /\ Cached(m).value = m /\ m # NoManifest
  /\ \A f \in File : Readable(f) => Exists(f) /\ f.value \in SUBSET Originals
BY NoManifestAssumption DEF File, Absent, Torn, Cached, Exists, Readable

LEMMA SaveInvInit == Init => SaveInv
BY FileFacts DEF Init, SaveInv, TypeOK, FilesAreWhole, Content, RotatedAway, Entries, Readable, Absent

(* A save begins with the list it edited and disturbs no file.             *)
LEMMA BeginSaveStep ==
  ASSUME SaveInv, NEW entries \in SUBSET Originals, BeginSave(entries)
  PROVE  SaveInv' /\ Register!Begin(entries)
BY FileFacts DEF SaveInv, TypeOK, FilesAreWhole, BeginSave, Content, RotatedAway, Entries,
                 files, Register!Begin

(* Every step keeps SaveInv and is a step of the register, or none.        *)
LEMMA SaveStep ==
  ASSUME Faults = {}, SaveInv, [Next]_vars
  PROVE  SaveInv' /\ [Register!Next]_<<Content, staged>>
<1> USE FileFacts
<1>1. ASSUME NEW o \in Originals, ManifestAdd(o) \/ ManifestRemove(o)
      PROVE  SaveInv' /\ Register!Next
  <2>1. Entries \in SUBSET Originals
    BY <1>1 DEF ManifestAdd, ManifestRemove, SaveInv, Content, TypeOK, BeginSave, RotatedAway
  <2>2. PICK entries \in SUBSET Originals : BeginSave(entries)
    BY <1>1, <2>1 DEF ManifestAdd, ManifestRemove
  <2> QED BY <2>2, BeginSaveStep DEF Register!Next
<1>2. ASSUME NEW entries \in SUBSET Originals, PersistSnapshot(entries)
      PROVE  SaveInv' /\ Register!Next
  BY <1>2, BeginSaveStep DEF PersistSnapshot, Register!Next
<1> USE DEF SaveInv, TypeOK, FilesAreWhole, Content, RotatedAway, Entries
<1>3. CASE WriteTmp
  BY <1>3 DEF WriteTmp
<1>4. CASE WriteTmpFails
  BY <1>4 DEF WriteTmpFails, Return, Register!Next, Register!Abandon
<1>5. CASE RemoveBackup
  BY <1>5 DEF RemoveBackup
<1>6. CASE Rotate
  BY <1>6 DEF Rotate
<1>7. CASE RotateFails
  BY <1>7 DEF RotateFails, files
<1>8. CASE Swap
  BY <1>8 DEF Swap, Return, Register!Next, Register!Commit
<1>9. CASE SwapFails
  BY <1>9 DEF SwapFails, Return, files, Register!Next, Register!Abandon
<1>10. CASE ProcessDies
  BY <1>10 DEF ProcessDies, Return, Register!Next, Register!Abandon
<1>11. CASE UNCHANGED vars
  BY <1>11 DEF vars, files
<1> QED BY <1>1, <1>2, <1>3, <1>4, <1>5, <1>6, <1>7, <1>8, <1>9, <1>10, <1>11 DEF Next

(* Between two calls a load finds the list the last call that reported     *)
(* success left, whatever failed and wherever the process died since.      *)
THEOREM SavedManifestIsFound == Faults = {} => (Spec => []AcknowledgedManifestFound)
<1> SUFFICES ASSUME Faults = {} PROVE Spec => []AcknowledgedManifestFound
  OBVIOUS
<1>1. SaveInv /\ [Next]_vars => SaveInv'
  BY SaveStep
<1>2. SaveInv => AcknowledgedManifestFound
  BY DEF SaveInv, AcknowledgedManifestFound, Content, RotatedAway
<1> QED BY <1>1, <1>2, SaveInvInit, PTL DEF Spec

(* ManifestStore implements DurableRegister: a save, however it fails and  *)
(* wherever the process dies, takes effect as a whole or not at all.       *)
THEOREM SavesAreAtomic == Faults = {} => (Spec => ImplementsRegister)
<1> SUFFICES ASSUME Faults = {} PROVE Spec => ImplementsRegister
  OBVIOUS
<1>1. Init => Register!Init
  BY FileFacts DEF Init, Register!Init, Content, RotatedAway, Entries, Readable, Absent
<1>2. SaveInv /\ [Next]_vars => SaveInv' /\ [Register!Next]_<<Content, staged>>
  BY SaveStep
<1> QED BY <1>1, <1>2, SaveInvInit, PTL DEF Spec, ImplementsRegister, Register!Spec
=============================================================================
