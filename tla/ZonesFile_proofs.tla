--------------------------- MODULE ZonesFile_proofs ---------------------------
(***************************************************************************)
(* Proofs about ZonesFile, for every set of layouts.  Where every layout   *)
(* that can be written can be read back (TooBig is empty; TLC refutes both *)
(* results otherwise), no failure to read the file and no failure to write *)
(* the healed layout loses a saved layout.  Whatever fails, a start keeps  *)
(* a layout it holds and that counts as saved.                             *)
(***************************************************************************)
EXTENDS ZonesFile, TLAPS

(* What the proofs carry from step to step: the history variable names     *)
(* what zones.bin holds; until the first paint is over the layout in       *)
(* memory is empty, the one of the file, or the bundle's while there is no *)
(* file; a process that has read the file shows it.                        *)
SavedIsInFile == saved = LayoutOf(file)
StartShowsFile ==
    (phase \in {"heal", "load", "paint"}) =>
        memory \in {Empty, LayoutOf(file)} \/ ~Exists(file)
ReadFileIsShown ==
    /\ (phase \in {"heal", "load"}) => ~seen
    /\ phase = "paint" /\ seen => memory = LayoutOf(file)

LifeInv ==
    /\ TypeOK
    /\ SavedIsInFile /\ StartShowsFile /\ ReadFileIsShown /\ CleanMeansSaved

LEMMA FileFacts ==
  /\ Absent \in File /\ Torn \in File
  /\ \A v \in Layouts : Synced(v) \in File /\ Exists(Synced(v))
  /\ ~Exists(Absent) /\ LayoutOf(Absent) = Empty
  /\ \A f \in File : LayoutOf(f) \in Layouts
  /\ \A f \in File : ~Decodes(f) => LayoutOf(f) = Empty
  /\ \A v \in Layouts \ TooBig : LayoutOf(Synced(v)) = v
BY LayoutsAssumption
   DEF File, Absent, Torn, Synced, Exists, Decodes, Readable, LayoutOf

LEMMA LifeInvInit == Init => LifeInv
<1> SUFFICES ASSUME Init PROVE LifeInv
  OBVIOUS
<1>1. file \in File
  BY FileFacts DEF Init
<1>2. TypeOK
  BY <1>1, FileFacts, LayoutsAssumption DEF Init, TypeOK
<1> QED BY <1>2 DEF Init, LifeInv, SavedIsInFile, StartShowsFile, ReadFileIsShown, CleanMeansSaved

(* Every step keeps LifeInv.                                               *)
LEMMA LifeInvStep ==
  ASSUME TooBig = {}, LifeInv, [Next]_vars
  PROVE  LifeInv'
<1> USE FileFacts, LayoutsAssumption
    DEF LifeInv, TypeOK, SavedIsInFile, StartShowsFile, ReadFileIsShown, CleanMeansSaved
<1>1. CASE Start
  BY <1>1 DEF Start
<1>2. CASE HealNotNeeded \/ HealQuarantineFails
  BY <1>2 DEF HealNotNeeded, HealQuarantineFails
<1>3. CASE HealWithoutBundle
  BY <1>3 DEF HealWithoutBundle
<1>4. CASE HealFromBundle
  BY <1>4 DEF HealFromBundle, Write
<1>5. CASE LoadZones
  BY <1>5 DEF LoadZones, Loading
<1>6. CASE LoadQuarantines
  BY <1>6 DEF LoadQuarantines, Loading
<1>7. CASE LoadCannotRead
  BY <1>7 DEF LoadCannotRead, Loading
<1>8. ASSUME NEW layout \in Layouts, Edit(layout)
      PROVE  LifeInv'
  BY <1>8 DEF Edit
<1>9. CASE Flush \/ Exit
  BY <1>9 DEF Flush, Exit, Write
<1>10. CASE CaptureBundle \/ Crash
  BY <1>10 DEF CaptureBundle, Crash
<1>11. CASE UNCHANGED vars
  BY <1>11 DEF vars
<1> QED BY <1>1, <1>2, <1>3, <1>4, <1>5, <1>6, <1>7, <1>8, <1>9, <1>10, <1>11 DEF Next

LEMMA LifeInvHolds == TooBig = {} => (Spec => []LifeInv)
<1> SUFFICES ASSUME TooBig = {} PROVE Spec => []LifeInv
  OBVIOUS
<1>1. LifeInv /\ [Next]_vars => LifeInv'
  BY LifeInvStep
<1> QED BY <1>1, LifeInvInit, PTL DEF Spec

(* The dirty flag can be trusted: while a process runs and has read        *)
(* zones.bin, a layout that is not dirty is the one the file holds.        *)
THEOREM CleanLayoutIsSaved == TooBig = {} => (Spec => []CleanMeansSaved)
<1> SUFFICES ASSUME TooBig = {} PROVE Spec => []CleanMeansSaved
  OBVIOUS
<1>1. LifeInv => CleanMeansSaved
  BY DEF LifeInv
<1> QED BY <1>1, LifeInvHolds, PTL

(* What was last written to zones.bin is what a start shows once it has    *)
(* read the file, across any number of crashes, failed reads and failed    *)
(* healing writes in between.                                              *)
THEOREM SavedLayoutIsShown == TooBig = {} => (Spec => SavedLayoutComesBack)
<1> SUFFICES ASSUME TooBig = {} PROVE Spec => SavedLayoutComesBack
  OBVIOUS
<1>1. ASSUME LifeInv, [Next]_vars
      PROVE  [phase = "paint" /\ phase' = "running" /\ seen' => memory' = saved]_vars
  <2> SUFFICES ASSUME phase = "paint", phase' = "running", seen', Next
               PROVE  memory' = saved
    BY <1>1 DEF vars
  <2> USE <1>1, FileFacts
      DEF LifeInv, TypeOK, SavedIsInFile, StartShowsFile, ReadFileIsShown
  <2>1. LoadZones \/ LoadQuarantines \/ LoadCannotRead
    BY DEF Next, Start, HealNotNeeded, HealQuarantineFails, HealWithoutBundle,
           HealFromBundle, Edit, Flush, CaptureBundle, Exit, Crash
  <2>2. CASE LoadZones
    BY <2>2 DEF LoadZones
  <2>3. CASE LoadQuarantines
    BY <2>3 DEF LoadQuarantines
  <2>4. CASE LoadCannotRead
    BY <2>4 DEF LoadCannotRead
  <2> QED BY <2>1, <2>2, <2>3, <2>4
<1> QED BY <1>1, LifeInvHolds, PTL DEF Spec, SavedLayoutComesBack

(* Whatever fails, no step of a start replaces a layout that is in memory  *)
(* and not dirty: the one healed from the bundle is the one both loads     *)
(* find, and a load that cannot read changes nothing.                      *)
KeepInv ==
    /\ TypeOK
    /\ phase = "heal" => memory = Empty
    /\ (phase \in {"load", "paint"} /\ ~dirty) => memory \in {Empty, LayoutOf(file)}

THEOREM StartKeepsLayout == Spec => StartupKeepsLayout
<1>1. Init => KeepInv
  BY LifeInvInit DEF LifeInv, KeepInv, Init
<1>2. ASSUME KeepInv, [Next]_vars
      PROVE  KeepInv' /\ [(phase \in {"load", "paint"} /\ ~dirty) => memory = Empty \/ memory' = memory]_vars
  <2> USE <1>2, FileFacts, LayoutsAssumption DEF KeepInv, TypeOK
  <2>1. CASE Start
    BY <2>1 DEF Start
  <2>2. CASE HealNotNeeded \/ HealQuarantineFails \/ HealWithoutBundle
    BY <2>2 DEF HealNotNeeded, HealQuarantineFails, HealWithoutBundle
  <2>3. CASE HealFromBundle
    BY <2>3 DEF HealFromBundle, Write
  <2>4. CASE LoadZones
    BY <2>4 DEF LoadZones, Loading
  <2>5. CASE LoadQuarantines
    <3>1. LayoutOf(file) = Empty /\ memory' = memory /\ dirty' = dirty
          /\ phase \in {"load", "paint"} /\ phase' \in {"paint", "running"}
      BY <2>5 DEF LoadQuarantines, Loading, LayoutOf
    <3>2. TypeOK'
      BY <2>5 DEF LoadQuarantines
    <3> QED BY <3>1, <3>2
  <2>6. CASE LoadCannotRead
    <3>1. /\ phase \in {"load", "paint"} /\ phase' \in {"paint", "running"}
          /\ UNCHANGED <<file, bundle, memory, dirty, seen, saved>>
      BY <2>6 DEF LoadCannotRead, Loading
    <3> QED BY <3>1
  <2>7. ASSUME NEW layout \in Layouts, Edit(layout)
        PROVE  KeepInv' /\ phase = "running"
    BY <2>7 DEF Edit
  <2>8. CASE Flush \/ Exit \/ CaptureBundle
    BY <2>8 DEF Flush, Exit, CaptureBundle, Write
  <2>9. CASE Crash
    BY <2>9 DEF Crash
  <2>10. CASE UNCHANGED vars
    BY <2>10 DEF vars
  <2> QED BY <2>1, <2>2, <2>3, <2>4, <2>5, <2>6, <2>7, <2>8, <2>9, <2>10 DEF Next
<1> QED BY <1>1, <1>2, PTL DEF Spec, StartupKeepsLayout
=============================================================================
