---------------------------- MODULE ManifestStore ----------------------------
(***************************************************************************)
(* The safety manifest of the hidden items (stealth/sync.rs): every        *)
(* change loads <desktop>/.bentodesk/manifest.json, edits the list of      *)
(* entries and writes it back with the module's own write_json_atomic:     *)
(* write manifest.json.tmp, remove manifest.json.bak, rename the manifest  *)
(* to .bak, rename .tmp to the manifest.  HiddenItems takes that write as  *)
(* one step; this module takes it apart, lets each call fail and lets the  *)
(* process die between any two.                                            *)
(*                                                                         *)
(* Simplifications: an entry is the original path it is keyed by (what     *)
(* else it carries is of no concern here); no power failure, which could   *)
(* tear the manifest, as the temporary file is never synced.               *)
(***************************************************************************)
CONSTANTS Originals,    \* original paths of hidden items
          NoManifest,   \* no list of entries: nothing on disk or in hand
          Faults        \* what may go wrong in a run

ASSUME NoManifestAssumption == \A m \in SUBSET Originals : NoManifest # m
ASSUME FaultsAssumption == Faults \subseteq {"swap", "die in swap"}

INSTANCE DiskFile WITH Values <- SUBSET Originals, NoValue <- NoManifest

VARIABLES primary, backup, tmp,     \* the three files
          pc,                       \* next step of the store
          staged,                   \* the edited list, or NoManifest
          acked                     \* the list the last call that returned Ok
                                    \* left behind (history)

files == <<primary, backup, tmp>>
vars  == <<primary, backup, tmp, pc, staged, acked>>

TypeOK ==
    /\ {primary, backup, tmp} \subseteq File
    /\ pc \in {"idle", "write", "remove backup", "rotate", "swap"}
    /\ staged \in (SUBSET Originals) \cup {NoManifest}
    /\ acked \in SUBSET Originals

Init ==
    /\ primary = Absent /\ backup = Absent /\ tmp = Absent
    /\ pc = "idle" /\ staged = NoManifest /\ acked = {}

-----------------------------------------------------------------------------
(* load_manifest: a missing manifest is an empty one; the backup is read   *)
(* only in place of a manifest that does not parse.                        *)
Loads == Readable(primary) \/ ~Exists(primary) \/ Readable(backup)

Entries == IF Readable(primary) THEN primary.value
           ELSE IF ~Exists(primary) THEN {}
           ELSE IF Readable(backup) THEN backup.value
           ELSE NoManifest

BeginSave(entries) ==
    /\ pc = "idle" /\ pc' = "write" /\ staged' = entries
    /\ UNCHANGED <<files, acked>>

(* manifest_add: an entry with the same original path is superseded.       *)
ManifestAdd(o) == Loads /\ BeginSave(Entries \cup {o})

(* manifest_remove: nothing is written when nothing was removed.           *)
ManifestRemove(o) == Loads /\ o \in Entries /\ BeginSave(Entries \ {o})

(* persist_manifest_snapshot: a recovery bundle writes its own list, over  *)
(* whatever is there.                                                      *)
PersistSnapshot(entries) == BeginSave(entries)

-----------------------------------------------------------------------------
(* write_json_atomic.                                                      *)

Return(ok) ==
    /\ pc' = "idle" /\ staged' = NoManifest
    /\ acked' = IF ok THEN staged ELSE acked

WriteTmp ==
    /\ pc = "write" /\ tmp' = Cached(staged)
    /\ pc' = IF Exists(primary) THEN "remove backup" ELSE "swap"
    /\ UNCHANGED <<primary, backup, staged, acked>>

WriteTmpFails ==
    /\ pc = "write" /\ tmp' \in {tmp, Torn} /\ Return(FALSE)
    /\ UNCHANGED <<primary, backup>>

(* The removal may fail; the result is not looked at.                      *)
RemoveBackup ==
    /\ pc = "remove backup" /\ pc' = "rotate"
    /\ backup' \in {Absent, backup}
    /\ UNCHANGED <<primary, tmp, staged, acked>>

RotateDeletes ==
    /\ pc = "rotate" /\ pc' = "swap"
    /\ primary' = Absent
    /\ UNCHANGED <<backup, tmp, staged, acked>>

Rotate ==
    /\ pc = "rotate" /\ pc' = "swap"
    /\ primary' = Absent /\ backup' = primary
    /\ UNCHANGED <<tmp, staged, acked>>

(* The warning "failed to back up": the swap then replaces the manifest.   *)
RotateFails ==
    /\ pc = "rotate" /\ pc' = "swap"
    /\ UNCHANGED <<files, staged, acked>>

SwapUnchecked ==
    /\ pc = "swap"
    /\ \/ primary' = tmp /\ tmp' = Absent
       \/ UNCHANGED <<primary, tmp>>
    /\ Return(TRUE) /\ UNCHANGED backup

Swap ==
    /\ pc = "swap" /\ primary' = tmp /\ tmp' = Absent /\ Return(TRUE)
    /\ UNCHANGED backup

(* Between Rotate and Swap there is no manifest under its name.            *)
RotatedAway == pc = "swap" /\ ~Exists(primary) /\ Exists(backup)

SwapFails ==
    /\ pc = "swap" /\ (RotatedAway => "swap" \in Faults)
    /\ Return(FALSE) /\ UNCHANGED files

-----------------------------------------------------------------------------
ProcessDies ==
    /\ RotatedAway => "die in swap" \in Faults
    /\ Return(FALSE)
    /\ tmp' \in IF pc = "write" THEN {tmp, Torn} ELSE {tmp}
    /\ UNCHANGED <<primary, backup>>

Next ==
    \/ \E o \in Originals : ManifestAdd(o) \/ ManifestRemove(o)
    \/ \E entries \in SUBSET Originals : PersistSnapshot(entries)
    \/ WriteTmp \/ WriteTmpFails \/ RemoveBackup \/ Rotate \/ RotateFails
    \/ Swap \/ SwapFails
    \/ ProcessDies

Spec == Init /\ [][Next]_vars

-----------------------------------------------------------------------------
(* Seen by the single thread that uses it, the manifest is a register of   *)
(* entry lists: while it is rotated away no one reads.                     *)
Content == IF RotatedAway THEN backup.value ELSE Entries

Register == INSTANCE DurableRegister
    WITH Values <- SUBSET Originals, NoValue <- NoManifest,
         content <- Content, pending <- staged

(* Whichever of the calls before the final rename fail, and wherever but   *)
(* in that window the process dies, a save takes effect as a whole or not  *)
(* at all: no entry is ever dropped but by manifest_remove or a snapshot.  *)
ImplementsRegister == Register!Spec

(* "Previous file is preserved at <path>.bak for crash recovery" (sync.rs, *)
(* the comment at line 170): between two calls the manifest that is loaded *)
(* is the one the last call that reported success left, or that a call     *)
(* which failed or died found.                                             *)
AcknowledgedManifestFound == pc = "idle" => Entries = acked
=============================================================================
