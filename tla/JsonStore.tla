------------------------------ MODULE JsonStore ------------------------------
(***************************************************************************)
(* The JSON store of bentodesk-backend (storage/mod.rs): the vault, the    *)
(* plugin registry, the recovery bundle and the themes are written by      *)
(* write_json_atomic and read back by read_json_with_recovery.             *)
(*                                                                         *)
(* A write prepares and syncs <file>.tmp, then swaps it in: ReplaceFileW   *)
(* where there is a primary, MoveFileExW where there is none or where      *)
(* ReplaceFileW failed, after a best-effort copy of the primary to         *)
(* <file>.bak.  A read that finds no usable primary takes the backup,      *)
(* quarantines the primary and heals it by writing the value back.  Every  *)
(* file operation is a step of its own and the process may die, or the     *)
(* power fail, between any two.                                            *)
(*                                                                         *)
(* Simplifications: one store, read once when the process starts, as the   *)
(* vault and the recovery bundle are; a damaged file is one the process    *)
(* finds when it starts (any combination is an initial state); the volume  *)
(* is NTFS, on which a rename is atomic and durable (MOVEFILE_WRITE_       *)
(* THROUGH); a value over the size limit is one more way for the           *)
(* preparation of the temporary file to fail.                              *)
(***************************************************************************)
EXTENDS DiskFile

CONSTANT FaultSets      \* the sets of calls that may fail in one life of the
                        \* process: another program holds a file open, the
                        \* volume does not know ReplaceFileW

ASSUME FaultSetsAssumption ==
    FaultSets \subseteq SUBSET {"replace", "move", "quarantine", "read"}

VARIABLES primary, backup, tmp,     \* the three files
          pc,                       \* next step of the store
          staged,                   \* value being written, or NoValue
          recovering,               \* the write is the healing write of a read
          faults                    \* the calls that may fail in this life

files == <<primary, backup, tmp>>
vars  == <<primary, backup, tmp, pc, staged, recovering, faults>>

TypeOK ==
    /\ {primary, backup, tmp} \subseteq File
    /\ pc \in {"down", "idle", "quarantine", "prepare", "staged", "fallback", "move"}
    /\ staged \in Values \cup {NoValue}
    /\ recovering \in BOOLEAN /\ faults \in FaultSets

OldFile == {Absent, Torn} \cup {Synced(v) : v \in Values}

Init ==
    /\ primary \in OldFile /\ backup \in OldFile /\ tmp = Absent
    /\ pc = "down" /\ staged = NoValue /\ recovering = FALSE
    /\ faults \in FaultSets

(* The call returns: with success, with an error, or never.                *)
Finish(next) == pc' = next /\ staged' = NoValue /\ recovering' = FALSE

-----------------------------------------------------------------------------
(* read_json_with_recovery.                                                *)

LoadPrimary == pc = "down" /\ Readable(primary) /\ Finish("idle") /\ UNCHANGED files

(* Neither file is usable: the caller starts from its default or reports   *)
(* the error.                                                              *)
LoadFails ==
    /\ pc = "down" /\ ~Readable(primary) /\ ~Readable(backup)
    /\ Finish("idle") /\ UNCHANGED files

(* read_json_file does not say why it failed, so a good primary that could *)
(* not be opened for a moment ("read") is recovered from like a bad one.   *)
LoadBackup ==
    /\ pc = "down" /\ Readable(backup)
    /\ "read" \notin faults => ~Readable(primary)
    /\ staged' = backup.value /\ recovering' = TRUE
    /\ pc' = IF Exists(primary) THEN "quarantine" ELSE "prepare"
    /\ UNCHANGED files

Quarantine ==
    /\ pc = "quarantine" /\ pc' = "prepare"
    /\ primary' = Absent
    /\ UNCHANGED <<backup, tmp, staged, recovering>>

(* The rename was refused, which is logged and ignored.                    *)
QuarantineFails ==
    /\ pc = "quarantine" /\ "quarantine" \in faults /\ pc' = "prepare"
    /\ UNCHANGED <<files, staged, recovering>>

-----------------------------------------------------------------------------
(* write_json_atomic.                                                      *)

BeginWrite(v) ==
    /\ pc = "idle" /\ pc' = "prepare" /\ staged' = v
    /\ UNCHANGED <<files, recovering>>

PrepareUnsynced ==
    /\ pc = "prepare" /\ pc' = "staged" /\ tmp' = Cached(staged)
    /\ UNCHANGED <<primary, backup, staged, recovering>>

Prepare ==
    /\ pc = "prepare" /\ pc' = "staged" /\ tmp' = Synced(staged)
    /\ UNCHANGED <<primary, backup, staged, recovering>>

PrepareFails ==
    /\ pc = "prepare" /\ tmp' = Absent /\ Finish("idle")
    /\ UNCHANGED <<primary, backup>>

-----------------------------------------------------------------------------
(* replace_file_with_backup.                                               *)

ReplaceFile ==
    /\ pc = "staged" /\ Exists(primary)
    /\ primary' = tmp /\ backup' = primary /\ tmp' = Absent
    /\ Finish("idle")

(* ReplaceFileW fails and leaves the files under their names, or has       *)
(* already moved the primary away (ERROR_UNABLE_TO_MOVE_REPLACEMENT_2).    *)
ReplaceFileFails ==
    /\ pc = "staged" /\ Exists(primary) /\ "replace" \in faults
    /\ \/ UNCHANGED <<primary, backup>>
       \/ primary' = Absent /\ backup' = primary
    /\ pc' = "fallback"
    /\ UNCHANGED <<tmp, staged, recovering>>

(* The best-effort copy of the primary, which may fail before or after it  *)
(* has truncated the backup.                                               *)
CopyToBackup ==
    /\ pc = "fallback" /\ Exists(primary) /\ pc' = "move"
    /\ backup' \in {CopyOf(primary), Torn, backup}
    /\ UNCHANGED <<primary, tmp, staged, recovering>>

ReadyToMove == \/ pc = "move"
               \/ pc \in {"staged", "fallback"} /\ ~Exists(primary)

MoveFile ==
    /\ ReadyToMove /\ primary' = tmp /\ tmp' = Absent /\ Finish("idle")
    /\ UNCHANGED backup

MoveFileFails ==
    /\ ReadyToMove /\ "move" \in faults /\ tmp' = Absent /\ Finish("idle")
    /\ UNCHANGED <<primary, backup>>

-----------------------------------------------------------------------------
(* The process dies or exits; the temporary file may be half written.      *)
ProcessEnds ==
    /\ pc # "down" /\ Finish("down")
    /\ tmp' \in IF pc = "prepare" THEN {tmp, Torn} ELSE {tmp}
    /\ UNCHANGED <<primary, backup>>

PowerFails ==
    /\ Finish("down")
    /\ primary' \in AfterPowerFailure(primary)
    /\ backup' \in AfterPowerFailure(backup)
    /\ tmp' \in AfterPowerFailure(tmp)

Store ==
    \/ LoadPrimary \/ LoadFails \/ LoadBackup
    \/ Quarantine \/ QuarantineFails
    \/ \E v \in Values : BeginWrite(v)
    \/ Prepare \/ PrepareFails
    \/ ReplaceFile \/ ReplaceFileFails \/ CopyToBackup
    \/ MoveFile \/ MoveFileFails

Next ==
    \/ Store /\ UNCHANGED faults
    \/ (ProcessEnds \/ PowerFails) /\ faults' \in FaultSets

Spec == Init /\ [][Next]_vars

-----------------------------------------------------------------------------
(* What a read returns now.                                                *)
Content == IF Readable(primary) THEN primary.value
           ELSE IF Readable(backup) THEN backup.value
           ELSE NoValue

(* The healing write of a read is no write of the caller's.                *)
Pending == IF recovering THEN NoValue ELSE staged

Register == INSTANCE DurableRegister WITH content <- Content, pending <- Pending

(* Whatever fails and wherever the process dies, the store holds the last  *)
(* value written, or one whose write was under way; a write that fails     *)
(* (write_json_atomic returning Err) has changed nothing a reader sees,    *)
(* and neither has the recovery of a damaged or missing primary.           *)
ImplementsRegister == Register!Spec
=============================================================================
