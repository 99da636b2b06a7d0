----------------------------- MODULE ConfigVault -----------------------------
(***************************************************************************)
(* The settings vault: vault.bin, the copy of it in memory that every      *)
(* setting is read from and written to, the passphrase that may protect    *)
(* it, the backups the settings page makes, and the vault part of the      *)
(* recovery bundle (config_vault/mod.rs; settings_backups.rs,              *)
(* settings_save.rs, persisted_settings.rs and recovery_vault.rs of the    *)
(* shell).                                                                 *)
(*                                                                         *)
(* A vault whose file is protected opens locked and blank.  It cannot be   *)
(* written until it is unlocked, and the settings page asks for the        *)
(* passphrase then.  Backups and bundles are restored by copying over      *)
(* vault.bin, outside the store that makes its writes atomic.              *)
(*                                                                         *)
(* Simplifications: write_json_atomic takes effect or does not (JsonStore  *)
(* takes it apart); the modes None and Dpapi, which both open without the  *)
(* user, are "Plain"; the settings are one value, without the keys that    *)
(* record the mode and the last backup; an action is a whole handler of    *)
(* the UI thread, which is the only one to touch the vault; files are      *)
(* changed by this program alone; the clock runs forwards, so that names   *)
(* of backups sort by age; a backup that has to make room can be removed.  *)
(***************************************************************************)
EXTENDS Naturals, Sequences

CONSTANTS Passphrases, Settings,
          NoKey,          \* no passphrase
          Blank,          \* no setting
          MaxRetained     \* limit of backup.max_retained

VARIABLES file, bak,      \* vault.bin and vault.bin.bak
          vault,          \* the vault in memory, or NoVault
          phase,          \* "off", "opened" (not yet imported into) or "on"
          asked,          \* passphrase_unlock_required
          entry,          \* what a passphrase being typed is for, or "none"
          backups,        \* the files of the backup directory, oldest first
          bundle,         \* vault.bin as the recovery bundle holds it
          stale,          \* history: a copy changed the file, not the memory
          missed          \* history: a bundle restore failed after it had
                          \* replaced the vault

vaultVars == <<file, bak, vault, phase, asked, entry, backups, bundle, stale, missed>>
disk == <<file, bak>>
copies == <<backups, bundle>>

Record == [tag : {"Plain"}, key : {NoKey}, body : Settings \cup {Blank}]
          \cup [tag : {"Passphrase"}, key : Passphrases, body : Settings \cup {Blank}]

NoFile   == [tag |-> "Absent", key |-> NoKey, body |-> Blank]
TornFile == [tag |-> "Torn",   key |-> NoKey, body |-> Blank]

VaultFile == Record \cup {NoFile, TornFile}
NoVault   == [tag |-> "Absent", key |-> NoKey, body |-> Blank,
              locked |-> FALSE, dirty |-> FALSE]
Vault     == [tag : {"Plain", "Passphrase"}, key : Passphrases \cup {NoKey},
              body : Settings \cup {Blank}, locked : BOOLEAN, dirty : BOOLEAN]

Opens(f) == f.tag \notin {"Absent", "Torn"}

VaultTypeOK ==
    /\ {file, bak, bundle} \subseteq VaultFile /\ backups \in Seq(VaultFile)
    /\ vault \in Vault \cup {NoVault}
    /\ phase \in {"off", "opened", "on"} /\ entry \in {"none", "Set", "Unlock"}
    /\ {asked, stale, missed} \subseteq BOOLEAN

(* The vault that Vault::open makes of a record: locked if it is           *)
(* protected.                                                              *)
Opened(r) == [tag |-> r.tag, key |-> NoKey,
              body |-> IF r.tag = "Passphrase" THEN Blank ELSE r.body,
              locked |-> r.tag = "Passphrase", dirty |-> FALSE]

Fresh == [tag |-> "Plain", key |-> NoKey, body |-> Blank, locked |-> FALSE, dirty |-> FALSE]

RecordOf(v) == [tag |-> v.tag, key |-> v.key, body |-> v.body]

(* What a read of vault.bin finds: the file, or its backup.                *)
Stored == IF Opens(file) THEN file ELSE bak

VaultInit ==
    /\ file \in Record \cup {NoFile} /\ bak = NoFile
    /\ vault = NoVault /\ phase = "off" /\ asked = FALSE /\ entry = "none"
    /\ backups = <<>> /\ bundle = NoFile /\ stale = FALSE /\ missed = FALSE
-----------------------------------------------------------------------------
(* Reading vault.bin and writing it.                                       *)

(* A read that had to take the backup moves vault.bin out of the way, if   *)
(* it can, and writes it again, if it can.  A vault.bin that stayed where  *)
(* it was becomes the backup of that write.                                *)
Heal ==
    \/ Opens(file) /\ UNCHANGED disk
    \/ ~Opens(file) /\ file' \in {bak, NoFile, file} /\ UNCHANGED bak
    \/ file.tag = "Torn" /\ file' = bak /\ bak' = file

(* Neither file is there, and what is there cannot be read.                *)
NothingStored == file.tag = "Absent" /\ bak.tag = "Absent"
Unreadable    == ~Opens(Stored) /\ ~NothingStored

\* A faulty write that does not refuse a locked vault.
WriteLocked(v) ==
    /\ v.dirty /\ vault' = [v EXCEPT !.dirty = FALSE] /\ stale' = FALSE
    /\ file' = RecordOf(v) /\ bak' = IF file.tag = "Absent" THEN bak ELSE file

(* v becomes the vault in memory and is saved: flush.                      *)
Write(v) ==
    /\ ~v.locked /\ v.dirty
    /\ vault' = [v EXCEPT !.dirty = FALSE] /\ stale' = FALSE
    /\ file' = RecordOf(v) /\ bak' = IF file.tag = "Absent" THEN bak ELSE file

\* A faulty flush that clears the dirty flag before it writes.
WriteFailsClean(v) ==
    v.dirty /\ vault' = [v EXCEPT !.dirty = FALSE] /\ UNCHANGED <<disk, stale>>

(* The write failed, or was refused because the vault is locked: the       *)
(* change stays in memory, to be written by the next flush.                *)
WriteFails(v) == v.dirty /\ vault' = v /\ UNCHANGED <<disk, stale>>

Flush(v) ==
    \/ Write(v)
    \/ WriteFails(v)
    \/ ~v.dirty /\ vault' = v /\ UNCHANGED <<disk, stale>>

Changed(v, s) == [v EXCEPT !.body = s, !.dirty = TRUE]
Touched(v)    == [v EXCEPT !.dirty = TRUE]
-----------------------------------------------------------------------------
(* Start and end of the process.                                           *)

(* init_global.  Without a vault every setting is logged and dropped.      *)
OpenVault ==
    /\ phase = "off" /\ phase' = "opened"
    /\ \/ NothingStored /\ vault' = Fresh /\ UNCHANGED disk
       \/ Opens(Stored) /\ vault' = Opened(Stored) /\ Heal
       \/ Unreadable /\ UNCHANGED <<vault, disk>>
    /\ UNCHANGED <<asked, entry, copies, stale, missed>>

(* Settings of BentoDesk 1.x fill in what an unlocked vault does not have; *)
(* then the settings are applied, or the passphrase is asked for.          *)
StartSettings ==
    /\ phase = "opened" /\ phase' = "on"
    /\ asked' = vault.locked
    /\ \/ UNCHANGED <<vault, disk, stale>>
       \/ /\ vault # NoVault /\ ~vault.locked
          /\ \E s \in IF vault.body = Blank THEN Settings ELSE {vault.body} :
                Flush(Changed(vault, s))
    /\ UNCHANGED <<entry, copies, missed>>

(* Exit, crash, power failure: only the disk is left.                      *)
ProgramEnds ==
    /\ phase # "off" /\ phase' = "off" /\ vault' = NoVault
    /\ asked' = FALSE /\ entry' = "none" /\ stale' = FALSE /\ missed' = FALSE
    /\ UNCHANGED <<disk, copies>>

HasVault == phase = "on" /\ vault # NoVault
-----------------------------------------------------------------------------
(* Settings.                                                               *)

(* SetSetting as the settings page and the hot keys send it: it does not   *)
(* ask whether the vault is locked.  The setters that do ask change        *)
(* nothing when it is, and the same otherwise.                             *)
SetSetting ==
    /\ HasVault
    /\ \E s \in Settings : Flush(Changed(vault, s))
    /\ UNCHANGED <<phase, asked, entry, copies, missed>>

(* Save: what was saved is taken back when the settings cannot be applied  *)
(* to the running program, and when they cannot be written.                *)
SaveSettings ==
    /\ HasVault /\ ~vault.locked
    /\ \E s \in Settings :
        \/ Write(Changed(vault, s))
        \/ Flush(Touched(vault))
        \/ /\ vault' = [vault EXCEPT !.dirty = FALSE] /\ stale' = FALSE
           /\ file' = RecordOf(vault) /\ bak' = RecordOf(Changed(vault, s))
        \/ /\ vault' = Touched(vault) /\ stale' = FALSE
           /\ file' = RecordOf(Changed(vault, s))
           /\ bak' = IF file.tag = "Absent" THEN bak ELSE file
    /\ UNCHANGED <<phase, asked, entry, copies, missed>>

(* The buttons None and DPAPI.                                             *)
SelectPlain ==
    /\ HasVault /\ entry' = "none"
    /\ IF vault.locked
       THEN UNCHANGED <<vault, disk, stale>>
       ELSE Flush([vault EXCEPT !.tag = "Plain", !.key = NoKey, !.dirty = TRUE])
    /\ UNCHANGED <<phase, asked, copies, missed>>
-----------------------------------------------------------------------------
(* The passphrase.                                                         *)

Purpose == IF asked THEN "Unlock" ELSE "Set"

(* A click into the field fixes what Enter will do.                        *)
FocusPassphrase ==
    /\ phase = "on" /\ entry' = Purpose
    /\ UNCHANGED <<disk, vault, phase, asked, copies, stale, missed>>

CancelPassphrase ==
    /\ entry # "none" /\ entry' = "none"
    /\ UNCHANGED <<disk, vault, phase, asked, copies, stale, missed>>

SetPassphrase(k) ==
    LET v == [vault EXCEPT !.tag = "Passphrase", !.key = k, !.locked = FALSE, !.dirty = TRUE]
    IN /\ \/ Write(v) /\ asked' = FALSE
          \/ WriteFails(v) /\ UNCHANGED asked
       /\ UNCHANGED missed

Unlocked(k) == vault' = [tag |-> "Passphrase", key |-> k, body |-> Stored.body,
                         locked |-> FALSE, dirty |-> FALSE]

(* Vault::open_with_passphrase: the passphrase of a file that is gone is   *)
(* that of a new vault, and one that is not protected needs none.          *)
UnlockWith(k) ==
    \/ /\ NothingStored /\ UNCHANGED <<disk, stale>>
       /\ vault' = [tag |-> "Passphrase", key |-> k, body |-> Blank,
                    locked |-> FALSE, dirty |-> TRUE]
       /\ asked' = FALSE /\ missed' = FALSE
    \/ /\ Opens(Stored) /\ Heal
       /\ \/ Stored.tag = "Passphrase" /\ Stored.key = k /\ Unlocked(k)
          \/ Stored.tag # "Passphrase" /\ vault' = Opened(Stored)
       /\ asked' = FALSE /\ missed' = FALSE /\ stale' = FALSE
    \/ /\ \/ Unreadable /\ UNCHANGED disk
          \/ Stored.tag = "Passphrase" /\ Stored.key # k /\ Heal
       /\ asked' = TRUE /\ UNCHANGED <<vault, stale, missed>>

Submit(purpose) ==
    /\ HasVault /\ entry' = "none"
    /\ \E k \in Passphrases : IF purpose = "Set" THEN SetPassphrase(k) ELSE UnlockWith(k)
    /\ UNCHANGED <<phase, copies>>

EnterPassphrase  == entry # "none" /\ Submit(entry)
PassphraseButton == Submit(Purpose)
-----------------------------------------------------------------------------
(* Backups of the settings.                                                *)

Newest(n, s) == IF Len(s) <= n THEN s ELSE SubSeq(s, Len(s) - n + 1, Len(s))

(* The vault is flushed, copied, and the oldest backups make room.  A copy *)
(* cut short may stay behind; no room is made then.                        *)
CreateBackup ==
    /\ HasVault
    /\ \/ /\ Write(Touched(vault))
          /\ \/ \E n \in 1..MaxRetained : backups' = Newest(n, Append(backups, file'))
             \/ Len(backups) <= MaxRetained /\ backups' = Append(backups, TornFile)
             \/ UNCHANGED backups
       \/ WriteFails(Touched(vault)) /\ UNCHANGED backups
    /\ UNCHANGED <<phase, asked, entry, bundle, missed>>

(* A copy over vault.bin that did not get to its end.                      *)
CopyCutShort == file' \in {NoFile, TornFile} /\ stale' = TRUE
                /\ UNCHANGED <<bak, vault, asked, missed>>

(* The backup is copied over vault.bin and opened; noting the restore in   *)
(* it is a write, which a protected one refuses: the file is replaced by   *)
(* then, and the vault in memory is not.  The settings are applied if the  *)
(* backups can still be listed.                                            *)
RestoreBackup ==
    /\ HasVault
    /\ \E i \in 1..Len(backups) :
        LET f == backups[i] IN
        /\ Opens(f)
        /\ \/ CopyCutShort
           \/ file' = f /\ stale' = TRUE /\ UNCHANGED <<bak, vault, asked, missed>>
           \/ /\ f.tag # "Passphrase" /\ file' = f /\ bak' = f /\ vault' = Opened(f)
              /\ asked' \in {FALSE, asked} /\ stale' = FALSE /\ missed' = FALSE
    /\ UNCHANGED <<phase, entry, copies>>
-----------------------------------------------------------------------------
(* The vault in the recovery bundle.                                       *)

(* A capture that fails after the flush leaves the bundle that was there.  *)
(* Without a vault in memory the bundle is captured without one.           *)
CaptureBundle ==
    /\ phase = "on"
    /\ \/ HasVault /\ Flush(vault)
          /\ bundle' \in IF vault'.dirty THEN {bundle} ELSE {bundle, file'}
       \/ ~HasVault /\ bundle' \in {bundle, NoFile} /\ UNCHANGED <<disk, vault, stale>>
    /\ UNCHANGED <<phase, asked, entry, backups, missed>>

\* A faulty restore that does not apply the settings.
RestoreBundleQuietly ==
    /\ HasVault /\ Opens(bundle)
    /\ file' = bundle /\ vault' = Opened(bundle) /\ stale' = FALSE
    /\ UNCHANGED <<bak, asked, missed, phase, entry, copies>>

(* The vault is the first of the stores a bundle brings back.  The         *)
(* settings are applied, and the passphrase asked for, after the last.     *)
RestoreBundle ==
    /\ HasVault /\ Opens(bundle)
    /\ \/ CopyCutShort
       \/ /\ file' = bundle /\ vault' = Opened(bundle) /\ stale' = FALSE
          /\ \/ asked' = vault'.locked /\ missed' = FALSE
             \/ missed' = TRUE /\ UNCHANGED asked
          /\ UNCHANGED bak
    /\ UNCHANGED <<phase, entry, copies>>
-----------------------------------------------------------------------------
VaultNext ==
    \/ OpenVault \/ StartSettings \/ ProgramEnds
    \/ SetSetting \/ SaveSettings \/ SelectPlain
    \/ FocusPassphrase \/ CancelPassphrase \/ EnterPassphrase \/ PassphraseButton
    \/ CreateBackup \/ RestoreBackup \/ CaptureBundle \/ RestoreBundle

VaultSpec == VaultInit /\ [][VaultNext]_vaultVars
-----------------------------------------------------------------------------
(* A vault that says it is saved is what the next start will open: no path *)
(* through rollbacks, failed writes, restores and unlocking lets the       *)
(* memory drift from vault.bin unnoticed, but for a copy over vault.bin    *)
(* that stopped half-way.                                                  *)
CleanVaultIsFile ==
    vault # NoVault /\ ~vault.dirty /\ ~stale =>
        \/ vault = Fresh /\ NothingStored
        \/ vault.locked /\ Stored.tag = "Passphrase"
        \/ ~vault.locked /\ Stored = RecordOf(vault)

(* Whenever the vault is locked the settings page asks to unlock it, and   *)
(* does not offer to set a passphrase, which would write a blank vault     *)
(* over the protected one; but for a bundle restore that failed after it   *)
(* had brought back a protected vault.                                     *)
UnlockIsAsked ==
    phase = "on" /\ vault.locked => asked \/ missed

(* While the vault is locked and its passphrase asked for, nothing is      *)
(* written over the protected file: it changes only to one of its copies,  *)
(* or to what a copy over it that failed has left.  The exception is a     *)
(* passphrase the user had begun to type, to set it, before the vault was  *)
(* locked by a restored bundle.                                            *)
LockedFileKept ==
    [][vault.locked /\ asked /\ file' # file /\ ~(entry = "Set" /\ entry' = "none") =>
          file' \in {NoFile, TornFile, bak, bundle} \cup {backups[i] : i \in 1..Len(backups)}]_vaultVars
=============================================================================
