------------------------- MODULE SettingsStore_proofs -------------------------
(***************************************************************************)
(* Proofs about the two files in which the program keeps settings.         *)
(*                                                                         *)
(* JsonStore implements DurableRegister, for every set of values, wherever *)
(* the process dies or the power fails and whichever call of a write       *)
(* fails -- under two conditions, without which TLC finds a                *)
(* counterexample: a primary that is whole can be read, and in a life in   *)
(* which a damaged primary cannot be quarantined ReplaceFileW does not     *)
(* fail.                                                                   *)
(*                                                                         *)
(* ConfigVault: a vault that says it is saved is what vault.bin holds, a   *)
(* locked vault is one the settings page asks to unlock, and nothing is    *)
(* written over its file, for any passphrases, settings and number of      *)
(* backups.                                                                *)
(***************************************************************************)
EXTENDS JsonStore, ConfigVault, SequenceTheorems, TLAPS

(* JsonStore: what holds between the calls of a write and of a recovery.   *)
RecoverySafe ==
    \A F \in FaultSets : "read" \notin F /\ ("quarantine" \notin F \/ "replace" \notin F)

(* The primary is never a file whose bytes are only cached, and neither is *)
(* the backup while it is the file the store would be read from.           *)
ContentIsDurable ==
    /\ primary \in OldFile
    /\ ~Readable(primary) => backup \in OldFile

WriteInProgress ==
    /\ (pc \in {"staged", "fallback", "move"}) => tmp = Synced(staged)
    /\ (pc \in {"down", "idle"}) <=> staged = NoValue
    /\ (pc \in {"fallback", "move"}) => "replace" \in faults

(* A recovery writes the value of the backup it is recovering from.        *)
RecoveryInProgress ==
    /\ recovering =>
          /\ pc \in {"quarantine", "prepare", "staged"}
          /\ ~Readable(primary) /\ Readable(backup) /\ backup.value = staged
    /\ pc = "quarantine" => recovering

(* A damaged primary beside a good backup is one that could not be         *)
(* quarantined.                                                            *)
DamageIsQuarantined ==
    /\ Exists(primary) /\ ~Readable(primary) /\ Readable(backup)
    /\ pc \notin {"down", "quarantine"}
    => "quarantine" \in faults

StoreInv ==
    /\ TypeOK /\ ContentIsDurable /\ WriteInProgress
    /\ RecoveryInProgress /\ DamageIsQuarantined

LEMMA FileFacts ==
  /\ Absent \in OldFile /\ Torn \in OldFile /\ OldFile \subseteq File
  /\ ~Exists(Absent) /\ ~Readable(Absent) /\ ~Readable(Torn)
  /\ \A v \in Values :
        /\ Synced(v) \in OldFile /\ Exists(Synced(v)) /\ Readable(Synced(v))
        /\ Synced(v).value = v /\ v # NoValue
  /\ \A f \in File : Readable(f) => Exists(f) /\ f.value \in Values
<1>1. \A v \in Values : Synced(v) \in File
  BY DEF Synced, File
<1>2. OldFile \subseteq File
  BY <1>1 DEF OldFile, File
<1>3. \A f \in File : Readable(f) => Exists(f) /\ f.value \in Values
  BY DEF File, Readable, Exists, Absent, Torn
<1>4. /\ ~Exists(Absent) /\ ~Readable(Absent) /\ ~Readable(Torn)
      /\ \A v \in Values : Exists(Synced(v)) /\ Readable(Synced(v)) /\ Synced(v).value = v
  BY DEF Exists, Readable, Absent, Torn, Synced
<1> QED BY <1>2, <1>3, <1>4, NoValueAssumption DEF OldFile

(* What a copy and a power failure make of a file.                         *)
LEMMA CopyFacts ==
  ASSUME NEW f \in File
  PROVE  CopyOf(f) \in File /\ (Readable(CopyOf(f)) <=> Readable(f))
         /\ (f \in {Absent, Torn} => CopyOf(f) = f)
BY DEF CopyOf, Readable, Cached, File, Absent, Torn

LEMMA PowerFacts ==
  /\ \A f \in File : AfterPowerFailure(f) \subseteq File
  /\ \A f \in OldFile : AfterPowerFailure(f) = {f}
<1>1. \A f \in OldFile : f.synced
  BY DEF OldFile, Absent, Torn, Synced
<1>2. \A f \in File : f \in File /\ Torn \in File
  BY DEF File
<1> QED BY <1>1, <1>2 DEF AfterPowerFailure

LEMMA StoreInvInit == Init => StoreInv
BY FileFacts DEF Init, StoreInv, TypeOK, ContentIsDurable, WriteInProgress,
                 RecoveryInProgress, DamageIsQuarantined

(* Every call keeps StoreInv and is a step of the register, or none.       *)
LEMMA CallStep ==
  ASSUME RecoverySafe, StoreInv, Store, UNCHANGED faults
  PROVE  StoreInv' /\ [Register!Next]_<<Content, Pending>>
<1>0. faults' = faults /\ "read" \notin faults
      /\ ("quarantine" \notin faults \/ "replace" \notin faults)
  BY DEF RecoverySafe, StoreInv, TypeOK
<1> USE <1>0, FileFacts
    DEF StoreInv, TypeOK, ContentIsDurable, WriteInProgress,
        RecoveryInProgress, DamageIsQuarantined, Content, Pending
<1>1. CASE LoadPrimary \/ LoadFails
  BY <1>1 DEF LoadPrimary, LoadFails, Finish, files
<1>2. CASE LoadBackup
  BY <1>2 DEF LoadBackup, files
<1>3. CASE Quarantine \/ QuarantineFails
  BY <1>3 DEF Quarantine, QuarantineFails, files
<1>4. ASSUME NEW v \in Values, BeginWrite(v)
      PROVE  StoreInv' /\ Register!Next
  BY <1>4 DEF BeginWrite, files, Register!Next, Register!Begin
<1>5. CASE Prepare
  BY <1>5 DEF Prepare
<1>6. CASE PrepareFails
  BY <1>6 DEF PrepareFails, Finish, Register!Next, Register!Abandon
<1>7. CASE ReplaceFile
  BY <1>7 DEF ReplaceFile, Finish, Register!Next, Register!Commit
<1>8. CASE ReplaceFileFails
  BY <1>8 DEF ReplaceFileFails
<1>9. CASE CopyToBackup
  <2>1. backup' \in File /\ (Readable(backup') => Readable(primary) \/ backup' = backup)
    BY <1>9, CopyFacts DEF CopyToBackup
  <2>2. ~Readable(primary) => backup' \in OldFile
    BY <1>9, CopyFacts DEF CopyToBackup, OldFile, Readable, Synced
  <2>3. /\ pc = "fallback" /\ pc' = "move" /\ ~recovering
        /\ UNCHANGED <<primary, tmp, staged, recovering>>
    BY <1>9 DEF CopyToBackup
  <2>4. ~Readable(primary) => ~Readable(backup)
    BY <1>9, <2>3 DEF CopyToBackup
  <2> QED BY <2>1, <2>2, <2>3, <2>4
<1>10. CASE MoveFile
  BY <1>10 DEF MoveFile, ReadyToMove, Finish, Register!Next, Register!Commit
<1>11. CASE MoveFileFails
  BY <1>11 DEF MoveFileFails, ReadyToMove, Finish, Register!Next, Register!Abandon
<1> QED BY <1>1, <1>2, <1>3, <1>4, <1>5, <1>6, <1>7, <1>8, <1>9, <1>10, <1>11 DEF Store

(* So does the end of the process, whatever may fail in its next life.     *)
LEMMA EndStep ==
  ASSUME StoreInv, ProcessEnds \/ PowerFails, faults' \in FaultSets
  PROVE  StoreInv' /\ [Register!Next]_<<Content, Pending>>
<1> USE FileFacts
    DEF StoreInv, TypeOK, ContentIsDurable, WriteInProgress,
        RecoveryInProgress, DamageIsQuarantined, Content, Pending
<1>1. CASE ProcessEnds
  BY <1>1 DEF ProcessEnds, Finish, Register!Next, Register!Abandon
<1>2. CASE PowerFails
  <2>1. primary' = primary /\ tmp' \in File /\ backup' \in File
    BY <1>2, PowerFacts DEF PowerFails
  <2>2. ~Readable(primary) => backup' = backup
    BY <1>2, PowerFacts DEF PowerFails
  <2>3. pc' = "down" /\ staged' = NoValue /\ recovering' = FALSE
    BY <1>2 DEF PowerFails, Finish
  <2> QED BY <2>1, <2>2, <2>3 DEF Register!Next, Register!Abandon
<1> QED BY <1>1, <1>2

LEMMA StoreStep ==
  ASSUME RecoverySafe, StoreInv, [Next]_vars
  PROVE  StoreInv' /\ [Register!Next]_<<Content, Pending>>
<1>1. CASE UNCHANGED vars
  BY <1>1 DEF vars, StoreInv, TypeOK, ContentIsDurable, WriteInProgress,
              RecoveryInProgress, DamageIsQuarantined, Content, Pending
<1> QED BY <1>1, CallStep, EndStep DEF Next

(* JsonStore implements DurableRegister: across failing calls, the death   *)
(* of the process and power failures at any point, a reader is given the   *)
(* value of the last write that took effect, and a recovery changes        *)
(* nothing.                                                                *)
THEOREM StoreIsDurable == RecoverySafe => (Spec => ImplementsRegister)
<1> SUFFICES ASSUME RecoverySafe PROVE Spec => ImplementsRegister
  OBVIOUS
<1>1. Init => Register!Init
  BY FileFacts DEF Init, Register!Init, Content, Pending
<1>2. StoreInv /\ [Next]_vars => StoreInv' /\ [Register!Next]_<<Content, Pending>>
  BY StoreStep
<1> QED BY <1>1, <1>2, StoreInvInit, PTL DEF Spec, ImplementsRegister, Register!Spec
-----------------------------------------------------------------------------
(* ConfigVault.                                                            *)

(* An unlocked vault has what a record needs: the key of a protected one,  *)
(* and no key otherwise.                                                   *)
Fits(v) == ~v.locked => RecordOf(v) \in Record

VaultInv ==
    /\ VaultTypeOK
    /\ vault # NoVault => Fits(vault)
    /\ CleanVaultIsFile
    /\ UnlockIsAsked

(* A whole record can be read, and what cannot be read is no record.       *)
LEMMA ReadableFacts ==
  ASSUME NEW f \in VaultFile
  PROVE  /\ Opens(f) <=> f \in Record
         /\ f \in Record => f.tag \in {"Plain", "Passphrase"} /\ RecordOf(f) = f
         /\ f.tag = "Absent" => f = NoFile
BY DEF VaultFile, Record, Opens, NoFile, TornFile, RecordOf

LEMMA OpenedFacts ==
  ASSUME NEW f \in Record
  PROVE  /\ Opened(f) \in Vault /\ Opened(f) # NoVault /\ Fits(Opened(f))
         /\ ~Opened(f).dirty
         /\ Opened(f).locked <=> f.tag = "Passphrase"
         /\ ~Opened(f).locked => RecordOf(Opened(f)) = f
BY DEF Record, Opened, Vault, NoVault, Fits, RecordOf

LEMMA FreshFacts ==
  /\ Fresh \in Vault /\ Fresh # NoVault /\ Fits(Fresh)
  /\ ~Fresh.locked
BY DEF Fresh, Vault, NoVault, Fits, RecordOf, Record

(* The vaults that the handlers make of the one in memory.                 *)
LEMMA ChangedFacts ==
  ASSUME NEW v \in Vault, Fits(v), NEW s \in Settings \cup {Blank}
  PROVE  /\ Changed(v, s) \in Vault /\ Fits(Changed(v, s))
         /\ Changed(v, s).dirty /\ Changed(v, s).locked = v.locked
         /\ Touched(v) \in Vault /\ Fits(Touched(v))
         /\ Touched(v).dirty /\ Touched(v).locked = v.locked
         /\ RecordOf(Touched(v)) = RecordOf(v)
BY DEF Changed, Touched, Vault, Fits, RecordOf, Record

(* Healing changes nothing that a read finds.                              *)
LEMMA HealFacts ==
  ASSUME file \in VaultFile, bak \in VaultFile, Opens(Stored), Heal
  PROVE  file' \in VaultFile /\ bak' \in VaultFile /\ Stored' = Stored
<1>1. CASE UNCHANGED disk
  BY <1>1 DEF disk, Stored
<1>2. CASE ~Opens(file) /\ file' \in {bak, NoFile, file} /\ UNCHANGED bak
  BY <1>2 DEF Stored, Opens, NoFile, VaultFile
<1>3. CASE file.tag = "Torn" /\ file' = bak /\ bak' = file
  BY <1>3 DEF Stored, Opens
<1> QED BY <1>1, <1>2, <1>3 DEF Heal

(* A write makes the vault and the file one.                               *)
LEMMA WriteFacts ==
  ASSUME file \in VaultFile, bak \in VaultFile, NEW v \in Vault, Fits(v), Write(v)
  PROVE  /\ file' \in Record /\ bak' \in VaultFile
         /\ vault' \in Vault /\ Fits(vault') /\ ~vault'.locked
         /\ file' = RecordOf(vault') /\ Stored' = RecordOf(vault')
         /\ stale' = FALSE
<1>1. RecordOf(v) \in Record /\ file' = RecordOf(v) /\ bak' \in VaultFile
  BY DEF Write, Fits
<1>2. /\ vault' \in Vault /\ RecordOf(vault') = RecordOf(v)
      /\ ~vault'.locked
  BY DEF Write, Vault, RecordOf
<1>3. Fits(vault')
  BY <1>1, <1>2 DEF Fits
<1>4. Opens(file')
  BY <1>1, ReadableFacts DEF VaultFile
<1>5. Stored' = file'
  BY <1>4 DEF Stored, Opens
<1> QED BY <1>1, <1>2, <1>3, <1>5 DEF Write

(* A vault that is not clean, or unlocked and the same as what a read      *)
(* finds, or locked while a read finds a protected record.                 *)
LEMMA FlushFacts ==
  ASSUME VaultInv, vault # NoVault, NEW v \in Vault, Fits(v), v.dirty, Flush(v)
  PROVE  /\ file' \in VaultFile /\ bak' \in VaultFile /\ stale' \in BOOLEAN
         /\ vault' \in Vault /\ Fits(vault') /\ vault'.locked = v.locked
         /\ CleanVaultIsFile'
         /\ v.locked => file' = file
<1>1. file \in VaultFile /\ bak \in VaultFile /\ stale \in BOOLEAN
  BY DEF VaultInv, VaultTypeOK
<1>2. CASE Write(v)
  <2>1. ~v.locked
    BY <1>2 DEF Write
  <2> QED BY <1>1, <1>2, <2>1, WriteFacts DEF CleanVaultIsFile, VaultFile, Vault
<1>3. CASE WriteFails(v)
  <2>1. vault' = v /\ UNCHANGED <<disk, stale>>
    BY <1>3 DEF WriteFails
  <2> QED BY <1>1, <2>1 DEF CleanVaultIsFile, disk
<1> QED BY <1>2, <1>3 DEF Flush

LEMMA NewestFacts ==
  ASSUME NEW S, NEW s \in Seq(S), NEW n \in 1..MaxRetained
  PROVE  Newest(n, s) \in Seq(S)
<1>1. CASE Len(s) <= n
  BY <1>1 DEF Newest
<1>2. CASE ~(Len(s) <= n)
  <2>1. n \in Int /\ n >= 1 /\ Len(s) \in Nat
    OBVIOUS
  <2>2. \A i \in (Len(s) - n + 1)..Len(s) : s[i] \in S
    BY <1>2, <2>1, ElementOfSeq
  <2>3. SubSeq(s, Len(s) - n + 1, Len(s)) \in Seq(S)
    BY <2>1, <2>2, SubSeqProperties
  <2> QED BY <1>2, <2>3 DEF Newest
<1> QED BY <1>1, <1>2

-----------------------------------------------------------------------------
(* Steps that leave the vault and the file alone.                          *)
LEMMA IdleKeepsInv ==
  ASSUME VaultInv, UNCHANGED <<disk, vault, stale>>,
         asked' \in BOOLEAN, missed' \in BOOLEAN,
         phase' \in {"off", "opened", "on"}, entry' \in {"none", "Set", "Unlock"},
         bundle' \in VaultFile, backups' \in Seq(VaultFile), UnlockIsAsked'
  PROVE  VaultInv'
<1>1. file' = file /\ bak' = bak /\ vault' = vault /\ stale' = stale
  BY DEF disk
<1>2. CleanVaultIsFile'
  BY <1>1 DEF VaultInv, CleanVaultIsFile, NothingStored, Stored, Opens
<1>3. VaultTypeOK'
  BY <1>1 DEF VaultInv, VaultTypeOK
<1> QED BY <1>1, <1>2, <1>3 DEF VaultInv, Fits, RecordOf

(* Steps that flush a changed vault and leave the locks alone.             *)
LEMMA FlushKeepsInv ==
  ASSUME VaultInv, HasVault, NEW v \in Vault, Fits(v), v.dirty, Flush(v),
         v.locked => vault.locked,
         phase' = phase, asked' = asked, missed' = missed,
         entry' \in {"none", "Set", "Unlock"},
         bundle' \in VaultFile, backups' \in Seq(VaultFile)
  PROVE  VaultInv'
<1>1. /\ file' \in VaultFile /\ bak' \in VaultFile /\ stale' \in BOOLEAN
      /\ vault' \in Vault /\ Fits(vault') /\ vault'.locked = v.locked
      /\ CleanVaultIsFile'
  BY FlushFacts DEF HasVault
<1>2. VaultTypeOK'
  BY <1>1 DEF VaultInv, VaultTypeOK
<1>3. UnlockIsAsked'
  BY <1>1 DEF VaultInv, UnlockIsAsked
<1>4. Fits(vault)'
  BY <1>1 DEF Fits, RecordOf
<1> QED BY <1>2, <1>3, <1>4, <1>1 DEF VaultInv

LEMMA VaultInvInit == VaultInit => VaultInv
<1> SUFFICES ASSUME VaultInit PROVE VaultInv
  OBVIOUS
<1>1. file \in VaultFile /\ bak \in VaultFile /\ bundle \in VaultFile /\ backups \in Seq(VaultFile)
  BY DEF VaultInit, VaultFile
<1>2. VaultTypeOK
  BY <1>1 DEF VaultInit, VaultTypeOK
<1>3. UnlockIsAsked
  BY DEF VaultInit, UnlockIsAsked
<1> QED BY <1>2, <1>3 DEF VaultInv, CleanVaultIsFile, VaultInit

LEMMA OpenVaultKeepsInv ==
  ASSUME VaultInv, OpenVault
  PROVE  VaultInv'
<1>1. /\ phase' = "opened" /\ asked' = asked /\ entry' = entry /\ stale' = stale
      /\ missed' = missed /\ backups' = backups /\ bundle' = bundle
      /\ UnlockIsAsked'
  BY DEF OpenVault, UnlockIsAsked, copies
<1>2. CASE NothingStored /\ vault' = Fresh /\ UNCHANGED disk
  <2>1. file' = file /\ bak' = bak
    BY <1>2 DEF disk
  <2>2. VaultTypeOK'
    BY <1>1, <1>2, <2>1, FreshFacts DEF VaultInv, VaultTypeOK
  <2>3. CleanVaultIsFile'
    BY <1>2, <2>1 DEF CleanVaultIsFile, NothingStored, Fresh
  <2> QED BY <1>1, <1>2, <2>2, <2>3, FreshFacts DEF VaultInv, Fits, RecordOf
<1>3. CASE Opens(Stored) /\ vault' = Opened(Stored) /\ Heal
  <2>1. file \in VaultFile /\ bak \in VaultFile
    BY DEF VaultInv, VaultTypeOK
  <2>2. file' \in VaultFile /\ bak' \in VaultFile /\ Stored' = Stored
    BY <1>3, <2>1, HealFacts
  <2>3. Stored \in Record
    BY <1>3, <2>1, ReadableFacts DEF Stored
  <2>4. /\ vault' \in Vault /\ Fits(vault') /\ vault' # NoVault
        /\ vault'.locked <=> Stored.tag = "Passphrase"
        /\ ~vault'.locked => RecordOf(vault') = Stored
    BY <1>3, <2>3, OpenedFacts
  <2>5. VaultTypeOK'
    BY <1>1, <2>2, <2>4 DEF VaultInv, VaultTypeOK
  <2>6. CleanVaultIsFile'
    BY <2>2, <2>4 DEF CleanVaultIsFile, RecordOf
  <2> QED BY <1>1, <2>4, <2>5, <2>6 DEF VaultInv, Fits, RecordOf
<1>4. CASE UNCHANGED <<vault, disk>>
  BY <1>1, <1>4, IdleKeepsInv DEF VaultInv, VaultTypeOK
<1> QED BY <1>2, <1>3, <1>4 DEF OpenVault

LEMMA StartSettingsKeepsInv ==
  ASSUME VaultInv, StartSettings
  PROVE  VaultInv'
<1>1. /\ phase' = "on" /\ asked' = vault.locked /\ entry' = entry
      /\ missed' = missed /\ backups' = backups /\ bundle' = bundle
  BY DEF StartSettings, copies
<1>2. asked' \in BOOLEAN
  <2>1. vault \in Vault \cup {NoVault}
    BY DEF VaultInv, VaultTypeOK
  <2>2. vault \in Vault => vault.locked \in BOOLEAN
    BY Zenon DEF Vault
  <2>3. vault = NoVault => vault.locked = FALSE
    BY DEF NoVault
  <2> QED BY <1>1, <2>1, <2>2, <2>3, Zenon
<1>3. CASE UNCHANGED <<vault, disk, stale>>
  <2>1. UnlockIsAsked'
    BY <1>1, <1>3 DEF UnlockIsAsked
  <2> QED BY <1>1, <1>2, <1>3, <2>1, IdleKeepsInv DEF VaultInv, VaultTypeOK
<1>4. ASSUME vault # NoVault, ~vault.locked, NEW s \in Settings \cup {Blank},
             Flush(Changed(vault, s))
      PROVE  VaultInv'
  <2>1. vault \in Vault /\ Fits(vault)
    BY <1>4 DEF VaultInv, VaultTypeOK
  <2>2. /\ file' \in VaultFile /\ bak' \in VaultFile /\ stale' \in BOOLEAN
        /\ vault' \in Vault /\ Fits(vault') /\ ~vault'.locked
        /\ CleanVaultIsFile'
    BY <1>4, <2>1, ChangedFacts, FlushFacts
  <2>3. VaultTypeOK'
    BY <1>1, <1>2, <2>2 DEF VaultInv, VaultTypeOK
  <2>4. UnlockIsAsked'
    BY <2>2 DEF UnlockIsAsked
  <2> QED BY <2>2, <2>3, <2>4 DEF VaultInv, Fits, RecordOf
<1>5. \A s \in IF vault.body = Blank THEN Settings ELSE {vault.body} :
         vault # NoVault => s \in Settings \cup {Blank}
  BY DEF VaultInv, VaultTypeOK, Vault
<1> QED BY <1>3, <1>4, <1>5 DEF StartSettings

LEMMA ProcessEndsKeepsInv ==
  ASSUME VaultInv, ProgramEnds
  PROVE  VaultInv'
<1>1. VaultTypeOK'
  BY DEF VaultInv, VaultTypeOK, ProgramEnds, disk, copies
<1> QED BY <1>1 DEF ProgramEnds, VaultInv, CleanVaultIsFile, UnlockIsAsked

LEMMA SetSettingKeepsInv ==
  ASSUME VaultInv, SetSetting
  PROVE  VaultInv'
<1>1. PICK s \in Settings : Flush(Changed(vault, s))
  BY DEF SetSetting
<1>2. vault \in Vault /\ Fits(vault)
  BY DEF SetSetting, HasVault, VaultInv, VaultTypeOK
<1>3. /\ Changed(vault, s) \in Vault /\ Fits(Changed(vault, s))
      /\ Changed(vault, s).dirty /\ Changed(vault, s).locked = vault.locked
  BY <1>2, ChangedFacts
<1> QED BY <1>1, <1>3, FlushKeepsInv DEF SetSetting, VaultInv, VaultTypeOK, copies

LEMMA SaveSettingsKeepsInv ==
  ASSUME VaultInv, SaveSettings
  PROVE  VaultInv'
<1>1. /\ HasVault /\ ~vault.locked /\ phase' = phase /\ asked' = asked /\ entry' = entry
      /\ missed' = missed /\ backups' = backups /\ bundle' = bundle
  BY DEF SaveSettings, copies
<1>2. vault \in Vault /\ Fits(vault) /\ vault # NoVault
  BY <1>1 DEF HasVault, VaultInv, VaultTypeOK
<1>3. PICK s \in Settings :
        \/ Write(Changed(vault, s))
        \/ Flush(Touched(vault))
        \/ /\ vault' = [vault EXCEPT !.dirty = FALSE] /\ stale' = FALSE
           /\ file' = RecordOf(vault) /\ bak' = RecordOf(Changed(vault, s))
        \/ /\ vault' = Touched(vault) /\ stale' = FALSE
           /\ file' = RecordOf(Changed(vault, s))
           /\ bak' = IF file.tag = "Absent" THEN bak ELSE file
  BY DEF SaveSettings
<1>4. /\ Changed(vault, s) \in Vault /\ Fits(Changed(vault, s))
      /\ Changed(vault, s).dirty /\ ~Changed(vault, s).locked
      /\ Touched(vault) \in Vault /\ Fits(Touched(vault))
      /\ Touched(vault).dirty /\ ~Touched(vault).locked
  BY <1>1, <1>2, ChangedFacts
<1>5. CASE Write(Changed(vault, s)) \/ Flush(Touched(vault))
  <2>1. Write(Changed(vault, s)) => Flush(Changed(vault, s))
    BY DEF Flush
  <2> QED BY <1>1, <1>4, <1>5, <2>1, FlushKeepsInv DEF VaultInv, VaultTypeOK
<1>6. RecordOf(vault) \in Record /\ RecordOf(Changed(vault, s)) \in Record
  BY <1>1, <1>2, <1>4 DEF Fits
<1>7. CASE /\ vault' = [vault EXCEPT !.dirty = FALSE] /\ stale' = FALSE
           /\ file' = RecordOf(vault) /\ bak' = RecordOf(Changed(vault, s))
  <2>1. vault' \in Vault /\ RecordOf(vault') = RecordOf(vault) /\ ~vault'.locked
    BY <1>1, <1>2, <1>7 DEF Vault, RecordOf
  <2>2. Opens(file')
    BY <1>6, <1>7, ReadableFacts DEF VaultFile
  <2>3. CleanVaultIsFile'
    BY <1>7, <2>1, <2>2 DEF CleanVaultIsFile, Stored, Opens, RecordOf
  <2>4. VaultTypeOK'
    BY <1>1, <1>6, <1>7, <2>1 DEF VaultInv, VaultTypeOK, VaultFile
  <2> QED BY <1>6, <2>1, <2>3, <2>4 DEF VaultInv, UnlockIsAsked, Fits, RecordOf
<1>8. CASE /\ vault' = Touched(vault) /\ stale' = FALSE
           /\ file' = RecordOf(Changed(vault, s))
           /\ bak' = IF file.tag = "Absent" THEN bak ELSE file
  <2>1. CleanVaultIsFile'
    BY <1>4, <1>8 DEF CleanVaultIsFile
  <2>2. VaultTypeOK'
    BY <1>1, <1>4, <1>6, <1>8 DEF VaultInv, VaultTypeOK, VaultFile
  <2> QED BY <1>4, <1>8, <2>1, <2>2 DEF VaultInv, UnlockIsAsked, Fits, RecordOf
<1> QED BY <1>3, <1>5, <1>7, <1>8

LEMMA SelectPlainKeepsInv ==
  ASSUME VaultInv, SelectPlain
  PROVE  VaultInv'
<1>1. /\ HasVault /\ phase' = phase /\ asked' = asked /\ entry' = "none"
      /\ missed' = missed /\ backups' = backups /\ bundle' = bundle
  BY DEF SelectPlain, copies
<1>2. vault \in Vault
  BY <1>1 DEF HasVault, VaultInv, VaultTypeOK
<1>3. CASE vault.locked
  <2>1. UNCHANGED <<vault, disk, stale>>
    BY <1>3 DEF SelectPlain
  <2>2. UnlockIsAsked'
    BY <1>1, <2>1 DEF VaultInv, UnlockIsAsked
  <2> QED BY <1>1, <2>1, <2>2, IdleKeepsInv DEF VaultInv, VaultTypeOK
<1>4. CASE ~vault.locked
  <2> DEFINE v == [vault EXCEPT !.tag = "Plain", !.key = NoKey, !.dirty = TRUE]
  <2>1. Flush(v)
    BY <1>4 DEF SelectPlain
  <2>2. v \in Vault /\ Fits(v) /\ v.dirty /\ ~v.locked
    BY <1>2, <1>4 DEF Vault, Fits, RecordOf, Record
  <2> HIDE DEF v
  <2> QED BY <1>1, <2>1, <2>2, FlushKeepsInv DEF VaultInv, VaultTypeOK
<1> QED BY <1>3, <1>4

LEMMA TypingKeepsInv ==
  ASSUME VaultInv, FocusPassphrase \/ CancelPassphrase
  PROVE  VaultInv'
<1>1. /\ UNCHANGED <<disk, vault, phase, asked, bundle, backups, stale, missed>>
      /\ entry' \in {"none", "Set", "Unlock"}
  BY DEF FocusPassphrase, CancelPassphrase, Purpose, copies
<1>2. UnlockIsAsked'
  BY <1>1 DEF VaultInv, UnlockIsAsked
<1> QED BY <1>1, <1>2, IdleKeepsInv DEF VaultInv, VaultTypeOK

LEMMA SetPassphraseKeepsInv ==
  ASSUME VaultInv, HasVault, NEW k \in Passphrases, SetPassphrase(k),
         entry' = "none", phase' = phase, bundle' = bundle, backups' = backups
  PROVE  VaultInv'
<1> DEFINE v == [vault EXCEPT !.tag = "Passphrase", !.key = k, !.locked = FALSE, !.dirty = TRUE]
<1>1. vault \in Vault /\ vault # NoVault
  BY DEF HasVault, VaultInv, VaultTypeOK
<1>2. v \in Vault /\ Fits(v) /\ v.dirty /\ ~v.locked
  BY <1>1 DEF Vault, Fits, RecordOf, Record
<1>3. Flush(v) /\ asked' \in {FALSE, asked} /\ missed' = missed
  BY DEF SetPassphrase, Flush
<1> HIDE DEF v
<1>4. /\ file' \in VaultFile /\ bak' \in VaultFile /\ stale' \in BOOLEAN
      /\ vault' \in Vault /\ Fits(vault') /\ ~vault'.locked
      /\ CleanVaultIsFile'
  BY <1>1, <1>2, <1>3, FlushFacts
<1>5. VaultTypeOK'
  BY <1>3, <1>4 DEF VaultInv, VaultTypeOK
<1> QED BY <1>4, <1>5 DEF VaultInv, UnlockIsAsked, Fits, RecordOf

LEMMA UnlockWithKeepsInv ==
  ASSUME VaultInv, HasVault, NEW k \in Passphrases, UnlockWith(k),
         entry' = "none", phase' = phase, bundle' = bundle, backups' = backups
  PROVE  VaultInv'
<1>1. file \in VaultFile /\ bak \in VaultFile /\ vault \in Vault /\ vault # NoVault
  BY DEF HasVault, VaultInv, VaultTypeOK
<1>2. CASE /\ NothingStored /\ UNCHANGED <<disk, stale>>
           /\ vault' = [tag |-> "Passphrase", key |-> k, body |-> Blank,
                        locked |-> FALSE, dirty |-> TRUE]
           /\ asked' = FALSE /\ missed' = FALSE
  <2>1. vault' \in Vault /\ Fits(vault') /\ vault'.dirty /\ ~vault'.locked
    BY <1>2 DEF Vault, Fits, RecordOf, Record
  <2>2. VaultTypeOK'
    BY <1>1, <1>2, <2>1 DEF VaultInv, VaultTypeOK, disk
  <2> QED BY <2>1, <2>2 DEF VaultInv, CleanVaultIsFile, UnlockIsAsked, Fits, RecordOf
<1>3. CASE /\ Opens(Stored) /\ Heal
           /\ \/ Stored.tag = "Passphrase" /\ Stored.key = k /\ Unlocked(k)
              \/ Stored.tag # "Passphrase" /\ vault' = Opened(Stored)
           /\ asked' = FALSE /\ missed' = FALSE /\ stale' = FALSE
  <2>1. file' \in VaultFile /\ bak' \in VaultFile /\ Stored' = Stored
    BY <1>1, <1>3, HealFacts
  <2>2. Stored \in Record
    BY <1>1, <1>3, ReadableFacts DEF Stored
  <2>3. /\ vault' \in Vault /\ Fits(vault') /\ ~vault'.locked
        /\ RecordOf(vault') = Stored
    <3>1. CASE Stored.tag = "Passphrase" /\ Stored.key = k /\ Unlocked(k)
      <4>1. vault' = [tag |-> "Passphrase", key |-> k, body |-> Stored.body,
                      locked |-> FALSE, dirty |-> FALSE]
        BY <3>1 DEF Unlocked
      <4>2. RecordOf(vault') = Stored
        BY <2>2, <3>1, <4>1 DEF RecordOf, Record
      <4>3. vault' \in Vault /\ ~vault'.locked
        BY <2>2, <4>1 DEF Vault, Record
      <4> QED BY <2>2, <4>2, <4>3 DEF Fits
    <3>2. CASE Stored.tag # "Passphrase" /\ vault' = Opened(Stored)
      BY <2>2, <3>2, OpenedFacts
    <3> QED BY <1>3, <3>1, <3>2
  <2>4. VaultTypeOK'
    BY <1>3, <2>1, <2>3 DEF VaultInv, VaultTypeOK
  <2>5. CleanVaultIsFile'
    BY <2>1, <2>3 DEF CleanVaultIsFile, RecordOf
  <2> QED BY <2>3, <2>4, <2>5 DEF VaultInv, UnlockIsAsked, Fits, RecordOf
<1>4. CASE /\ \/ Unreadable /\ UNCHANGED disk
              \/ Stored.tag = "Passphrase" /\ Stored.key # k /\ Heal
           /\ asked' = TRUE /\ UNCHANGED <<vault, stale, missed>>
  <2>1. UnlockIsAsked'
    BY <1>4 DEF UnlockIsAsked
  <2>2. CASE UNCHANGED disk
    BY <1>4, <2>1, <2>2, IdleKeepsInv DEF VaultInv, VaultTypeOK
  <2>3. CASE Stored.tag = "Passphrase" /\ Heal
    <3>1. Opens(Stored)
      BY <2>3 DEF Opens
    <3>2. file' \in VaultFile /\ bak' \in VaultFile /\ Stored' = Stored
      BY <1>1, <2>3, <3>1, HealFacts
    <3>3. ~NothingStored
      BY <3>1 DEF NothingStored, Stored, Opens
    <3>4. CleanVaultIsFile'
      BY <1>4, <3>2, <3>3 DEF VaultInv, CleanVaultIsFile, RecordOf
    <3>5. VaultTypeOK'
      BY <1>4, <3>2 DEF VaultInv, VaultTypeOK
    <3> QED BY <1>4, <2>1, <3>4, <3>5 DEF VaultInv, Fits, RecordOf
  <2> QED BY <1>4, <2>2, <2>3
<1> QED BY <1>2, <1>3, <1>4 DEF UnlockWith

LEMMA SubmitKeepsInv ==
  ASSUME VaultInv, EnterPassphrase \/ PassphraseButton
  PROVE  VaultInv'
<1>1. PICK purpose : Submit(purpose)
  BY DEF EnterPassphrase, PassphraseButton
<1>2. PICK k \in Passphrases : IF purpose = "Set" THEN SetPassphrase(k) ELSE UnlockWith(k)
  BY <1>1 DEF Submit
<1>3. /\ HasVault /\ entry' = "none" /\ phase' = phase
      /\ bundle' = bundle /\ backups' = backups
  BY <1>1 DEF Submit, copies
<1> QED BY <1>2, <1>3, SetPassphraseKeepsInv, UnlockWithKeepsInv

LEMMA CreateBackupKeepsInv ==
  ASSUME VaultInv, CreateBackup
  PROVE  VaultInv'
<1>1. /\ HasVault /\ phase' = phase /\ asked' = asked /\ entry' = entry
      /\ missed' = missed /\ bundle' = bundle
  BY DEF CreateBackup
<1>2. vault \in Vault /\ Fits(vault) /\ vault # NoVault
      /\ file \in VaultFile /\ bak \in VaultFile /\ backups \in Seq(VaultFile)
  BY <1>1 DEF HasVault, VaultInv, VaultTypeOK
<1>3. /\ Touched(vault) \in Vault /\ Fits(Touched(vault))
      /\ Touched(vault).dirty /\ Touched(vault).locked = vault.locked
  BY <1>2, ChangedFacts
<1>4. Flush(Touched(vault))
  BY DEF CreateBackup, Flush
<1>5. file' \in VaultFile
  BY <1>2, <1>3, <1>4, FlushFacts
<1>6. backups' \in Seq(VaultFile)
  <2>1. Append(backups, file') \in Seq(VaultFile) /\ Append(backups, TornFile) \in Seq(VaultFile)
    BY <1>2, <1>5 DEF VaultFile
  <2>2. \A n \in 1..MaxRetained : Newest(n, Append(backups, file')) \in Seq(VaultFile)
    BY <2>1, NewestFacts
  <2> QED BY <1>2, <2>1, <2>2 DEF CreateBackup
<1>7. entry' \in {"none", "Set", "Unlock"} /\ bundle' \in VaultFile
  BY <1>1 DEF VaultInv, VaultTypeOK
<1> QED BY <1>1, <1>3, <1>4, <1>6, <1>7, FlushKeepsInv

(* A copy over vault.bin that stopped half-way.                            *)
LEMMA CopyCutShortKeepsInv ==
  ASSUME VaultInv, CopyCutShort, phase' = phase, entry' = entry,
         bundle' = bundle, backups' = backups
  PROVE  VaultInv'
<1>1. file' \in VaultFile /\ stale' = TRUE
      /\ UNCHANGED <<bak, vault, asked, missed>>
  BY DEF CopyCutShort, VaultFile
<1>2. VaultTypeOK'
  BY <1>1 DEF VaultInv, VaultTypeOK
<1> QED BY <1>1, <1>2 DEF VaultInv, CleanVaultIsFile, UnlockIsAsked, Fits, RecordOf

LEMMA RestoreBackupKeepsInv ==
  ASSUME VaultInv, RestoreBackup
  PROVE  VaultInv'
<1>1. /\ HasVault /\ phase' = phase /\ entry' = entry
      /\ bundle' = bundle /\ backups' = backups
  BY DEF RestoreBackup, copies
<1>2. PICK i \in 1..Len(backups) :
        /\ Opens(backups[i])
        /\ \/ CopyCutShort
           \/ /\ file' = backups[i] /\ stale' = TRUE
              /\ UNCHANGED <<bak, vault, asked, missed>>
           \/ /\ backups[i].tag # "Passphrase" /\ file' = backups[i] /\ bak' = backups[i]
              /\ vault' = Opened(backups[i])
              /\ asked' \in {FALSE, asked} /\ stale' = FALSE /\ missed' = FALSE
  BY DEF RestoreBackup
<1> DEFINE f == backups[i]
<1>3. f \in VaultFile
  BY DEF VaultInv, VaultTypeOK
<1>4. f \in Record
  BY <1>2, <1>3, ReadableFacts
<1> HIDE DEF f
<1>5. CASE CopyCutShort
  BY <1>1, <1>5, CopyCutShortKeepsInv
<1>6. CASE file' = f /\ stale' = TRUE /\ UNCHANGED <<bak, vault, asked, missed>>
  <2>1. VaultTypeOK'
    BY <1>1, <1>3, <1>6 DEF VaultInv, VaultTypeOK
  <2> QED BY <1>1, <1>6, <2>1 DEF VaultInv, CleanVaultIsFile, UnlockIsAsked, Fits, RecordOf
<1>7. CASE /\ f.tag # "Passphrase" /\ file' = f /\ bak' = f /\ vault' = Opened(f)
           /\ asked' \in {FALSE, asked} /\ stale' = FALSE /\ missed' = FALSE
  <2>1. vault' \in Vault /\ Fits(vault') /\ ~vault'.locked /\ RecordOf(vault') = f
    BY <1>4, <1>7, OpenedFacts
  <2>2. VaultTypeOK'
    BY <1>1, <1>3, <1>7, <2>1 DEF VaultInv, VaultTypeOK
  <2>3. CleanVaultIsFile'
    BY <1>7, <2>1 DEF CleanVaultIsFile, Stored, Opens, RecordOf
  <2> QED BY <2>1, <2>2, <2>3 DEF VaultInv, UnlockIsAsked, Fits, RecordOf
<1> QED BY <1>2, <1>5, <1>6, <1>7 DEF f

LEMMA CaptureBundleKeepsInv ==
  ASSUME VaultInv, CaptureBundle
  PROVE  VaultInv'
<1>1. /\ phase' = phase /\ asked' = asked /\ entry' = entry
      /\ missed' = missed /\ backups' = backups
  BY DEF CaptureBundle
<1>2. CASE HasVault /\ Flush(vault) /\ vault.dirty /\ bundle' \in {bundle, file'}
  <2>1. vault \in Vault /\ Fits(vault) /\ vault # NoVault
    BY <1>2 DEF HasVault, VaultInv, VaultTypeOK
  <2>2. file' \in VaultFile
    BY <1>2, <2>1, FlushFacts
  <2>3. /\ bundle' \in VaultFile /\ backups' \in Seq(VaultFile)
        /\ entry' \in {"none", "Set", "Unlock"}
    BY <1>1, <1>2, <2>2 DEF VaultInv, VaultTypeOK
  <2> QED BY <1>1, <1>2, <2>1, <2>3, FlushKeepsInv
<1>3. CASE /\ UNCHANGED <<disk, vault, stale>>
           /\ bundle' \in {bundle, file', NoFile}
  <2>1. bundle' \in VaultFile
    BY <1>3 DEF VaultInv, VaultTypeOK, VaultFile, disk
  <2>2. UnlockIsAsked'
    BY <1>1, <1>3 DEF VaultInv, UnlockIsAsked
  <2> QED BY <1>1, <1>3, <2>1, <2>2, IdleKeepsInv DEF VaultInv, VaultTypeOK
<1>4. CASE HasVault /\ Flush(vault) /\ bundle' \in {bundle, file'}
  <2>1. CASE ~vault.dirty
    BY <1>3, <1>4, <2>1 DEF Flush, Write, WriteFails
  <2> QED BY <1>2, <1>4, <2>1
<1>5. CASE ~HasVault /\ bundle' \in {bundle, NoFile} /\ UNCHANGED <<disk, vault, stale>>
  BY <1>3, <1>5
<1>6. \/ HasVault /\ Flush(vault) /\ bundle' \in {bundle, file'}
      \/ ~HasVault /\ bundle' \in {bundle, NoFile} /\ UNCHANGED <<disk, vault, stale>>
  BY DEF CaptureBundle
<1> QED BY <1>4, <1>5, <1>6

LEMMA RestoreBundleKeepsInv ==
  ASSUME VaultInv, RestoreBundle
  PROVE  VaultInv'
<1>1. /\ HasVault /\ phase' = phase /\ entry' = entry /\ Opens(bundle)
      /\ bundle' = bundle /\ backups' = backups
  BY DEF RestoreBundle, copies
<1>2. bundle \in VaultFile /\ bundle \in Record
  BY <1>1, ReadableFacts DEF VaultInv, VaultTypeOK
<1>3. CASE CopyCutShort
  BY <1>1, <1>3, CopyCutShortKeepsInv
<1>4. CASE /\ file' = bundle /\ vault' = Opened(bundle) /\ stale' = FALSE
           /\ \/ asked' = vault'.locked /\ missed' = FALSE
              \/ missed' = TRUE /\ UNCHANGED asked
           /\ UNCHANGED bak
  <2>1. /\ vault' \in Vault /\ Fits(vault') /\ vault' # NoVault
        /\ vault'.locked <=> bundle.tag = "Passphrase"
        /\ ~vault'.locked => RecordOf(vault') = bundle
    BY <1>2, <1>4, OpenedFacts
  <2>2. vault'.locked \in BOOLEAN
    BY <2>1, Zenon DEF Vault
  <2>3. asked' \in BOOLEAN /\ missed' \in BOOLEAN
    <3>1. asked \in BOOLEAN
      BY DEF VaultInv, VaultTypeOK
    <3>2. CASE asked' = vault'.locked /\ missed' = FALSE
      BY <2>2, <3>2, Zenon
    <3>3. CASE missed' = TRUE /\ UNCHANGED asked
      BY <3>1, <3>3
    <3> QED BY <1>4, <3>2, <3>3
  <2>4. VaultTypeOK'
    BY <1>1, <1>2, <1>4, <2>1, <2>3 DEF VaultInv, VaultTypeOK
  <2>5. Stored' = bundle
    BY <1>1, <1>4 DEF Stored, Opens
  <2>6. CleanVaultIsFile'
    BY <2>1, <2>5 DEF CleanVaultIsFile, RecordOf
  <2>7. UnlockIsAsked'
    BY <1>4 DEF UnlockIsAsked
  <2> QED BY <2>1, <2>4, <2>6, <2>7 DEF VaultInv, Fits, RecordOf
<1> QED BY <1>3, <1>4 DEF RestoreBundle
-----------------------------------------------------------------------------
LEMMA VaultInvStep == VaultInv /\ [VaultNext]_vaultVars => VaultInv'
<1> SUFFICES ASSUME VaultInv, [VaultNext]_vaultVars PROVE VaultInv'
  OBVIOUS
<1>1. CASE OpenVault \/ StartSettings \/ ProgramEnds
  BY <1>1, OpenVaultKeepsInv, StartSettingsKeepsInv, ProcessEndsKeepsInv
<1>2. CASE SetSetting \/ SaveSettings \/ SelectPlain
  BY <1>2, SetSettingKeepsInv, SaveSettingsKeepsInv, SelectPlainKeepsInv
<1>3. CASE FocusPassphrase \/ CancelPassphrase \/ EnterPassphrase \/ PassphraseButton
  BY <1>3, TypingKeepsInv, SubmitKeepsInv
<1>4. CASE CreateBackup \/ RestoreBackup \/ CaptureBundle \/ RestoreBundle
  BY <1>4, CreateBackupKeepsInv, RestoreBackupKeepsInv, CaptureBundleKeepsInv,
     RestoreBundleKeepsInv
<1>5. CASE UNCHANGED vaultVars
  <2>1. /\ UNCHANGED <<disk, vault, stale>>
        /\ UNCHANGED <<asked, missed, phase, entry, bundle, backups>>
    BY <1>5 DEF vaultVars, disk
  <2>2. UnlockIsAsked'
    BY <2>1 DEF VaultInv, UnlockIsAsked
  <2> QED BY <2>1, <2>2, IdleKeepsInv DEF VaultInv, VaultTypeOK
<1> QED BY <1>1, <1>2, <1>3, <1>4, <1>5 DEF VaultNext

LEMMA VaultInvAlways == VaultSpec => []VaultInv
BY VaultInvInit, VaultInvStep, PTL DEF VaultSpec

(* A vault in memory that says it is saved is what the next start opens,   *)
(* through every failed write, rollback, restore and unlocking, but for a  *)
(* copy over vault.bin that stopped half-way.                              *)
THEOREM SavedVaultIsFound == VaultSpec => []CleanVaultIsFile
<1>1. VaultInv => CleanVaultIsFile
  BY DEF VaultInv
<1> QED BY <1>1, VaultInvAlways, PTL

(* A locked vault is one that the settings page asks to unlock, but after  *)
(* a bundle restore that failed half-way.                                  *)
THEOREM LockedVaultIsAskedFor == VaultSpec => []UnlockIsAsked
<1>1. VaultInv => UnlockIsAsked
  BY DEF VaultInv
<1> QED BY <1>1, VaultInvAlways, PTL
-----------------------------------------------------------------------------
(* What a step may make of the file of a vault that is locked and asked    *)
(* for.                                                                    *)
FileKept ==
    vault.locked /\ asked /\ file' # file /\ ~(entry = "Set" /\ entry' = "none") =>
        file' \in {NoFile, TornFile, bak, bundle} \cup {backups[i] : i \in 1..Len(backups)}

LEMMA FileKeptStep == VaultInv /\ [VaultNext]_vaultVars => FileKept
<1> SUFFICES ASSUME VaultInv, [VaultNext]_vaultVars, vault.locked, asked, file' # file,
                    ~(entry = "Set" /\ entry' = "none")
             PROVE  file' \in {NoFile, TornFile, bak, bundle}
                                \cup {backups[i] : i \in 1..Len(backups)}
  BY DEF FileKept
<1>1. Heal => file' \in {NoFile, bak}
  BY DEF Heal, disk
<1>2. vault # NoVault
  BY DEF NoVault
<1>3. vault \in Vault /\ Fits(vault)
  BY <1>2 DEF VaultInv, VaultTypeOK
<1>4. \A s \in Settings \cup {Blank} :
        /\ Changed(vault, s).locked
        /\ Touched(vault).locked
  BY <1>3, ChangedFacts
<1>5. \A v : v.locked /\ Flush(v) => file' = file
  BY DEF Flush, Write, WriteFails, disk
<1>6. CASE OpenVault
  BY <1>1, <1>6 DEF OpenVault, disk
<1>7. ~StartSettings /\ ~ProgramEnds
  BY DEF StartSettings, ProgramEnds, disk
<1>8. ~SetSetting
  BY <1>4, <1>5 DEF SetSetting
<1>9. ~SaveSettings /\ ~SelectPlain
  BY DEF SaveSettings, SelectPlain, disk
<1>10. ~FocusPassphrase /\ ~CancelPassphrase
  BY DEF FocusPassphrase, CancelPassphrase, disk
<1>11. CASE EnterPassphrase \/ PassphraseButton
  <2>1. PICK k \in Passphrases : UnlockWith(k)
    <3>1. CASE EnterPassphrase
      <4>1. Submit(entry) /\ entry # "Set"
        BY <3>1 DEF EnterPassphrase, Submit
      <4> QED BY <4>1 DEF Submit
    <3>2. CASE PassphraseButton
      BY <3>2 DEF PassphraseButton, Purpose, Submit
    <3> QED BY <1>11, <3>1, <3>2
  <2> QED BY <1>1, <2>1 DEF UnlockWith, disk
<1>12. ~CreateBackup
  <2>1. ~Write(Touched(vault))
    BY <1>4, <1>3, ChangedFacts DEF Write
  <2> QED BY <2>1 DEF CreateBackup, WriteFails, disk
<1>13. CASE RestoreBackup
  BY <1>13 DEF RestoreBackup, CopyCutShort
<1>14. ~CaptureBundle
  <2>1. ~Flush(vault)
    BY <1>5
  <2> QED BY <2>1 DEF CaptureBundle, disk
<1>15. CASE RestoreBundle
  BY <1>15 DEF RestoreBundle, CopyCutShort
<1>16. CASE UNCHANGED vaultVars
  BY <1>16 DEF vaultVars
<1> QED BY <1>6, <1>7, <1>8, <1>9, <1>10, <1>11, <1>12, <1>13, <1>14, <1>15, <1>16
        DEF VaultNext

(* Nothing is written over the file of a locked vault while its passphrase *)
(* is asked for: only a restore or a healing changes it.                   *)
THEOREM LockedFileIsKept == VaultSpec => LockedFileKept
<1>1. VaultInv /\ [VaultNext]_vaultVars => [FileKept]_vaultVars
  BY FileKeptStep
<1> QED BY <1>1, VaultInvAlways, PTL DEF VaultSpec, LockedFileKept, FileKept
=============================================================================
