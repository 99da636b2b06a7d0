# BentoDesk: a TLA+ verification project

BentoDesk is a Windows desktop organiser written in Rust. It draws *zones* on the
desktop, takes the user's files into them, hides those files in a directory of its
own and gives them back. What must not go wrong is simple to say and hard to test:

* a user's file never disappears, whatever fails and whenever the process dies;
* what was saved -- the layout, the manifest of hidden files, the settings -- is
  what the next start finds;
* the zones on the screen are the zones that exist, each shown once;
* what happens in the background -- updates, rules, mirrored folders, files that
  come and go -- ends, is done once, and reaches the screen.

The modules here model the code that has to keep those promises. They are checked
with TLC on small instances and, where a theorem is listed below, proved with TLAPS
for every value of their constants. File and line references are to `src/`.

Contents: [inventory](#1-inventory), [modules](#2-modules-and-how-they-correspond-to-the-code),
[runs](#3-runs-bounds-and-what-they-show), [fairness](#4-fairness-and-liveness),
[proofs](#5-proofs), [disagreements found](#6-where-the-code-and-its-documentation-disagree),
[not modelled](#7-what-is-not-modelled-and-why), [plan](#8-plan).

## 1. Inventory

The workspace has ten crates. `bentodesk-backend` holds the services (stealth,
storage, updater, watcher, rules, ...), `bentodesk-zone` the zone model,
`bentodesk-platform` the Win32 layer and the codec of `zones.bin`,
`bentodesk-app` the application state, `bentodesk-shell` the window procedure and
the command dispatcher; the other five (widget, tree, layout, style, theme) are the
user-interface toolkit.

One UI thread owns the application state. Commands are queued by input handlers and
drained by the dispatcher, which then calls `flush_dirty_zones`. Background threads
(updater workers and scheduler, rules scheduler, two debouncers, icon workers) talk to
it through bounded queues, drained by a timer of 250 ms (`BACKEND_EVENT_POLL_MS`) and
when it paints. OLE drag-out runs a *nested*
message loop inside a handler. Everything else that runs concurrently is the rest of
the machine: the user and other programs, which change the desktop folder at any
time, and virus scanners and backup tools, which hold files open.

| Component | State it keeps | Operations | Interacts with | Hard behaviour | Correct when |
|---|---|---|---|---|---|
| **Hidden items** (`stealth/hide.rs`, `restore.rs`, shell `item_*.rs`) | files on the desktop and below `.bentodesk`, items of the zones | add, remove, move, rename, recycle, drag out | manifest, zones.bin, OLE, the user | two effects (file, manifest) with a crash or a failure between; copy fallback; commands inside a drag-out; files created by others | no file lost or overwritten; a stowed file can be found again |
| **Safety manifest** (`stealth/sync.rs`) | `manifest.json`, `.bak`, `.tmp` | add, remove, snapshot, load | hidden items, recovery bundle | four file operations per save | the list loaded is the list last saved |
| **JSON store** (`storage/mod.rs`) | `<file>`, `.bak`, `.tmp` | write atomically, read with recovery | vault, plugin registry, recovery bundle, themes | ReplaceFileW failing half way, damaged files, power failure | a durable register |
| **zones.bin and start-up** (`storage.rs` of the platform, `state/window.rs`, `startup_backup_types.rs`, `recovery_vault.rs`) | file, bundle, layout in memory, dirty flag | heal, load (twice), edit, flush, exit | zones, bundle | two loads and a healing in one start, unreadable or damaged files | the last layout saved comes back and no start discards one |
| **Zones and stacks** (`zone_list.rs`, dispatch `zones.rs`, `stacks.rs`) | list of zones, `stack_parent`, `stack_members`, next id | create, delete, stack, unstack, detach, dissolve, reorder, flatten | timeline, capsules, zones.bin | a relation kept twice, over long command sequences | the two records agree; every zone shown exactly once |
| **Timeline** (`timeline/*`, `timeline_storage.rs`) | ring of checkpoints and one file each, cursor | record, save, pin, undo, redo, restore, delete, load | zones, hidden items | bursts joined by time, eviction, a file operation that fails between two others | memory and disk agree; pinned checkpoints stay; redo takes back an undo |
| **Context capsules** (`context_capsules.rs`) | captured layouts | capture, restore | zones | ids of an earlier life | as above, ids stay unique |
| **Recovery bundle** (`recovery_bundle.rs`, `recovery_vault.rs`) | one file with layout, manifest, vault, user data | capture, restore | zones.bin, manifest, vault | several stores restored, each may fail | all or a reported part |
| **Updater** (`updater/*`, `update_scheduler.rs`) | operation gate, pending and staged version, events, scheduler | check, download, install, skip, configure | UI thread, two workers, scheduler thread, vault | four threads around one gate; late events | one answer per operation; every operation ends |
| **Watcher, live folders** (`watcher/*`, `live_folders.rs`, `paint_events.rs`) | three bounded queues, pending events per path, bindings | debounce, bind, unbind, refresh, rescan | zones, hidden items | queues that overflow, partly sent batches, queued refreshes of zones that changed since | screen and folder agree in the end |
| **Rules** (`rules/*`, `rules_execution.rs`) | rule file, queue of due rules | schedule, execute, save, delete | hidden items, timeline | scheduler thread against UI thread, effects that cannot be recorded | once per interval, none starves |
| **Config vault** (`config_vault/*`, settings of the shell) | `vault.bin`, vault in memory, lock, backups | open, set, save, protect, unlock, back up, restore | JSON store, recovery bundle | rollbacks that fail, copies made outside the store, a lock that comes and goes | a clean vault is the file; a locked one is kept |
| **AttrGuard** (`stealth/sync.rs` 474-645), **worker pool**, **timeline hook** | -- | -- | -- | not used by any other code | -- |
| **Plugins, themes** | registry, installed files | install, remove, load | JSON store | registry against files | registry lists what is installed |
| **Icon cache, positions** (`icon/*`) | two tiers, budget | get, put, evict | workers | budget, late results | within budget |
| **Search** (`search/*`) | index, generation | query, debounce | UI | late results | newest query wins |
| **Layout resolution** (`layout/*`) | pure functions | normalise, rescale | timeline | rounding | stays on screen |
| Gestures, rendering, toolkit, power, DPI, autostart | transient | -- | -- | Win32 and floating point | -- |

`PROJECT.json` lists every component with its sources and status, and every hazard
with the line where it bites and the properties that cover it.

## 2. Modules and how they correspond to the code

```
 abstract                 detailed                   checked through    proved in
 FileCustody    <=======  HiddenItems                MCHiddenItems      HiddenItems_proofs
 DurableRegister <======  JsonStore ----+- DiskFile  MCSettingsStore    SettingsStore_proofs
                          ConfigVault   |            MCSettingsStore    SettingsStore_proofs
 DurableRegister <======  ManifestStore +                               ManifestStore_proofs
                          ZonesFile ----+                               ZonesFile_proofs
                          ZoneStacks                 MCZoneStacks       ZoneStacks_proofs
                          Timeline                   MCTimeline         Timeline_proofs
                          Updater                    MCUpdater          Updater_proofs
                          Rules                      MCDesktopEvents    PumpedEvents_proofs
                          DesktopPresence -+- Debouncer  MCDesktopEvents  PumpedEvents_proofs
                          LiveFolders -----+         MCLiveFolders      PumpedEvents_proofs
```
`<=====` is a refinement: the detailed module instantiates the abstract one under a
refinement mapping and its specification implies the abstract one.

**FileCustody.** What the program promises about each user file: absent, visible,
stowed or released. A file goes from visible to stowed and back, and is released
only by the user. There is no step from stowed or visible to absent: a file that is
overwritten, or deleted in both places by a fallback, breaks it.

**HiddenItems.** A handler is split where a crash or another program can come
between its effects: *AddItem* is `HideByRename` or `HideByCopy`, `HideCopyFinish`,
then `HideCommit` (manifest entry and item), with `HideCopyAbort`, `HideRollback`,
`RollbackDone`, `HideUnrecorded` as its error paths; *RemoveItem* is `RestoreBegin`
(the checks of `restore_file`), `RestoreByRename` or `RestoreByCopy` and
`RestoreCopyFinish`, then `RemoveCommit`, with `RestoreCopyAbort` and
`RestoreGivesUp`. Move, rename, recycle and delete are one step each, for they
touch one file and then only memory. A drag-out is `DragBegin` and, after any
number of other commands, `DragMoved` or `DragKeepsModel`, because OLE's loop
dispatches messages. `Flush` writes the layout; `Crash` forgets memory and starts
from `bin`. `UserCreates` and `UserDeletes` are the rest of the machine.

Two history variables: `released`, the files the user gave up, and `exposed`, the
files whose way back the code is known to have given up. `exposed` grows in exactly
these places, each a line of the code: a hidden file is renamed or moved to another
zone (the manifest is not told), `manifest_add` supersedes or `manifest_remove` drops
the entry of another file with the same original path, the rollback of a hide fails
(`HiddenWithoutManifest`), the process dies between the move of the file and the
manifest entry. `RecoverableUnlessExposed` says there is no other way.

**DiskFile** is a file as the stores see it: absent, torn or whole, synced or not,
and what a power failure may leave of it. **DurableRegister** is one value that
survives the process and changes only by a write, which takes effect as a whole or
not at all.

**JsonStore** takes `write_json_atomic` and `read_json_with_recovery` apart, one
file operation a step: prepare and sync `.tmp`, `ReplaceFileW` (which may fail
leaving the files alone, or with the primary moved away), the best-effort copy of
the primary over the backup (which may truncate it), `MoveFileExW`; for a read, the
choice of primary or backup, the quarantine and the healing write. Any combination
of absent, damaged and good files is an initial state. `faults`, chosen anew for
every life of the process from `FaultSets`, says which calls may fail.

**ManifestStore** does the same for the older code of the manifest: write `.tmp`
unsynced, delete `.bak`, rename to `.bak`, rename `.tmp` into place. HiddenItems takes
this save as one step; the two are not composed, because ManifestStore's theorem
(the save is atomic but for one window) is what HiddenItems assumes.

**ZonesFile** follows the layout through the lives of the process:
`startup_heal_recovery_bundle`, the load in `bootstrap`, the second load at the first
paint, edits, `flush_dirty_zones` (whose failure leaves the layout dirty), the capture
of a bundle, the save at `WM_DESTROY`, and crashes at any moment. A bundle whose other
stores cannot be restored fails before its layout is touched (`HealWithoutBundle`).

**ZoneStacks** has every operation of `ZoneList` on stacks as an operator on lists of
zones, in the code's order of effects, and one action for each command that uses it.
The guards of the actions are those of the dispatcher and of the surfaces that offer
the command. A restart, a checkpoint and a capsule replace the whole list; each
repairs it in its own way (`Flattened`, `Rebuilt`), and each treats the id counter
differently, as the code does. `scope` is chosen at the beginning of a behaviour: the
kinds of command it has and the bounds on its lists, so that one run covers several
small worlds.

**ConfigVault** is the settings vault handler by handler: what is in `vault.bin` and
its backup, the vault in memory with its lock and dirty flag, whether the settings page
asks to unlock (`asked`) and what a passphrase being typed will do (`entry`), the
backups, and the vault of the recovery bundle. `Flush` writes, fails, or has nothing to
do; `Heal` is the read that has to take the backup (a damaged primary that could not be
set aside becomes the backup). `SaveSettings` has the rollback and
its failure. `RestoreBackup` and `RestoreBundle` copy over `vault.bin` outside the
store, so `CopyCutShort` may leave nothing or a torn file. Two history variables name
what the code gives up: `stale`, a copy that changed the file and not the memory, and
`missed`, a bundle restore that failed after it had brought back a vault.

**Updater** is the gate (`gate`), the version on offer (`pending`, `staged`), the two
workers step by step, the channel of events, the UI thread between taking an event and
applying it (`ui`; the scheduler may take the gate in between), the commands of the
settings panel, and the scheduler threads with their generation, wait and wake-ups.
A download, its manifest and its signature are outcomes.

**Debouncer** is the queue both watchers use: notifications, the latest event of each
path, the batch being sent, and `overflowed`, the one flag that stands for everything
dropped. **DesktopPresence** puts it between the desktop and `file_missing` of the
items; **LiveFolders** puts it between folders and the zones that mirror them, with
bindings, refreshes queued for a zone that may have changed since, the rescan after an
overflow, and restarts. The UI thread finds the channel empty (`Looks`) and takes the flag
(`TakeFlag`) in two steps, as the code does, and the worker may send in between. The read
of a folder that is there may fail: a refresh then leaves the zone as it is, and a `Bind`
leaves it with the new folder and the items it had, for the read comes last. `unseen`,
`stale` and `unread` collect what the code is known not to notice or to make up for, each
at the line that loses it; `late` tells which events were sent between the two steps.
PresenceFollowsDesktop has four exceptions (a change made while the program did not run, a
creation merged with a modification, a notification dropped behind an older one of its
path, one dropped while an older one was sent between the two steps), MirrorsFolder three
(an old layout of the timeline, an event that went to a zone around, a read that failed),
ShowsOwnFolder one (a bind that could not read).

**Rules** is `rules.json`, the scan that queues due rules until the queue is full, and
the UI thread that takes one, looks again whether it is due (`MayRun`), applies it and
then records the run (`SaveStats`). What the rule does to files is left out: `matched`
says whether it did anything. `excused` are the rules whose `last_run` does not tell of
their last run, because it could not be recorded or the wizard forgot it.

**Timeline** is the ring buffer, the pinned list, the cursor and the files. Every
operation of the buffer is an operator on the four of them and on the file operation
that fails in it (`outcome`); commands are built from these as in the code. `Mutate`
records the pair of checkpoints, before and after, that a bulk command or a rule leaves.

*Model-checking modules.* **MCZoneStacks** starts ZoneStacks from every layout an older
build may have left: stacks nested to any depth, in any order, cycles included; `old`
remembers the list before `Flattened`. **MCHiddenItems** adds the symmetry sets,
**MCUpdater**, **MCTimeline** and **MCLiveFolders** the bounds. **MCSettingsStore**
(JsonStore and ConfigVault) and **MCDesktopEvents** (Rules and DesktopPresence) check
two modules each that share no state: a behaviour is one of either with the other at
rest, which is all their properties can tell.

Definitions whose names end in a fault (`PrepareUnsynced`, `StackNesting`,
`RestoreBeginUntracked`, ...) are not part of any specification. Each is a plausible
bug in the definition that follows it and shows that a property can fail.

## 3. Runs, bounds and what they show

| Run | Instance | Distinct states | Checks |
|---|---|---|---|
| `hidden_collisions` | 2 files, 1 name, 1 zone, 1 suffix, 2 item ids, crashes | 1,251,851 | `JobHoldsFile`, `RecoverableUnlessExposed`, `KeepsCustody` |
| `hidden_moves` | 2 files, 1 name, 2 zones, 1 item id, crashes, racing programs | 1,361,514 | `TypeOK`, `RecoverableUnlessExposed` |
| `hidden_renames` | 2 files, 2 names, 1 zone, 1 item id, crashes | 249,614 | `RecoverableUnlessExposed`, `KeepsCustody` |
| `json_store` | store: 3 values, two fault sets; vault: 2 passphrases, 1 setting, 1 backup kept | 687,785 | `ImplementsRegister`; `CleanVaultIsFile`, `UnlockIsAsked`, `LockedFileKept` |
| `manifest_saves` | 2 entries, no fault in the rename window | 890 | `AcknowledgedManifestFound`, `ImplementsRegister` |
| `manifest_crash` | the same with faults in it | violation | `AcknowledgedManifestFound` |
| `zones_file` | 3 layouts, reads, the healing write and the bundle's other stores may fail | 397 | `CleanMeansSaved`, `SavedLayoutComesBack`, `StartupKeepsLayout` |
| `stacks` | three scopes: 4 zones, any legacy layout, checkpoints; 3 zones, deletions, capsules and late loads; 3 zones, deletions and reordered lists | 101,537 | `StacksAreFlat`, `EveryZoneIsShown`, `TreesStayTogether`, `CheckpointKeepsStacks`, `ShownOnce` |
| `updater` | 2 slots; 2 releases and 1 change of the frequency, or none and 3 changes | 87,664 | `TypeOK`, `OneAnswerPerOperation`, `StagedIsPending`, `SkippedNotOffered`, `OneScheduler`, `OperationsEnd`, `ChecksGoOn`, `DisabledStops` |
| `timeline` | 2 layouts, 2 scopes, 3 seconds; a buffer of 2 with a failure and every command, or one of 4 with bursts, undo and redo | 190,123 | `TypeOK`, `ShownIsOnDisk`, `RedoTakesBackUndo`, `HeadIsLatest`, `PinnedStay` |
| `live_folders` | 2 zones, 2 folders, one inside the other, queues of 1 and 2, 2 changes, reads that fail | 676,525 | `ShowsOwnFolder`, `MirrorsFolder` |
| `desktop_events` | rules: 2, a queue of 2, a failure, a save; desktop: 2 files, queues of 2, 1 and 1, 4 changes | 290,636 | `EventsTypeOK`, `OncePerInterval`, `DueRulesRun`, `PresenceFollowsDesktop` |

*What they show.* The hidden runs: no interleaving of handlers, failures, crashes and
other programs loses a file, and a stowed one is found again but for the cases `exposed`
names. The stores: what was acknowledged is what is read, with the faults named in the
cfg. The vault: rollbacks, failed writes, restores and locks do not let memory and file
drift apart. `stacks`: legacy layouts and any order of commands. `timeline`: a file on
disk for every checkpoint shown, though each file operation may fail; `updater`: no two
workers, no gate left shut; `live_folders` and `desktop_events`: queues at their limits
still end with a screen that agrees with the disk, and rules that run once and not never.

*Why the bounds are enough.* Two files are what a collision needs, and no step of the
code looks at more than the file it works on and the one in its way; the three hidden
runs vary, one at a time, what they may collide on: the original path and the suffix
(`MaxAlt = 1`), the zone directory and the item id (`MaxItemId = 1` makes the second
item of a zone overflow), the name. `MaxItemId` stands for `u64::MAX`. In the stores
three values are the old primary, the old backup and the one being written; further
values behave like one of those. In ZonesFile the layouts are the empty one, an old one
and a new one. In the vault two passphrases are the right and the wrong one; blank and
one setting are two values that differ; a backup directory of two files, one beyond
`MaxRetained`, is pruned. Four zones are two stacks of two, the smallest instance in
which an anchor with members is stacked under another, or a stack of four, in which
detaching the anchor stacks the rest again and nesting is three deep; three are enough
for two zones to repeat an id and a third to refer to it. In the updater one worker
holds the gate at a time and a second slot lets two be seen if that failed; a version
skipped and another found need two releases; a scheduler enabled, disabled and enabled
while its thread waits needs three changes. Timeline: a full buffer of two evicts, joins
and reloads; four entries hold a burst interrupted by another. Two paths and a pending
map, queue or channel of one overflow at every place the code can drop an event; four
changes create and delete a file around a dropped notification. The theorems of section
5 hold for any bounds.

*Deadlock* is checked in `json_store`, the manifest runs, `zones_file` and `stacks`.
Elsewhere the system may stop: the user has deleted every file; the installer was
launched; a bound on changes, seconds or checkpoints is used up and all queues are empty.

*What a run does not show.* `hidden_moves` allows other programs to create a file at the
very path a handler is working on (`ConcurrentUser`). Then a restore can replace that
file, so `KeepsCustody` and `JobHoldsFile` do not hold there: section 6. The first four
properties of `stacks` speak of the scope without deletions inside stacks and without
capsules (`NothingTakesStacksApart`): section 6 says what these do.

## 4. Fairness and liveness

Fairness is stated where a thread or a timer of the program justifies it, and for
nothing the user or another program does.

* *Updater.* `WF` of each worker's steps: the manifest fetch and the download have
  deadlines (60 s and 15 min, `updater/mod.rs:77-78`), after which they fail. `WF` of
  the UI thread taking and applying events: the poll timer of 250 ms
  (`main.rs:111-112`, `main_window_timer.rs:68`) runs whatever the user does. `WF` of an
  install that began: it is synchronous. `WF` of a scheduler thread: its wait has a
  timeout. From this follow `OperationsEnd` (the gate is always given back),
  `ChecksGoOn` and `DisabledStops`.
* *Debouncer.* `WF` of its thread, whose window ends, and of the UI thread, by the same
  timer. `PresenceFollowsDesktop` and `MirrorsFolder` follow: once changes stop (their
  number is bounded), screen and disk agree for good, but for the exceptions of section 2.
* *Rules.* `WF` of the scheduler thread, which wakes every minute, and of the UI thread.
  `SF` of taking a queued rule: file events and commands of the user keep the UI thread
  busy now and then, so the step is enabled again and again and not continuously; the
  timer comes back between them. `DueRulesRun` follows.

The other modules claim no liveness, because the code promises none: a failed flush is
retried only when the next command is dispatched, a restore that fails is not retried,
and nothing obliges the user to act.

## 5. Proofs

Eight modules hold theorems. Every theorem is for all values of the constants, under
the named assumptions of the modules and what the table says.

| Theorem | Says | Assumes |
|---|---|---|
| `HiddenItems_proofs!TypeCorrect` | `Spec => []TypeOK` of HiddenItems | nothing |
| `HandlersHoldFiles` | `[]JobHoldsFile` | `~ConcurrentUser` |
| `FilesStayRecoverable` | `[]RecoverableUnlessExposed` | `~ConcurrentUser` |
| `CustodyIsKept` | HiddenItems implements FileCustody | `~ConcurrentUser` |
| `StoreIsDurable` | JsonStore implements DurableRegister | `RecoverySafe` |
| `SavedManifestIsFound` | `[]AcknowledgedManifestFound` | `Faults = {}` |
| `SavesAreAtomic` | ManifestStore implements DurableRegister | `Faults = {}` |
| `CleanLayoutIsSaved` | `[]CleanMeansSaved` | `TooBig = {}` |
| `SavedLayoutIsShown` | `SavedLayoutComesBack` | `TooBig = {}` |
| `StartKeepsLayout` | `StartupKeepsLayout` | nothing |
| `SavedVaultIsFound` | `[]CleanVaultIsFile` | nothing |
| `LockedVaultIsAskedFor` | `[]UnlockIsAsked` | nothing |
| `LockedFileIsKept` | `LockedFileKept` | nothing |
| `Updater_proofs!TypeCorrect` | `[]TypeOK` of Updater | nothing |
| `OneAnswers` | `[]OneAnswerPerOperation` | nothing |
| `StagedStaysPending` | `[]StagedIsPending` | nothing |
| `SkippedStaysAway` | `[]SkippedNotOffered` | nothing |
| `NeverTwoSchedulers` | `[]OneScheduler` | nothing |
| `ZonesShowTheirFolders` | `[]ShowsOwnFolder` | nothing |
| `RunsOncePerInterval` | `OncePerInterval` | nothing |
| `EventsKeepTypes` | `[]EventsTypeOK` of MCDesktopEvents | nothing |
| `TimelineTypeOK` | `[]TypeOK` of Timeline | nothing |
| `TimelineShowsItsFiles` | `[]ShownIsOnDisk` | nothing |
| `TimelineKeepsPinned` | `PinnedStay` | nothing |
| `TimelineRedoesWhatItUndid` | `[]RedoTakesBackUndo` | nothing |
| `TimelineHeadIsLatest` | `[]HeadIsLatest` | nothing |
| `TimelineIsSound` | `[]TimelineInv`, the invariant of the five above | nothing |
| `StacksStayFlat` | `[]StacksAreFlat` | nothing |
| `ZonesStayShown` | `[]EveryZoneIsShown` | nothing |
| `ZonesAreShownOnce` | `[]ShownOnce` | nothing |
| `CheckpointsKeepStacks` | `[]CheckpointKeepsStacks` | nothing |
| `TreesStay` | `[]TreesStayTogether` of MCZoneStacks | nothing |
| `StacksAreSound` | `[]StacksInv`, the invariant of the stacks | nothing |

The arguments:

*HiddenItems.* Typing needs to know that the file a handler holds exists (an exposed
file must be a file), so `TypeOK` is proved together with `JobStored`, a conjunct of
`JobHoldsFile`. With `~ConcurrentUser` nobody creates a file at the path of the
handler in flight, which makes `TypeOK /\ JobHoldsFile` inductive:
`RestoreBegin` checked the destination and it stays free; the copies of a fallback
agree or the user has deleted one. `RecoverableUnlessExposed` is inductive together with
them. The lemmas `ManifestAddCover` and `ManifestRemoveCover` say that whatever loses
its entry is exposed; each group of actions then has a lemma of its own. For
`CustodyIsKept` every step moves at most one file (`OneFileMoves`) and that by a step
of FileCustody, or none (`NoFileMoves`).

*JsonStore.* `StoreInv` relates the files to the program counter: what a reader would be
given is always in a synced file (`ContentIsDurable`), a write in progress has its value
whole and synced in `.tmp` (`WriteInProgress`), a recovery in progress has the value it
heals with in the backup (`RecoveryInProgress`), and a damaged primary has been set
aside before `ReplaceFileW` may fail (`DamageIsQuarantined`). The last one needs
`RecoverySafe`: no life of the process in which reads fail for a moment, or in which
both the quarantine and `ReplaceFileW` may fail. Both exceptions are real; see
section 6.

*ManifestStore.* `SaveInv`: outside a save the loaded list is the acknowledged one;
between `Rotate` and `Swap` the backup holds it.

*ZonesFile.* `LifeInv`: `saved` is what `zones.bin` decodes to, a layout that is not
dirty in a process that has read the file is the one in it. `StartKeepsLayout` has an
invariant of its own (`KeepInv`), since it needs no assumption on the layouts: during a
start a clean, non-empty layout in memory is the one in the file.

*ConfigVault.* `VaultInv` adds to the two properties the types and `Fits`: an unlocked
vault has the key its record needs, so that what is written can be opened again. Lemmas
say once what a read that heals (`Stored` does not change), a write and a flush do.
`LockedFileIsKept` then follows step by step: of all writes only that of a
passphrase does not look at the lock, and `asked` keeps it away.

*Updater.* `TypeInv` gives the types. `GateInv` is what makes `OneAnswerPerOperation`
inductive: all busy workers and waiting reports name the operation of the gate, there is
at most one of them, and at least one while a check or a download holds the gate
(`InstallInv` says whose the gate is during an install). `StagedInv` follows a download
from its first byte to its report. `SkippedNotOffered` is inductive with the types
alone. `ThreadInv`: `sched.running` is set exactly while a thread lives, and no two do.

*LiveFolders.* `ZonesInv`, the types of the zones with the property; `unread` is part of
the property, and only a bind or a checkpoint adds to it. *Rules.* `RulesInv`
says that `last_run` is never later than the truth for a rule that is not excused
(`LastRunIsHonest`), but for the one whose run is being recorded. Their types, and
those of DesktopPresence, are inductive once everything queued is an id of a rule or a
file of the desktop; that no rule is listed twice (`Unique`) rests on `EditsKeepUnique`:
the wizard replaces a rule of the same id and appends only a new one.

*Timeline.* `TimelineInv` is about memory and disk together: ids differ in each of the
two rings and between them, every id on disk has one file, every automatic checkpoint
has its file and every pinned one too unless it is `spoiled`, every id is below the
next, the cursor points into the merged list. Without the ids nothing else can be
carried: an eviction that removed a file by id would remove another checkpoint's. The
lemmas go operator by operator. `ByTimePermutes` and `InOrderFacts` say that the two
sorts of the code only permute; `ReloadFacts`, `PushAutoFacts`, `ReplaceLatestFacts`,
`PinFacts`, `RemoveFacts`, `SeekFacts` that each operation on the buffer, with each
outcome of its file operations, gives a sound timeline again and keeps the pinned files
it should. Then there is one lemma per action (`MutateStep`, `SaveCheckpointStep`,
`PinStep`, `UndoStep`, ...), which also gives what the step remembers: `HeadIsLatest`
and `RedoTakesBackUndo` speak of the last step only, so they follow from these and from
the lemma that every other step forgets. `PinnedStay` is the action property of the same
lemmas.

*ZoneStacks.* A list of zones is a value, so the proof is first about operators: what
`Picked`, `Without`, `Distinct` and `InsertAt` do to the elements of a list, what `get`
finds, what naming a parent or giving members changes. `FlatLists` says the two records
of a stack agree as one equivalence (`Agree`: *m* is among the members of *i* exactly if
*i* is its parent, and then *i* has no parent). Each operation of `ZoneList` has a lemma
that it keeps `FlatLists` (`StackUnderKeeps`, `UnstackedKeeps`, `DetachedKeeps`,
`ReorderedKeeps`, `FlattenedKeeps`, `RebuiltKeeps`, ...) and one that it keeps any list a
list in which nobody is a member twice, which is all that is left of the invariant in
scopes that take stacks apart, and all that `ShownOnce` needs. The loops of
`detach_from_stack` and `flatten_nested_stacks` are recursive functions over a bounded
range; `StepsExist` and `StepsKeep` prove from the least element of a set of numbers what
an induction theorem would give. `StacksInv` adds that no id at or above the next one is
in use while ids are handed out once. The model has no `SelectSeq` or fold in what is
proved about: none of the provers knows them.

The theorems on stacks hold of `Spec`, whose list is empty at first, and of `MCSpec`, which
loads any list an older build may have left. For the load, `LeadsTo(zs, i, t)` says that
going up from *i* one comes to *t*, which has no parent: *i* is in a set closed under
parents in which some number falls with every step to *t*. What a pass of
`flatten_nested_stacks` keeps is `Mends`: a zone is listed by its parent, and an anchor that
still lists the member of another has a parent and leads to a root. The second half is
needed because a zone cut out of a cycle stays in its old parent's list: that parent is
itself still to be flattened, and drops the entry then. `PromoteMends` (the zone is its own
ancestor, so it is cut out) and `AdoptMends` (it hands the members that name it to its
parent) show that a pass keeps `Mends` and every `LeadsTo`, leaves its own place flat and
makes no other place nested; so `Len(zs)` passes leave none (`FlattenedMends`), a list that
`Mends` with no nested place is flat (`UnnestedIsFlat`), and there the root a zone leads to
is its anchor (`RootIsAnchor`).

*Out of the prover's reach.* Liveness under fairness (`OperationsEnd`, `ChecksGoOn`,
`DisabledStops`, `DueRulesRun`, `PresenceFollowsDesktop`, `MirrorsFolder`) and
`ENABLED` stay with TLC. So does, for want of a proof and not of reach,
`RecoverableUnlessExposed` with racing programs.

*Assumptions.* Every theorem rests on the named assumptions of the modules: sets and
marks differ (`NoValueAssumption`, `NoManifestAssumption`, `NoZoneAssumption`), bounds are
numbers (`PeriodAssumption`, `CapacityAssumption`, `BudgetAssumption`, `TimeAssumption`,
`ScopesAssumption`), `rules.json` names no rule twice at first (`SavedAssumption`: it was
written by the same code). TLC evaluates each of them in a run.

## 6. Where the code and its documentation disagree

One run exhibits a disagreement; TLC's shortest counterexample is the scenario.

* `manifest_crash`: a process that dies, or a rename that fails, between the two
  renames of a save leaves no `manifest.json`. A missing manifest is read as an empty
  one; the backup that holds every entry is ignored.

The models reproduce what follows too. Where a property has an exception for it, the
exception names it (`exposed`, `stale`, `missed`, `unseen`, `unread`, `excused`, `spoiled`, a scope
or a constant of a cfg); without the exception TLC finds the scenario.

*Hidden files.*

* Moving an item to another zone, or renaming it, renames its hidden file; the manifest
  keeps the old path, though the stealth module says it "tracks every hidden file".
* `ConcurrentUser = TRUE`: a file created between the check of `restore.rs:144` and the
  rename of line 156 is replaced; one created after the copy of the fallback may be
  removed by its cleanup (line 178), and likewise the source of a hide (`hide.rs:354`).

*Stores and layout.*

* JsonStore, `FaultSets = {{"read"}}`: a primary that could not be opened for a moment
  is taken for damaged, quarantined and replaced by the older backup
  (`storage/mod.rs:310`).
* JsonStore, `FaultSets = {{"quarantine", "replace", "move"}}`: a damaged primary that
  can be neither set aside nor replaced is copied over the good backup before the move
  fails (`storage/mod.rs:543`).
* A `zones.bin` that could not be opened at the start is "left in place"
  (`state/window.rs:100`) -- and overwritten by the first flush. The properties of
  `zones_file` begin with what a start did read.
* ZonesFile, a layout in `TooBig`: `encode` writes what `decode` rejects (4096 items
  in a zone, `storage.rs:309`); the next start quarantines what was saved.
* ZonesFile, heal: if the write that ends a healing fails, the load that follows
  replaces the healed layout by an empty one; hence the `~dirty` of
  `StartupKeepsLayout`.

*Stacks.*

* Deleting the anchor of a stack leaves members that name a missing parent; they are
  neither drawn nor reachable until the next restart. Deleting the members leaves an
  anchor that cannot be dissolved.
* A checkpoint does not keep the order inside a stack; a capsule, or a load at the
  first paint, does not advance the id counter, so ids repeat. `ShownOnce` holds in
  spite of all of them.

*Settings vault.*

* A locked vault "blocks writes until the shell replaces the vault via
  `Vault::open_with_passphrase`" (`config_vault/mod.rs:67-69`), but setting a passphrase
  does not look at the lock. A field focused to set one before a bundle brings back a
  protected vault, or a bundle restore that fails after that, lets Enter write a blank
  vault over the protected one: the exceptions of `LockedFileKept` and `UnlockIsAsked`.
* Restoring a backup that is protected always reports a failure, though the file is
  replaced; the memory is the old vault and the next save overwrites the restored one.
* `SetSetting` and the debug overlay change a locked vault in memory; it stays dirty,
  and a dirty vault blocks the capture of a bundle.
* A copy over `vault.bin` cut short goes back to the older `.bak`, or leaves a store that
  cannot be opened. With the clock set back, a new backup may be the first pruned.

*Updater.*

* The event of a version that was skipped meanwhile is dropped and changes no status: a
  user who had joined that check reads `Checking` until the next one, though the gate is
  `Idle`.
* Unlocking a vault that skipped one version while another is downloaded shows
  `Skipped`; the gate stays `Ready`, and neither install nor check is then possible
  before a restart.
* A scheduler thread that could not be started is tried again only when the frequency
  is changed: `ChecksGoOn` assumes it runs.

*Watchers and live folders.*

* A creation that a modification follows within one window is delivered as a
  modification (`desktop_watcher.rs:106` says every create is delivered); it marks no
  item present. Renames arrive as modifications. `file_missing` is not compared with
  the desktop at a start. Batches leave in the order of paths, not "FIFO"
  (`debouncer.rs:9`).
* The rescan after an overflow is called "authoritative" (`debouncer.rs:168-169`), but it
  reads the disk while older events may still be with the worker, and these are believed
  after it. A deletion is there when the creation after it is dropped on the full queue;
  the rescan finds the file, then the deletion is drained, and the item is marked missing
  until something else reports the file. The deletion may be sent after the flag was
  taken, or between the look at the empty channel and the taking of the flag, which are
  two steps (`paint_events.rs:343-348`).
* Of two bound folders one inside the other, an event goes to the one the hash map
  meets first. A deleted zone leaves its binding. A timeline restore shows an old mirror
  until something else refreshes it. Two zones on one folder: only the last is told.
  A folder that vanished is watched again only when it is bound again or at a restart.
  A read that failed is not tried again, and a zone whose bind could not read its folder
  names the new folder over the old one's items (`live_folders.rs:449-454`).

*Rules.*

* Saving a rule in the wizard forgets its last run, so it is due at once. `rules.json`
  that cannot be read is an empty list, and saving or deleting one rule then drops all
  the others. If the statistics of a rule cannot be saved the rules after it are not
  run, and its effects, which came first, will be repeated.
* Rules that match no file are due at every scan; with more of those than the queue
  holds, ahead of it in the list, a rule may never be reached. `DueRulesRun` is checked
  with no more rules than places.

*Timeline.*

* Layouts changed by bursts A, B, A within one second leave B at the head ("the visible
  head reflects the latest mutation", `ring_buffer.rs:107-108`): the exception of
  `HeadIsLatest`. Opening the timeline resets the cursor. A restore into a full buffer
  may evict its own target. Files are not written atomically: pinning one again may
  truncate it (`spoiled`). An undo saves nothing of a layout changed since.

## 7. What is not modelled, and why

* Pure I/O and Win32: downloads, signatures, icons, COM, rendering, windows, power, DPI.
  These, the toolkit (widget, tree, layout, style, theme) and the tests are most of the
  lines of the repository; they keep no state beyond what the components above keep.
* Floating-point geometry: positions, scatter of dissolved stacks, gestures, scrolling.
* Heuristics without state: grouping suggestions, fuzzy search ranking.
* Code that no other code uses: the worker pool of the backend, AttrGuard, the timeline
  hook.
* Inside the modelled parts: the bulk repair commands of `restore.rs`, attributes and icon
  positions of items, the byte format of `zones.bin`, the legacy `layout.json`, power
  failures under the manifest (its temporary file is never synced), failures of
  `hidden_dir_for` on a directory that exists (`hide.rs:405`, `restore.rs:222`), the
  encryption of the vault, conditions and actions of rules, the stores of a recovery
  bundle other than layout and vault.

## 8. Plan

Done, in this order: HiddenItems with FileCustody (the reason the program must be
trusted), the stores it rests on, the layout file, the stacks; then the background:
updater, watchers and live folders, rules; the timeline; the settings vault; the
theorems of section 5.

What is left, the most useful first:

1. **Timeline with HiddenItems**: an undo brings back items whose files have moved
   since (`timeline_storage.rs:374`, `:385`).
2. **Recovery bundle**: capture and restore over manifest, layout, vault and user data,
   each of which may fail (`recovery_vault.rs:134`).
3. **Plugins** (registry against files), **search** (generations), **icon cache**
   (budget and late results).
4. Proofs: a theorem that HiddenItems over a manifest with its window closed implements
   FileCustody.
