----------------------------- MODULE LiveFolders -----------------------------
(***************************************************************************)
(* Live folders: zones that mirror a folder of the user's.  The bindings   *)
(* and their dispatch (watcher/live_folder.rs), and the UI thread that     *)
(* binds, unbinds, rescans and rehydrates (live_folders.rs,                *)
(* drain_live_folder_events in paint_events.rs).                           *)
(*                                                                         *)
(* Simplifications: what a folder holds is a number that grows with every  *)
(* change; what a zone shows is the folder and the number it had when it   *)
(* was read, a folder is read in one step; every layout is saved before a  *)
(* restart (ZonesFile models the rest); a zone that was deleted does not   *)
(* come back.                                                              *)
(***************************************************************************)
EXTENDS Debouncer

CONSTANTS
    Zones,        \* the zones of the layout
    Folders,
    NoZone, NoFolder,
    FolderOf,     \* the folder a path is directly in
    Inside,       \* pairs of folders: the first lies inside the second
    Layouts,      \* of a zone in a checkpoint: its folder, and the one whose items it shows
    MaxChanges    \* bound on the changes of the folders

ASSUME FoldersAssumption ==
    /\ NoFolder \notin Folders
    /\ \A l \in Layouts : l[1] = NoFolder => l[2] = NoFolder

VARIABLES
    present,     \* the folder is there
    content,     \* what it holds
    watched,     \* folders the operating system watches
    bindings,    \* BINDINGS
    zones,       \* live_folder_path and items of each zone, or deleted
    drain,       \* what the UI thread does: "idle", "draining", "looked" once the
                 \* channel was found empty, "rescanning"
    todo,        \* the zones still to rescan, once the flag was taken
    stale,       \* history: zones that may show what nothing will correct
    unread       \* history: zones as a bind left them that could not read the folder

folderVars == <<present, content, watched, bindings, zones, drain, todo, stale, unread>>
liveVars == <<debouncerVars, folderVars>>

Nothing == [folder |-> NoFolder, content |-> 0]
Plain   == [folder |-> NoFolder, shows |-> Nothing, deleted |-> FALSE]

FoldersTypeOK ==
    /\ present \in [Folders -> BOOLEAN] /\ watched \subseteq Folders
    /\ content \in [Folders -> 0..MaxChanges]
    /\ bindings \in [Folders -> Zones \cup {NoZone}]
    /\ \A z \in Zones : zones[z].folder \in Folders \cup {NoFolder}
    /\ Len(inbox) <= NotifyCapacity /\ Len(channel) <= ChannelCapacity

FoldersInit ==
    /\ DebouncerInit
    /\ present = [f \in Folders |-> TRUE] /\ content = [f \in Folders |-> 0]
    /\ watched = {} /\ bindings = [f \in Folders |-> NoZone]
    /\ zones = [z \in Zones |-> Plain]
    /\ drain = "idle" /\ todo = {} /\ stale = {} /\ unread = {}

Changes == LET sum[S \in SUBSET Folders] ==
                 IF S = {} THEN 0
                 ELSE LET f == CHOOSE f \in S : TRUE IN content[f] + sum[S \ {f}]
           IN  sum[Folders]

(* A file of a folder changes; only a watched folder is reported.          *)
Change(p) ==
    LET f == FolderOf[p] IN
    /\ present[f] /\ Changes < MaxChanges      \* bound
    /\ content' = [content EXCEPT ![f] = @ + 1]
    /\ IF f \in watched THEN Notify(p, "modify") ELSE UNCHANGED debouncerVars
    /\ UNCHANGED <<present, watched, bindings, zones, drain, todo, stale, unread>>

(* A folder is deleted or its drive removed, which ends the watch; it may  *)
(* come back, with other files.                                            *)
FolderGoes(f) ==
    /\ present[f] /\ Changes < MaxChanges      \* bound
    /\ present' = [present EXCEPT ![f] = FALSE]
    /\ content' = [content EXCEPT ![f] = @ + 1]
    /\ watched' = watched \ {f}
    /\ UNCHANGED <<debouncerVars, bindings, zones, drain, todo, stale, unread>>

FolderReturns(f) ==
    /\ ~present[f] /\ present' = [present EXCEPT ![f] = TRUE]
    /\ UNCHANGED <<debouncerVars, content, watched, bindings, zones, drain, todo, stale, unread>>
-----------------------------------------------------------------------------
(* dispatch_events: a path goes to one binding whose folder it starts      *)
(* with, the first the hash map meets; each zone is sent once.             *)
Matching(p) ==
    {f \in Folders : bindings[f] # NoZone /\ (f = FolderOf[p] \/ <<FolderOf[p], f>> \in Inside)}

Refreshes(zs) == [i \in DOMAIN zs |-> [path |-> 0, zone |-> zs[i]]]

(* The zone of an inner folder is not told if the event goes to an outer. *)
Dispatch ==
    /\ Idle /\ PendingPaths # {}
    /\ UNCHANGED <<present, content, watched, bindings, zones, drain, todo, unread>>
    /\ \E to \in {t \in [PendingPaths -> Folders] :
                    \A p \in PendingPaths : Matching(p) = {} \/ t[p] \in Matching(p)} :
        LET hit     == {p \in PendingPaths : Matching(p) # {}}
            reached == {bindings[to[p]] : p \in hit}
            missed  == {z \in Zones : \E p \in hit : /\ to[p] # FolderOf[p]
                                                   /\ bindings[FolderOf[p]] = z
                                                   /\ zones[z].folder = FolderOf[p]}
        IN  \E zs \in [1..Cardinality(reached) -> reached] :
                /\ {zs[i] : i \in DOMAIN zs} = reached
                /\ Flush(Refreshes(zs))
                /\ stale' = stale \cup (missed \ reached)

Worker == Dispatch \/ ((Merge \/ Emit \/ SetOverflowed) /\ UNCHANGED folderVars)

(* The bindings are locked while a batch is sent.                          *)
BindingsFree == batch = <<>>
-----------------------------------------------------------------------------
(* refresh_live_folder_zone, and the read of the folder in it.             *)
CanRefresh(z) == ~zones[z].deleted /\ zones[z].folder # NoFolder /\ present[zones[z].folder]

Mirror(f) == [folder |-> f, content |-> content[f]]

RefreshedFromBinding(z) ==
    LET bound == {f \in Folders : bindings[f] = z /\ present[f]}
    IN  IF bound = {} THEN zones
        ELSE [zones EXCEPT ![z].shows = Mirror(CHOOSE f \in bound : TRUE)]

Refreshed(z) ==
    IF CanRefresh(z) THEN [zones EXCEPT ![z].shows = Mirror(zones[z].folder)] ELSE zones

(* A folder that is there may not be readable, as a whole or one entry of  *)
(* it: the error is shown, the items stay, and nothing tries again.        *)
Behind(z, f) == zones[z].shows # Mirror(f)

Refresh(z) ==
    \/ /\ CanRefresh(z) /\ zones' = Refreshed(z)
       /\ stale' = stale \ {z} /\ unread' = unread \ {z}
    \/ /\ CanRefresh(z) /\ Behind(z, zones[z].folder)
       /\ stale' = stale \cup {z} /\ UNCHANGED <<zones, unread>>
    \/ ~CanRefresh(z) /\ zones' = Refreshed(z) /\ UNCHANGED <<stale, unread>>

(* drain_live_folder_events: it takes events until there is none and then  *)
(* looks at the flag.                                                      *)
unchangedByPump == <<present, content, watched, bindings>>

TakeEvent ==
    /\ drain \in {"idle", "draining"} /\ drain' = "draining"
    /\ Receive /\ Refresh(Head(channel).zone)
    /\ UNCHANGED <<unchangedByPump, todo>>

Looks ==
    /\ drain \in {"idle", "draining"} /\ FindsEmpty /\ drain' = "looked"
    /\ UNCHANGED <<unchangedByPump, zones, todo, stale, unread>>

TakeFlag ==
    /\ drain = "looked" /\ TakeOverflowed
    /\ IF overflowed
       THEN drain' = "rescanning" /\ todo' = {z \in Zones : zones[z].folder # NoFolder}
       ELSE drain' = "idle" /\ UNCHANGED todo
    /\ UNCHANGED <<unchangedByPump, zones, stale, unread>>

Rescan(z) ==
    /\ z \in todo /\ todo' = todo \ {z} /\ Refresh(z)
    /\ UNCHANGED <<debouncerVars, unchangedByPump, drain>>

DrainEnds ==
    /\ drain = "rescanning" /\ todo = {} /\ drain' = "idle"
    /\ UNCHANGED <<debouncerVars, unchangedByPump, zones, todo, stale, unread>>

(* RefreshLiveFolder.                                                      *)
RefreshZone(z) ==
    /\ drain = "idle" /\ CanRefresh(z) /\ Refresh(z)
    /\ UNCHANGED <<debouncerVars, unchangedByPump, drain, todo>>

(* Of another folder's items no number is kept.                            *)
Left(shows, f) == IF shows.folder = f THEN shows ELSE [shows EXCEPT !.content = 0]

(* bind_zone_to_folder: watch, bind, remember, read.  The binding the zone *)
(* had, and the zone the folder had, are not told.  If the folder cannot   *)
(* be read the bind is reported to have failed, but all else is done: the  *)
(* zone has the new folder and still the items it had.                     *)
Bind(z, f) ==
    /\ drain = "idle" /\ BindingsFree /\ ~zones[z].deleted /\ present[f]
    /\ watched' = watched \cup {f} /\ bindings' = [bindings EXCEPT ![f] = z]
    /\ \/ /\ zones' = [zones EXCEPT ![z].folder = f, ![z].shows = Mirror(f)]
          /\ stale' = stale \ {z} /\ unread' = unread \ {z}
       \/ /\ zones' = [zones EXCEPT ![z].folder = f, ![z].shows = Left(@, f)]
          /\ Behind(z, f) /\ stale' = stale \cup {z}
          /\ unread' = IF zones[z].shows.folder = f THEN unread \ {z} ELSE unread \cup {z}
    /\ UNCHANGED <<debouncerVars, present, content, drain, todo>>

Queued(z) ==
    IF Len(channel) < ChannelCapacity THEN channel \o Refreshes(<<z>>) ELSE channel

(* unbind_zone_folder: every folder bound to the zone is released, and one *)
(* last refresh of the zone is queued if there is room.                    *)
Unbind(z) ==
    LET bound == {f \in Folders : bindings[f] = z} IN
    /\ drain = "idle" /\ BindingsFree /\ ~zones[z].deleted /\ zones[z].folder # NoFolder
    /\ bindings' = [f \in Folders |-> IF f \in bound THEN NoZone ELSE bindings[f]]
    /\ watched' = watched \ bound
    /\ zones' = [zones EXCEPT ![z] = Plain] /\ stale' = stale \ {z}
    /\ unread' = unread \ {z} /\ channel' = Queued(z)
    /\ UNCHANGED <<inbox, pending, batch, refused, overflowed, present, content, drain, todo>>

(* DeleteZone does not unbind.                                             *)
DeleteZone(z) ==
    /\ drain = "idle" /\ ~zones[z].deleted
    /\ zones' = [zones EXCEPT ![z] = [Plain EXCEPT !.deleted = TRUE]]
    /\ stale' = stale \ {z} /\ unread' = unread \ {z}
    /\ UNCHANGED <<debouncerVars, unchangedByPump, drain, todo>>

(* A checkpoint or snapshot of the timeline gives a zone the folder and    *)
(* the items it once had, perhaps those a failed bind left there; nothing  *)
(* is bound, watched or read.                                              *)
ApplyCheckpoint(z, f, shown) ==
    /\ drain = "idle" /\ ~zones[z].deleted
    /\ <<f, shown>> \in Layouts
    /\ zones' = [zones EXCEPT ![z].folder = f,
                              ![z].shows = [folder |-> shown, content |-> 0]]
    /\ stale' = IF f = NoFolder THEN stale \ {z} ELSE stale \cup {z}
    /\ unread' = IF shown = f THEN unread \ {z} ELSE unread \cup {z}
    /\ UNCHANGED <<debouncerVars, unchangedByPump, drain, todo>>

\* A faulty restart that binds the folders and does not read them.
RereadNothing ==
    zones' = zones /\ stale' = {z \in stale : ~CanRefresh(z)} /\ unread' = unread

Reread ==
    \E failed \in SUBSET {z \in Zones : CanRefresh(z) /\ Behind(z, zones[z].folder)} :
        /\ zones' = [z \in Zones |-> IF z \in failed THEN zones[z] ELSE Refreshed(z)[z]]
        /\ stale' = {z \in stale : ~CanRefresh(z)} \cup failed
        /\ unread' = {z \in unread : CanRefresh(z) => z \in failed}

(* A restart: rehydrate_live_folder_bindings binds every zone whose folder *)
(* is there and reads the folder, which may fail; a folder has the zone    *)
(* that is the last of its zones in the list, which the user orders.       *)
Rehydrate ==
    LET users(f) == {z \in Zones : CanRefresh(z) /\ zones[z].folder = f} IN
    /\ inbox' = <<>> /\ pending' = [p \in Paths |-> NoKind] /\ batch' = <<>>
    /\ refused' = FALSE /\ overflowed' = FALSE /\ channel' = <<>>
    /\ drain' = "idle" /\ todo' = {}
    /\ bindings' \in [Folders -> Zones \cup {NoZone}]
    /\ \A f \in Folders : IF users(f) = {} THEN bindings'[f] = NoZone
                                         ELSE bindings'[f] \in users(f)
    /\ watched' = {f \in Folders : users(f) # {}}
    /\ Reread
    /\ UNCHANGED <<present, content>>

Drain == TakeEvent \/ Looks \/ TakeFlag \/ DrainEnds \/ \E z \in Zones : Rescan(z)

Commands ==
    \E z \in Zones :
        \/ \E f \in Folders : Bind(z, f)
        \/ \E f, shown \in Folders \cup {NoFolder} : ApplyCheckpoint(z, f, shown)
        \/ Unbind(z) \/ DeleteZone(z) \/ RefreshZone(z)

FoldersNext ==
    \/ \E p \in Paths : Change(p)
    \/ \E f \in Folders : FolderGoes(f) \/ FolderReturns(f)
    \/ Worker \/ Drain \/ Commands \/ Rehydrate

(* As in DesktopPresence: the worker runs, and the timer drains.           *)
FoldersFairness == WF_liveVars(Worker) /\ WF_liveVars(Drain)

FoldersSpec == FoldersInit /\ [][FoldersNext]_liveVars /\ FoldersFairness
-----------------------------------------------------------------------------
(* The folder is watched for the zone: it was the last to bind it, and the *)
(* folder has been there since.                                            *)
Owns(z) == zones[z].folder \in watched /\ bindings[zones[z].folder] = z

(* "Live folders keep a bound directory and its Zone in sync"              *)
(* (README.md:133): a zone that owns its folder shows, in the end, what is *)
(* in it, whatever the queues dropped on the way and whatever is bound,    *)
(* unbound or deleted meanwhile.  Three things only are not made up for:   *)
(* an old layout of the timeline, an event of the folder that went to the  *)
(* zone of a folder around it, and a read of the folder that failed.       *)
MirrorsFolder ==
    <>[](\A z \in Zones :
            Owns(z) /\ z \notin stale => zones[z].shows = Mirror(zones[z].folder))

(* A refresh that was under way when a zone was unbound or bound anew      *)
(* never leaves it with the files of a folder that is not its own; only a  *)
(* bind that could not read its folder leaves a zone with what it showed   *)
(* before, and then until the folder is read or the zone unbound (a        *)
(* checkpoint may bring that back).                                        *)
ShowsOwnFolder ==
    \A z \in Zones : \/ zones[z].shows.folder = zones[z].folder
                     \/ z \in unread /\ zones[z].folder # NoFolder
=============================================================================
