--------------------------- MODULE DesktopPresence ---------------------------
(***************************************************************************)
(* The desktop watcher (watcher/desktop_watcher.rs) and the part of the UI *)
(* thread that keeps `file_missing' of the items in step with the desktop  *)
(* (drain_desktop_events and reconcile_desktop_item_presence,              *)
(* paint_events.rs).                                                       *)
(*                                                                         *)
(* Simplifications: every path belongs to an item that is not hidden; a    *)
(* rename of a file is not modelled (the watcher library reports it as a   *)
(* modification of two paths, which changes no presence).                  *)
(***************************************************************************)
EXTENDS Debouncer

CONSTANT Budget       \* bound on the changes of the desktop

VARIABLES
    exists,      \* the file is on the desktop
    missing,     \* ZoneItem::file_missing
    ui,          \* "idle", "looked" once the channel was found empty, "rescan"
    changes,     \* changes so far
    unseen,      \* history: paths whose last change may never be reported
    late         \* history: paths of the events sent since the channel was found empty

presenceVars == <<exists, missing, ui, changes, unseen, late>>
vars == <<debouncerVars, presenceVars>>

TypeOK ==
    /\ {exists, missing} \subseteq [Paths -> BOOLEAN]
    /\ ui \in {"idle", "looked", "rescan"} /\ changes \in 0..Budget
    /\ unseen \subseteq Paths /\ late \subseteq Paths

(* zones.bin keeps `file_missing'; nothing compares it with the desktop at *)
(* a start.                                                                *)
Init ==
    /\ DebouncerInit
    /\ exists \in [Paths -> BOOLEAN] /\ missing \in [Paths -> BOOLEAN]
    /\ ui = "idle" /\ changes = 0 /\ late = {}
    /\ unseen = {p \in Paths : missing[p] = exists[p]}

OnItsWay(p) == Upstream(p) \/ \E i \in DOMAIN channel : channel[i].path = p

(* Something changes a file of the desktop, and the watcher is told.  A    *)
(* creation or deletion stays unseen if its notification is dropped while  *)
(* an older one of the same path is on its way: that one will be believed. *)
Change(p, kind) ==
    /\ changes < Budget /\ changes' = changes + 1      \* bound
    /\ exists' = [exists EXCEPT ![p] = (kind # "delete")]
    /\ (kind = "create") = ~exists[p]
    /\ Notify(p, kind)
    /\ unseen' = IF kind = "modify" THEN unseen
                 ELSE IF Accepts THEN unseen \ {p}
                 ELSE IF Upstream(p) THEN unseen \cup {p} ELSE unseen
    /\ UNCHANGED <<missing, ui, late>>

(* A creation is unseen, too, if a modification takes its place in the map *)
(* of pending events, for that says nothing of presence.                   *)
MergeEvent ==
    LET e == Head(inbox) IN
    /\ Merge
    /\ unseen' = IF pending[e.path] = "create" /\ pending'[e.path] = "modify"
                 THEN unseen \cup {e.path} ELSE unseen
    /\ UNCHANGED <<exists, missing, ui, changes, late>>

(* map_event_to_payload keeps all three kinds.                             *)
SendEvents ==
    /\ Flush(PendingEvents) \/ Emit \/ SetOverflowed
    /\ late' = late \cup {p \in Paths : /\ ui = "looked" /\ channel' # channel
                                        /\ Head(batch).path = p}
    /\ UNCHANGED <<exists, missing, ui, changes, unseen>>

Worker == MergeEvent \/ SendEvents

(* drain_desktop_events.                                                   *)
Present(e) ==
    CASE e.kind = "delete" -> [missing EXCEPT ![e.path] = TRUE]
      [] e.kind = "create" -> [missing EXCEPT ![e.path] = FALSE]
      [] OTHER -> missing

TakeEvent ==
    /\ ui = "idle" /\ Receive
    /\ missing' = Present(Head(channel))
    /\ UNCHANGED <<exists, ui, changes, unseen, late>>

Looks ==
    /\ ui = "idle" /\ FindsEmpty /\ ui' = "looked" /\ late' = {}
    /\ UNCHANGED <<exists, missing, changes, unseen>>

Told(s, p) == \E i \in DOMAIN s : s[i].path = p /\ s[i].kind # "modify"

(* An event of the path that was sent after the channel was found empty    *)
(* tells what is no longer so, and none that tells better follows it.      *)
Misleads(p) ==
    /\ p \in late
    /\ \E i \in DOMAIN channel :
          /\ channel[i] = [path |-> p, kind |-> IF exists[p] THEN "delete" ELSE "create"]
          /\ \A j \in DOMAIN channel : j > i /\ channel[j].path = p => channel[j].kind = "modify"
    /\ pending[p] \in {NoKind, "modify"} /\ ~Told(batch, p) /\ ~Told(inbox, p)

TakeFlag ==
    /\ ui = "looked" /\ TakeOverflowed
    /\ IF overflowed THEN ui' = "rescan" /\ unseen' = unseen \cup {p \in Paths : Misleads(p)}
                     ELSE ui' = "idle" /\ UNCHANGED unseen
    /\ late' = {}
    /\ UNCHANGED <<exists, missing, changes>>

(* reconcile_desktop_item_presence.                                        *)
Rescan ==
    /\ ui = "rescan" /\ ui' = "idle"
    /\ missing' = [p \in Paths |-> ~exists[p]]
    /\ unseen' = {p \in unseen : OnItsWay(p)}
    /\ UNCHANGED <<debouncerVars, exists, changes, late>>

UI == TakeEvent \/ Looks \/ TakeFlag \/ Rescan

Next ==
    \/ \E p \in Paths, kind \in {"create", "delete", "modify"} : Change(p, kind)
    \/ Worker \/ UI

(* The worker thread runs, its window ends, and the UI thread drains the   *)
(* channel from a timer.                                                   *)
Fairness == WF_vars(Worker) /\ WF_vars(UI)

Spec == Init /\ [][Next]_vars /\ Fairness
-----------------------------------------------------------------------------
(* Once the desktop is quiet every item is marked missing exactly when its *)
(* file is: dropped notifications, partly sent batches and the rescan, at  *)
(* whatever moment, make up for each other.  Four changes only are never   *)
(* noticed: one made while the program did not run, a creation merged with *)
(* a modification, one whose notification was dropped behind an older one  *)
(* of the same path, and one whose notification was dropped while an older *)
(* one was sent, between the look at the empty channel and the taking of   *)
(* the flag.                                                               *)
PresenceFollowsDesktop ==
    \A p \in Paths : <>[](p \notin unseen => missing[p] = ~exists[p])
=============================================================================
