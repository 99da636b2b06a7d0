------------------------------ MODULE Debouncer ------------------------------
(***************************************************************************)
(* watcher/debouncer.rs: a bounded queue of notifications, a worker thread *)
(* that keeps the latest event of each path for a window of time and then  *)
(* hands them on as a batch, and one flag that says an event was dropped   *)
(* and the consumer must read the disk instead.  The program runs two, for *)
(* the desktop and for live folders; the consumer writes into `channel'    *)
(* and the UI thread empties it.                                           *)
(*                                                                         *)
(* Simplifications: a path is a number, their order the one of the map;    *)
(* the window is over whenever the worker finds it so; a change of the     *)
(* disk and its notification are one step (a watch that fails is the       *)
(* consumer's business), and so are a dropped event and the flag that says *)
(* so (a flag set later brings a rescan that is later still).              *)
(***************************************************************************)
EXTENDS Naturals, Sequences, FiniteSets

CONSTANTS
    Paths,            \* numbers of the files that may change
    NotifyCapacity,   \* NOTIFY_QUEUE_CAPACITY
    MaxPending,       \* MAX_PENDING_PATHS
    ChannelCapacity,  \* DESKTOP_EVENT_QUEUE_CAPACITY, LIVE_FOLDER_EVENT_QUEUE_CAPACITY
    NoKind            \* no event of a path is pending

VARIABLES
    inbox,       \* the queue of notifications, oldest first
    pending,     \* the latest kind of event of each path
    batch,       \* what on_emit has still to send
    refused,     \* on_emit returned false, the flag is not yet set
    overflowed,
    channel      \* what the UI thread has still to take

debouncerVars == <<inbox, pending, batch, refused, overflowed, channel>>

DebouncerInit ==
    /\ inbox = <<>> /\ pending = [p \in Paths |-> NoKind]
    /\ batch = <<>> /\ refused = FALSE /\ overflowed = FALSE /\ channel = <<>>

PendingPaths == {p \in Paths : pending[p] # NoKind}

(* An event of the path has not reached the channel.                       *)
Upstream(p) ==
    \/ p \in PendingPaths
    \/ \E i \in DOMAIN inbox : inbox[i].path = p
    \/ \E i \in DOMAIN batch : batch[i].path = p

(* The callback of the watcher.                                            *)
Accepts == Len(inbox) < NotifyCapacity

Notify(p, kind) ==
    /\ IF Accepts
       THEN inbox' = Append(inbox, [path |-> p, kind |-> kind]) /\ UNCHANGED overflowed
       ELSE overflowed' = TRUE /\ UNCHANGED inbox
    /\ UNCHANGED <<pending, batch, refused, channel>>

-----------------------------------------------------------------------------
(* worker_loop, one thread: it receives only when the last batch is out.   *)
Idle == batch = <<>> /\ ~refused

(* merge_event.                                                            *)
Merge ==
    LET e == Head(inbox) IN
    /\ Idle /\ inbox # <<>> /\ inbox' = Tail(inbox)
    /\ IF Cardinality(PendingPaths) >= MaxPending /\ e.path \notin PendingPaths
       THEN overflowed' = TRUE /\ UNCHANGED pending
       ELSE pending' = [pending EXCEPT ![e.path] = e.kind] /\ UNCHANGED overflowed
    /\ UNCHANGED <<batch, refused, channel>>

(* flush_pending: the consumer is given the events, in the order of the    *)
(* map; `payload' is what it sends for them, perhaps nothing.              *)
InOrder(S) == CHOOSE s \in [1..Cardinality(S) -> S] :
                 \A i, j \in 1..Cardinality(S) : i < j => s[i] < s[j]

PendingEvents ==
    LET paths == InOrder(PendingPaths)
    IN  [i \in DOMAIN paths |-> [path |-> paths[i], kind |-> pending[paths[i]]]]

Flush(payload) ==
    /\ Idle /\ PendingPaths # {}
    /\ batch' = payload
    /\ pending' = [p \in Paths |-> NoKind]
    /\ UNCHANGED <<inbox, refused, overflowed, channel>>

(* try_send of the next payload; when the channel is full the rest of the  *)
(* batch is dropped and on_emit returns false.                             *)
Emit ==
    /\ batch # <<>>
    /\ IF Len(channel) < ChannelCapacity
       THEN channel' = Append(channel, Head(batch)) /\ batch' = Tail(batch) /\ UNCHANGED refused
       ELSE batch' = <<>> /\ refused' = TRUE /\ UNCHANGED channel
    /\ UNCHANGED <<inbox, pending, overflowed>>

SetOverflowed ==
    /\ refused /\ refused' = FALSE /\ overflowed' = TRUE
    /\ UNCHANGED <<inbox, pending, batch, channel>>
-----------------------------------------------------------------------------
(* The UI thread: try_recv until the channel is empty, is_empty, and then, *)
(* in a step of its own, take_overflowed: the worker may send in between.  *)
Receive ==
    /\ channel # <<>> /\ channel' = Tail(channel)
    /\ UNCHANGED <<inbox, pending, batch, refused, overflowed>>

FindsEmptyAnyway == UNCHANGED debouncerVars

FindsEmpty == channel = <<>> /\ UNCHANGED debouncerVars

TakeOverflowed ==
    /\ overflowed' = FALSE
    /\ UNCHANGED <<inbox, pending, batch, refused, channel>>
=============================================================================
