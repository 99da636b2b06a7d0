------------------------------ MODULE Timeline ------------------------------
(***************************************************************************)
(* The timeline: checkpoints of the layout, in memory (TimelineBuffer,     *)
(* timeline/ring_buffer.rs) and one file each on disk (CheckpointStore,    *)
(* timeline/checkpoint.rs), and the commands that record, save, pin,       *)
(* restore, undo, redo and delete them (timeline_storage.rs).              *)
(*                                                                         *)
(* Simplifications: a layout is a value; the identifier of a checkpoint is *)
(* a number that grows, so files are listed in its order; `captured_at' is *)
(* in whole seconds, as in the code, and the clock only goes forward; a    *)
(* command runs within one second.                                         *)
(***************************************************************************)
EXTENDS Naturals, Sequences, FiniteSets

CONSTANTS
    Layouts,
    Scopes,       \* what bulk commands and rules apply to (coalesce_scope)
    Window,       \* DEFAULT_PERSISTED_COALESCE_WINDOW_SECS
    NoCursor,     \* the cursor is None: at the head
    Settings,     \* auto_capacity of the buffer (DEFAULT_AUTO_CAPACITY) and, with
                  \* it, bounds: on the checkpoints, on files that cannot be
                  \* written or deleted and deaths, on the commands explored
    MaxTime       \* bound on the clock

ASSUME SettingsAssumption ==
    Settings \subseteq [capacity: Nat \ {0}, ids: Nat, failures: Nat,
                       commands: {"all", "mutate, undo and redo"}]
ASSUME TimeAssumption == MaxTime \in Nat /\ Window \in Nat /\ NoCursor \notin Nat

VARIABLES
    setting,      \* of this behaviour
    layout,       \* AppState::zones
    auto, pinned, cursor,
    disk,         \* the files of the store
    now, nextId, failures,
    spoiled,      \* history: checkpoints whose file was lost when it was rewritten
    last          \* history: the last command if it left the cursor at the layout,
                  \* and the layout before it

vars == <<setting, layout, auto, pinned, cursor, disk, now, nextId, failures, spoiled, last>>

Capacity == setting.capacity
MaxId    == setting.ids

Checkpoint == [id: 1..MaxId, layout: Layouts, at: 0..MaxTime,
               key: {<<>>} \cup {<<phase, s>> : phase \in {"pre", "post"}, s \in Scopes},
               pinned: BOOLEAN]

Rng(s) == {s[i] : i \in DOMAIN s}
Drop(s, i) == [j \in 1..(Len(s) - 1) |-> IF j < i THEN s[j] ELSE s[j + 1]]

(* A stable sort by captured_at.                                           *)
ByTime(s) ==
    LET rank(i) == Cardinality({j \in DOMAIN s : s[j].at < s[i].at \/ (s[j].at = s[i].at /\ j <= i)})
    IN  [k \in DOMAIN s |-> s[CHOOSE i \in DOMAIN s : rank(i) = k]]

(* The buffer and the disk as one value, which the operations transform.   *)
Timeline == [auto |-> auto, pinned |-> pinned, cursor |-> cursor, disk |-> disk]

Merged(t) == ByTime(t.auto \o t.pinned)

Becomes(t) ==
    /\ auto' = t.auto /\ pinned' = t.pinned /\ cursor' = t.cursor /\ disk' = t.disk

TypeOK ==
    /\ layout \in Layouts /\ disk \subseteq Checkpoint
    /\ Rng(auto) \cup Rng(pinned) \subseteq Checkpoint
    /\ Len(auto) <= Capacity
    /\ LET shown == auto \o pinned
       IN  /\ \A i, j \in DOMAIN shown : shown[i].id = shown[j].id => i = j
           /\ cursor = NoCursor \/ cursor \in DOMAIN shown

Nothing == [op |-> "none", before |-> {}]
Known(op, before, sure) == IF sure THEN [op |-> op, before |-> before] ELSE Nothing

Init ==
    /\ setting \in Settings
    /\ layout \in Layouts /\ auto = <<>> /\ pinned = <<>> /\ cursor = NoCursor /\ disk = {}
    /\ now = 0 /\ nextId = 1 /\ failures = 0 /\ spoiled = {} /\ last = Nothing

(* What goes wrong with the files of one operation, if anything.           *)
Outcomes == {"none", "save", "delete"}

Fails(n) == failures + n <= setting.failures /\ failures' = failures + n
Count(S) == Cardinality({f \in S : f[2] # "none"})
-----------------------------------------------------------------------------
(* ring_buffer.rs.                                                         *)

Newest(s, n) == SubSeq(s, Len(s) - n + 1, Len(s))

InOrderOfId(S) ==
    LET ids == {c.id : c \in S}
    IN  [k \in 1..Cardinality(S) |->
            CHOOSE c \in S : Cardinality({i \in ids : i <= c.id}) = k]

\* A faulty reload that counts the pinned checkpoints, too.
ReloadsTogether(t) ==
    LET all  == ByTime(InOrderOfId(t.disk))
        kept == IF Len(all) > Capacity THEN Newest(all, Capacity) ELSE all
    IN  {[auto |-> SelectSeq(kept, LAMBDA c : ~c.pinned), pinned |-> SelectSeq(kept, LAMBDA c : c.pinned),
          cursor |-> NoCursor, disk |-> t.disk \ gone] : gone \in SUBSET (Rng(all) \ Rng(kept))}

(* reload: the oldest automatic checkpoints beyond the capacity go, from   *)
(* the disk, too, unless their files cannot be deleted.                    *)
Reloads(t) ==
    LET autos == ByTime(InOrderOfId({c \in t.disk : ~c.pinned}))
        pins  == ByTime(InOrderOfId({c \in t.disk : c.pinned}))
        kept  == IF Len(autos) > Capacity THEN Newest(autos, Capacity) ELSE autos
    IN  {[auto |-> kept, pinned |-> pins, cursor |-> NoCursor, disk |-> t.disk \ gone] :
            gone \in SUBSET (Rng(autos) \ Rng(kept))}

(* ensure_timeline_loaded.                                                 *)
Loaded(t) == IF t.auto = <<>> /\ t.pinned = <<>> THEN Reloads(t) ELSE {t}

PushAuto(t, c, outcome) ==
    LET longer == Append(t.auto, c) IN
    IF outcome = "save" THEN t
    ELSE IF Len(longer) <= Capacity
    THEN [t EXCEPT !.auto = longer, !.cursor = NoCursor, !.disk = @ \cup {c}]
    ELSE [t EXCEPT !.auto = Tail(longer), !.cursor = NoCursor,
                   !.disk = (@ \cup {c}) \ (IF outcome = "delete" THEN {} ELSE {Head(longer)})]

(* The latest checkpoint the new one can be merged with.                   *)
CanCoalesce(e, c) == e.key = c.key /\ c.at >= e.at /\ c.at - e.at <= Window

Coalescing(t, c) == {i \in DOMAIN t.auto : CanCoalesce(t.auto[i], c)}

LatestOf(S) == CHOOSE i \in S : \A j \in S : j <= i

KeepFirst(t, c, outcome) ==
    IF Coalescing(t, c) = {} THEN PushAuto(t, c, outcome)
    ELSE [t EXCEPT !.cursor = NoCursor]

ReplaceLatestDeletingFirst(t, c, outcome) ==
    LET i == LatestOf(Coalescing(t, c)) IN
    IF Coalescing(t, c) = {} THEN PushAuto(t, c, outcome)
    ELSE IF outcome = "save" THEN [t EXCEPT !.disk = @ \ {t.auto[i]}]
    ELSE [t EXCEPT !.auto[i] = c, !.cursor = NoCursor, !.disk = (@ \ {t.auto[i]}) \cup {c}]

ReplaceLatestAtItsTime(t, c, outcome) ==
    LET i == LatestOf(Coalescing(t, c))
        d == [c EXCEPT !.at = t.auto[i].at]
    IN  IF Coalescing(t, c) = {} THEN PushAuto(t, c, outcome)
        ELSE IF outcome = "save" THEN t
        ELSE [t EXCEPT !.auto[i] = d, !.cursor = NoCursor, !.disk = (@ \ {t.auto[i]}) \cup {d}]

ReplaceLatest(t, c, outcome) ==
    LET i == LatestOf(Coalescing(t, c)) IN
    IF Coalescing(t, c) = {} THEN PushAuto(t, c, outcome)
    ELSE IF outcome = "save" THEN t
    ELSE [t EXCEPT !.auto[i] = c, !.cursor = NoCursor,
                   !.disk = (@ \cup {c}) \ (IF outcome = "delete" THEN {} ELSE {t.auto[i]})]

Position(s, id) == {i \in DOMAIN s : s[i].id = id}

(* remove: from memory and from disk.                                      *)
Without(s, id) == IF Position(s, id) = {} THEN s ELSE Drop(s, LatestOf(Position(s, id)))

RemoveKeepingCursor(t, id, outcome) ==
    [t EXCEPT !.auto = Without(@, id), !.pinned = Without(@, id),
              !.disk = IF outcome = "delete" THEN @ ELSE {c \in @ : c.id # id}]

Remove(t, id, outcome) ==
    [auto |-> Without(t.auto, id), pinned |-> Without(t.pinned, id), cursor |-> NoCursor,
     disk |-> IF outcome = "delete" THEN t.disk ELSE {c \in t.disk : c.id # id}]

(* step_back and step_forward: the position they go to, or none.           *)
BackTooFar(t) ==
    LET n == Len(Merged(t)) IN
    IF t.cursor = NoCursor THEN {i \in {n - 2} : n >= 3} ELSE {i \in {t.cursor - 1} : i >= 1}

Back(t) ==
    LET n == Len(Merged(t)) IN
    IF t.cursor = NoCursor THEN {i \in {n - 1} : n >= 2} ELSE {i \in {t.cursor - 1} : i >= 1}

Forward(t) ==
    IF t.cursor = NoCursor THEN {}
    ELSE IF t.cursor = Len(Merged(t)) THEN {t.cursor} ELSE {t.cursor + 1}

Seek(t, id) ==
    LET m == Merged(t) IN
    IF Position(m, id) = {} THEN t
    ELSE [t EXCEPT !.cursor = IF m[Len(m)].id = id THEN NoCursor ELSE LatestOf(Position(m, id))]

AtCursor(t) ==
    LET m == Merged(t) IN
    /\ m # <<>>
    /\ layout = m[IF t.cursor = NoCursor THEN Len(m) ELSE t.cursor].layout
-----------------------------------------------------------------------------
(* The commands.                                                           *)

New(id, l, key, isPinned) ==
    [id |-> id, layout |-> l, at |-> now, key |-> key, pinned |-> isPinned]

(* No other checkpoint of this second is listed behind the one recorded.   *)
NoneBehind(t, c) ==
    /\ \A p \in Rng(t.pinned) : p.at < now
    /\ Coalescing(t, c) # {} =>
          \A j \in DOMAIN t.auto : j > LatestOf(Coalescing(t, c)) => t.auto[j].at < now

(* A bulk command or a rule has changed the layout:                        *)
(* record_coalesced_mutation_timeline_pair.                                *)
Mutate(s, l) ==
    /\ l # layout /\ layout' = l
    /\ \E before \in Loaded(Timeline), first, second \in Outcomes :
          LET pre  == New(nextId, layout, <<"pre", s>>, FALSE)
              t    == KeepFirst(before, pre, first)
              used == IF pre \in Rng(t.auto) THEN 1 ELSE 0
              post == New(nextId + used, l, <<"post", s>>, FALSE)
          IN  /\ post.id <= MaxId /\ nextId' = post.id + 1      \* bound
              /\ Fails(Count({<<1, first>>, <<2, second>>}))
              /\ Becomes(ReplaceLatest(t, post, second))
              /\ last' = Known("mutate", {}, second # "save" /\ NoneBehind(t, post))
    /\ UNCHANGED <<now, spoiled>>

(* The user changes the layout in any other way, which records nothing; so *)
(* does loading a layout snapshot.                                         *)
Edit(l) ==
    /\ l # layout /\ layout' = l /\ last' = Nothing
    /\ UNCHANGED <<auto, pinned, cursor, disk, now, nextId, failures, spoiled>>

(* SaveCheckpoint without an identifier: push_pinned.                      *)
SaveCheckpoint ==
    /\ nextId <= MaxId /\ nextId' = nextId + 1      \* bound
    /\ last' = Nothing
    /\ \E t \in Loaded(Timeline) :
       LET c == New(nextId, layout, <<>>, TRUE)
       IN  \/ /\ Becomes([t EXCEPT !.pinned = ByTime(Append(@, c)), !.disk = @ \cup {c}])
              /\ UNCHANGED failures
           \/ Becomes(t) /\ Fails(1)
    /\ UNCHANGED <<layout, now, spoiled>>

(* SaveCheckpoint of an automatic one: pin.  A file that cannot be written *)
(* again is as it was, or it is truncated; memory does not care.           *)
Pin(i) ==
    \E t \in Loaded(Timeline) :
    LET c    == t.auto[i]
        new  == [c EXCEPT !.pinned = TRUE]
        pins == [t EXCEPT !.auto = Drop(@, i), !.pinned = ByTime(Append(@, new))]
    IN  /\ i \in DOMAIN t.auto
        /\ last' = Nothing
        /\ \/ /\ Becomes([pins EXCEPT !.disk = (@ \ {c}) \cup {new}])
              /\ UNCHANGED <<failures, spoiled>>
           \/ /\ Fails(1) /\ spoiled' = spoiled \cup {c.id}
              /\ Becomes(pins) \/ Becomes([pins EXCEPT !.disk = @ \ {c}])
        /\ UNCHANGED <<layout, now, nextId>>

(* restore_timeline_checkpoint: the present layout is recorded first.      *)
Restore(i) ==
    \E t \in Loaded(Timeline) :
    LET c == Merged(t)[i]
    IN  /\ i \in DOMAIN Merged(t)
        /\ nextId <= MaxId /\ nextId' = nextId + 1      \* bound
        /\ \E outcome \in Outcomes :
              /\ Fails(Count({<<1, outcome>>}))
              /\ Becomes(Seek(PushAuto(t, New(nextId, layout, <<>>, FALSE), outcome), c.id))
        /\ layout' = c.layout /\ last' = Nothing
        /\ UNCHANGED <<now, spoiled>>

Undo ==
    \E t \in Loaded(Timeline) : \E i \in Back(t) :
        /\ Becomes([t EXCEPT !.cursor = i])
        /\ layout' = Merged(t)[i].layout
        /\ last' = Known("undo", {layout}, AtCursor(t))
        /\ UNCHANGED <<now, nextId, failures, spoiled>>

Redo ==
    \E t \in Loaded(Timeline) : \E i \in Forward(t) :
        /\ Becomes([t EXCEPT !.cursor = IF i = t.cursor THEN NoCursor ELSE i])
        /\ layout' = Merged(t)[i].layout /\ last' = Nothing
        /\ UNCHANGED <<now, nextId, failures, spoiled>>

Delete(id) ==
    /\ \E t \in Loaded(Timeline), outcome \in {"none", "delete"} :
          /\ Position(Merged(t), id) # {}
          /\ Fails(Count({<<1, outcome>>})) /\ Becomes(Remove(t, id, outcome))
    /\ last' = Nothing
    /\ UNCHANGED <<layout, now, nextId, spoiled>>

(* OpenTimeline reloads.                                                   *)
Open ==
    /\ (\E t \in Reloads(Timeline) : Becomes(t)) /\ last' = Nothing
    /\ UNCHANGED <<layout, now, nextId, failures, spoiled>>
-----------------------------------------------------------------------------
Second == now < MaxTime /\ now' = now + 1
          /\ UNCHANGED <<layout, auto, pinned, cursor, disk, nextId, failures, spoiled, last>>

Forgotten(files) == [auto |-> <<>>, pinned |-> <<>>, cursor |-> NoCursor, disk |-> files]

(* The program ends, or dies between the two checkpoints of a pair or      *)
(* while it writes a file again.                                           *)
Restart ==
    /\ Becomes(Forgotten(disk)) /\ last' = Nothing
    /\ UNCHANGED <<layout, now, nextId, failures, spoiled>>

DieInMutate(s) ==
    LET pre == New(nextId, layout, <<"pre", s>>, FALSE) IN
    /\ nextId <= MaxId /\ nextId' = nextId + 1 /\ Fails(1)      \* bound
    /\ \E t \in Loaded(Timeline) : Becomes(Forgotten(KeepFirst(t, pre, "none").disk))
    /\ last' = Nothing
    /\ UNCHANGED <<layout, now, spoiled>>

DieInPin(i) ==
    /\ i \in DOMAIN auto /\ Fails(1)
    /\ Becomes(Forgotten(disk \ {auto[i]})) /\ spoiled' = spoiled \cup {auto[i].id}
    /\ last' = Nothing
    /\ UNCHANGED <<layout, now, nextId>>

Deaths == Restart \/ (\E s \in Scopes : DieInMutate(s)) \/ (\E i \in 1..Capacity : DieInPin(i))

MutateUndoRedo ==
    \/ \E s \in Scopes, l \in Layouts : Mutate(s, l)
    \/ \E l \in Layouts : Edit(l)
    \/ Undo \/ Redo \/ Second

Others ==
    \/ SaveCheckpoint \/ (\E i \in 1..Capacity : Pin(i))
    \/ (\E i \in 1..MaxId : Restore(i) \/ Delete(i))
    \/ Open \/ Deaths

Next ==
    /\ MutateUndoRedo \/ (setting.commands = "all" /\ Others)
    /\ UNCHANGED setting

Spec == Init /\ [][Next]_vars
-----------------------------------------------------------------------------
(* Whatever is evicted, replaced, pinned, deleted or fails, a checkpoint   *)
(* the timeline shows has its file, pinned if it is shown as pinned, so    *)
(* that a restart brings it back; but one whose file could not be written  *)
(* again when it was pinned.                                               *)
ShownIsOnDisk ==
    \A c \in Rng(auto) \cup Rng(pinned) : c \in disk \/ c.id \in spoiled

(* "Manual / pinned checkpoints are never evicted by the ring buffer"      *)
(* (checkpoint.rs:151): they stay on disk until the user deletes them,     *)
(* through reloads, restarts and full buffers.                             *)
PinnedStay ==
    [][\A c \in disk : c.pinned => c \in disk' \/ Delete(c.id)]_vars

(* Redo takes back an undo: it returns to the layout before the undo, if   *)
(* that was the layout of the checkpoint at the cursor.                    *)
RedoTakesBackUndo ==
    last.op = "undo" =>
        \E i \in Forward(Timeline) : Merged(Timeline)[i].layout \in last.before

(* "the visible head reflects the latest mutation" (ring_buffer.rs:108):   *)
(* so it does, unless a checkpoint was saved by hand, or the burst was     *)
(* interrupted, within the same second.                                    *)
HeadIsLatest ==
    LET m == Merged(Timeline) IN
    last.op = "mutate" => m[Len(m)].layout = layout /\ cursor = NoCursor
=============================================================================
