----------------------------- MODULE ZoneStacks -----------------------------
(***************************************************************************)
(* The stacks of zones: ZoneList in bentodesk-zone, the commands that      *)
(* change it (dispatch/stacks.rs, dispatch/zones.rs), the zone ids, and    *)
(* the ways a whole list is replaced: a restart that loads zones.bin, a    *)
(* checkpoint or snapshot of the timeline, a context capsule.              *)
(*                                                                         *)
(* A stack is kept twice: the anchor lists its members, each member names  *)
(* its parent.  A zone that names a parent is drawn, hit and focused only  *)
(* as part of the parent's stack, so the two must agree.                   *)
(*                                                                         *)
(* Simplifications: a zone is its id and its two stack fields; every       *)
(* change reaches zones.bin before a restart (ZonesFile models the rest);  *)
(* one captured list exists at a time, in a checkpoint and in a capsule.   *)
(***************************************************************************)
EXTENDS Integers, Sequences, SequencesExt, FiniteSets

CONSTANTS MaxId,        \* the ids are 1..MaxId
          NoZone,       \* ZoneId::INVALID, None
          Scopes        \* what a run does and how far: the commands it uses
                        \* beyond the common ones, and bounds on the ids and
                        \* zones, on the zones a checkpoint or capsule
                        \* captures, and on the list a zone is moved in

ASSUME NoZoneAssumption == NoZone = 0
ASSUME ScopesAssumption ==
    /\ MaxId \in Nat \ {0}
    /\ Scopes \subseteq [commands : SUBSET {"delete", "checkpoint", "capsule", "late load"},
                         ids : 1..MaxId, captured : 0..MaxId, reordered : 0..MaxId]

VARIABLES zones,        \* ZoneList::zones, front first
          nextId,       \* AppState::next_zone_id
          captured,     \* the zones a checkpoint and a capsule have captured
          scope         \* the scope of this run, fixed

vars == <<zones, nextId, captured, scope>>

Ids  == 1..MaxId
Zone == [id : Ids, parent : Ids \cup {NoZone}, members : Seq(Ids)]

TypeOK ==
    /\ {zones, captured} \subseteq Seq(Zone)
    /\ nextId \in 1..(MaxId + 1)

-----------------------------------------------------------------------------
(* ZoneList as a value: `get' finds the first zone with an id.             *)
IndexOf(zs, i) ==
    IF \E k \in DOMAIN zs : zs[k].id = i
    THEN CHOOSE k \in DOMAIN zs : zs[k].id = i /\ \A j \in 1..(k - 1) : zs[j].id # i
    ELSE 0
Has(zs, i)     == IndexOf(zs, i) # 0
Get(zs, i)     == zs[IndexOf(zs, i)]
Parent(zs, i)  == LET k == IndexOf(zs, i) IN IF k = 0 THEN NoZone ELSE zs[k].parent
Members(zs, i) == LET k == IndexOf(zs, i) IN IF k = 0 THEN <<>> ELSE zs[k].members
IsAnchor(zs, i) == Members(zs, i) # <<>>
IdsOf(zs)      == {zs[k].id : k \in DOMAIN zs}

IsFirst(zs, k) == IndexOf(zs, zs[k].id) = k

SetParents(zs, S, p) ==
    [k \in DOMAIN zs |-> IF zs[k].id \in S /\ IsFirst(zs, k)
                         THEN [zs[k] EXCEPT !.parent = p] ELSE zs[k]]
SetMembers(zs, i, ms) ==
    LET at == IndexOf(zs, i)
    IN  IF at = 0 THEN zs ELSE [zs EXCEPT ![at].members = ms]

(* The elements of s at the places I, in their order.                      *)
Picked(s, I) ==
    [k \in 1..Cardinality(I) |-> s[CHOOSE i \in I : Cardinality({j \in I : j <= i}) = k]]

Without(s, S) == Picked(s, {k \in DOMAIN s : s[k] \notin S})
AppendNew(s, x) == IF Contains(s, x) THEN s ELSE Append(s, x)

(* Each element of s once, at its first place.                             *)
Distinct(s) == Picked(s, {k \in DOMAIN s : \A j \in 1..(k - 1) : s[j] # s[k]})

(* Members of i that name i as their parent.                               *)
OwnMembers(zs, i) ==
    LET ms == Members(zs, i)
    IN  Picked(ms, {k \in DOMAIN ms : Has(zs, ms[k]) /\ Parent(zs, ms[k]) = i})

StackAnchorFor(zs, i) ==
    IF IsAnchor(zs, i) THEN i
    ELSE IF Contains(Members(zs, Parent(zs, i)), i) THEN Parent(zs, i)
    ELSE NoZone

(* stack_member_ids: the anchor and the members that name it; empty unless *)
(* there are two at least.                                                 *)
StackMemberIds(zs, a) ==
    IF OwnMembers(zs, a) = <<>> THEN <<>> ELSE <<a>> \o OwnMembers(zs, a)

AnchorOrSelf(zs, i) == LET a == StackAnchorFor(zs, i) IN IF a = NoZone THEN i ELSE a

-----------------------------------------------------------------------------
Transfer(zs, child) == IF IsAnchor(zs, child) THEN <<child>> \o Without(Distinct(OwnMembers(zs, child)), {child})
                       ELSE <<child>>

CanStack(zs, parent, child) ==
    /\ parent # child /\ Has(zs, parent) /\ Has(zs, child)
    /\ AnchorOrSelf(zs, parent) # AnchorOrSelf(zs, child)
    /\ ~Contains(Transfer(zs, child), AnchorOrSelf(zs, parent))

(* Only the child is taken off its old list.                               *)
LeaveOldParent(zs, ms, target) ==
    [k \in DOMAIN zs |->
        [zs[k] EXCEPT !.members = IF zs[k].id = target \/ ~IsFirst(zs, k) THEN @
            ELSE Without(@, {m \in ToSet(ms) : Parent(zs, m) = zs[k].id})]]

StackNesting(zs, parent, child) ==
    LET target == AnchorOrSelf(zs, parent)
        left   == LeaveOldParent(zs, <<child>>, target)
        named  == SetParents(left, {child}, target)
    IN  SetMembers(named, target, AppendNew(Members(named, target), child))

StackRepeating(zs, parent, child) ==
    LET target  == AnchorOrSelf(zs, parent)
        moved   == Transfer(zs, child)
        left    == LeaveOldParent(zs, moved, target)
        cleared == IF IsAnchor(zs, child) THEN SetMembers(left, child, <<>>) ELSE left
        named   == SetParents(cleared, ToSet(moved), target)
    IN  SetMembers(named, target, Members(named, target) \o moved)

(* ZoneList::stack: the child, with its whole stack if it anchors one,     *)
(* goes under the anchor of `parent', flat.                                *)
StackUnder(zs, parent, child) ==
    LET target  == AnchorOrSelf(zs, parent)
        moved   == Transfer(zs, child)
        left    == LeaveOldParent(zs, moved, target)
        cleared == IF IsAnchor(zs, child) THEN SetMembers(left, child, <<>>) ELSE left
        named   == SetParents(cleared, ToSet(moved), target)
    IN  SetMembers(named, target, Members(named, target) \o Without(moved, ToSet(Members(named, target))))

(* ZoneList::stack, where it returns false when it cannot.                 *)
StackIfPossible(zs, parent, child) ==
    IF CanStack(zs, parent, child) THEN StackUnder(zs, parent, child) ELSE zs

(* ZoneList::unstack.                                                      *)
Unstacked(zs, i) ==
    IF IsAnchor(zs, i)
    THEN SetParents(SetMembers(zs, i, <<>>), ToSet(Members(zs, i)), NoZone)
    ELSE LET left == SetParents(zs, {i}, NoZone)
         IN  SetMembers(left, Parent(zs, i), Without(Members(zs, Parent(zs, i)), {i}))

DetachedAlone(zs, m) ==
    LET left == SetParents(zs, {m}, NoZone)
    IN  SetMembers(left, m, <<>>)

(* ZoneList::detach_from_stack: the stack is taken apart and what remains, *)
(* if two or more, is stacked again under its first zone.                  *)
Detached(zs, m) ==
    LET all     == StackMemberIds(zs, StackAnchorFor(zs, m))
        rest    == Without(all, {m})
        cleared == SetParents([k \in DOMAIN zs |->
                        IF Contains(all, zs[k].id) /\ IsFirst(zs, k)
                        THEN [zs[k] EXCEPT !.members = <<>>] ELSE zs[k]], ToSet(all), NoZone)
        again[k \in 0..(Len(rest) - 1)] ==
            IF k = 0 THEN cleared ELSE StackIfPossible(again[k - 1], rest[1], rest[k + 1])
    IN  IF Len(rest) < 2 THEN cleared ELSE again[Len(rest) - 1]

MinOf(a, b) == IF a < b THEN a ELSE b

(* ZoneList::reorder_stack_member: index 0 is the anchor's own place.      *)
Reordered(zs, a, m, index) ==
    LET others == Without(Members(zs, a), {m})
        at     == MinOf(IF index = 0 THEN 0 ELSE index - 1, Len(others))
    IN  SetMembers(zs, a, InsertAt(others, at + 1, m))
-----------------------------------------------------------------------------
(* ZoneList::flatten_nested_stacks, run over every zones.bin that is read: *)
(* a zone that is both an anchor and a member is made one or the other.    *)
IsNested(z) == z.parent # NoZone /\ z.members # <<>>

(* The parents of i, upwards, one per zone of the list.                    *)
Ancestors(zs, i) ==
    LET up[k \in 0..Len(zs)] == IF k = 0 THEN i ELSE Parent(zs, up[k - 1])
    IN  {up[k] : k \in 1..Len(zs)}

(* The zone at n hands the members it owns to the stack it is in.          *)
Adopt(zs, n) ==
    LET src   == zs[n].id
        p     == zs[n].parent
        ms    == zs[n].members
        own   == Picked(ms, {k \in DOMAIN ms : Parent(zs, ms[k]) = src})
        moved == Without(Distinct(own), {src, p})
        named == SetParents([zs EXCEPT ![n].members = <<>>], ToSet(moved), p)
        left  == [k \in DOMAIN zs |->
                    [named[k] EXCEPT !.members = Without(@, ToSet(moved))]]
        list  == AppendNew(Members(left, p), src)
        at    == SelectInSeq(list, LAMBDA m : m = src)
    IN  SetMembers(left, p, SubSeq(list, 1, at) \o moved \o SubSeq(list, at + 1, Len(list)))

FlattenPassPromoting(zs) ==
    LET n == SelectInSeq(zs, IsNested)
    IN  IF n = 0 THEN zs ELSE [zs EXCEPT ![n].parent = NoZone]

FlattenPass(zs) ==
    LET n   == SelectInSeq(zs, IsNested)
        src == zs[n].id
    IN  IF n = 0 THEN zs
        ELSE IF ~Has(zs, zs[n].parent) \/ src \in {zs[n].parent} \cup Ancestors(zs, zs[n].parent)
             THEN [zs EXCEPT ![n].parent = NoZone]
        ELSE Adopt(zs, n)

Flattened(zs) ==
    LET pass[k \in 0..Len(zs)] == IF k = 0 THEN zs ELSE FlattenPass(pass[k - 1])
    IN  IF \E z \in ToSet(zs) : IsNested(z) THEN pass[Len(zs)] ELSE zs

RebuiltInOnePass(zs) ==
    [k \in DOMAIN zs |->
        [zs[k] EXCEPT !.members =
            Picked([j \in DOMAIN zs |-> zs[j].id], {j \in DOMAIN zs : j > k /\ zs[j].parent = zs[k].id})]]

(* A checkpoint stores of each zone only its parent (bento_zones_from_app);*)
(* zone_list_from_bento_zones gathers the members in list order.           *)
Rebuilt(zs) ==
    LET ids           == [j \in DOMAIN zs |-> zs[j].id]
        childrenOf(i) == Picked(ids, {j \in DOMAIN zs : zs[j].parent = i})
    IN  [k \in DOMAIN zs |->
            [zs[k] EXCEPT !.members = IF IsFirst(zs, k) THEN Distinct(childrenOf(zs[k].id)) ELSE <<>>]]

LargestId(zs) == IF zs = <<>> THEN 0
                 ELSE CHOOSE i \in IdsOf(zs) : \A j \in IdsOf(zs) : j <= i

(* bump_next_zone_id_from_zones.                                           *)
Bumped(next, zs) == IF next <= LargestId(zs) THEN LargestId(zs) + 1 ELSE next

-----------------------------------------------------------------------------
Init == zones = <<>> /\ nextId = 1 /\ captured = <<>> /\ scope \in Scopes

(* Zones the user can point at: on their own, or in a stack that shows.    *)
Shown(zs, i) == Has(zs, i) /\ (Parent(zs, i) = NoZone \/ StackAnchorFor(zs, i) # NoZone)

CreateZone ==
    /\ nextId <= scope.ids /\ Len(zones) < scope.ids       \* bounds
    /\ nextId' = nextId + 1
    /\ zones' = Append(zones, [id |-> nextId, parent |-> NoZone, members |-> <<>>])
    /\ UNCHANGED <<captured, scope>>

ChangeList(zs) == zones' = zs /\ UNCHANGED <<nextId, captured, scope>>

InStack(zs, i) == IsAnchor(zs, i) \/ Parent(zs, i) # NoZone

(* DeleteZone and each step of BulkDeleteZones: the zone leaves the list,  *)
(* the rest of its stack is not told.                                      *)
DeleteZone(i) ==
    /\ Has(zones, i)
    /\ InStack(zones, i) => "delete" \in scope.commands
    /\ ChangeList(RemoveAt(zones, IndexOf(zones, i)))

StackZone(parent, child) ==
    /\ Shown(zones, parent) /\ Shown(zones, child)
    /\ CanStack(zones, parent, child)
    /\ ChangeList(StackUnder(zones, parent, child))

(* unstack_with_scatter, and DissolveStack, which first goes to the        *)
(* anchor.                                                                 *)
Dissolve(i) ==
    /\ StackMemberIds(zones, StackAnchorFor(zones, i)) # <<>>
    /\ ChangeList(Unstacked(zones, StackAnchorFor(zones, i)))

UnstackZone(i) ==
    /\ Shown(zones, i) /\ ~IsAnchor(zones, i) /\ Parent(zones, i) # NoZone
    /\ ChangeList(Unstacked(zones, i))

DetachStackMember(m) ==
    /\ Contains(StackMemberIds(zones, StackAnchorFor(zones, m)), m)
    /\ ChangeList(Detached(zones, m))

ReorderStackMember(a, m, index) ==
    /\ a # m /\ Contains(Members(zones, a), m) /\ Parent(zones, m) = a
    /\ ChangeList(Reordered(zones, a, m, index))

ReorderZone(i, to) ==
    /\ Has(zones, i) /\ Len(zones) <= scope.reordered       \* bound
    /\ ChangeList(InsertAt(RemoveAt(zones, IndexOf(zones, i)), to, Get(zones, i)))

Restart ==
    /\ zones' = Flattened(zones) /\ nextId' = Bumped(1, zones')
    /\ UNCHANGED <<captured, scope>>

(* The load of bootstrap could not open zones.bin, the one of the first    *)
(* paint could: load_zones_once does not bump the next id.                 *)
RestartLoadsLate ==
    /\ "late load" \in scope.commands
    /\ zones' = Flattened(zones) /\ nextId' = 1
    /\ UNCHANGED <<captured, scope>>

Capture ==
    /\ Len(zones) <= scope.captured       \* bound
    /\ captured' = zones
    /\ UNCHANGED <<zones, nextId, scope>>

ApplyCheckpoint ==
    /\ "checkpoint" \in scope.commands
    /\ zones' = Rebuilt(captured) /\ nextId' = Bumped(nextId, zones')
    /\ UNCHANGED <<captured, scope>>

(* restore_context_capsule, which leaves the next id as it is.             *)
RestoreCapsule ==
    /\ "capsule" \in scope.commands /\ zones' = Flattened(captured)
    /\ UNCHANGED <<nextId, captured, scope>>

Next ==
    \/ CreateZone
    \/ \E i \in Ids : DeleteZone(i) \/ Dissolve(i) \/ UnstackZone(i) \/ DetachStackMember(i)
    \/ \E p, c \in Ids : StackZone(p, c)
    \/ \E a, m \in Ids, index \in 0..scope.ids : ReorderStackMember(a, m, index)
    \/ \E i \in Ids, to \in DOMAIN zones : ReorderZone(i, to)
    \/ Restart \/ RestartLoadsLate
    \/ Capture \/ ApplyCheckpoint \/ RestoreCapsule

Spec == Init /\ [][Next]_vars

-----------------------------------------------------------------------------
(* DeleteZone leaves members behind, a capsule is captured by anchor and   *)
(* members, and a late load hands ids out twice: the scopes without them.  *)
NothingTakesStacksApart == scope.commands \subseteq {"checkpoint"}

(* The two records of a stack agree, and no zone is at once a member and   *)
(* an anchor: what ZoneList::stack keeps ("one flat stack", zone_list.rs   *)
(* line 113), each listed once and by one anchor only.                     *)
Flat(zs) ==
    \A k \in DOMAIN zs : LET z == zs[k] IN
        /\ z.parent # NoZone => z.members = <<>>
        /\ z.parent # NoZone => Contains(Members(zs, z.parent), z.id)
        /\ \A m \in ToSet(z.members) : Has(zs, m) /\ Parent(zs, m) = z.id
        /\ Cardinality(ToSet(z.members)) = Len(z.members)

StacksAreFlat == NothingTakesStacksApart => Flat(zones)

(* "A missing parent cannot own a visible stack.  Promote the source back  *)
(* to an independent anchor instead of hiding it" (zone_list.rs:242): after *)
(* every command each zone is drawn, on its own or in a stack.             *)
EveryZoneIsShown ==
    NothingTakesStacksApart => \A i \in IdsOf(zones) : Shown(zones, i)

(* No command, whatever came before, lists a zone twice in one stack or    *)
(* shows it in two: "The target list is rebuilt below, so no zone can      *)
(* remain in two stacks" (zone_list.rs:153).                               *)
ShownOnce ==
    \A i \in IdsOf(zones) :
        /\ Cardinality(ToSet(Members(zones, i))) = Len(Members(zones, i))
        /\ Cardinality({a \in IdsOf(zones) \ {i} :
                          Contains(StackMemberIds(zones, a), i)}) <= 1

(* A checkpoint of a sound list, applied at whatever time, brings back the *)
(* stacks it captured: the same zones in the same stacks, though it never  *)
(* stored who the members of an anchor were.                               *)
CheckpointKeepsStacks ==
    Flat(captured) =>
        LET rebuilt == Rebuilt(captured) IN
        \A i \in IdsOf(captured) :
            ToSet(Members(rebuilt, i)) = ToSet(Members(captured, i))
=============================================================================
