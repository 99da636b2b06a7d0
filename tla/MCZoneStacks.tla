---------------------------- MODULE MCZoneStacks ----------------------------
(***************************************************************************)
(* ZoneStacks started from every zones.bin a build may have left: none, or *)
(* a list of older builds, where a stack may sit inside another: every     *)
(* list of MaxId zones or fewer whose two records of a stack agree, nested *)
(* to any depth, members in any order, cycles included.  `old' is the list *)
(* as the file held it, until the first command.                           *)
(***************************************************************************)
EXTENDS ZoneStacks

VARIABLE old

OrdersOf(S) == {s \in [1..Cardinality(S) -> S] : ToSet(s) = S}

Children(up, i) == {c \in DOMAIN up : up[c] = i}

Parents(n) == {up \in [1..n -> 0..n] : \A i \in 1..n : up[i] # i}

ListsOf(n, up) ==
    {[k \in 1..n |-> [id |-> k, parent |-> up[k], members |-> order[k]]] :
        order \in {f \in [1..n -> UNION {OrdersOf(Children(up, i)) : i \in 1..n}] :
                     \A i \in 1..n : f[i] \in OrdersOf(Children(up, i))}}

LegacyLists(max) == UNION {UNION {ListsOf(n, up) : up \in Parents(n)} : n \in 1..max}

MCInit ==
    /\ scope \in Scopes
    /\ old \in {<<>>} \cup (IF NothingTakesStacksApart THEN LegacyLists(scope.ids) ELSE {})
    /\ zones = Flattened(old) /\ nextId = Bumped(1, zones)
    /\ captured = <<>>

MCSpec == MCInit /\ [][Next /\ old' = <<>>]_<<vars, old>>

MCScopes ==
    {[commands |-> {"checkpoint"}, ids |-> 4, captured |-> 4, reordered |-> 0],
     [commands |-> {"delete", "checkpoint", "capsule", "late load"},
      ids |-> 3, captured |-> 1, reordered |-> 0],
     [commands |-> {"delete", "checkpoint"}, ids |-> 3, captured |-> 1, reordered |-> 2]}

(* The zone at the top of the tree i is in; of a cycle, any zone on it.    *)
Root(zs, i) ==
    LET up[k \in 0..Len(zs)] ==
            IF k = 0 THEN i
            ELSE IF Parent(zs, up[k - 1]) = NoZone THEN up[k - 1] ELSE Parent(zs, up[k - 1])
    IN  up[Len(zs)]

OnCycle(zs, i) == Parent(zs, Root(zs, i)) # NoZone

(* Flattening a loaded list keeps the trees of the old build together: the *)
(* zones of one tree end in the stack of its root.  "Move those members    *)
(* immediately after the former source anchor in its parent stack"         *)
(* (zone_list.rs:223).                                                     *)
TreesStayTogether ==
    \A i \in IdsOf(old) : ~OnCycle(old, i) => AnchorOrSelf(zones, i) = Root(old, i)
=============================================================================
