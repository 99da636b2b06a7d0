----------------------------- MODULE MCTimeline -----------------------------
(* Model checking of Timeline.  One setting fills the buffer and lets      *)
(* files fail, the other has room for bursts that interrupt each other.    *)
EXTENDS Timeline, TLC

FullBuffer == [capacity |-> 2, ids |-> 3, failures |-> 1, commands |-> "all"]
Bursts     == [capacity |-> 4, ids |-> 5, failures |-> 0, commands |-> "mutate, undo and redo"]
BothSettings == {FullBuffer, Bursts}

(* Layouts and scopes are interchangeable.                                 *)
Symmetry == Permutations(Layouts) \cup Permutations(Scopes)
=============================================================================
