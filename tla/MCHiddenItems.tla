--------------------------- MODULE MCHiddenItems ---------------------------
(* HiddenItems on a small instance, with the symmetry of its value sets.   *)
EXTENDS HiddenItems, TLC

Symmetric == Permutations(Files) \cup Permutations(Names) \cup Permutations(Zones)
=============================================================================
