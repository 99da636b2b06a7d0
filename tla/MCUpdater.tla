----------------------------- MODULE MCUpdater -----------------------------
(* Updater with two releases and one change of the frequency, or with none *)
(* and three changes: enabled, disabled and enabled again.                 *)
EXTENDS Updater

CONSTANTS v1, v2

MCBounds == {[released |-> {v1, v2}, changes |-> 1], [released |-> {}, changes |-> 3]}
=============================================================================
