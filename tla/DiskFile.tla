------------------------------ MODULE DiskFile ------------------------------
(***************************************************************************)
(* A file as the three persistent stores see it: missing, unreadable       *)
(* (`torn': truncated, half-written or not in the expected format) or      *)
(* whole, holding one value.  The bytes of a whole file may still sit in   *)
(* the system's cache; only sync_all forces them out, and a power failure  *)
(* may tear a file that was not synced.  The death of the process alone    *)
(* loses nothing that was written.                                         *)
(***************************************************************************)
CONSTANTS Values,      \* what a store can hold
          NoValue      \* no value: nothing stored, or nothing being written

ASSUME NoValueAssumption == NoValue \notin Values

Absent       == [kind |-> "absent", value |-> NoValue, synced |-> TRUE]
Torn         == [kind |-> "torn",   value |-> NoValue, synced |-> TRUE]
Cached(v)    == [kind |-> "whole",  value |-> v, synced |-> FALSE]
Synced(v)    == [kind |-> "whole",  value |-> v, synced |-> TRUE]

File == {Absent, Torn}
          \cup [kind : {"whole"}, value : Values, synced : BOOLEAN]

Exists(f)    == f.kind # "absent"
Readable(f)  == f.kind = "whole"

(* A copy of f made through the cache.                                     *)
CopyOf(f)    == IF Readable(f) THEN Cached(f.value) ELSE f

(* What a power failure may leave of f.                                    *)
AfterPowerFailure(f) == IF f.synced THEN {f} ELSE {f, Torn}
=============================================================================
