--------------------------- MODULE DurableRegister ---------------------------
(***************************************************************************)
(* What a store of BentoDesk's state promises to the code that uses it:    *)
(* one value that survives the process.  A write takes effect as a whole   *)
(* or not at all; one that fails, or that a crash cuts short, leaves the   *)
(* value that was there.  Nothing but a write changes the value -- in      *)
(* particular not the recovery a later start performs.                     *)
(***************************************************************************)
CONSTANTS Values, NoValue

VARIABLES content,      \* the value a reader is given
          pending       \* the value being written, or NoValue

Init == content \in Values \cup {NoValue} /\ pending = NoValue

Begin(v) == pending = NoValue /\ pending' = v /\ UNCHANGED content
Commit   == pending # NoValue /\ content' = pending /\ pending' = NoValue
Abandon  == pending # NoValue /\ pending' = NoValue /\ UNCHANGED content

Next == (\E v \in Values : Begin(v)) \/ Commit \/ Abandon

Spec == Init /\ [][Next]_<<content, pending>>
=============================================================================
