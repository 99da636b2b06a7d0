---------------------------- MODULE FileCustody ----------------------------
(***************************************************************************)
(* What BentoDesk promises about a user's file, whatever its handlers do:  *)
(* a file on the desktop is visible; the application may stow it in its    *)
(* hidden tree and return it; it is given up only when the user asks for   *)
(* it (recycle, move out, a deletion of their own).  A file never simply   *)
(* disappears, and a file given up never comes back under management.      *)
(* HiddenItems implements this specification.                              *)
(***************************************************************************)
CONSTANT Files

VARIABLE place          \* where each file is, seen from the user

Places == {"absent", "visible", "stowed", "released"}

Init == place = [f \in Files |-> "absent"]

Appear(f)  == place[f] = "absent"  /\ place' = [place EXCEPT ![f] = "visible"]
Stow(f)    == place[f] = "visible" /\ place' = [place EXCEPT ![f] = "stowed"]
Return(f)  == place[f] = "stowed"  /\ place' = [place EXCEPT ![f] = "visible"]
Release(f) == /\ place[f] \in {"visible", "stowed"}
              /\ place' = [place EXCEPT ![f] = "released"]

Next == \E f \in Files : Appear(f) \/ Stow(f) \/ Return(f) \/ Release(f)

Spec == Init /\ [][Next]_place
=============================================================================
