--------------------------- MODULE MCSettingsStore ---------------------------
(***************************************************************************)
(* Model checking of the JSON store, file operation by file operation, and *)
(* of the settings vault, the store's most written file, handler by        *)
(* handler.  A behaviour is one of either with the other at rest: the      *)
(* vault takes from the store only that a write takes effect or does not,  *)
(* which is what ImplementsRegister says.                                  *)
(***************************************************************************)
EXTENDS JsonStore, ConfigVault

VARIABLE which

allVars == <<which, vars, vaultVars>>

MCInit ==
    /\ Init /\ VaultInit
    /\ \/ which = "store" /\ file = NoFile
       \/ which = "vault" /\ primary = Absent /\ backup = Absent
          /\ faults = CHOOSE f \in FaultSets : TRUE

StoreStep == which = "store" /\ Next /\ UNCHANGED <<which, vaultVars>>
VaultStep == which = "vault" /\ VaultNext /\ UNCHANGED <<which, vars>>

MCNext == StoreStep \/ VaultStep

MCSpec == MCInit /\ [][MCNext]_allVars
=============================================================================
