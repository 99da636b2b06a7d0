--------------------------- MODULE MCDesktopEvents ---------------------------
(***************************************************************************)
(* Model checking of two of the queues that the timer of the UI thread     *)
(* drains (pump_backend_events): due rules, and events of the desktop.     *)
(* They share no state, so a behaviour is one of either with the other at  *)
(* rest.                                                                   *)
(***************************************************************************)
EXTENDS Rules, Debouncer

CONSTANTS Budget, r1, r2

ASSUME BudgetAssumption == Budget \in Nat

RuleIds   == {r1, r2}
SavedOnes == {<<>>, <<r1, r2>>}

VARIABLES which, exists, missing, ui, changes, unseen, late

D == INSTANCE DesktopPresence

desktopVars == <<debouncerVars, exists, missing, ui, changes, unseen, late>>
allVars == <<which, vars, desktopVars>>

MCInit ==
    /\ Init /\ D!Init
    /\ \/ which = "rules" /\ exists = [p \in Paths |-> TRUE] /\ unseen = {}
       \/ which = "desktop" /\ file = <<>>

RulesStep   == which = "rules" /\ Next /\ UNCHANGED <<which, desktopVars>>
DesktopStep == which = "desktop" /\ D!Next /\ UNCHANGED <<which, vars>>

MCNext == RulesStep \/ DesktopStep

(* The fairness of either, of steps that leave the other at rest.          *)
MCFairness ==
    /\ WF_vars(RulesStep /\ Scheduler) /\ WF_vars(RulesStep /\ UI)
    /\ SF_vars(RulesStep /\ RunScheduled)
    /\ WF_desktopVars(DesktopStep /\ D!Worker) /\ WF_desktopVars(DesktopStep /\ D!UI)

MCSpec == MCInit /\ [][MCNext]_allVars /\ MCFairness
-----------------------------------------------------------------------------
(* The type invariants of Rules and DesktopPresence.                       *)
EventsTypeOK == TypeOK /\ D!TypeOK

(* DesktopPresence: items are marked missing exactly when their files are, *)
(* but for the four changes the program does not notice.                   *)
PresenceFollowsDesktop == D!PresenceFollowsDesktop
=============================================================================
