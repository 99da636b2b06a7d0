-------------------------------- MODULE Rules --------------------------------
(***************************************************************************)
(* Rules of the user's that tidy the desktop: rules.json (rules/mod.rs),   *)
(* the scheduler thread that finds the rules whose interval is over and    *)
(* queues them (rules/scheduler.rs), and the UI thread that runs them, at  *)
(* their turn, at a file event or on demand (rules_execution.rs), and that *)
(* saves and deletes them for the wizard (rules_wizard_runtime.rs).        *)
(*                                                                         *)
(* Simplifications: all intervals are equally long and the clock only goes *)
(* forward; which files match, and what is done with them, is left out:    *)
(* files match or they do not.                                             *)
(***************************************************************************)
EXTENDS Naturals, Sequences, FiniteSets

CONSTANTS
    Ids,          \* of rules
    Saved,        \* lists of rules saved at the beginning
    NoRule,
    Period,       \* RunMode::Interval, in ticks of the clock
    Capacity,     \* of the queue of due rules
    MaxFailures,  \* bound on failed reads and writes of rules.json, and deaths
    MaxSaves,     \* bound on rules saved in the wizard
    MaxHeld       \* bound on scans that begin before the queue is empty

ASSUME PeriodAssumption == Period \in Nat \ {0}
ASSUME CapacityAssumption == Capacity \in Nat \ {0}
ASSUME SavedAssumption ==
    /\ Saved \subseteq Seq(Ids)
    /\ \A ids \in Saved : \A i, j \in DOMAIN ids : ids[i] = ids[j] => i = j

VARIABLES
    file,         \* rules.json: the list of rules
    queue,        \* rules_scheduler_events
    toSend,       \* due rules the scan has still to send
    work,         \* rules the UI thread has still to run for a file event
    running,      \* the rule whose effects were applied last, until its
                  \* statistics are saved
    ran,          \* history: ticks since the files of the rule were last touched
    excused,      \* history: rules whose last_run does not tell of that
    failures, saves, held

vars == <<file, queue, toSend, work, running, ran, excused, failures, saves, held>>

Modes == {"interval", "file change", "on demand"}
None  == [rule |-> NoRule, by |-> "nothing", matched |-> FALSE]

Rule == [id: Ids, enabled: BOOLEAN, mode: Modes, since: 0..Period]
Rng(s) == {s[i] : i \in DOMAIN s}

Unique(s) == \A i, j \in DOMAIN s : s[i].id = s[j].id => i = j

TypeOK ==
    /\ Rng(file) \subseteq Rule /\ Unique(file)
    /\ Len(queue) <= Capacity
    /\ Rng(queue) \cup Rng(toSend) \subseteq Ids
    /\ running.rule \in Ids \cup {NoRule}
    /\ ran \in [Ids -> 0..Period]

(* The rules that were saved have their interval and never ran.            *)
Init ==
    /\ file \in {[i \in DOMAIN ids |-> [id |-> ids[i], enabled |-> TRUE,
                                       mode |-> "interval", since |-> Period]] : ids \in Saved}
    /\ queue = <<>> /\ toSend = <<>> /\ work = <<>> /\ running = None
    /\ ran = [r \in Ids |-> Period] /\ excused = {}
    /\ failures = 0 /\ saves = 0 /\ held = 0

(* load_all: an empty list when the file cannot be read.                   *)
Loads(list) ==
    \/ list = file /\ UNCHANGED failures
    \/ list = <<>> /\ failures < MaxFailures /\ failures' = failures + 1

Has(list, id) == \E i \in DOMAIN list : list[i].id = id

Without(list, id) ==
    LET n == CHOOSE i \in DOMAIN list : list[i].id = id
    IN  IF ~Has(list, id) THEN list ELSE
        [i \in 1..(Len(list) - 1) |-> IF i < n THEN list[i] ELSE list[i + 1]]

(* The ids at places S of the list, in its order: a set of one.            *)
IdsAt(list, S) ==
    {[k \in DOMAIN at |-> list[at[k]].id] : at \in {f \in [1..Cardinality(S) -> S] :
                                                \A i, j \in DOMAIN f : i < j => f[i] < f[j]}}

(* save_all: rules.json is replaced, or it stays as it was.                *)
Saves(list) == file' = list

(* should_run_now, of a rule that is enabled and has an interval; `since'  *)
(* is Period for a rule that never ran.                                    *)
Due(r) == r.enabled /\ r.mode = "interval" /\ r.since = Period

-----------------------------------------------------------------------------
Older(n) == IF n < Period THEN n + 1 ELSE n

Tick ==
    /\ file' = [i \in DOMAIN file |-> [file[i] EXCEPT !.since = Older(@)]]
    /\ ran' = [r \in Ids |-> Older(ran[r])]
    /\ \E r \in Ids : ran[r] < Period
    /\ UNCHANGED <<queue, toSend, work, running, excused, failures, saves, held>>

DuePlacesAtTheHead(list) == {i \in DOMAIN list : \A j \in 1..i : Due(list[j])}

(* scan_due_and_emit, once a minute.                                       *)
DuePlaces(list) == {i \in DOMAIN list : Due(list[i])}

Scan ==
    /\ toSend = <<>>
    /\ IF queue = <<>> THEN UNCHANGED held ELSE held < MaxHeld /\ held' = held + 1
    /\ \E list \in {file, <<>>} :
          /\ Loads(list) /\ toSend' \in IdsAt(list, DuePlaces(list))
          /\ toSend' # <<>> \/ failures' # failures
    /\ UNCHANGED <<file, queue, work, running, ran, excused, saves>>

(* try_send; the rest waits for the next scan if the queue is full.        *)
Send ==
    /\ toSend # <<>>
    /\ IF Len(queue) < Capacity
       THEN queue' = Append(queue, Head(toSend)) /\ toSend' = Tail(toSend)
       ELSE toSend' = <<>> /\ UNCHANGED queue
    /\ UNCHANGED <<file, work, running, ran, excused, failures, saves, held>>

Scheduler == Scan \/ Send
-----------------------------------------------------------------------------
UIFree == running = None /\ work = <<>>

(* build_plan and apply_rules_execution_plan.                              *)
Apply(id, by) ==
    \E matched \in BOOLEAN :
        /\ running' = [rule |-> id, by |-> by, matched |-> matched]
        /\ ran' = IF matched THEN [ran EXCEPT ![id] = 0] ELSE ran
        /\ excused' = IF matched THEN excused \ {id} ELSE excused

StillDue(list, id) == \E i \in DOMAIN list : list[i].id = id /\ Due(list[i])

StillEnabled(list, id) ==
    \E i \in DOMAIN list : list[i].id = id /\ list[i].enabled /\ list[i].mode = "interval"

MayRun(list, id) == StillDue(list, id)

(* run_interval_rule_for_scheduler_event: the rule may have been changed,  *)
(* deleted or run since it was queued.                                     *)
RunScheduled ==
    /\ UIFree /\ queue # <<>> /\ queue' = Tail(queue)
    /\ \E list \in {file, <<>>} :
          /\ Loads(list)
          /\ IF MayRun(list, Head(queue))
             THEN Apply(Head(queue), "interval")
             ELSE UNCHANGED <<running, ran, excused>>
    /\ UNCHANGED <<file, toSend, work, saves, held>>

(* run_on_file_change_rules.                                               *)
FileEvent ==
    /\ UIFree
    /\ \E list \in {file, <<>>} :
          LET rules == {i \in DOMAIN list : list[i].enabled /\ list[i].mode = "file change"}
          IN  Loads(list) /\ rules # {} /\ work' \in IdsAt(list, rules)
    /\ UNCHANGED <<file, queue, toSend, running, ran, excused, saves, held>>

RunForEvent ==
    /\ running = None /\ work # <<>> /\ work' = Tail(work)
    /\ Apply(Head(work), "file change")
    /\ UNCHANGED <<file, queue, toSend, failures, saves, held>>

(* run_rule_now_for_wizard, of any rule.                                   *)
RunNow(id) ==
    /\ UIFree /\ Has(file, id) /\ Apply(id, "on demand")
    /\ UNCHANGED <<file, queue, toSend, work, failures, saves, held>>

(* persist_rule_run_stats, if files matched.  When the list cannot be read *)
(* or written the rules the event had still to run are not run either.     *)
Stamped(list, id) ==
    [i \in DOMAIN list |-> IF list[i].id = id THEN [list[i] EXCEPT !.since = 0] ELSE list[i]]

SaveStats ==
    /\ running # None /\ running' = None
    /\ \/ ~running.matched /\ UNCHANGED <<file, work, excused, failures>>
       \/ /\ running.matched /\ Saves(Stamped(file, running.rule))
          /\ UNCHANGED <<work, excused, failures>>
       \/ /\ running.matched /\ failures < MaxFailures /\ failures' = failures + 1
          /\ work' = <<>> /\ excused' = excused \cup {running.rule}
          /\ UNCHANGED file
    /\ UNCHANGED <<queue, toSend, ran, saves, held>>

UI == RunScheduled \/ RunForEvent \/ SaveStats
-----------------------------------------------------------------------------
(* save_rule_for_state_dir: the rule is replaced or appended.  The draft   *)
(* knows no last_run.  A list that could not be read is replaced too.      *)
UpsertedAtEnd(list, r) == Append(list, r)

Upserted(list, r) ==
    IF ~Has(list, r.id) THEN Append(list, r)
    ELSE [i \in DOMAIN list |-> IF list[i].id = r.id THEN r ELSE list[i]]

SaveRule(id, enabled, mode) ==
    /\ UIFree /\ saves < MaxSaves /\ saves' = saves + 1
    /\ \E list \in {file, <<>>} :
          /\ Loads(list)
          /\ Saves(Upserted(list, [id |-> id, enabled |-> enabled, mode |-> mode,
                                   since |-> Period]))
    /\ excused' = excused \cup {id}
    /\ UNCHANGED <<queue, toSend, work, running, ran, held>>

(* delete_rule_for_state_dir.                                              *)
DeleteRule(id) ==
    /\ UIFree /\ Has(file, id)
    /\ \E list \in {file, <<>>} :
          Loads(list) /\ Saves(Without(list, id))
    /\ UNCHANGED <<queue, toSend, work, running, ran, excused, saves, held>>

(* The program ends, or dies between a rule's effects and its statistics,  *)
(* and starts again.                                                       *)
Restart ==
    /\ failures < MaxFailures /\ failures' = failures + 1
    /\ queue' = <<>> /\ toSend' = <<>> /\ work' = <<>> /\ running' = None
    /\ excused' = IF running.matched THEN excused \cup {running.rule} ELSE excused
    /\ UNCHANGED <<file, ran, saves, held>>

Wizard ==
    \E id \in Ids :
        \/ RunNow(id) \/ DeleteRule(id)
        \/ \E enabled \in BOOLEAN, mode \in Modes : SaveRule(id, enabled, mode)

Next == Tick \/ Scheduler \/ UI \/ FileEvent \/ Wizard \/ Restart

(* The scheduler thread wakes every minute; the timer of the UI thread     *)
(* drains the queue four times a second, and neither the user nor file     *)
(* events keep it from that for ever.                                      *)
Fairness == WF_vars(Scheduler) /\ WF_vars(UI) /\ SF_vars(RunScheduled)

Spec == Init /\ [][Next]_vars /\ Fairness
-----------------------------------------------------------------------------
ScheduledRunOf(id) == running # running' /\ running'.by = "interval" /\ running'.rule = id

(* However often a rule was queued while the UI thread was held, it runs   *)
(* at most once per interval, unless its last run could not be recorded or *)
(* the rule was saved in the wizard since, which forgets the last run.     *)
OncePerInterval ==
    [][\A id \in Ids : ScheduledRunOf(id) => ran[id] = Period \/ id \in excused]_vars

(* A rule that is due does not stay behind the others for ever, though a   *)
(* full queue ends a scan and rules that match no file are due at every    *)
(* scan ("this still-due rule will be retried on the next scheduler tick", *)
(* scheduler.rs:112).                                                      *)
DueRulesRun ==
    \A id \in Ids : []<>(StillDue(file, id) => running.rule = id)
=============================================================================
