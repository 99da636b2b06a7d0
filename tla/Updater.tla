------------------------------- MODULE Updater -------------------------------
(***************************************************************************)
(* The updater: one atomic gate shared by the user interface, a scheduler  *)
(* thread, a check worker and a download worker.  Workers report through a *)
(* queue of events that the UI thread drains; the gate is released only    *)
(* when the UI acknowledges the last event of an operation.                *)
(*                                                                         *)
(* Simplifications: the manifest, the artifact and their verification are  *)
(* outcomes; a version is a model value; progress is one event per         *)
(* download; the event channel stays open, for the receiver lives as long  *)
(* as the process.                                                         *)
(***************************************************************************)
EXTENDS Naturals, Sequences, FiniteSets

CONSTANTS
    Versions,      \* versions newer than the running one
    None,          \* no version
    Slots,         \* places for worker and scheduler threads
    Bounds         \* bounds of a behaviour, one of which it starts with: the
                   \* versions that are released, the changes of the frequency

ASSUME NoneAssumption == None \notin Versions
ASSUME SlotsAssumption == Slots # {}
ASSUME BoundsAssumption == Bounds \subseteq [released: SUBSET Versions, changes: Nat]

VARIABLES
    gate,        \* Updater.operation
    pending,     \* Updater.pending_update
    staged,      \* Updater.staged_artifact
    skipped,     \* Updater.skipped_version
    lockedSkip,  \* updates.skipped_version of a vault that is still locked
    workers,     \* background threads: operation, next step, version found
    events,      \* the channel to the user interface
    ui,          \* what the UI thread is in the middle of
    status,      \* AppState.settings_updater_status
    autoDownload,
    sched,       \* SchedulerState
    threads,     \* scheduler threads: next step, generation read
    bounds       \* the bounds of this behaviour

updateVars == <<gate, pending, staged, skipped, lockedSkip, workers, events, ui, status,
                autoDownload, bounds>>
vars == <<updateVars, sched, threads>>

Operations == {"Idle", "Checking", "Downloading", "Ready", "Installing"}

Event(k, v)  == [kind |-> k, version |-> v]
Status(k, v) == [kind |-> k, version |-> v]

Free     == [op |-> "Idle", step |-> "none", found |-> None]
NoThread == [step |-> "none", generation |-> 0]
Waiting  == [doing |-> "nothing", event |-> Event("none", None), after |-> "nothing"]

Versioned == {"Available", "Ready", "Skipped", "Installing"}

(* A status that names a version has one, and no other has.                *)
TypeOK ==
    /\ gate \in Operations
    /\ status.kind \in {"Idle", "Checking", "UpToDate", "Downloading", "Error"} \cup Versioned
    /\ status.kind \in Versioned <=> status.version # None
    /\ {pending, staged, skipped, lockedSkip} \subseteq Versions \cup {None}
    /\ \A s \in Slots : workers[s].op \in {"Idle", "Checking", "Downloading"}
    /\ sched.enabled \in BOOLEAN /\ sched.generation \in 0..bounds.changes

Init ==
    /\ gate = "Idle" /\ pending = None /\ staged = None /\ skipped = None
    /\ bounds \in Bounds /\ lockedSkip \in bounds.released \cup {None}
    /\ workers = [s \in Slots |-> Free]
    /\ events = <<>> /\ ui = Waiting /\ status = Status("Idle", None)
    /\ autoDownload \in BOOLEAN
    /\ sched = [enabled |-> FALSE, generation |-> 0, immediate |-> FALSE, running |-> FALSE]
    /\ threads = [s \in Slots |-> NoThread]
-----------------------------------------------------------------------------
(* acquire_operation and the spawn of the worker.  A spawn that fails      *)
(* queues the last event of the operation at once.                         *)
AnyOf(slots) == CHOOSE s \in slots : TRUE

ErrorOf(op) == Event(IF op = "Checking" THEN "CheckError" ELSE "DownloadError", None)

AcquiresUnlessSame(op) == gate # op

Acquires(op) == gate = "Idle"

Start(op) ==
    IF Acquires(op)
    THEN /\ gate' = op
         /\ \/ /\ workers' = [workers EXCEPT ![AnyOf({s \in Slots : workers[s] = Free})] =
                                [op |-> op, step |-> "begin", found |-> None]]
               /\ UNCHANGED events
            \/ /\ events' = Append(events, ErrorOf(op))
               /\ UNCHANGED workers
    ELSE UNCHANGED <<gate, workers, events>>

(* The caller was told Started or Joined.                                  *)
Runs(op) == gate' = op

(* What each event does to the gate when the UI takes it.                  *)
Acknowledged(kind) ==
    CASE gate = "Checking" /\ kind \in {"Available", "UpToDate", "CheckError"} -> "Idle"
      [] gate = "Downloading" /\ kind = "Ready" -> "Ready"
      [] gate = "Downloading" /\ kind = "DownloadError" -> "Idle"
      [] OTHER -> gate

DiscardKeepingGate(v) ==
    IF pending = v /\ gate \notin {"Downloading", "Installing"}
    THEN pending' = None /\ staged' = None /\ UNCHANGED gate
    ELSE UNCHANGED <<pending, staged, gate>>

(* discard_pending_version: nothing while a download or an install owns    *)
(* the version.                                                            *)
Discard(v) ==
    IF pending = v /\ gate \notin {"Downloading", "Installing"}
    THEN /\ pending' = None /\ staged' = None
         /\ gate' = IF gate = "Ready" THEN "Idle" ELSE gate
    ELSE UNCHANGED <<pending, staged, gate>>

(* replace_pending_update: another version discards what is staged.  The   *)
(* code clears `staged' after it has let go of `pending'; one step is      *)
(* enough, for the gate of the check keeps everyone out who would stage,   *)
(* download or install in between, and a discard clears `staged' as well.  *)
ReplacePending(v) ==
    /\ pending' = v
    /\ staged' = IF pending = v THEN staged ELSE None
-----------------------------------------------------------------------------
(* The check worker, run_background_check_once.  It reads the skipped      *)
(* version, publishes what it found and sends the event in three steps.    *)
Goes(s, step, found) ==
    workers' = [workers EXCEPT ![s] = [op |-> @.op, step |-> step, found |-> found]]

Running(s, op, step) == workers[s].op = op /\ workers[s].step = step

unchangedByWorkers == <<gate, skipped, lockedSkip, ui, status, autoDownload, sched, threads,
                        bounds>>

CheckFetches(s) ==
    /\ Running(s, "Checking", "begin")
    /\ \/ \E v \in bounds.released :
            IF v = skipped THEN Goes(s, "upToDate", None) ELSE Goes(s, "publish", v)
       \/ Goes(s, "upToDate", None)
       \/ Goes(s, "failed", None)
    /\ UNCHANGED <<pending, staged, events, unchangedByWorkers>>

CheckPublishes(s) ==
    /\ Running(s, "Checking", "publish") \/ Running(s, "Checking", "upToDate")
         \/ Running(s, "Checking", "failed")
    /\ ReplacePending(workers[s].found)
    /\ workers' = [workers EXCEPT ![s].step =
            CASE @ = "publish" -> "Available" [] @ = "upToDate" -> "UpToDate"
              [] @ = "failed" -> "CheckError"]
    /\ UNCHANGED <<events, unchangedByWorkers>>

(* The last thing either worker does.                                      *)
WorkerReports(s) ==
    /\ workers[s].step \in {"Available", "UpToDate", "CheckError", "Ready", "DownloadError"}
    /\ events' = Append(events, Event(workers[s].step, workers[s].found))
    /\ workers' = [workers EXCEPT ![s] = Free]
    /\ UNCHANGED <<pending, staged, unchangedByWorkers>>

(* The download worker, download_core.                                     *)
DownloadBegins(s) ==
    /\ Running(s, "Downloading", "begin")
    /\ IF pending = None
       THEN Goes(s, "DownloadError", None) /\ UNCHANGED staged
       ELSE Goes(s, "copy", pending) /\ staged' = None
    /\ UNCHANGED <<pending, events, unchangedByWorkers>>

DownloadProgresses(s) ==
    /\ Running(s, "Downloading", "copy")
    /\ Goes(s, "verify", workers[s].found)
    /\ events' = Append(events, Event("Progress", None))
    /\ UNCHANGED <<pending, staged, unchangedByWorkers>>

DownloadFails(s) ==
    /\ Running(s, "Downloading", "copy") \/ Running(s, "Downloading", "verify")
    /\ Goes(s, "DownloadError", None)
    /\ UNCHANGED <<pending, staged, events, unchangedByWorkers>>

DownloadStages(s) ==
    /\ Running(s, "Downloading", "verify")
    /\ staged' = workers[s].found
    /\ Goes(s, "Ready", workers[s].found)
    /\ UNCHANGED <<pending, events, unchangedByWorkers>>

Worker(s) ==
    \/ CheckFetches(s) \/ CheckPublishes(s) \/ WorkerReports(s)
    \/ DownloadBegins(s) \/ DownloadProgresses(s) \/ DownloadFails(s) \/ DownloadStages(s)
-----------------------------------------------------------------------------
(* The UI thread.  It takes an event and acknowledges it; the scheduler    *)
(* may use the gate before the event is handled.                           *)
unchangedByUI == <<lockedSkip, sched, threads, bounds>>

UITakesEvent ==
    /\ ui.doing \in {"nothing", "install failed"} /\ events # <<>>
    /\ gate' = Acknowledged(Head(events).kind)
    /\ events' = Tail(events)
    /\ ui' = [doing |-> "draining", event |-> Head(events), after |-> ui.doing]
    /\ UNCHANGED <<pending, staged, skipped, workers, status, autoDownload, unchangedByUI>>

StatusAfterLiteral(e) ==
    CASE e.kind = "UpToDate" /\ status.kind \notin {"Checking", "Available"} -> status
      [] e.kind \in {"CheckError", "DownloadError"} -> Status("Error", None)
      [] OTHER -> Status(e.kind, e.version)

(* apply_update_event_to_app.                                              *)
StatusAfter(e) ==
    CASE e.kind = "UpToDate" /\ status.kind \notin {"Checking", "Available"} -> status
      [] e.kind = "Progress" -> Status("Downloading", None)
      [] e.kind \in {"CheckError", "DownloadError"} -> Status("Error", None)
      [] OTHER -> Status(e.kind, e.version)

NeverStale(e) == FALSE

Stale(e) == e.kind = "Available" /\ e.version = skipped

UIAppliesEvent ==
    LET e == ui.event IN
    /\ ui.doing = "draining" /\ ui' = [Waiting EXCEPT !.doing = ui.after]
    /\ \/ /\ Stale(e)
          /\ Discard(e.version)
          /\ UNCHANGED <<workers, events, status>>
       \/ /\ ~Stale(e)
          /\ IF autoDownload /\ e.kind = "Available"
             THEN /\ Start("Downloading")
                  /\ status' = IF Runs("Downloading") THEN Status("Downloading", None)
                               ELSE StatusAfter(e)
             ELSE /\ status' = StatusAfter(e)
                  /\ UNCHANGED <<gate, workers, events>>
          /\ UNCHANGED <<pending, staged>>
    /\ UNCHANGED <<skipped, autoDownload, unchangedByUI>>

(* Commands of the settings panel, each when its button shows.             *)
CheckForUpdates ==
    /\ ui = Waiting
    /\ Start("Checking")
    /\ status' = IF Runs("Checking") THEN Status("Checking", None) ELSE status
    /\ UNCHANGED <<pending, staged, skipped, ui, autoDownload, unchangedByUI>>

DownloadUpdate ==
    /\ ui = Waiting /\ status.kind = "Available"
    /\ Start("Downloading")
    /\ status' = IF Runs("Downloading") THEN Status("Downloading", None) ELSE status
    /\ UNCHANGED <<pending, staged, skipped, ui, autoDownload, unchangedByUI>>

SkipVersion ==
    /\ ui = Waiting /\ status.kind \in {"Available", "Ready"}
    /\ skipped' = status.version
    /\ Discard(status.version)
    /\ status' = Status("Skipped", status.version)
    /\ UNCHANGED <<workers, events, ui, autoDownload, unchangedByUI>>

(* The vault is unlocked and its settings applied.                         *)
UnlockVault ==
    /\ ui = Waiting /\ lockedSkip # None /\ lockedSkip' = None
    /\ skipped' = lockedSkip
    /\ Discard(lockedSkip)
    /\ status' = Status("Skipped", lockedSkip)
    /\ UNCHANGED <<workers, events, ui, autoDownload, sched, threads, bounds>>

(* install: the gate is taken, then the artifact is verified again.  While *)
(* the panel offers it the gate is never held by a check or a download.    *)
InstallBegins ==
    /\ ui = Waiting /\ status.kind = "Ready" /\ gate \in {"Idle", "Ready"}
    /\ gate' = "Installing" /\ ui' = [Waiting EXCEPT !.doing = "installing"]
    /\ UNCHANGED <<pending, staged, skipped, workers, events, status, autoDownload, unchangedByUI>>

InstallFailsKeepingGate ==
    /\ ui.doing = "installing" /\ ui' = [Waiting EXCEPT !.doing = "install failed"]
    /\ UNCHANGED <<gate, pending, staged, skipped, workers, events, status, autoDownload,
                   unchangedByUI>>

InstallFails ==
    /\ ui.doing = "installing" /\ ui' = [Waiting EXCEPT !.doing = "install failed"]
    /\ gate' = "Idle"
    /\ UNCHANGED <<pending, staged, skipped, workers, events, status, autoDownload, unchangedByUI>>

(* The queue is drained before the failure shows.                          *)
InstallFailureShows ==
    /\ ui.doing = "install failed" /\ events = <<>> /\ ui' = Waiting
    /\ status' = Status("Error", None)
    /\ UNCHANGED <<gate, pending, staged, skipped, workers, events, autoDownload, unchangedByUI>>

(* The installer runs and the process ends.                                *)
InstallLaunches ==
    /\ ui.doing = "installing" /\ pending # None /\ staged # None
    /\ ui' = [Waiting EXCEPT !.doing = "quitting"]
    /\ status' = Status("Installing", pending)
    /\ UNCHANGED <<gate, pending, staged, skipped, workers, events, autoDownload, unchangedByUI>>

UI == \/ UITakesEvent \/ UIAppliesEvent
      \/ CheckForUpdates \/ DownloadUpdate \/ SkipVersion \/ UnlockVault
      \/ InstallBegins \/ InstallFails \/ InstallFailureShows \/ InstallLaunches
-----------------------------------------------------------------------------
(* UpdateScheduler.  configure runs on the UI thread under the mutex; a    *)
(* thread that waits is woken by it.                                       *)
Spawn(was) ==
    IF was.running THEN UNCHANGED threads /\ sched' = was
    ELSE \/ /\ threads' = [threads EXCEPT ![AnyOf({s \in Slots : threads[s] = NoThread})] =
                                [step |-> "top", generation |-> 0]]
            /\ sched' = [was EXCEPT !.running = TRUE]
         \/ UNCHANGED threads /\ sched' = was     \* the spawn fails

Configure(enabled) ==
    /\ ui = Waiting /\ sched.generation < bounds.changes      \* bound
    /\ LET next == [sched EXCEPT !.enabled = enabled, !.generation = @ + 1,
                                 !.immediate = enabled /\ ~sched.enabled]
       IN  IF enabled THEN Spawn(next) ELSE sched' = next /\ UNCHANGED threads
    /\ UNCHANGED updateVars

ThreadGoes(t, step) == threads' = [threads EXCEPT ![t].step = step]

SchedulerLooksAnyway(t) ==
    /\ threads[t].step = "top"
    /\ threads' = [threads EXCEPT ![t] =
            [step |-> IF sched.immediate THEN "try" ELSE "wait", generation |-> sched.generation]]
    /\ sched' = [sched EXCEPT !.immediate = FALSE]
    /\ UNCHANGED updateVars

(* The top of the loop: stop, check at once, or wait.                      *)
SchedulerLooks(t) ==
    /\ threads[t].step = "top"
    /\ threads' = [threads EXCEPT ![t] =
            IF ~sched.enabled THEN NoThread
            ELSE [step |-> IF sched.immediate THEN "try" ELSE "wait",
                  generation |-> sched.generation]]
    /\ sched' = [sched EXCEPT !.running = sched.enabled, !.immediate = FALSE]
    /\ UNCHANGED updateVars

SchedulerWakesByTimeout(t) ==
    /\ threads[t].step = "wait"
    /\ sched.generation = threads[t].generation
    /\ ThreadGoes(t, "try")
    /\ UNCHANGED <<updateVars, sched>>

(* The wait ends: by the timeout, or because it was reconfigured.          *)
SchedulerWakes(t) ==
    /\ threads[t].step = "wait"
    /\ ThreadGoes(t, IF sched.generation = threads[t].generation THEN "try" ELSE "top")
    /\ UNCHANGED <<updateVars, sched>>

SchedulerChecks(t) ==
    /\ threads[t].step = "try"
    /\ Start("Checking")
    /\ ThreadGoes(t, "record")
    /\ UNCHANGED <<pending, staged, skipped, lockedSkip, ui, status, autoDownload, sched,
                   bounds>>

SchedulerRecordsRunning(t) ==
    LET stops == sched.generation # threads[t].generation /\ ~sched.enabled IN
    /\ threads[t].step = "record"
    /\ threads' = [threads EXCEPT ![t] = IF stops THEN NoThread ELSE [@ EXCEPT !.step = "top"]]
    /\ UNCHANGED <<sched, updateVars>>

(* record_run: a thread that was disabled meanwhile stops here.            *)
SchedulerRecords(t) ==
    LET stops == sched.generation # threads[t].generation /\ ~sched.enabled IN
    /\ threads[t].step = "record"
    /\ sched' = IF stops THEN [sched EXCEPT !.running = FALSE] ELSE sched
    /\ threads' = [threads EXCEPT ![t] = IF stops THEN NoThread ELSE [@ EXCEPT !.step = "top"]]
    /\ UNCHANGED updateVars

Scheduler(t) ==
    SchedulerLooks(t) \/ SchedulerWakes(t) \/ SchedulerChecks(t) \/ SchedulerRecords(t)

Next ==
    \/ UI
    \/ \E enabled \in BOOLEAN : Configure(enabled)
    \/ \E s \in Slots : Worker(s)
    \/ \E t \in Slots : Scheduler(t)

(***************************************************************************)
(* Fairness.  Both workers end: their downloads have deadlines.  The UI    *)
(* thread drains the channel from a timer of 250 ms, whatever the user     *)
(* does, and an install it began ends.  A scheduler thread runs, and its   *)
(* wait ends by the timeout at the latest.  The user need do nothing.      *)
(***************************************************************************)
Fairness ==
    /\ \A s \in Slots : WF_vars(Worker(s)) /\ WF_vars(Scheduler(s))
    /\ WF_vars(UITakesEvent) /\ WF_vars(UIAppliesEvent)
    /\ WF_vars(InstallFails \/ InstallLaunches \/ InstallFailureShows)

Spec == Init /\ [][Next]_vars /\ Fairness
-----------------------------------------------------------------------------
Terminal(op) ==
    IF op = "Checking" THEN {"Available", "UpToDate", "CheckError"} ELSE {"Ready", "DownloadError"}

(* Workers that have not reported, and reports that wait in the channel.   *)
Answers(op) ==
    Cardinality({s \in Slots : workers[s].op = op})
    + Cardinality({i \in DOMAIN events : events[i].kind \in Terminal(op)})

(* "One shared updater operation state across checks, downloads, and       *)
(* install": while the gate names a check or a download exactly one        *)
(* worker, or its report, answers for it, and at no other time does any.   *)
(* Two would race on the staged file; none would close the gate for good.  *)
OneAnswerPerOperation ==
    \A op \in {"Checking", "Downloading"} :
        Answers(op) = IF gate = op THEN 1 ELSE 0

(* An artifact is staged for the pending version only, and the gate says   *)
(* Ready only while one is: a check that finds another version, a skip and *)
(* a failed download each leave the three in step.                         *)
StagedIsPending ==
    /\ staged # None => staged = pending
    /\ gate = "Ready" => staged # None

(* A version the user skipped is not offered again, though the check       *)
(* worker may have read the skipped version before it was skipped.         *)
SkippedNotOffered == status.kind = "Available" => status.version # skipped

(* There is one scheduler thread while `running' is set and none while it  *)
(* is not, however fast the frequency is switched off and on.              *)
OneScheduler ==
    Cardinality({t \in Slots : threads[t] # NoThread}) = IF sched.running THEN 1 ELSE 0

(* Every check and every download ends, and the gate is given back.        *)
OperationsEnd ==
    \A op \in {"Checking", "Downloading", "Installing"} :
        gate = op ~> (gate # op \/ ui.doing = "quitting")

(* As long as automatic checks stay enabled and their thread was started,  *)
(* the scheduler keeps trying: no change of the frequency loses a wakeup.  *)
ChecksGoOn ==
    <>[](sched.enabled /\ sched.running) => []<>(\E t \in Slots : threads[t].step = "record")

(* Disabled, and left so, it stops.                                        *)
DisabledStops == <>[](~sched.enabled) => <>[](~sched.running)
=============================================================================
