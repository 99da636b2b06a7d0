---------------------------- MODULE Updater_proofs ----------------------------
(***************************************************************************)
(* The proofs of the safety properties of Updater, for any versions, any   *)
(* number of threads and any bounds.  The invariant has four parts: types; *)
(* one worker or report behind a gate that is in use; what is downloaded   *)
(* is what is pending; and one scheduler thread.                           *)
(***************************************************************************)
EXTENDS Updater, FiniteSetTheorems, TLAPS

Version == Versions \cup {None}

Kinds == {"Progress", "Available", "UpToDate", "CheckError", "Ready", "DownloadError"}
EventRecord == [kind: Kinds, version: Version]

(* An event names a version if it is about one.                            *)
NamesVersion(e) == e.kind \in {"Available", "Ready"} <=> e.version # None
EventOf == {e \in EventRecord : NamesVersion(e)}

WorkerOf ==
    {Free}
    \cup [op: {"Checking"}, step: {"begin", "upToDate", "failed", "UpToDate", "CheckError"},
          found: {None}]
    \cup [op: {"Checking"}, step: {"publish", "Available"}, found: Versions]
    \cup [op: {"Downloading"}, step: {"begin", "DownloadError"}, found: {None}]
    \cup [op: {"Downloading"}, step: {"copy", "verify", "Ready"}, found: Versions]

StatusOf == [kind: {"Idle", "Checking", "UpToDate", "Downloading", "Error"} \cup Versioned,
             version: Version]

UIOf == [doing: {"nothing", "draining", "installing", "install failed", "quitting"},
         event: EventOf \cup {Event("none", None)}, after: {"nothing", "install failed"}]

TypeInv ==
    /\ gate \in Operations
    /\ pending \in Version /\ staged \in Version /\ skipped \in Version /\ lockedSkip \in Version
    /\ workers \in [Slots -> WorkerOf]
    /\ events \in Seq(EventOf)
    /\ ui \in UIOf /\ (ui.doing = "draining" => ui.event \in EventOf)
    /\ status \in StatusOf /\ (status.kind \in Versioned <=> status.version # None)
    /\ bounds \in Bounds

LEMMA Constants ==
  ASSUME TypeInv
  PROVE  /\ bounds.released \subseteq Versions /\ bounds.changes \in Nat
         /\ \A v \in Versions : v # None
BY BoundsAssumption, NoneAssumption DEF TypeInv

LEMMA EventFacts ==
  /\ \A k \in Kinds \ {"Available", "Ready"} : Event(k, None) \in EventOf
  /\ \A v \in Versions : Event("Available", v) \in EventOf /\ Event("Ready", v) \in EventOf
  /\ \A op : ErrorOf(op) \in EventOf
BY NoneAssumption DEF Event, EventOf, EventRecord, NamesVersion, Version, Kinds, ErrorOf

LEMMA QueueFacts ==
  ASSUME NEW S, NEW q \in Seq(S), q # <<>>
  PROVE  /\ Head(q) \in S /\ Head(q) = q[1] /\ Tail(q) \in Seq(S)
         /\ DOMAIN Tail(q) = 1..(Len(q) - 1)
         /\ \A i \in DOMAIN Tail(q) : Tail(q)[i] = q[i + 1] /\ i + 1 \in DOMAIN q
OBVIOUS

LEMMA TypeInvInit == Init => TypeInv
<1> SUFFICES ASSUME Init PROVE TypeInv
  OBVIOUS
<1>1. Waiting \in UIOf /\ Waiting.doing # "draining"
  BY DEF Waiting, UIOf
<1>2. bounds.released \subseteq Versions
  BY BoundsAssumption DEF Init
<1> QED
  BY <1>1, <1>2 DEF Init, TypeInv, Operations, Version, WorkerOf, StatusOf, Status, Versioned

(* Both outcomes of Start.                                                 *)
LEMMA StartCases ==
  ASSUME NEW op, Start(op)
  PROVE  \/ /\ gate = "Idle" /\ gate' = op
            /\ workers' = [workers EXCEPT ![AnyOf({s \in Slots : workers[s] = Free})] =
                             [op |-> op, step |-> "begin", found |-> None]]
            /\ UNCHANGED events
         \/ /\ gate = "Idle" /\ gate' = op
            /\ events' = Append(events, ErrorOf(op)) /\ UNCHANGED workers
         \/ UNCHANGED <<gate, workers, events>>
BY DEF Start, Acquires

LEMMA StartKeepsTypes ==
  ASSUME TypeInv, NEW op \in {"Checking", "Downloading"}, Start(op)
  PROVE  gate' \in Operations /\ workers' \in [Slots -> WorkerOf] /\ events' \in Seq(EventOf)
<1> DEFINE w == [op |-> op, step |-> "begin", found |-> None]
<1>1. w \in WorkerOf
  BY DEF WorkerOf
<1>2. \A s : [workers EXCEPT ![s] = w] \in [Slots -> WorkerOf]
  BY <1>1 DEF TypeInv
<1>3. Append(events, ErrorOf(op)) \in Seq(EventOf)
  BY EventFacts DEF TypeInv
<1> QED BY <1>2, <1>3, StartCases DEF TypeInv, Operations

(* A worker takes a step of its own.                                       *)
LEMMA WorkerKeepsTypes ==
  ASSUME TypeInv, NEW s \in Slots, Worker(s)
  PROVE  TypeInv'
<1> DEFINE w == workers[s]
<1>1. w \in WorkerOf
  BY DEF TypeInv
<1>2. ASSUME NEW step, NEW found, Goes(s, step, found),
             [op |-> w.op, step |-> step, found |-> found] \in WorkerOf,
             w # Free
      PROVE  workers' \in [Slots -> WorkerOf]
  BY <1>2 DEF Goes, TypeInv
<1>3. ASSUME UNCHANGED unchangedByWorkers, workers' \in [Slots -> WorkerOf],
             events' \in Seq(EventOf), pending' \in Version, staged' \in Version
      PROVE  TypeInv'
  BY <1>3 DEF TypeInv, unchangedByWorkers
<1>4. CASE CheckFetches(s)
  <2>1. w.op = "Checking" /\ w # Free
    BY <1>4 DEF CheckFetches, Running, Free
  <2>2. \A v \in Versions : [op |-> "Checking", step |-> "publish", found |-> v] \in WorkerOf
    BY DEF WorkerOf
  <2>3. \A k \in {"upToDate", "failed"} :
           [op |-> "Checking", step |-> k, found |-> None] \in WorkerOf
    BY DEF WorkerOf
  <2>4. \/ \E v \in Versions : Goes(s, "publish", v)
        \/ \E k \in {"upToDate", "failed"} : Goes(s, k, None)
    BY <1>4, Constants DEF CheckFetches
  <2>5. workers' \in [Slots -> WorkerOf]
    BY <1>2, <2>1, <2>2, <2>3, <2>4
  <2> QED BY <1>3, <1>4, <2>5 DEF CheckFetches, TypeInv
<1>5. CASE CheckPublishes(s)
  <2>1. w.op = "Checking" /\ w.step \in {"publish", "upToDate", "failed"}
    BY <1>5 DEF CheckPublishes, Running
  <2> DEFINE next == CASE w.step = "publish" -> "Available" [] w.step = "upToDate" -> "UpToDate"
                       [] w.step = "failed" -> "CheckError"
  <2>2. [w EXCEPT !.step = next] \in WorkerOf
    BY <1>1, <2>1 DEF WorkerOf, Free
  <2>3. workers' = [workers EXCEPT ![s] = [w EXCEPT !.step = next]]
    BY <1>5 DEF CheckPublishes, TypeInv
  <2>4. w.found \in Version
    BY <1>1 DEF WorkerOf, Free, Version
  <2>5. pending' \in Version /\ staged' \in Version
    BY <1>5, <2>4 DEF CheckPublishes, ReplacePending, TypeInv, Version
  <2>6. workers' \in [Slots -> WorkerOf]
    BY <2>2, <2>3 DEF TypeInv
  <2> QED BY <1>3, <1>5, <2>5, <2>6 DEF CheckPublishes, TypeInv
<1>6. CASE WorkerReports(s)
  <2>1. Event(w.step, w.found) \in EventOf
    BY <1>1, <1>6, NoneAssumption
    DEF WorkerReports, WorkerOf, Free, Event, EventOf, EventRecord, NamesVersion, Version, Kinds
  <2>2. workers' \in [Slots -> WorkerOf]
    BY <1>6 DEF WorkerReports, WorkerOf, TypeInv
  <2> QED BY <1>3, <1>6, <2>1, <2>2 DEF WorkerReports, TypeInv
<1>7. CASE DownloadBegins(s)
  <2>1. w.op = "Downloading" /\ w # Free
    BY <1>7 DEF DownloadBegins, Running, Free
  <2>2. [op |-> "Downloading", step |-> "DownloadError", found |-> None] \in WorkerOf
        /\ (pending # None
            => [op |-> "Downloading", step |-> "copy", found |-> pending] \in WorkerOf)
    BY DEF WorkerOf, TypeInv, Version
  <2>3. workers' \in [Slots -> WorkerOf]
    BY <1>2, <1>7, <2>1, <2>2 DEF DownloadBegins
  <2> QED BY <1>3, <1>7, <2>3 DEF DownloadBegins, TypeInv, Version
<1>8. CASE DownloadProgresses(s) \/ DownloadFails(s) \/ DownloadStages(s)
  <2>1. w.op = "Downloading" /\ w # Free /\ w.step \in {"copy", "verify"}
    BY <1>8 DEF DownloadProgresses, DownloadFails, DownloadStages, Running, Free
  <2>2. w.found \in Versions
    BY <1>1, <2>1 DEF WorkerOf, Free
  <2>3. /\ \A k \in {"copy", "verify", "Ready"} :
              [op |-> "Downloading", step |-> k, found |-> w.found] \in WorkerOf
        /\ [op |-> "Downloading", step |-> "DownloadError", found |-> None] \in WorkerOf
    BY <2>2 DEF WorkerOf
  <2>4. workers' \in [Slots -> WorkerOf]
    BY <1>2, <1>8, <2>1, <2>3 DEF DownloadProgresses, DownloadFails, DownloadStages
  <2>5. events' \in Seq(EventOf) /\ pending' \in Version /\ staged' \in Version
    BY <1>8, <2>2, EventFacts
    DEF DownloadProgresses, DownloadFails, DownloadStages, TypeInv, Version, Kinds
  <2> QED
    BY <1>3, <1>8, <2>4, <2>5 DEF DownloadProgresses, DownloadFails, DownloadStages
<1> QED BY <1>4, <1>5, <1>6, <1>7, <1>8 DEF Worker

LEMMA UIKeepsTypes ==
  ASSUME TypeInv, UI
  PROVE  TypeInv'
<1>1. \A d \in {"nothing", "installing", "install failed", "quitting"} :
         LET w == [Waiting EXCEPT !.doing = d] IN w \in UIOf /\ w.doing # "draining"
  BY DEF Waiting, UIOf
<1>2. Waiting \in UIOf /\ Waiting.doing # "draining" /\ \A v \in Versions : v # None
  BY Constants DEF Waiting, UIOf
<1>3. CASE UITakesEvent
  <2>1. Head(events) \in EventOf /\ Tail(events) \in Seq(EventOf)
    BY <1>3, QueueFacts DEF UITakesEvent, TypeInv
  <2>2. ui' \in UIOf /\ ui'.event \in EventOf
    BY <1>3, <2>1 DEF UITakesEvent, TypeInv, UIOf
  <2>3. gate' \in Operations
    BY <1>3 DEF UITakesEvent, Acknowledged, TypeInv, Operations
  <2> QED BY <1>3, <2>1, <2>2, <2>3 DEF UITakesEvent, TypeInv, unchangedByUI
<1>4. CASE UIAppliesEvent
  <2> DEFINE e == ui.event
  <2>1. e \in EventRecord /\ NamesVersion(e)
    BY <1>4 DEF UIAppliesEvent, TypeInv, EventOf
  <2>2. ui' \in UIOf /\ ui'.doing # "draining"
    BY <1>1, <1>4 DEF UIAppliesEvent, TypeInv, UIOf
  <2>3. CASE Stale(e) /\ Discard(e.version) /\ UNCHANGED <<workers, events, status>>
    BY <1>4, <2>2, <2>3
    DEF UIAppliesEvent, Discard, TypeInv, unchangedByUI, Operations, Version
  <2>4. CASE ~Stale(e) /\ UNCHANGED <<pending, staged>>
    <3>1. /\ gate' \in Operations /\ workers' \in [Slots -> WorkerOf]
          /\ events' \in Seq(EventOf)
      <4>1. Start("Downloading") \/ UNCHANGED <<gate, workers, events>>
        BY <1>4, <2>4 DEF UIAppliesEvent, Stale
      <4> QED BY <4>1, StartKeepsTypes DEF TypeInv
    <3>2. status' = Status("Downloading", None) \/ status' = StatusAfter(e)
      BY <1>4, <2>4 DEF UIAppliesEvent, Stale
    <3>3. status' \in StatusOf /\ (status'.kind \in Versioned <=> status'.version # None)
      BY <2>1, <3>2 DEF StatusAfter, Status, StatusOf, Versioned, EventRecord, NamesVersion,
                        Kinds, Version, TypeInv
    <3> QED BY <1>4, <2>2, <2>4, <3>1, <3>3 DEF UIAppliesEvent, TypeInv, unchangedByUI
  <2> QED BY <1>4, <2>3, <2>4 DEF UIAppliesEvent
<1>5. ASSUME NEW op \in {"Checking", "Downloading"}, Start(op),
             status' = (IF Runs(op) THEN Status(op, None) ELSE status),
             UNCHANGED <<pending, staged, skipped, ui, unchangedByUI>>
      PROVE  TypeInv'
  <2>1. status' \in StatusOf /\ (status'.kind \in Versioned <=> status'.version # None)
    BY <1>5 DEF Status, StatusOf, Versioned, Version, TypeInv
  <2> QED BY <1>5, <2>1, StartKeepsTypes DEF TypeInv, unchangedByUI
<1>6. CASE CheckForUpdates \/ DownloadUpdate
  BY <1>5, <1>6 DEF CheckForUpdates, DownloadUpdate
<1>7. ASSUME NEW v \in Versions, Discard(v), skipped' = v, lockedSkip' \in Version,
             status' = Status("Skipped", v), UNCHANGED <<workers, events, ui, bounds>>
      PROVE  TypeInv'
  <2>1. status' \in StatusOf /\ (status'.kind \in Versioned <=> status'.version # None)
    BY <1>2, <1>7 DEF Status, StatusOf, Versioned, Version
  <2>2. gate' \in Operations /\ pending' \in Version /\ staged' \in Version
    BY <1>7 DEF Discard, TypeInv, Operations, Version
  <2> QED BY <1>7, <2>1, <2>2 DEF TypeInv, Version
<1>8. CASE SkipVersion
  <2>1. status.version \in Versions
    BY <1>8 DEF SkipVersion, TypeInv, StatusOf, Version, Versioned
  <2> QED BY <1>7, <1>8, <2>1 DEF SkipVersion, TypeInv, unchangedByUI
<1>9. CASE UnlockVault
  <2>1. lockedSkip \in Versions /\ lockedSkip' \in Version
    BY <1>9 DEF UnlockVault, TypeInv, Version
  <2> QED BY <1>7, <1>9, <2>1 DEF UnlockVault
<1>10. CASE InstallBegins \/ InstallFails
  BY <1>1, <1>10 DEF InstallBegins, InstallFails, TypeInv, Operations, unchangedByUI
<1>11. CASE InstallFailureShows
  <2>1. status' \in StatusOf /\ (status'.kind \in Versioned <=> status'.version # None)
    BY <1>11 DEF InstallFailureShows, Status, StatusOf, Versioned, Version
  <2> QED BY <1>2, <1>11, <2>1 DEF InstallFailureShows, TypeInv, unchangedByUI
<1>12. CASE InstallLaunches
  <2>1. status' \in StatusOf /\ (status'.kind \in Versioned <=> status'.version # None)
    BY <1>12 DEF InstallLaunches, Status, StatusOf, Versioned, Version, TypeInv
  <2> QED BY <1>1, <1>12, <2>1 DEF InstallLaunches, TypeInv, unchangedByUI
<1> QED
  BY <1>3, <1>4, <1>6, <1>8, <1>9, <1>10, <1>11, <1>12 DEF UI

(* Of what TypeInv speaks of the scheduler changes only what Start does.   *)
LEMMA SchedulerKeepsTypes ==
  ASSUME TypeInv, UNCHANGED updateVars \/ \E t \in Slots : SchedulerChecks(t)
  PROVE  TypeInv'
<1>1. CASE UNCHANGED updateVars
  BY <1>1 DEF TypeInv, updateVars
<1>2. ASSUME NEW t \in Slots, SchedulerChecks(t) PROVE TypeInv'
  BY <1>2, StartKeepsTypes DEF SchedulerChecks, TypeInv
<1> QED BY <1>1, <1>2

LEMMA SchedulerFrame ==
  ASSUME NEW t \in Slots, Scheduler(t)
  PROVE  UNCHANGED updateVars \/ SchedulerChecks(t)
BY DEF Scheduler, SchedulerLooks, SchedulerWakes, SchedulerRecords

LEMMA ConfigureFrame ==
  ASSUME NEW enabled, Configure(enabled)
  PROVE  UNCHANGED updateVars
BY DEF Configure

LEMMA TypeInvNext == TypeInv /\ [Next]_vars => TypeInv'
BY WorkerKeepsTypes, UIKeepsTypes, SchedulerKeepsTypes, SchedulerFrame, ConfigureFrame
   DEF Next, vars
-----------------------------------------------------------------------------
(* The workers that are at work, and the reports that wait for the UI.     *)
Busy    == {s \in Slots : workers[s] # Free}
Reports == {i \in DOMAIN events : events[i].kind # "Progress"}

(* Whoever answers, answers for the operation that holds the gate; there   *)
(* is at most one, and while a check or a download holds it there is one.  *)
GateInv ==
    /\ \A s \in Busy : workers[s].op = gate
    /\ \A i \in Reports : gate \in {"Checking", "Downloading"} /\ events[i].kind \in Terminal(gate)
    /\ \A s, t \in Busy : s = t
    /\ \A i, j \in Reports : i = j
    /\ Busy = {} \/ Reports = {}
    /\ gate \in {"Checking", "Downloading"} => Busy # {} \/ Reports # {}

LEMMA BusyOps ==
  ASSUME TypeInv
  PROVE  \A s \in Slots :
            /\ workers[s] # Free <=> workers[s].op \in {"Checking", "Downloading"}
            /\ workers[s].op = "Checking" => workers[s].step \in
                  {"begin", "upToDate", "failed", "UpToDate", "CheckError", "publish", "Available"}
            /\ workers[s].op = "Downloading" => workers[s].step \in
                  {"begin", "DownloadError", "copy", "verify", "Ready"}
BY DEF TypeInv, WorkerOf, Free

LEMMA GateInvInit == Init => GateInv
BY DEF Init, GateInv, Busy, Reports

LEMMA GateFrame ==
  ASSUME GateInv, UNCHANGED <<gate, workers, events>>
  PROVE  GateInv'
BY DEF GateInv, Busy, Reports

(* No worker and no report: the gate may become anything but a check or a  *)
(* download.                                                               *)
LEMMA GateUnused ==
  ASSUME GateInv, gate \notin {"Checking", "Downloading"}, gate' \notin {"Checking", "Downloading"},
         TypeInv, UNCHANGED <<workers, events>>
  PROVE  GateInv'
BY BusyOps DEF GateInv, Busy, Reports

LEMMA StartKeepsGate ==
  ASSUME TypeInv, GateInv, NEW op \in {"Checking", "Downloading"}, Start(op)
  PROVE  GateInv'
<1> DEFINE free == {s \in Slots : workers[s] = Free}
           slot == AnyOf(free)
           w    == [op |-> op, step |-> "begin", found |-> None]
<1>1. CASE UNCHANGED <<gate, workers, events>>
  BY <1>1, GateFrame
<1>2. ASSUME gate = "Idle" PROVE Busy = {} /\ Reports = {}
  BY <1>2, BusyOps DEF GateInv, Busy
<1>3. CASE gate = "Idle" /\ gate' = op /\ UNCHANGED events
           /\ workers' = [workers EXCEPT ![slot] = w]
  <2>1. slot \in Slots
    BY <1>2, <1>3, SlotsAssumption DEF AnyOf, Busy
  <2>2. \A s \in Slots : workers'[s] = IF s = slot THEN w ELSE Free
    BY <1>2, <1>3, <2>1 DEF TypeInv, Busy
  <2>3. w # Free /\ w.op = op
    BY DEF Free
  <2> HIDE DEF slot, w
  <2>4. Busy' = {slot}
    BY <2>1, <2>2, <2>3 DEF Busy
  <2>5. Reports' = {}
    BY <1>2, <1>3 DEF Reports
  <2> QED BY <1>3, <2>1, <2>2, <2>3, <2>4, <2>5 DEF GateInv
<1>4. CASE gate = "Idle" /\ gate' = op /\ UNCHANGED workers
           /\ events' = Append(events, ErrorOf(op))
  <2>1. Busy' = {}
    BY <1>2, <1>4 DEF Busy
  <2>2. /\ DOMAIN events' = 1..(Len(events) + 1) /\ Len(events) \in Nat
        /\ DOMAIN events = 1..Len(events)
        /\ \A i \in DOMAIN events : events'[i] = events[i]
        /\ events'[Len(events) + 1] = ErrorOf(op)
    BY <1>4 DEF TypeInv
  <2>3. ErrorOf(op).kind \in Terminal(op) /\ ErrorOf(op).kind # "Progress"
    BY DEF ErrorOf, Event, Terminal
  <2>4. Reports' = {Len(events) + 1}
    BY <1>2, <1>4, <2>2, <2>3 DEF Reports
  <2> QED BY <1>4, <2>1, <2>2, <2>3, <2>4 DEF GateInv
<1> QED BY <1>1, <1>3, <1>4, StartCases

(* A worker that goes on keeps its operation.                              *)
LEMMA WorkerGoesOn ==
  ASSUME TypeInv, GateInv, NEW s \in Slots, NEW w, workers[s] # Free, w # Free,
         w.op = workers[s].op, workers' = [workers EXCEPT ![s] = w], UNCHANGED <<gate, events>>
  PROVE  GateInv'
<1>1. \A t \in Slots : workers'[t] = IF t = s THEN w ELSE workers[t]
  BY DEF TypeInv
<1>2. Busy' = Busy
  BY <1>1 DEF Busy
<1>3. Reports' = Reports
  BY DEF Reports
<1> QED BY <1>1, <1>2, <1>3 DEF GateInv, Busy

LEMMA AppendFacts ==
  ASSUME NEW S, NEW q \in Seq(S), NEW e
  PROVE  /\ DOMAIN q = 1..Len(q) /\ Len(q) \in Nat
         /\ DOMAIN Append(q, e) = 1..(Len(q) + 1)
         /\ \A i \in DOMAIN q : Append(q, e)[i] = q[i]
         /\ Append(q, e)[Len(q) + 1] = e
OBVIOUS

LEMMA WorkerKeepsGate ==
  ASSUME TypeInv, GateInv, NEW s \in Slots, Worker(s)
  PROVE  GateInv'
<1> DEFINE w == workers[s]
<1>1. ASSUME NEW step, NEW found, Goes(s, step, found), w.op \in {"Checking", "Downloading"},
             UNCHANGED <<gate, events>>
      PROVE  GateInv'
  <2> DEFINE n == [op |-> w.op, step |-> step, found |-> found]
  <2>1. w # Free /\ n # Free /\ n.op = w.op
    BY <1>1 DEF Free
  <2>2. workers' = [workers EXCEPT ![s] = n]
    BY <1>1 DEF Goes, TypeInv
  <2> HIDE DEF n
  <2> QED BY <1>1, <2>1, <2>2, WorkerGoesOn
<1>2. CASE CheckFetches(s)
  BY <1>1, <1>2 DEF CheckFetches, Running, unchangedByWorkers
<1>3. CASE CheckPublishes(s)
  <2>1. w.op = "Checking" /\ w # Free
    BY <1>3 DEF CheckPublishes, Running, Free
  <2>2. PICK step : workers' = [workers EXCEPT ![s] = [w EXCEPT !.step = step]]
    BY <1>3 DEF CheckPublishes, TypeInv
  <2>3. [w EXCEPT !.step = step].op = "Checking"
    BY <2>1 DEF TypeInv, WorkerOf, Free
  <2>4. [w EXCEPT !.step = step] # Free
    BY <2>3 DEF Free
  <2> QED BY <1>3, <2>1, <2>2, <2>3, <2>4, WorkerGoesOn DEF CheckPublishes, unchangedByWorkers
<1>4. CASE WorkerReports(s)
  <2> DEFINE e == Event(w.step, w.found)
  <2>1. w.op \in {"Checking", "Downloading"} /\ e.kind \in Terminal(w.op) /\ e.kind # "Progress"
    BY <1>4, BusyOps DEF WorkerReports, Event, Terminal, Free
  <2>2. s \in Busy /\ Busy = {s} /\ Reports = {} /\ gate = w.op
    BY <2>1, BusyOps DEF GateInv, Busy
  <2>3. Busy' = {}
    BY <1>4, <2>2 DEF WorkerReports, Busy, TypeInv
  <2>4. events' = Append(events, e) /\ gate' = gate
    BY <1>4 DEF WorkerReports, unchangedByWorkers
  <2>5. /\ DOMAIN events' = 1..(Len(events) + 1) /\ Len(events) \in Nat
        /\ DOMAIN events = 1..Len(events)
        /\ \A i \in DOMAIN events : events'[i] = events[i]
        /\ events'[Len(events) + 1] = e
    BY <2>4, AppendFacts DEF TypeInv
  <2> HIDE DEF e
  <2>6. Reports' = {Len(events) + 1}
    BY <2>1, <2>2, <2>5 DEF Reports
  <2> QED BY <2>1, <2>2, <2>3, <2>4, <2>5, <2>6 DEF GateInv
<1>5. CASE DownloadBegins(s)
  BY <1>1, <1>5 DEF DownloadBegins, Running, unchangedByWorkers
<1>6. CASE DownloadProgresses(s)
  <2> DEFINE n == [op |-> w.op, step |-> "verify", found |-> w.found]
             e == Event("Progress", None)
  <2>1. w.op = "Downloading" /\ w # Free /\ n # Free /\ n.op = w.op
    BY <1>6 DEF DownloadProgresses, Running, Free
  <2>2. workers' = [workers EXCEPT ![s] = n] /\ events' = Append(events, e) /\ gate' = gate
    BY <1>6 DEF DownloadProgresses, Goes, TypeInv, unchangedByWorkers
  <2>3. /\ DOMAIN events' = 1..(Len(events) + 1) /\ Len(events) \in Nat
        /\ DOMAIN events = 1..Len(events)
        /\ \A i \in DOMAIN events : events'[i] = events[i]
        /\ events'[Len(events) + 1].kind = "Progress"
    BY <2>2, AppendFacts DEF TypeInv, Event
  <2> HIDE DEF n, e
  <2>4. Reports' = Reports
    BY <2>3 DEF Reports
  <2>5. \A t \in Slots : workers'[t] = IF t = s THEN n ELSE workers[t]
    BY <2>2 DEF TypeInv
  <2>6. Busy' = Busy
    BY <2>1, <2>5 DEF Busy
  <2> QED BY <2>1, <2>2, <2>3, <2>4, <2>5, <2>6 DEF GateInv, Busy, Reports
<1>7. CASE DownloadFails(s) \/ DownloadStages(s)
  BY <1>1, <1>7 DEF DownloadFails, DownloadStages, Running, unchangedByWorkers
<1> QED BY <1>2, <1>3, <1>4, <1>5, <1>6, <1>7 DEF Worker

(* While an install runs on the UI thread the gate is its own.             *)
InstallInv == ui.doing = "installing" => gate = "Installing"

LEMMA InstallInvInit == Init => InstallInv
BY DEF Init, InstallInv, Waiting

LEMMA InstallInvNext == TypeInv /\ InstallInv /\ [Next]_vars => InstallInv'
<1> SUFFICES ASSUME TypeInv, InstallInv, [Next]_vars PROVE InstallInv'
  OBVIOUS
<1>1. ASSUME UNCHANGED <<ui, gate>> PROVE InstallInv'
  BY <1>1 DEF InstallInv
<1>2. ASSUME NEW s \in Slots, Worker(s) PROVE InstallInv'
  BY <1>1, <1>2
  DEF Worker, CheckFetches, CheckPublishes, WorkerReports, DownloadBegins, DownloadProgresses,
      DownloadFails, DownloadStages, unchangedByWorkers
<1>3. ASSUME NEW t \in Slots, SchedulerChecks(t) PROVE InstallInv'
  BY <1>3, StartCases DEF SchedulerChecks, InstallInv
<1>4. CASE UI
  <2>1. ASSUME ui'.doing # "installing" PROVE InstallInv'
    BY <2>1 DEF InstallInv
  <2>2. CASE UITakesEvent
    BY <2>1, <2>2 DEF UITakesEvent
  <2>3. CASE UIAppliesEvent
    <3>1. ui.after # "installing" /\ ui' = [Waiting EXCEPT !.doing = ui.after]
      BY <2>3 DEF UIAppliesEvent, TypeInv, UIOf
    <3> QED BY <2>1, <3>1 DEF Waiting
  <2>4. CASE CheckForUpdates \/ DownloadUpdate \/ SkipVersion \/ UnlockVault
    BY <2>1, <2>4 DEF CheckForUpdates, DownloadUpdate, SkipVersion, UnlockVault, Waiting
  <2>5. CASE InstallBegins
    BY <2>5 DEF InstallBegins, InstallInv
  <2>6. CASE InstallFails \/ InstallFailureShows \/ InstallLaunches
    <3>1. ui' \in {[Waiting EXCEPT !.doing = "install failed"], Waiting,
                   [Waiting EXCEPT !.doing = "quitting"]}
      BY <2>6 DEF InstallFails, InstallFailureShows, InstallLaunches
    <3>2. \A d : [Waiting EXCEPT !.doing = d].doing = d
      BY DEF Waiting
    <3>3. Waiting.doing = "nothing"
      BY DEF Waiting
    <3>4. ui'.doing \in {"nothing", "install failed", "quitting"}
      BY <3>1, <3>2, <3>3
    <3> QED BY <2>1, <3>4
  <2> QED BY <1>4, <2>2, <2>3, <2>4, <2>5, <2>6 DEF UI
<1> QED
  BY <1>1, <1>2, <1>3, <1>4, SchedulerFrame, ConfigureFrame DEF Next, updateVars, vars

(* The UI takes the report, if there is one, and opens the gate.           *)
LEMMA TakingKeepsGate ==
  ASSUME TypeInv, GateInv, UITakesEvent
  PROVE  GateInv'
<1> DEFINE e == Head(events)
<1>1. /\ e \in EventOf /\ e = events[1]
      /\ events' = Tail(events) /\ gate' = Acknowledged(e.kind) /\ UNCHANGED workers
      /\ DOMAIN events' = 1..(Len(events) - 1) /\ DOMAIN events = 1..Len(events)
      /\ Len(events) \in Nat /\ 1 \in DOMAIN events
      /\ \A i \in DOMAIN events' : events'[i] = events[i + 1] /\ i + 1 \in DOMAIN events
  <2>1. events \in Seq(EventOf) /\ events # <<>> /\ gate' = Acknowledged(e.kind)
        /\ events' = Tail(events) /\ UNCHANGED workers
    BY DEF UITakesEvent, TypeInv
  <2>2. DOMAIN events = 1..Len(events) /\ Len(events) \in Nat /\ Len(events) # 0
    BY <2>1
  <2>3. 1 \in DOMAIN events
    BY <2>2
  <2> QED BY <2>1, <2>2, <2>3, QueueFacts
<1>2. Busy' = Busy
  BY <1>1 DEF Busy
<1>3. CASE e.kind = "Progress"
  <2>1. gate' = gate
    BY <1>1, <1>3 DEF Acknowledged
  <2>2. \A i \in Reports' : i + 1 \in Reports /\ events'[i] = events[i + 1] /\ i \in Nat
    BY <1>1 DEF Reports
  <2>3. ASSUME NEW j \in Reports PROVE j - 1 \in Reports'
    <3>1. j \in 1..Len(events) /\ j # 1
      BY <1>1, <1>3 DEF Reports
    <3>2. j - 1 \in 1..(Len(events) - 1) /\ (j - 1) + 1 = j
      BY <1>1, <3>1
    <3> QED BY <1>1, <3>2 DEF Reports
  <2>4. \A i, j \in Reports' : i = j
    BY <2>2 DEF GateInv
  <2> QED BY <1>1, <1>2, <2>1, <2>2, <2>3, <2>4 DEF GateInv, Busy
<1>4. CASE e.kind # "Progress"
  <2>1. 1 \in Reports
    BY <1>1, <1>4 DEF Reports
  <2>2. Busy = {} /\ gate \in {"Checking", "Downloading"} /\ e.kind \in Terminal(gate)
    BY <1>1, <2>1 DEF GateInv
  <2>3. Reports' = {}
    <3>1. ASSUME NEW i \in Reports' PROVE FALSE
      <4>1. i + 1 \in Reports /\ i \in 1..(Len(events) - 1)
        BY <1>1 DEF Reports
      <4>2. i + 1 = 1
        BY <2>1, <4>1 DEF GateInv
      <4> QED BY <1>1, <4>1, <4>2
    <3> QED BY <3>1
  <2>4. gate' \in {"Idle", "Ready"}
    BY <1>1, <2>2 DEF Acknowledged, Terminal
  <2> QED BY <1>2, <2>2, <2>3, <2>4 DEF GateInv
<1> QED BY <1>3, <1>4

LEMMA DiscardKeepsGate ==
  ASSUME TypeInv, GateInv, NEW v, Discard(v), UNCHANGED <<workers, events>>
  PROVE  GateInv'
<1>1. UNCHANGED gate \/ (gate = "Ready" /\ gate' = "Idle")
  BY DEF Discard
<1> QED BY <1>1, GateFrame, GateUnused

LEMMA UIKeepsGate ==
  ASSUME TypeInv, InstallInv, GateInv, UI
  PROVE  GateInv'
<1>1. CASE UITakesEvent
  BY <1>1, TakingKeepsGate
<1>2. CASE UIAppliesEvent
  BY <1>2, StartKeepsGate, DiscardKeepsGate, GateFrame DEF UIAppliesEvent
<1>3. CASE CheckForUpdates \/ DownloadUpdate
  BY <1>3, StartKeepsGate DEF CheckForUpdates, DownloadUpdate
<1>4. CASE SkipVersion \/ UnlockVault
  BY <1>4, DiscardKeepsGate DEF SkipVersion, UnlockVault
<1>5. CASE InstallBegins
  BY <1>5, GateUnused DEF InstallBegins
<1>6. CASE InstallFailureShows \/ InstallLaunches
  BY <1>6, GateFrame DEF InstallFailureShows, InstallLaunches
<1>7. CASE InstallFails
  BY <1>7, GateUnused DEF InstallFails, InstallInv
<1> QED BY <1>1, <1>2, <1>3, <1>4, <1>5, <1>6, <1>7 DEF UI

LEMMA GateInvNext == TypeInv /\ InstallInv /\ GateInv /\ [Next]_vars => GateInv'
<1> SUFFICES ASSUME TypeInv, InstallInv, GateInv, [Next]_vars PROVE GateInv'
  OBVIOUS
<1>1. ASSUME UNCHANGED updateVars PROVE GateInv'
  BY <1>1, GateFrame DEF updateVars
<1>2. ASSUME NEW t \in Slots, SchedulerChecks(t) PROVE GateInv'
  BY <1>2, StartKeepsGate DEF SchedulerChecks
<1> QED
  BY <1>1, <1>2, WorkerKeepsGate, UIKeepsGate, SchedulerFrame, ConfigureFrame DEF Next, vars

(* What GateInv says is what the property counts.                          *)
THEOREM OneAnswers == Spec => []OneAnswerPerOperation
<1>1. TypeInv /\ GateInv => OneAnswerPerOperation
  <2> SUFFICES ASSUME TypeInv, GateInv, NEW op \in {"Checking", "Downloading"}
               PROVE  Answers(op) = IF gate = op THEN 1 ELSE 0
    BY DEF OneAnswerPerOperation
  <2> DEFINE A == {s \in Slots : workers[s].op = op}
             B == {i \in DOMAIN events : events[i].kind \in Terminal(op)}
  <2>1. \A i \in DOMAIN events : events[i].kind \in Kinds
    BY DEF TypeInv, EventOf, EventRecord
  <2>2. A = IF gate = op THEN Busy ELSE {}
    BY BusyOps DEF GateInv, Busy
  <2>3. B = IF gate = op THEN Reports ELSE {}
    BY <2>1 DEF GateInv, Reports, Terminal, Kinds
  <2>4. Cardinality({}) = 0 /\ \A x : Cardinality({x}) = 1
    BY FS_EmptySet, FS_Singleton
  <2> HIDE DEF A, B
  <2>5. CASE gate # op
    <3>1. Cardinality(A) = 0 /\ Cardinality(B) = 0
      BY <2>2, <2>3, <2>4, <2>5
    <3> QED BY <2>5, <3>1 DEF Answers, A, B
  <2>6. CASE gate = op /\ Reports = {}
    <3>1. PICK s \in Busy : Busy = {s}
      BY <2>6 DEF GateInv
    <3>2. Cardinality(A) = 1 /\ Cardinality(B) = 0
      BY <2>2, <2>3, <2>4, <2>6, <3>1
    <3> QED BY <2>6, <3>2 DEF Answers, A, B
  <2>7. CASE gate = op /\ Reports # {}
    <3>1. PICK i \in Reports : Reports = {i}
      BY <2>7 DEF GateInv
    <3>2. Busy = {}
      BY <2>7 DEF GateInv
    <3>3. Cardinality(A) = 0 /\ Cardinality(B) = 1
      BY <2>2, <2>3, <2>4, <2>7, <3>1, <3>2
    <3> QED BY <2>7, <3>3 DEF Answers, A, B
  <2> QED BY <2>5, <2>6, <2>7
<1> QED
  BY <1>1, TypeInvInit, TypeInvNext, InstallInvInit, InstallInvNext, GateInvInit, GateInvNext, PTL
  DEF Spec
-----------------------------------------------------------------------------
(* What a download is about is what is pending, from its first byte to its *)
(* report; a finished one has staged it.                                   *)
StagedInv ==
    /\ StagedIsPending
    /\ \A s \in Slots :
          workers[s].op = "Downloading" =>
             /\ workers[s].step \in {"copy", "verify", "Ready"} => workers[s].found = pending
             /\ workers[s].step = "Ready" => staged # None
    /\ \A i \in DOMAIN events : events[i].kind = "Ready" => staged # None

LEMMA StagedInvInit == Init => StagedInv
BY DEF Init, StagedInv, StagedIsPending, Free

(* Steps that change neither the pending version nor the staged artifact,  *)
(* but may start or end something else.                                    *)
LEMMA StagedFrame ==
  ASSUME StagedInv, UNCHANGED <<pending, staged, workers, events>>,
         gate' = "Ready" => gate = "Ready"
  PROVE  StagedInv'
BY DEF StagedInv, StagedIsPending

LEMMA StartKeepsStaged ==
  ASSUME TypeInv, GateInv, StagedInv, NEW op \in {"Checking", "Downloading"}, Start(op),
         UNCHANGED <<pending, staged>>
  PROVE  StagedInv'
<1> DEFINE slot == AnyOf({s \in Slots : workers[s] = Free})
           w    == [op |-> op, step |-> "begin", found |-> None]
<1>1. CASE UNCHANGED <<gate, workers, events>>
  BY <1>1, StagedFrame
<1>2. CASE gate' = op /\ UNCHANGED events /\ workers' = [workers EXCEPT ![slot] = w]
  <2>1. \A s \in Slots : workers'[s] = w \/ workers'[s] = workers[s]
    BY <1>2 DEF TypeInv
  <2>2. w.step = "begin"
    OBVIOUS
  <2> HIDE DEF slot, w
  <2> QED BY <1>2, <2>1, <2>2 DEF StagedInv, StagedIsPending
<1>3. CASE gate' = op /\ UNCHANGED workers /\ events' = Append(events, ErrorOf(op))
  <2>1. \A i \in DOMAIN events' : events'[i] = ErrorOf(op)
                                  \/ (i \in DOMAIN events /\ events'[i] = events[i])
    BY <1>3, AppendFacts DEF TypeInv
  <2>2. ErrorOf(op).kind # "Ready"
    BY DEF ErrorOf, Event
  <2> QED BY <1>3, <2>1, <2>2 DEF StagedInv, StagedIsPending
<1> QED BY <1>1, <1>2, <1>3, StartCases

(* A check and a download are never under way together.                    *)
LEMMA CheckIsAlone ==
  ASSUME TypeInv, GateInv, gate # "Downloading"
  PROVE  /\ \A s \in Slots : workers[s].op # "Downloading"
         /\ \A i \in DOMAIN events : events[i].kind # "Ready"
BY BusyOps DEF GateInv, Busy, Reports, Terminal

LEMMA DownloadIsAlone ==
  ASSUME TypeInv, GateInv, NEW s \in Slots, workers[s].op = "Downloading"
  PROVE  /\ gate = "Downloading" /\ \A t \in Slots : t # s => workers[t] = Free
         /\ \A i \in DOMAIN events : events[i].kind = "Progress"
BY BusyOps DEF GateInv, Busy, Reports

LEMMA WorkerKeepsStaged ==
  ASSUME TypeInv, GateInv, StagedInv, NEW s \in Slots, Worker(s)
  PROVE  StagedInv'
<1> DEFINE w == workers[s]
<1>1. UNCHANGED gate
  BY DEF Worker, CheckFetches, CheckPublishes, WorkerReports, DownloadBegins, DownloadProgresses,
         DownloadFails, DownloadStages, unchangedByWorkers
<1>2. ASSUME w.op = "Checking", UNCHANGED events, NEW n, n.op = "Checking",
             workers' = [workers EXCEPT ![s] = n]
      PROVE  gate = "Checking" /\ \A t \in Slots : workers'[t].op # "Downloading"
             /\ \A i \in DOMAIN events' : events'[i].kind # "Ready"
  <2>1. gate = "Checking"
    BY <1>2, BusyOps DEF GateInv, Busy
  <2>2. \A t \in Slots : workers[t].op # "Downloading"
    BY <2>1, CheckIsAlone
  <2>3. \A i \in DOMAIN events : events[i].kind # "Ready"
    BY <2>1, CheckIsAlone
  <2> QED BY <1>2, <2>1, <2>2, <2>3 DEF TypeInv
<1>3. ASSUME w.op = "Checking", UNCHANGED events, NEW n, n.op = "Checking",
             workers' = [workers EXCEPT ![s] = n], staged' # None => staged' = pending'
      PROVE  StagedInv'
  BY <1>1, <1>2, <1>3 DEF StagedInv, StagedIsPending
<1>4. ASSUME w.op = "Downloading", UNCHANGED pending, NEW n,
             workers' = [workers EXCEPT ![s] = n],
             \A i \in DOMAIN events' : events'[i].kind = "Progress",
             staged' # None => staged' = pending',
             n.step \in {"copy", "verify", "Ready"} => n.found = pending,
             n.step = "Ready" => staged' # None
      PROVE  StagedInv'
  <2>1. gate' = "Downloading"
    BY <1>1, <1>4, DownloadIsAlone
  <2>2. \A t \in Slots : workers'[t] = IF t = s THEN n ELSE Free
    BY <1>4, DownloadIsAlone DEF TypeInv
  <2>3. \A t \in Slots : workers'[t].op = "Downloading" => t = s
    BY <2>2 DEF Free
  <2> QED BY <1>4, <2>1, <2>2, <2>3 DEF StagedInv, StagedIsPending
<1>5. CASE CheckFetches(s)
  <2>1. w.op = "Checking" /\ UNCHANGED <<events, pending, staged>>
    BY <1>5 DEF CheckFetches, Running
  <2>2. \E step, found : Goes(s, step, found)
    BY <1>5 DEF CheckFetches
  <2>3. PICK n : n.op = "Checking" /\ workers' = [workers EXCEPT ![s] = n]
    BY <2>1, <2>2 DEF Goes, TypeInv
  <2> QED BY <1>3, <2>1, <2>3 DEF StagedInv, StagedIsPending
<1>6. CASE CheckPublishes(s)
  <2>1. w.op = "Checking" /\ UNCHANGED events
    BY <1>6 DEF CheckPublishes, Running
  <2>2. PICK step : workers' = [workers EXCEPT ![s] = [w EXCEPT !.step = step]]
    BY <1>6 DEF CheckPublishes, TypeInv
  <2>3. [w EXCEPT !.step = step].op = "Checking"
    BY <2>1 DEF TypeInv, WorkerOf, Free
  <2>4. staged' # None => staged' = pending'
    BY <1>6 DEF CheckPublishes, ReplacePending, StagedInv, StagedIsPending
  <2> QED BY <1>3, <2>1, <2>2, <2>3, <2>4
<1>7. CASE WorkerReports(s)
  <2> DEFINE e == Event(w.step, w.found)
  <2>1. UNCHANGED <<pending, staged>> /\ \A t \in Slots : workers'[t] \in {Free, workers[t]}
    BY <1>7 DEF WorkerReports, TypeInv
  <2>2. \A i \in DOMAIN events' : events'[i] = e \/ (i \in DOMAIN events /\ events'[i] = events[i])
    BY <1>7, AppendFacts DEF WorkerReports, TypeInv
  <2>3. e.kind = "Ready" => staged # None
    BY <1>7, BusyOps DEF WorkerReports, Event, StagedInv, Free
  <2>4. Free.op = "Idle"
    BY DEF Free
  <2> HIDE DEF e
  <2> QED BY <1>1, <2>1, <2>2, <2>3, <2>4 DEF StagedInv, StagedIsPending
<1>8. CASE DownloadBegins(s)
  <2>1. w.op = "Downloading" /\ UNCHANGED <<pending, events>>
    BY <1>8 DEF DownloadBegins, Running
  <2>2. \A i \in DOMAIN events' : events'[i].kind = "Progress"
    BY <2>1, DownloadIsAlone
  <2>3. CASE pending = None
    <3> DEFINE n == [op |-> w.op, step |-> "DownloadError", found |-> None]
    <3>1. workers' = [workers EXCEPT ![s] = n] /\ UNCHANGED staged
      BY <1>8, <2>3 DEF DownloadBegins, Goes, TypeInv
    <3>2. n.step = "DownloadError"
      OBVIOUS
    <3> HIDE DEF n
    <3> QED BY <1>4, <2>1, <2>2, <3>1, <3>2 DEF StagedInv, StagedIsPending
  <2>4. CASE pending # None
    <3> DEFINE n == [op |-> w.op, step |-> "copy", found |-> pending]
    <3>1. workers' = [workers EXCEPT ![s] = n] /\ staged' = None
      BY <1>8, <2>4 DEF DownloadBegins, Goes, TypeInv
    <3>2. n.step = "copy" /\ n.found = pending
      OBVIOUS
    <3> HIDE DEF n
    <3> QED BY <1>4, <2>1, <2>2, <3>1, <3>2
  <2> QED BY <2>3, <2>4
<1>9. CASE DownloadProgresses(s) \/ DownloadFails(s) \/ DownloadStages(s)
  <2>1. w.op = "Downloading" /\ w.step \in {"copy", "verify"} /\ UNCHANGED pending
    BY <1>9 DEF DownloadProgresses, DownloadFails, DownloadStages, Running
  <2>2. w.found = pending /\ w.found # None
    BY <2>1, NoneAssumption DEF StagedInv, TypeInv, WorkerOf, Free
  <2>3. \A i \in DOMAIN events' : events'[i].kind = "Progress"
    <3>1. \A i \in DOMAIN events : events[i].kind = "Progress"
      BY <2>1, DownloadIsAlone
    <3>2. UNCHANGED events \/ events' = Append(events, Event("Progress", None))
      BY <1>9 DEF DownloadProgresses, DownloadFails, DownloadStages
    <3>3. CASE events' = Append(events, Event("Progress", None))
      <4>1. Event("Progress", None).kind = "Progress"
        BY DEF Event
      <4> QED BY <3>1, <3>3, <4>1, AppendFacts DEF TypeInv
    <3> QED BY <3>1, <3>2, <3>3
  <2>4. \E n : /\ workers' = [workers EXCEPT ![s] = n]
               /\ n.step \in {"copy", "verify", "Ready"} => n.found = pending
               /\ n.step = "Ready" => staged' # None
    <3>1. PICK step, found :
             /\ Goes(s, step, found)
             /\ step \in {"copy", "verify", "Ready"} => found = pending
             /\ step = "Ready" => staged' # None
      BY <1>9, <2>2 DEF DownloadProgresses, DownloadFails, DownloadStages
    <3> DEFINE n == [op |-> w.op, step |-> step, found |-> found]
    <3>2. workers' = [workers EXCEPT ![s] = n] /\ n.step = step /\ n.found = found
      BY <3>1 DEF Goes, TypeInv
    <3> QED BY <3>1, <3>2
  <2>5. staged' # None => staged' = pending'
    BY <1>9, <2>1, <2>2
    DEF DownloadProgresses, DownloadFails, DownloadStages, StagedInv, StagedIsPending
  <2> QED BY <1>4, <2>1, <2>3, <2>4, <2>5
<1> QED BY <1>5, <1>6, <1>7, <1>8, <1>9 DEF Worker

LEMMA UIKeepsStaged ==
  ASSUME TypeInv, GateInv, StagedInv, UI
  PROVE  StagedInv'
<1>1. CASE UITakesEvent
  <2>1. events \in Seq(EventOf) /\ events # <<>> /\ events' = Tail(events)
        /\ UNCHANGED <<pending, staged, workers>>
    BY <1>1 DEF UITakesEvent, TypeInv
  <2>2. \A i \in DOMAIN events' : i + 1 \in DOMAIN events /\ events'[i] = events[i + 1]
    BY <2>1, QueueFacts
  <2>3. Head(events) = events[1] /\ 1 \in DOMAIN events
    BY <2>1, QueueFacts
  <2>4. gate' = "Ready" => gate = "Ready" \/ Head(events).kind = "Ready"
    BY <1>1 DEF UITakesEvent, Acknowledged
  <2> QED BY <2>1, <2>2, <2>3, <2>4 DEF StagedInv, StagedIsPending
<1>2. ASSUME NEW v, Discard(v), UNCHANGED <<workers, events>> PROVE StagedInv'
  <2>1. CASE UNCHANGED <<pending, staged, gate>>
    BY <1>2, <2>1, StagedFrame
  <2>2. CASE ~UNCHANGED <<pending, staged, gate>>
    <3>1. gate # "Downloading" /\ staged' = None /\ gate' # "Ready"
      BY <1>2, <2>2 DEF Discard
    <3> QED BY <1>2, <3>1, CheckIsAlone DEF StagedInv, StagedIsPending
  <2> QED BY <2>1, <2>2
<1>3. CASE UIAppliesEvent
  BY <1>2, <1>3, StartKeepsStaged, StagedFrame DEF UIAppliesEvent
<1>4. CASE CheckForUpdates \/ DownloadUpdate
  BY <1>4, StartKeepsStaged DEF CheckForUpdates, DownloadUpdate
<1>5. CASE SkipVersion \/ UnlockVault
  BY <1>2, <1>5 DEF SkipVersion, UnlockVault
<1>6. CASE InstallBegins \/ InstallFails \/ InstallFailureShows \/ InstallLaunches
  BY <1>6, StagedFrame DEF InstallBegins, InstallFails, InstallFailureShows, InstallLaunches
<1> QED BY <1>1, <1>3, <1>4, <1>5, <1>6 DEF UI

LEMMA StagedInvNext == TypeInv /\ GateInv /\ StagedInv /\ [Next]_vars => StagedInv'
<1>1. ASSUME StagedInv, UNCHANGED updateVars PROVE StagedInv'
  BY <1>1, StagedFrame DEF updateVars
<1>2. ASSUME TypeInv, GateInv, StagedInv, NEW t \in Slots, SchedulerChecks(t) PROVE StagedInv'
  BY <1>2, StartKeepsStaged DEF SchedulerChecks
<1> QED
  BY <1>1, <1>2, WorkerKeepsStaged, UIKeepsStaged, SchedulerFrame, ConfigureFrame DEF Next, vars

(* The artifact an install runs is the one of the version that is offered: *)
(* no check, skip or failed download parts the two (updater/mod.rs).       *)
THEOREM StagedStaysPending == Spec => []StagedIsPending
<1>1. StagedInv => StagedIsPending
  BY DEF StagedInv
<1> QED
  BY <1>1, TypeInvInit, TypeInvNext, InstallInvInit, InstallInvNext, GateInvInit, GateInvNext,
     StagedInvInit, StagedInvNext, PTL DEF Spec
-----------------------------------------------------------------------------
LEMMA SkippedInit == Init => SkippedNotOffered
BY DEF Init, SkippedNotOffered, Status

LEMMA SkippedNext == TypeInv /\ SkippedNotOffered /\ [Next]_vars => SkippedNotOffered'
<1> SUFFICES ASSUME TypeInv, SkippedNotOffered, [Next]_vars PROVE SkippedNotOffered'
  OBVIOUS
<1>1. ASSUME UNCHANGED <<status, skipped>> PROVE SkippedNotOffered'
  BY <1>1 DEF SkippedNotOffered
<1>2. ASSUME status'.kind # "Available" PROVE SkippedNotOffered'
  BY <1>2 DEF SkippedNotOffered
<1>3. ASSUME NEW s \in Slots, Worker(s) PROVE SkippedNotOffered'
  BY <1>1, <1>3
  DEF Worker, CheckFetches, CheckPublishes, WorkerReports, DownloadBegins, DownloadProgresses,
      DownloadFails, DownloadStages, unchangedByWorkers
<1>4. ASSUME NEW t \in Slots, SchedulerChecks(t) PROVE SkippedNotOffered'
  BY <1>1, <1>4 DEF SchedulerChecks
<1>5. CASE UITakesEvent \/ InstallBegins \/ InstallFails
  BY <1>1, <1>5 DEF UITakesEvent, InstallBegins, InstallFails
<1>6. CASE UIAppliesEvent
  <2> DEFINE e == ui.event
  <2>1. CASE UNCHANGED status
    BY <1>1, <1>6, <2>1 DEF UIAppliesEvent
  <2>2. CASE status' = Status("Downloading", None)
    BY <1>2, <2>2 DEF Status
  <2>3. CASE ~Stale(e) /\ status' = StatusAfter(e)
    <3>1. CASE e.kind = "Available"
      <4>1. status' = Status(e.kind, e.version) /\ e.version # skipped /\ UNCHANGED skipped
        BY <1>6, <2>3, <3>1 DEF UIAppliesEvent, StatusAfter, Stale
      <4> QED BY <4>1 DEF SkippedNotOffered, Status
    <3>2. CASE e.kind # "Available"
      <4>1. UNCHANGED status \/ status'.kind # "Available"
        BY <2>3, <3>2 DEF StatusAfter, Status
      <4> QED BY <1>1, <1>2, <1>6, <4>1 DEF UIAppliesEvent
    <3> QED BY <3>1, <3>2
  <2> QED BY <1>6, <2>1, <2>2, <2>3 DEF UIAppliesEvent
<1>7. CASE CheckForUpdates \/ DownloadUpdate
  <2>1. UNCHANGED status \/ status' = Status("Checking", None) \/ status' = Status("Downloading", None)
    BY <1>7 DEF CheckForUpdates, DownloadUpdate
  <2>2. UNCHANGED skipped
    BY <1>7 DEF CheckForUpdates, DownloadUpdate
  <2> QED BY <1>1, <1>2, <2>1, <2>2 DEF Status
<1>8. CASE SkipVersion \/ UnlockVault
  BY <1>2, <1>8 DEF SkipVersion, UnlockVault, Status
<1>9. CASE InstallFailureShows \/ InstallLaunches
  <2>1. status' = Status("Error", None) \/ status' = Status("Installing", pending)
    BY <1>9 DEF InstallFailureShows, InstallLaunches
  <2>2. status'.kind \in {"Error", "Installing"}
    BY <2>1 DEF Status
  <2> QED BY <1>2, <2>2
<1> QED
  BY <1>1, <1>3, <1>4, <1>5, <1>6, <1>7, <1>8, <1>9, SchedulerFrame, ConfigureFrame
  DEF Next, UI, updateVars, vars

(* paint_events.rs:468: a version skipped while its event was queued is    *)
(* not shown as available.                                                 *)
THEOREM SkippedStaysAway == Spec => []SkippedNotOffered
BY TypeInvInit, TypeInvNext, SkippedInit, SkippedNext, PTL DEF Spec
-----------------------------------------------------------------------------
Live == {t \in Slots : threads[t] # NoThread}

ThreadInv ==
    /\ sched \in [enabled: BOOLEAN, generation: 0..bounds.changes, immediate: BOOLEAN,
                  running: BOOLEAN]
    /\ \A t \in Live : threads[t].step \in {"top", "wait", "try", "record"}
    /\ threads \in [Slots -> [step: {"none", "top", "wait", "try", "record"}, generation: Nat]]
    /\ \A t, u \in Live : t = u
    /\ sched.running <=> Live # {}

LEMMA ThreadInvInit == Init => ThreadInv
<1> SUFFICES ASSUME Init PROVE ThreadInv
  OBVIOUS
<1>1. bounds.changes \in Nat
  BY BoundsAssumption DEF Init
<1>2. 0 \in 0..bounds.changes
  BY <1>1
<1>3. NoThread \in [step: {"none", "top", "wait", "try", "record"}, generation: Nat]
  BY DEF NoThread
<1>4. Live = {} /\ sched.running = FALSE
  BY DEF Init, Live
<1> QED BY <1>2, <1>3, <1>4 DEF Init, ThreadInv

LEMMA ThreadFrame ==
  ASSUME ThreadInv, UNCHANGED <<sched, threads, bounds>>
  PROVE  ThreadInv'
BY DEF ThreadInv, Live

(* The one thread goes on.                                                 *)
LEMMA ThreadGoesOn ==
  ASSUME ThreadInv, NEW t \in Live, UNCHANGED bounds,
         NEW step \in {"top", "wait", "try", "record"}, NEW g \in Nat,
         threads' = [threads EXCEPT ![t] = [step |-> step, generation |-> g]],
         sched' \in [enabled: BOOLEAN, generation: 0..bounds.changes, immediate: BOOLEAN,
                     running: BOOLEAN],
         sched'.running = sched.running
  PROVE  ThreadInv'
<1> DEFINE n == [step |-> step, generation |-> g]
<1>1. n # NoThread /\ n.step = step
      /\ n \in [step: {"none", "top", "wait", "try", "record"}, generation: Nat]
  BY DEF NoThread
<1>2. t \in Slots /\ \A u \in Slots : threads'[u] = IF u = t THEN n ELSE threads[u]
  BY DEF ThreadInv, Live
<1> HIDE DEF n
<1>3. Live' = Live
  BY <1>1, <1>2 DEF Live
<1>4. threads' \in [Slots -> [step: {"none", "top", "wait", "try", "record"}, generation: Nat]]
  BY <1>1, <1>2 DEF ThreadInv, n
<1> QED BY <1>1, <1>2, <1>3, <1>4 DEF ThreadInv, Live

(* It stops.                                                               *)
LEMMA ThreadStops ==
  ASSUME ThreadInv, NEW t \in Live, UNCHANGED bounds,
         threads' = [threads EXCEPT ![t] = NoThread],
         sched' \in [enabled: BOOLEAN, generation: 0..bounds.changes, immediate: BOOLEAN,
                     running: BOOLEAN],
         ~sched'.running
  PROVE  ThreadInv'
<1>1. t \in Slots /\ \A u \in Slots : threads'[u] = NoThread
  BY DEF ThreadInv, Live
<1>2. Live' = {}
  BY <1>1 DEF Live
<1>3. NoThread \in [step: {"none", "top", "wait", "try", "record"}, generation: Nat]
  BY DEF NoThread
<1> QED BY <1>2, <1>3 DEF ThreadInv

LEMMA SchedulerKeepsThreads ==
  ASSUME TypeInv, ThreadInv, NEW t \in Slots, Scheduler(t)
  PROVE  ThreadInv'
<1> DEFINE SchedOf == [enabled: BOOLEAN, generation: 0..bounds.changes, immediate: BOOLEAN,
                       running: BOOLEAN]
<1>1. t \in Live /\ sched \in SchedOf /\ sched.running /\ UNCHANGED bounds
  BY DEF Scheduler, SchedulerLooks, SchedulerWakes, SchedulerChecks, SchedulerRecords, NoThread,
         Live, ThreadInv, updateVars
<1>2. /\ threads[t].generation \in Nat /\ sched.generation \in Nat
      /\ \A step : [threads EXCEPT ![t].step = step] =
            [threads EXCEPT ![t] = [step |-> step, generation |-> threads[t].generation]]
  <2>1. threads[t] \in [step: {"none", "top", "wait", "try", "record"}, generation: Nat]
    BY DEF ThreadInv
  <2>2. \A step : [threads[t] EXCEPT !.step = step]
                    = [step |-> step, generation |-> threads[t].generation]
    BY <2>1
  <2> QED BY <1>1, <2>1, <2>2, Constants DEF ThreadInv
<1>3. CASE SchedulerLooks(t)
  <2>1. sched' = [sched EXCEPT !.running = sched.enabled, !.immediate = FALSE]
    BY <1>3 DEF SchedulerLooks
  <2>2. sched' \in SchedOf /\ sched'.running = sched.enabled
    BY <1>1, <2>1
  <2>3. CASE sched.enabled
    <3>1. PICK step \in {"try", "wait"} :
             threads' = [threads EXCEPT ![t] = [step |-> step, generation |-> sched.generation]]
      BY <1>3, <2>3 DEF SchedulerLooks, ThreadInv
    <3>2. sched'.running = sched.running
      BY <1>1, <2>2, <2>3
    <3>3. step \in {"top", "wait", "try", "record"}
      BY <3>1
    <3> HIDE DEF SchedOf
    <3>4. t \in Live /\ UNCHANGED bounds /\ sched.generation \in Nat /\ sched' \in SchedOf
      BY <1>1, <1>2, <2>2
    <3> QED BY <3>1, <3>2, <3>3, <3>4, ThreadGoesOn DEF SchedOf
  <2>4. CASE ~sched.enabled
    <3>1. threads' = [threads EXCEPT ![t] = NoThread]
      BY <1>3, <2>4 DEF SchedulerLooks
    <3> QED BY <1>1, <2>2, <2>4, <3>1, ThreadStops
  <2> QED BY <2>3, <2>4
<1>4. CASE SchedulerWakes(t)
  <2>1. PICK step \in {"try", "top"} : ThreadGoes(t, step)
    BY <1>4 DEF SchedulerWakes
  <2>2. threads' = [threads EXCEPT ![t] = [step |-> step, generation |-> threads[t].generation]]
    BY <1>2, <2>1 DEF ThreadGoes
  <2>3. UNCHANGED sched /\ step \in {"top", "wait", "try", "record"}
    BY <1>4 DEF SchedulerWakes
  <2> QED BY <1>1, <1>2, <2>2, <2>3, ThreadGoesOn
<1>5. CASE SchedulerChecks(t)
  BY <1>1, <1>2, <1>5, ThreadGoesOn DEF SchedulerChecks, ThreadGoes
<1>6. CASE SchedulerRecords(t)
  <2> DEFINE stops == sched.generation # threads[t].generation /\ ~sched.enabled
  <2>1. CASE stops
    <3>1. sched' = [sched EXCEPT !.running = FALSE]
          /\ threads' = [threads EXCEPT ![t] = NoThread]
      BY <1>6, <2>1 DEF SchedulerRecords
    <3>2. sched' \in SchedOf /\ ~sched'.running
      BY <1>1, <3>1
    <3> QED BY <1>1, <3>1, <3>2, ThreadStops
  <2>2. CASE ~stops
    <3>1. UNCHANGED sched /\ threads' = [threads EXCEPT ![t].step = "top"]
      BY <1>6, <2>2 DEF SchedulerRecords
    <3> QED BY <1>1, <1>2, <3>1, ThreadGoesOn
  <2> QED BY <2>1, <2>2
<1> QED BY <1>3, <1>4, <1>5, <1>6 DEF Scheduler

LEMMA ConfigureKeepsThreads ==
  ASSUME TypeInv, ThreadInv, NEW enabled \in BOOLEAN, Configure(enabled)
  PROVE  ThreadInv'
<1> DEFINE SchedOf == [enabled: BOOLEAN, generation: 0..bounds.changes, immediate: BOOLEAN,
                       running: BOOLEAN]
           next    == [sched EXCEPT !.enabled = enabled, !.generation = @ + 1,
                                    !.immediate = enabled /\ ~sched.enabled]
<1>1. sched \in SchedOf /\ UNCHANGED bounds /\ sched.generation < bounds.changes
  BY DEF Configure, ThreadInv, updateVars
<1>2. sched.generation + 1 \in 0..bounds.changes
  BY <1>1, Constants
<1>3. next \in SchedOf /\ next.running = sched.running
  BY <1>1, <1>2
<1>4. CASE sched' = next /\ UNCHANGED threads
  BY <1>1, <1>3, <1>4 DEF ThreadInv, Live
<1>5. CASE ~next.running /\ sched' = [next EXCEPT !.running = TRUE]
           /\ threads' = [threads EXCEPT ![AnyOf({s \in Slots : threads[s] = NoThread})] =
                            [step |-> "top", generation |-> 0]]
  <2> DEFINE slot == AnyOf({s \in Slots : threads[s] = NoThread})
             n    == [step |-> "top", generation |-> 0]
  <2>1. \A s \in Slots : threads[s] = NoThread
    BY <1>3, <1>5 DEF ThreadInv, Live
  <2>2. slot \in Slots
    BY <2>1, SlotsAssumption DEF AnyOf
  <2>3. n # NoThread /\ n.step = "top"
        /\ n \in [step: {"none", "top", "wait", "try", "record"}, generation: Nat]
    BY DEF NoThread
  <2>4. sched' \in SchedOf /\ sched'.running
    BY <1>3, <1>5
  <2> HIDE DEF slot, n
  <2>5. threads' = [threads EXCEPT ![slot] = n]
    BY <1>5 DEF slot, n
  <2>6. \A s \in Slots : threads'[s] = IF s = slot THEN n ELSE NoThread
    BY <2>1, <2>5 DEF ThreadInv
  <2>7. Live' = {slot}
    BY <2>2, <2>3, <2>6 DEF Live
  <2>8. threads' \in [Slots -> [step: {"none", "top", "wait", "try", "record"}, generation: Nat]]
    BY <2>3, <2>5 DEF ThreadInv
  <2>9. sched' \in [enabled: BOOLEAN, generation: 0..bounds'.changes, immediate: BOOLEAN,
                    running: BOOLEAN]
    BY <1>1, <2>4
  <2>10. /\ \A t \in Live' : threads'[t].step \in {"top", "wait", "try", "record"}
         /\ \A t, u \in Live' : t = u
         /\ sched'.running <=> Live' # {}
    BY <2>2, <2>3, <2>4, <2>6, <2>7
  <2> QED BY <2>8, <2>9, <2>10 DEF ThreadInv
<1> HIDE DEF next
<1>6. Spawn(next) \/ (sched' = next /\ UNCHANGED threads)
  BY DEF Configure, next
<1> QED BY <1>4, <1>5, <1>6 DEF Spawn

LEMMA ThreadInvNext == TypeInv /\ ThreadInv /\ [Next]_vars => ThreadInv'
<1> SUFFICES ASSUME TypeInv, ThreadInv, [Next]_vars PROVE ThreadInv'
  OBVIOUS
<1>1. ASSUME NEW s \in Slots, Worker(s) PROVE UNCHANGED <<sched, threads, bounds>>
  BY <1>1
  DEF Worker, CheckFetches, CheckPublishes, WorkerReports, DownloadBegins, DownloadProgresses,
      DownloadFails, DownloadStages, unchangedByWorkers
<1>2. CASE UI
  BY <1>2, ThreadFrame
  DEF UI, UITakesEvent, UIAppliesEvent, CheckForUpdates, DownloadUpdate, SkipVersion, UnlockVault,
      InstallBegins, InstallFails, InstallFailureShows, InstallLaunches, unchangedByUI
<1>3. CASE UNCHANGED vars
  BY <1>3, ThreadFrame DEF vars, updateVars
<1> QED
  BY <1>1, <1>2, <1>3, ThreadFrame, SchedulerKeepsThreads, ConfigureKeepsThreads DEF Next

(* operation.rs:84-131: however the frequency is switched while a thread   *)
(* waits, checks or records, there is never a second thread.               *)
THEOREM NeverTwoSchedulers == Spec => []OneScheduler
<1>1. ThreadInv => OneScheduler
  <2> SUFFICES ASSUME ThreadInv PROVE OneScheduler
    OBVIOUS
  <2>1. OneScheduler <=> Cardinality(Live) = IF sched.running THEN 1 ELSE 0
    BY DEF OneScheduler, Live
  <2>2. Cardinality({}) = 0 /\ \A x : Cardinality({x}) = 1
    BY FS_EmptySet, FS_Singleton
  <2> HIDE DEF Live
  <2>3. CASE Live = {}
    BY <2>1, <2>2, <2>3 DEF ThreadInv
  <2>4. CASE Live # {}
    <3>1. PICK t \in Live : Live = {t}
      BY <2>4 DEF ThreadInv
    <3> QED BY <2>1, <2>2, <2>4, <3>1 DEF ThreadInv
  <2> QED BY <2>3, <2>4
<1> QED BY <1>1, TypeInvInit, TypeInvNext, ThreadInvInit, ThreadInvNext, PTL DEF Spec

(* Every status on screen has the version it needs, and the gate, workers  *)
(* and scheduler are in states the code names.                             *)
THEOREM TypeCorrect == Spec => []TypeOK
<1>1. TypeInv /\ ThreadInv => TypeOK
  <2> SUFFICES ASSUME TypeInv, ThreadInv PROVE TypeOK
    OBVIOUS
  <2>1. \A s \in Slots : workers[s].op \in {"Idle", "Checking", "Downloading"}
    BY DEF TypeInv, WorkerOf, Free
  <2>2. sched.enabled \in BOOLEAN /\ sched.generation \in 0..bounds.changes
    BY DEF ThreadInv
  <2> QED BY <2>1, <2>2 DEF TypeInv, TypeOK, StatusOf, Version
<1> QED BY <1>1, TypeInvInit, TypeInvNext, ThreadInvInit, ThreadInvNext, PTL DEF Spec
=============================================================================
