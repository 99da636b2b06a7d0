-------------------------- MODULE PumpedEvents_proofs --------------------------
(***************************************************************************)
(* Proofs about what the timer of the UI thread drains                     *)
(* (pump_backend_events): due rules, events of the desktop, events of live *)
(* folders.                                                                *)
(*                                                                         *)
(* Rules: no rule is run by the scheduler twice in one interval, for any   *)
(* rules, any period and queue, any failures and any edits.  Rules and     *)
(* DesktopPresence, as MCDesktopEvents runs them, keep their types: the    *)
(* list of rules names no rule twice, the queue keeps its limit.           *)
(* LiveFolders: a zone never shows the files of a folder other than its    *)
(* own, whatever is queued, deleted or restored meanwhile, unless it was   *)
(* bound to a folder that could not be read then (bind_live_folder).       *)
(***************************************************************************)
EXTENDS MCDesktopEvents, LiveFolders, FiniteSetTheorems, TLAPS

(* A rule's files were touched no later than its last_run tells, unless    *)
(* the run whose statistics are being saved is that rule's, or the record  *)
(* of a run was lost.                                                      *)
LastRunIsHonest(r) ==
    \/ r.id \in excused
    \/ running.matched /\ running.rule = r.id
    \/ r.since <= ran[r.id]

RulesInv ==
    /\ file \in Seq(Rule)
    /\ ran \in [Ids -> 0..Period]
    /\ running.matched \in BOOLEAN
    /\ \A i \in DOMAIN file : LastRunIsHonest(file[i])

(* The list a handler reads, and what the wizard makes of it.              *)
LEMMA ListFacts ==
  ASSUME NEW list \in Seq(Rule)
  PROVE  /\ \A i \in DOMAIN list : list[i] \in Rule
         /\ \A r \in Rule :
               /\ Upserted(list, r) \in Seq(Rule)
               /\ \A i \in DOMAIN Upserted(list, r) :
                     Upserted(list, r)[i] = r
                     \/ \E j \in DOMAIN list : Upserted(list, r)[i] = list[j]
         /\ \A id : Has(list, id) =>
               /\ Without(list, id) \in Seq(Rule)
               /\ \A i \in DOMAIN Without(list, id) :
                     \E j \in DOMAIN list : Without(list, id)[i] = list[j]
<1>1. \A i \in DOMAIN list : list[i] \in Rule
  OBVIOUS
<1>2. ASSUME NEW r \in Rule
      PROVE  /\ Upserted(list, r) \in Seq(Rule)
             /\ \A i \in DOMAIN Upserted(list, r) :
                   Upserted(list, r)[i] = r
                   \/ \E j \in DOMAIN list : Upserted(list, r)[i] = list[j]
  <2>1. CASE ~Has(list, r.id)
    <3>1. Upserted(list, r) = Append(list, r)
      BY <2>1 DEF Upserted
    <3> QED BY <3>1
  <2>2. CASE Has(list, r.id)
    <3> DEFINE L == [i \in DOMAIN list |-> IF list[i].id = r.id THEN r ELSE list[i]]
    <3>1. Upserted(list, r) = L
      BY <2>2 DEF Upserted
    <3>2. DOMAIN list = 1..Len(list) /\ Len(list) \in Nat
      OBVIOUS
    <3>3. \A i \in 1..Len(list) : L[i] \in Rule
      BY <3>2
    <3>4. L \in Seq(Rule)
      BY <3>2, <3>3
    <3> QED BY <3>1, <3>4
  <2> QED BY <2>1, <2>2
<1>3. ASSUME NEW id, Has(list, id)
      PROVE  /\ Without(list, id) \in Seq(Rule)
             /\ \A i \in DOMAIN Without(list, id) :
                   \E j \in DOMAIN list : Without(list, id)[i] = list[j]
  <2> DEFINE n == CHOOSE i \in DOMAIN list : list[i].id = id
             W == [i \in 1..(Len(list) - 1) |-> IF i < n THEN list[i] ELSE list[i + 1]]
  <2>1. Without(list, id) = W
    BY <1>3 DEF Without
  <2>2. Len(list) \in Nat \ {0} /\ DOMAIN list = 1..Len(list)
    BY <1>3 DEF Has
  <2>3. \A i \in 1..(Len(list) - 1) : i \in DOMAIN list /\ i + 1 \in DOMAIN list
    BY <2>2
  <2>4. \A i \in 1..(Len(list) - 1) : W[i] = list[i] \/ W[i] = list[i + 1]
    OBVIOUS
  <2>5. W \in Seq(Rule)
    BY <2>2, <2>3, <2>4, <1>1
  <2> HIDE DEF n
  <2> QED BY <2>1, <2>3, <2>4, <2>5
<1> QED BY <1>1, <1>2, <1>3

(* Nothing was run before the rules that were saved.                       *)
LEMMA RulesInvInit == Init => RulesInv
<1> SUFFICES ASSUME Init PROVE RulesInv
  OBVIOUS
<1>1. PICK ids \in Saved :
         file = [i \in DOMAIN ids |-> [id |-> ids[i], enabled |-> TRUE,
                                       mode |-> "interval", since |-> Period]]
  BY DEF Init
<1>2. ids \in Seq(Ids)
  BY SavedAssumption
<1>3. \A i \in DOMAIN ids : file[i] \in Rule /\ file[i].id \in Ids /\ file[i].since = Period
  BY <1>1, <1>2, PeriodAssumption DEF Rule, Modes
<1>4. file \in Seq(Rule)
  <2>1. DOMAIN ids = 1..Len(ids) /\ Len(ids) \in Nat
    BY <1>2
  <2>2. file \in [1..Len(ids) -> Rule]
    BY <1>1, <1>3, <2>1, Zenon
  <2> QED BY <2>1, <2>2
<1>5. ran = [r \in Ids |-> Period] /\ running.matched = FALSE
  BY DEF Init, None
<1>6. \A i \in DOMAIN file : LastRunIsHonest(file[i])
  <2>1. DOMAIN file = DOMAIN ids
    BY <1>1
  <2>2. \A r \in Ids : Period <= ran[r]
    BY <1>5, PeriodAssumption
  <2> QED BY <1>3, <2>1, <2>2 DEF LastRunIsHonest
<1>7. running.matched \in BOOLEAN
  BY <1>5
<1>8. ran \in [Ids -> 0..Period]
  <2>1. Period \in 0..Period
    BY PeriodAssumption
  <2> QED BY <1>5, <2>1
<1> QED BY <1>4, <1>6, <1>7, <1>8 DEF RulesInv

(* Effects take the record's word away and put the run in its place.       *)
LEMMA ApplyKeepsRulesInv ==
  ASSUME RulesInv, running = None, UNCHANGED file, NEW id, NEW by, Apply(id, by)
  PROVE  RulesInv'
<1>1. PICK matched \in BOOLEAN :
         /\ running' = [rule |-> id, by |-> by, matched |-> matched]
         /\ ran' = IF matched THEN [ran EXCEPT ![id] = 0] ELSE ran
         /\ excused' = IF matched THEN excused \ {id} ELSE excused
  BY DEF Apply
<1>2. running'.matched = matched /\ running'.rule = id /\ ~running.matched
  BY <1>1 DEF None
<1>3. ran' \in [Ids -> 0..Period]
  <2>1. ran \in [Ids -> 0..Period] /\ 0 \in 0..Period
    BY PeriodAssumption DEF RulesInv
  <2>2. [ran EXCEPT ![id] = 0] \in [Ids -> 0..Period]
    BY <2>1
  <2> QED BY <1>1, <2>1, <2>2
<1>4. ASSUME NEW i \in DOMAIN file PROVE LastRunIsHonest(file[i])'
  <2>1. file[i] \in Rule /\ LastRunIsHonest(file[i])
    BY DEF RulesInv
  <2>2. CASE matched /\ file[i].id = id
    BY <1>2, <2>2 DEF LastRunIsHonest
  <2>3. CASE ~matched
    BY <1>1, <1>2, <2>1, <2>3 DEF LastRunIsHonest
  <2>4. CASE file[i].id # id
    <3>1. file[i].id \in Ids
      BY <2>1 DEF Rule
    <3>2. ran'[file[i].id] = ran[file[i].id]
      BY <1>1, <2>4, <3>1 DEF RulesInv
    <3> QED BY <1>1, <1>2, <2>1, <2>4, <3>2 DEF LastRunIsHonest
  <2> QED BY <2>2, <2>3, <2>4
<1> QED BY <1>2, <1>3, <1>4 DEF RulesInv

(* Nothing but the list of rules changes, and each rule of the new list is *)
(* one of the old list or one whose last run is excused.                   *)
LEMMA EditKeepsRulesInv ==
  ASSUME RulesInv, UNCHANGED <<running, ran>>, excused \subseteq excused',
         file' \in Seq(Rule),
         \A i \in DOMAIN file' :
            file'[i].id \in excused' \/ \E j \in DOMAIN file : file'[i] = file[j]
  PROVE  RulesInv'
BY DEF RulesInv, LastRunIsHonest

(* Every step of the scheduler, the UI thread and the wizard keeps RulesInv. *)
LEMMA RulesInvNext == RulesInv /\ [Next]_vars => RulesInv'
<1> SUFFICES ASSUME RulesInv, [Next]_vars PROVE RulesInv'
  OBVIOUS
<1>0. \A i \in DOMAIN file : file[i] \in Rule /\ LastRunIsHonest(file[i])
  BY DEF RulesInv
<1>1. CASE Tick
  <2>1. file' = [i \in DOMAIN file |-> [file[i] EXCEPT !.since = Older(@)]]
    BY <1>1 DEF Tick
  <2>2. ran' = [r \in Ids |-> Older(ran[r])] /\ UNCHANGED <<running, excused>>
    BY <1>1 DEF Tick
  <2>3. \A n \in 0..Period : Older(n) \in 0..Period
    BY PeriodAssumption DEF Older
  <2>4. \A m, n \in 0..Period : m <= n => Older(m) <= Older(n)
    BY PeriodAssumption DEF Older
  <2>5. \A i \in DOMAIN file : file[i].since \in 0..Period /\ file[i].id \in Ids
    BY <1>0 DEF Rule
  <2>6. \A i \in DOMAIN file :
           file'[i] \in Rule /\ file'[i].id = file[i].id /\ file'[i].since = Older(file[i].since)
    BY <1>0, <2>1, <2>3, <2>5 DEF Rule
  <2>7. DOMAIN file = 1..Len(file) /\ Len(file) \in Nat
    BY DEF RulesInv
  <2>8. file' \in Seq(Rule)
    <3>1. file' \in [1..Len(file) -> Rule]
      BY <2>1, <2>6, <2>7, Zenon
    <3> QED BY <3>1, <2>7
  <2>9. ran' \in [Ids -> 0..Period] /\ \A r \in Ids : ran[r] \in 0..Period
    BY <2>2, <2>3 DEF RulesInv
  <2>10. ASSUME NEW i \in DOMAIN file PROVE LastRunIsHonest(file[i])'
    BY <1>0, <2>2, <2>4, <2>5, <2>6, <2>9 DEF LastRunIsHonest
  <2> QED BY <2>1, <2>2, <2>8, <2>9, <2>10 DEF RulesInv
<1>2. CASE Scheduler
  BY <1>2 DEF Scheduler, Scan, Send, RulesInv, LastRunIsHonest
<1>3. CASE RunScheduled
  <2>1. running = None /\ UNCHANGED file
    BY <1>3 DEF RunScheduled, UIFree
  <2>2. Apply(Head(queue), "interval") \/ UNCHANGED <<running, ran, excused>>
    BY <1>3 DEF RunScheduled
  <2>3. CASE Apply(Head(queue), "interval")
    BY <2>1, <2>3, ApplyKeepsRulesInv
  <2> QED BY <2>1, <2>2, <2>3 DEF RulesInv, LastRunIsHonest
<1>4. CASE RunForEvent
  BY <1>4, ApplyKeepsRulesInv DEF RunForEvent
<1>5. CASE SaveStats
  <2>1. running'.matched = FALSE /\ UNCHANGED ran
    BY <1>5 DEF SaveStats, None
  <2>2. CASE ~running.matched /\ UNCHANGED <<file, excused>>
    BY <2>1, <2>2 DEF RulesInv, LastRunIsHonest
  <2>3. CASE running.matched /\ Saves(Stamped(file, running.rule)) /\ UNCHANGED excused
    <3>1. file' = [i \in DOMAIN file |->
                     IF file[i].id = running.rule THEN [file[i] EXCEPT !.since = 0] ELSE file[i]]
      BY <2>3 DEF Saves, Stamped
    <3>2. \A i \in DOMAIN file :
             /\ file'[i] \in Rule /\ file'[i].id = file[i].id
             /\ IF file[i].id = running.rule THEN file'[i].since = 0 ELSE file'[i] = file[i]
      BY <1>0, <3>1, PeriodAssumption DEF Rule
    <3>3. DOMAIN file = 1..Len(file) /\ Len(file) \in Nat
      BY DEF RulesInv
    <3>4. file' \in Seq(Rule)
      BY <3>1, <3>2, <3>3
    <3>5. \A r \in Ids : ran[r] \in 0..Period /\ 0 <= ran[r]
      BY DEF RulesInv
    <3>6. ASSUME NEW i \in DOMAIN file PROVE LastRunIsHonest(file[i])'
      BY <1>0, <2>1, <2>3, <3>2, <3>5 DEF LastRunIsHonest, Rule
    <3> QED BY <2>1, <3>1, <3>4, <3>6 DEF RulesInv
  <2>4. CASE excused' = excused \cup {running.rule} /\ UNCHANGED file
    BY <2>1, <2>4 DEF RulesInv, LastRunIsHonest
  <2> QED BY <1>5, <2>2, <2>3, <2>4 DEF SaveStats
<1>6. CASE FileEvent
  BY <1>6 DEF FileEvent, RulesInv, LastRunIsHonest
<1>7. ASSUME NEW id \in Ids, RunNow(id) PROVE RulesInv'
  BY <1>7, ApplyKeepsRulesInv DEF RunNow, UIFree
<1>8. ASSUME NEW id \in Ids, DeleteRule(id) PROVE RulesInv'
  <2>1. Has(file, id) /\ UNCHANGED <<running, ran, excused>>
    BY <1>8 DEF DeleteRule
  <2>2. CASE file' = Without(file, id)
    <3>1. /\ file' \in Seq(Rule)
          /\ \A i \in DOMAIN file' : \E j \in DOMAIN file : file'[i] = file[j]
      BY <2>1, <2>2, ListFacts DEF RulesInv
    <3> QED BY <2>1, <3>1, EditKeepsRulesInv
  <2>3. CASE file' = Without(<<>>, id)
    <3>1. file' = <<>>
      BY <2>3 DEF Without, Has
    <3> QED BY <2>1, <3>1, EditKeepsRulesInv
  <2> QED BY <1>8, <2>2, <2>3 DEF DeleteRule, Loads, Saves
<1>9. ASSUME NEW id \in Ids, NEW enabled \in BOOLEAN, NEW mode \in Modes,
             SaveRule(id, enabled, mode)
      PROVE  RulesInv'
  <2> DEFINE r == [id |-> id, enabled |-> enabled, mode |-> mode, since |-> Period]
  <2>1. r \in Rule
    BY PeriodAssumption DEF Rule
  <2>2. UNCHANGED <<running, ran>> /\ excused' = excused \cup {id}
    BY <1>9 DEF SaveRule
  <2>3. PICK list \in {file, <<>>} : file' = Upserted(list, r)
    BY <1>9 DEF SaveRule, Saves
  <2>4. list \in Seq(Rule)
    <3>1. file \in Seq(Rule) /\ <<>> \in Seq(Rule)
      BY DEF RulesInv
    <3> QED BY <3>1
  <2>5. /\ file' \in Seq(Rule)
        /\ \A i \in DOMAIN file' : file'[i] = r \/ \E j \in DOMAIN list : file'[i] = list[j]
    BY <2>1, <2>3, <2>4, ListFacts
  <2>6. \A j \in DOMAIN list : j \in DOMAIN file /\ list[j] = file[j]
    BY <2>4
  <2>7. \A i \in DOMAIN file' :
           file'[i].id \in excused' \/ \E j \in DOMAIN file : file'[i] = file[j]
    BY <2>2, <2>5, <2>6
  <2> QED BY <2>2, <2>5, <2>7, EditKeepsRulesInv
<1>10. CASE Restart
  BY <1>10 DEF Restart, None, RulesInv, LastRunIsHonest
<1>11. CASE UNCHANGED vars
  BY <1>11 DEF vars, RulesInv, LastRunIsHonest
<1> QED
  BY <1>1, <1>2, <1>3, <1>4, <1>5, <1>6, <1>7, <1>8, <1>9, <1>10, <1>11
  DEF Next, UI, Wizard

(* A rule that is found due in the list on disk has not touched its files  *)
(* for a whole period, or the record of its last run was lost.             *)
LEMMA DueMeansRested ==
  ASSUME RulesInv, ~running.matched, NEW id \in Ids, NEW list \in {file, <<>>},
         StillDue(list, id)
  PROVE  ran[id] = Period \/ id \in excused
<1>1. PICK i \in DOMAIN list : list[i].id = id /\ Due(list[i])
  BY DEF StillDue
<1>2. list = file
  BY <1>1
<1>3. LastRunIsHonest(file[i]) /\ file[i].since = Period
  BY <1>1, <1>2 DEF RulesInv, Due
<1>4. ran[id] \in 0..Period
  BY DEF RulesInv
<1> QED BY <1>1, <1>2, <1>3, <1>4, PeriodAssumption DEF LastRunIsHonest

(* The only step that runs a rule at its turn first finds it due.          *)
LEMMA ScheduledRunsAreDue ==
  ASSUME RulesInv, [Next]_vars, NEW id \in Ids, ScheduledRunOf(id)
  PROVE  ran[id] = Period \/ id \in excused
<1>1. CASE RunScheduled
  <2>1. ~running.matched /\ running = None
    BY <1>1 DEF RunScheduled, UIFree, None
  <2>2. PICK list \in {file, <<>>} :
           IF MayRun(list, Head(queue)) THEN Apply(Head(queue), "interval")
                                        ELSE UNCHANGED running
    BY <1>1 DEF RunScheduled
  <2>3. MayRun(list, Head(queue)) /\ running'.rule = Head(queue)
    BY <2>2 DEF Apply, ScheduledRunOf
  <2>4. StillDue(list, id)
    BY <2>3 DEF ScheduledRunOf, MayRun
  <2> QED BY <2>1, <2>4, DueMeansRested
<1>2. ASSUME NEW other, NEW by \in {"file change", "on demand"}, Apply(other, by) PROVE FALSE
  BY <1>2 DEF Apply, ScheduledRunOf
<1>3. ASSUME running' = None PROVE FALSE
  BY <1>3 DEF None, ScheduledRunOf
<1>4. CASE RunForEvent
  BY <1>4, <1>2 DEF RunForEvent
<1>5. ASSUME NEW other \in Ids, RunNow(other) PROVE FALSE
  BY <1>5, <1>2 DEF RunNow
<1>6. CASE SaveStats \/ Restart
  BY <1>6, <1>3 DEF SaveStats, Restart
<1>7. CASE UNCHANGED running
  BY <1>7 DEF ScheduledRunOf
<1>8. ASSUME NEW other \in Ids, DeleteRule(other) PROVE UNCHANGED running
  BY <1>8 DEF DeleteRule
<1>9. ASSUME NEW other \in Ids, NEW enabled \in BOOLEAN, NEW mode \in Modes,
             SaveRule(other, enabled, mode)
      PROVE  UNCHANGED running
  BY <1>9 DEF SaveRule
<1>10. Tick \/ Scheduler \/ FileEvent \/ UNCHANGED vars => UNCHANGED running
  BY DEF Tick, Scheduler, Scan, Send, FileEvent, vars
<1> QED
  BY <1>1, <1>4, <1>5, <1>6, <1>7, <1>8, <1>9, <1>10 DEF Next, UI, Wizard

(* rules_execution.rs: a due rule that was queued twice, run by hand or by *)
(* a file event while it waited, or found again by the next scan runs once *)
(* in a period; should_run_now is asked again when it is taken.            *)
THEOREM RunsOncePerInterval == Spec => OncePerInterval
<1>1. RulesInv /\ [Next]_vars
      => [\A id \in Ids : ScheduledRunOf(id) => ran[id] = Period \/ id \in excused]_vars
  BY ScheduledRunsAreDue
<1> QED BY <1>1, RulesInvInit, RulesInvNext, PTL DEF Spec, OncePerInterval

-----------------------------------------------------------------------------
(* Rules: what the types of its state need.                                *)
RulesTypeInv ==
    /\ file \in Seq(Rule) /\ Unique(file)
    /\ queue \in Seq(Ids) /\ toSend \in Seq(Ids) /\ work \in Seq(Ids)
    /\ Len(queue) <= Capacity
    /\ running.rule \in Ids \cup {NoRule}
    /\ ran \in [Ids -> 0..Period]

(* The ids a scan or a file event picks out of a list are ids of rules.    *)
LEMMA IdsAtFacts ==
  ASSUME NEW list \in Seq(Rule), NEW S \in SUBSET DOMAIN list, NEW ids \in IdsAt(list, S)
  PROVE  ids \in Seq(Ids)
<1>1. DOMAIN list = 1..Len(list) /\ Len(list) \in Nat
  OBVIOUS
<1>2. Cardinality(S) \in Nat
  <2>1. IsFiniteSet(1..Len(list))
    BY <1>1, FS_Interval
  <2>2. IsFiniteSet(S)
    BY <1>1, <2>1, FS_Subset
  <2> QED BY <2>2, FS_CardinalityType
<1>3. PICK at \in [1..Cardinality(S) -> S] : ids = [k \in DOMAIN at |-> list[at[k]].id]
  BY DEF IdsAt
<1>4. \A k \in 1..Cardinality(S) : list[at[k]] \in Rule
  BY <1>1
<1>5. \A k \in 1..Cardinality(S) : ids[k] \in Ids
  BY <1>3, <1>4 DEF Rule
<1>6. ids \in [1..Cardinality(S) -> Ids]
  <2>1. DOMAIN ids = 1..Cardinality(S) /\ ids = [k \in DOMAIN ids |-> ids[k]]
    BY <1>3
  <2> QED BY <2>1, <1>5
<1> QED BY <1>2, <1>6

(* A function on 1..n is a list of length n; the first element and the     *)
(* rest of a list.                                                         *)
LEMMA FunctionIsSeq ==
  ASSUME NEW S, NEW n \in Nat, NEW f \in [1..n -> S]
  PROVE  f \in Seq(S) /\ DOMAIN f = 1..n
OBVIOUS

LEMMA HeadTail ==
  ASSUME NEW S, NEW s \in Seq(S), s # <<>>
  PROVE  Head(s) \in S /\ Tail(s) \in Seq(S)
OBVIOUS

(* A list in which every rule keeps its id still names none twice.         *)
LEMMA SameIdsUnique ==
  ASSUME NEW list, NEW new, Unique(list), DOMAIN new = DOMAIN list,
         \A i \in DOMAIN list : new[i].id = list[i].id
  PROVE  Unique(new)
BY DEF Unique

(* What the wizard makes of a list names no rule twice either.             *)
LEMMA EditsKeepUnique ==
  ASSUME NEW list \in Seq(Rule), Unique(list)
  PROVE  /\ \A r \in Rule : Unique(Upserted(list, r))
         /\ \A id : Has(list, id) => Unique(Without(list, id))
<1>1. DOMAIN list = 1..Len(list) /\ Len(list) \in Nat
  OBVIOUS
<1>2. ASSUME NEW r \in Rule PROVE Unique(Upserted(list, r))
  <2>1. CASE ~Has(list, r.id)
    <3> DEFINE u == Append(list, r)
    <3>1. Upserted(list, r) = u
      BY <2>1 DEF Upserted
    <3>2. DOMAIN u = 1..(Len(list) + 1) /\ u[Len(list) + 1] = r
          /\ \A i \in 1..Len(list) : u[i] = list[i]
      BY <1>1
    <3>3. \A i \in 1..Len(list) : list[i].id # r.id
      BY <2>1, <1>1 DEF Has
    <3>4. \A i \in 1..(Len(list) + 1) : i \in 1..Len(list) \/ i = Len(list) + 1
      BY <1>1
    <3> HIDE DEF u
    <3>5. \A i, j \in 1..(Len(list) + 1) : u[i].id = u[j].id => i = j
      BY <1>1, <3>2, <3>3, <3>4 DEF Unique
    <3> QED BY <3>1, <3>2, <3>5 DEF Unique
  <2>2. CASE Has(list, r.id)
    <3> DEFINE L1 == [i \in DOMAIN list |-> IF list[i].id = r.id THEN r ELSE list[i]]
    <3>1. Upserted(list, r) = L1
      BY <2>2 DEF Upserted
    <3>2. DOMAIN L1 = DOMAIN list /\ \A i \in DOMAIN list : L1[i].id = list[i].id
      OBVIOUS
    <3> HIDE DEF L1
    <3> QED BY <3>1, <3>2, SameIdsUnique
  <2> QED BY <2>1, <2>2
<1>3. ASSUME NEW id, Has(list, id) PROVE Unique(Without(list, id))
  <2> DEFINE n == CHOOSE i \in DOMAIN list : list[i].id = id
             W == [i \in 1..(Len(list) - 1) |-> IF i < n THEN list[i] ELSE list[i + 1]]
  <2>1. Without(list, id) = W
    BY <1>3 DEF Without
  <2>2. Len(list) \in Nat \ {0} /\ n \in 1..Len(list)
    BY <1>1, <1>3 DEF Has
  <2> DEFINE from(i) == IF i < n THEN i ELSE i + 1
  <2>3. DOMAIN W = 1..(Len(list) - 1) /\ \A i \in 1..(Len(list) - 1) : W[i] = list[from(i)]
    BY Zenon
  <2> HIDE DEF W, n
  <2>4. \A i, j \in 1..(Len(list) - 1) :
           /\ from(i) \in 1..Len(list)
           /\ from(i) = from(j) => i = j
    BY <2>2
  <2> HIDE DEF from
  <2>5. \A i, j \in 1..(Len(list) - 1) : W[i].id = W[j].id => i = j
    BY <1>1, <2>3, <2>4 DEF Unique
  <2> QED BY <2>1, <2>3, <2>5 DEF Unique
<1> QED BY <1>2, <1>3

(* The rules that were saved are named once, and nothing is queued.        *)
LEMMA RulesTypeInit == Init => RulesTypeInv
<1> SUFFICES ASSUME Init PROVE RulesTypeInv
  OBVIOUS
<1>1. file \in Seq(Rule) /\ ran \in [Ids -> 0..Period]
  BY RulesInvInit DEF RulesInv
<1>2. PICK ids \in Saved :
         file = [i \in DOMAIN ids |-> [id |-> ids[i], enabled |-> TRUE,
                                       mode |-> "interval", since |-> Period]]
  BY DEF Init
<1>3. Unique(file)
  BY <1>2, SavedAssumption DEF Unique
<1>4. queue = <<>> /\ toSend = <<>> /\ work = <<>> /\ running = None
  BY DEF Init
<1>5. Len(queue) <= Capacity
  BY <1>4, CapacityAssumption
<1> QED BY <1>1, <1>3, <1>4, <1>5 DEF RulesTypeInv, None

(* A rule is run: only the last run and the history change.                *)
LEMMA ApplyKeepsTypes ==
  ASSUME RulesTypeInv, NEW id \in Ids, NEW by, Apply(id, by)
  PROVE  running'.rule \in Ids \cup {NoRule} /\ ran' \in [Ids -> 0..Period]
<1>1. PICK matched \in BOOLEAN :
         /\ running' = [rule |-> id, by |-> by, matched |-> matched]
         /\ ran' = IF matched THEN [ran EXCEPT ![id] = 0] ELSE ran
  BY DEF Apply
<1>2. 0 \in 0..Period
  BY PeriodAssumption
<1> QED BY <1>1, <1>2 DEF RulesTypeInv

(* Every step keeps the types.                                             *)
LEMMA RulesTypeNext == RulesTypeInv /\ [Next]_vars => RulesTypeInv'
<1> SUFFICES ASSUME RulesTypeInv, [Next]_vars PROVE RulesTypeInv'
  OBVIOUS
<1> USE DEF RulesTypeInv
<1>0. /\ DOMAIN file = 1..Len(file) /\ Len(file) \in Nat
      /\ \A i \in DOMAIN file : file[i] \in Rule
  OBVIOUS
(* The two lists a handler may find on disk.                               *)
<1>a. \A list \in {file, <<>>} : list \in Seq(Rule) /\ Unique(list)
  <2>1. <<>> \in Seq(Rule) /\ Unique(<<>>)
    BY DEF Unique
  <2> QED BY <2>1
<1>1. CASE Tick
  <2>1. /\ file' = [i \in DOMAIN file |-> [file[i] EXCEPT !.since = Older(@)]]
        /\ ran' = [r \in Ids |-> Older(ran[r])]
        /\ UNCHANGED <<queue, toSend, work, running>>
    BY <1>1 DEF Tick
  <2>2. \A n \in 0..Period : Older(n) \in 0..Period
    BY PeriodAssumption DEF Older
  <2>3. \A i \in DOMAIN file : file'[i] \in Rule /\ file'[i].id = file[i].id
    BY <1>0, <2>1, <2>2 DEF Rule
  <2>4. file' \in [1..Len(file) -> Rule]
    BY <1>0, <2>1, <2>3, Zenon
  <2>5. file' \in Seq(Rule) /\ DOMAIN file' = DOMAIN file
    BY <1>0, <2>4, FunctionIsSeq
  <2>6. Unique(file')
    BY <2>3, <2>5, SameIdsUnique
  <2>7. ran' \in [Ids -> 0..Period]
    BY <2>1, <2>2
  <2> QED BY <2>1, <2>5, <2>6, <2>7
<1>2. CASE Scan
  <2>1. PICK list \in {file, <<>>} : toSend' \in IdsAt(list, DuePlaces(list))
    BY <1>2 DEF Scan
  <2>2. DuePlaces(list) \in SUBSET DOMAIN list
    BY DEF DuePlaces
  <2>3. toSend' \in Seq(Ids)
    BY <1>a, <2>1, <2>2, IdsAtFacts
  <2> QED BY <1>2, <2>3 DEF Scan
<1>3. CASE Send
  <2>1. toSend # <<>> /\ UNCHANGED <<file, work, running, ran>>
    BY <1>3 DEF Send
  <2>2. Head(toSend) \in Ids /\ Tail(toSend) \in Seq(Ids)
    BY <2>1
  <2>3. CASE Len(queue) < Capacity
    <3>1. queue' = Append(queue, Head(toSend)) /\ toSend' = Tail(toSend)
      BY <1>3, <2>3 DEF Send
    <3>2. queue' \in Seq(Ids) /\ Len(queue') <= Capacity
      BY <2>2, <2>3, <3>1, CapacityAssumption
    <3> QED BY <2>1, <2>2, <3>1, <3>2
  <2>4. CASE ~(Len(queue) < Capacity)
    BY <1>3, <2>1, <2>4 DEF Send
  <2> QED BY <2>3, <2>4
<1>4. CASE RunScheduled
  <2>1. queue # <<>> /\ queue' = Tail(queue) /\ UNCHANGED <<file, toSend, work>>
    BY <1>4 DEF RunScheduled
  <2>2. Head(queue) \in Ids /\ queue' \in Seq(Ids) /\ Len(queue') <= Capacity
    BY <2>1, CapacityAssumption
  <2>3. Apply(Head(queue), "interval") \/ UNCHANGED <<running, ran>>
    BY <1>4 DEF RunScheduled
  <2>4. running'.rule \in Ids \cup {NoRule} /\ ran' \in [Ids -> 0..Period]
    BY <2>2, <2>3, ApplyKeepsTypes
  <2> QED BY <2>1, <2>2, <2>4
<1>5. CASE RunForEvent
  <2>0. work # <<>> /\ work' = Tail(work) /\ Apply(Head(work), "file change")
    BY <1>5 DEF RunForEvent
  <2>1. Head(work) \in Ids /\ work' \in Seq(Ids)
    BY <2>0, HeadTail
  <2>2. running'.rule \in Ids \cup {NoRule} /\ ran' \in [Ids -> 0..Period]
    BY <2>0, <2>1, ApplyKeepsTypes
  <2> QED BY <1>5, <2>1, <2>2 DEF RunForEvent
<1>6. CASE SaveStats
  <2>1. running' = None /\ UNCHANGED <<queue, toSend, ran>>
    BY <1>6 DEF SaveStats
  <2>2. work' = work \/ work' = <<>>
    BY <1>6 DEF SaveStats
  <2>3. file' = file \/ file' = Stamped(file, running.rule)
    BY <1>6 DEF SaveStats, Saves
  <2>4. file' \in Seq(Rule) /\ Unique(file')
    <3>1. CASE file' = Stamped(file, running.rule)
      <4>0. file' = [i \in DOMAIN file |-> IF file[i].id = running.rule
                                           THEN [file[i] EXCEPT !.since = 0] ELSE file[i]]
        BY <3>1 DEF Stamped
      <4>1. ASSUME NEW i \in DOMAIN file PROVE file'[i] \in Rule /\ file'[i].id = file[i].id
        <5>1. 0 \in 0..Period /\ file[i] \in Rule
          BY <1>0, PeriodAssumption
        <5>2. [file[i] EXCEPT !.since = 0] \in Rule /\ [file[i] EXCEPT !.since = 0].id = file[i].id
          BY <5>1 DEF Rule
        <5> QED BY <4>0, <5>1, <5>2
      <4>2. file' \in [1..Len(file) -> Rule]
        BY <1>0, <4>0, <4>1, Zenon
      <4>3. file' \in Seq(Rule) /\ DOMAIN file' = DOMAIN file
        BY <1>0, <4>2, FunctionIsSeq
      <4> QED BY <4>1, <4>3, SameIdsUnique
    <3>2. CASE file' = file
      BY <3>2
    <3> QED BY <2>3, <3>1, <3>2
  <2>5. running'.rule \in Ids \cup {NoRule} /\ UNCHANGED <<queue, toSend, ran>>
    BY <2>1 DEF None
  <2>6. work' \in Seq(Ids)
    <3>1. <<>> \in Seq(Ids) /\ work \in Seq(Ids)
      OBVIOUS
    <3> QED BY <2>2, <3>1, Zenon
  <2> QED BY <2>4, <2>5, <2>6
<1>7. CASE FileEvent
  <2>1. PICK list \in {file, <<>>} :
           work' \in IdsAt(list, {i \in DOMAIN list : list[i].enabled /\ list[i].mode = "file change"})
    BY <1>7 DEF FileEvent
  <2>2. work' \in Seq(Ids)
    BY <1>a, <2>1, IdsAtFacts
  <2> QED BY <1>7, <2>2 DEF FileEvent
<1>8. ASSUME NEW id \in Ids, RunNow(id) PROVE RulesTypeInv'
  <2>1. running'.rule \in Ids \cup {NoRule} /\ ran' \in [Ids -> 0..Period]
    BY <1>8, ApplyKeepsTypes DEF RunNow
  <2> QED BY <1>8, <2>1 DEF RunNow
<1>9. ASSUME NEW id \in Ids, DeleteRule(id) PROVE RulesTypeInv'
  <2>1. PICK list \in {file, <<>>} : file' = Without(list, id)
    BY <1>9 DEF DeleteRule, Saves
  <2>2. CASE Has(list, id)
    <3>1. file' \in Seq(Rule) /\ Unique(file')
      BY <1>a, <2>1, <2>2, ListFacts, EditsKeepUnique
    <3> QED BY <1>9, <3>1 DEF DeleteRule
  <2>3. CASE ~Has(list, id)
    BY <1>9, <1>a, <2>1, <2>3 DEF DeleteRule, Without
  <2> QED BY <2>2, <2>3
<1>10. ASSUME NEW id \in Ids, NEW enabled \in BOOLEAN, NEW mode \in Modes,
              SaveRule(id, enabled, mode)
       PROVE  RulesTypeInv'
  <2> DEFINE r == [id |-> id, enabled |-> enabled, mode |-> mode, since |-> Period]
  <2>1. r \in Rule
    BY PeriodAssumption DEF Rule
  <2>2. PICK list \in {file, <<>>} : file' = Upserted(list, r)
    BY <1>10 DEF SaveRule, Saves
  <2>3. file' \in Seq(Rule) /\ Unique(file')
    BY <1>a, <2>1, <2>2, ListFacts, EditsKeepUnique
  <2> QED BY <1>10, <2>3 DEF SaveRule
<1>11. CASE Restart
  <2>1. Len(<<>>) <= Capacity
    BY CapacityAssumption
  <2> QED BY <1>11, <2>1 DEF Restart, None
<1>12. CASE UNCHANGED vars
  BY <1>12 DEF vars
<1> QED
  BY <1>1, <1>2, <1>3, <1>4, <1>5, <1>6, <1>7, <1>8, <1>9, <1>10, <1>11, <1>12
  DEF Next, Scheduler, UI, Wizard

(* What the proof carries from step to step implies the type invariant.    *)
LEMMA RulesTypes == RulesTypeInv => TypeOK
<1> SUFFICES ASSUME RulesTypeInv PROVE TypeOK
  OBVIOUS
<1>1. \A S : \A s \in Seq(S) : Rng(s) \subseteq S
  BY DEF Rng
<1>2. Rng(file) \subseteq Rule /\ Rng(queue) \subseteq Ids /\ Rng(toSend) \subseteq Ids
  BY <1>1 DEF RulesTypeInv
<1> QED BY <1>2 DEF RulesTypeInv, TypeOK
-----------------------------------------------------------------------------
(* DesktopPresence.  A queued notification is of a file of the desktop.    *)
Kinds == {"create", "delete", "modify"}

PresenceTypeInv ==
    /\ D!TypeOK
    /\ inbox \in Seq([path: Paths, kind: Kinds])

(* At a start nothing is queued.                                           *)
LEMMA PresenceTypeInit == D!Init => PresenceTypeInv
BY BudgetAssumption DEF D!Init, D!DebouncerInit, PresenceTypeInv, D!TypeOK

(* Every step of the watcher and of the drain keeps the types.             *)
LEMMA PresenceTypeNext == PresenceTypeInv /\ [D!Next]_D!vars => PresenceTypeInv'
<1> SUFFICES ASSUME PresenceTypeInv, [D!Next]_D!vars PROVE PresenceTypeInv'
  OBVIOUS
<1> USE DEF PresenceTypeInv, D!TypeOK
<1>1. ASSUME NEW p \in Paths, NEW kind \in Kinds, D!Change(p, kind) PROVE PresenceTypeInv'
  <2>1. exists' \in [Paths -> BOOLEAN] /\ UNCHANGED <<missing, ui, late>>
    BY <1>1 DEF D!Change
  <2>2. changes' \in 0..Budget
    BY <1>1, BudgetAssumption DEF D!Change
  <2>3. unseen' \subseteq Paths
    BY <1>1 DEF D!Change
  <2>4. inbox' \in Seq([path: Paths, kind: Kinds])
    <3> DEFINE e == [path |-> p, kind |-> kind]
               E == [path: Paths, kind: Kinds]
    <3>1. e \in E /\ inbox \in Seq(E)
      OBVIOUS
    <3>2. inbox' = inbox \/ inbox' = Append(inbox, e)
      BY <1>1 DEF D!Change, D!Notify
    <3> HIDE DEF e, E
    <3>3. inbox' \in Seq(E)
      BY <3>1, <3>2
    <3> QED BY <3>3 DEF E
  <2> QED BY <2>1, <2>2, <2>3, <2>4
<1>2. CASE D!MergeEvent
  <2>1. inbox # <<>> /\ inbox' = Tail(inbox) /\ UNCHANGED <<exists, missing, ui, changes, late>>
    BY <1>2 DEF D!MergeEvent, D!Merge
  <2> DEFINE E == [path: Paths, kind: Kinds]
  <2>2. Head(inbox) \in E /\ inbox' \in Seq(E)
    <3>1. inbox \in Seq(E)
      OBVIOUS
    <3> HIDE DEF E
    <3> QED BY <2>1, <3>1
  <2>3. unseen' = unseen \/ unseen' = unseen \cup {Head(inbox).path}
    BY <1>2 DEF D!MergeEvent
  <2> QED BY <2>1, <2>2, <2>3
<1>3. CASE D!SendEvents
  BY <1>3 DEF D!SendEvents, D!Flush, D!Emit, D!SetOverflowed
<1>4. CASE D!TakeEvent
  <2>1. D!Present(Head(channel)) \in [Paths -> BOOLEAN]
    BY DEF D!Present
  <2> QED BY <1>4, <2>1 DEF D!TakeEvent, D!Receive
<1>5. CASE D!Looks
  BY <1>5 DEF D!Looks, D!FindsEmpty, D!debouncerVars
<1>6. CASE D!TakeFlag
  BY <1>6 DEF D!TakeFlag, D!TakeOverflowed
<1>7. CASE D!Rescan
  BY <1>7 DEF D!Rescan, D!debouncerVars
<1>8. CASE UNCHANGED D!vars
  BY <1>8 DEF D!vars, D!debouncerVars, D!presenceVars
<1> QED BY <1>1, <1>2, <1>3, <1>4, <1>5, <1>6, <1>7, <1>8 DEF D!Next, D!Worker, D!UI, Kinds

(* What the timer drains keeps its types, as the two queues run side by    *)
(* side: rules.json (rules/mod.rs:181) lists no rule twice whatever the    *)
(* wizard saves and deletes, even over a list it could not read; a scan    *)
(* never overfills the queue of due rules.                                 *)
THEOREM EventsKeepTypes == MCSpec => []EventsTypeOK
<1>1. MCInit => RulesTypeInv /\ PresenceTypeInv
  BY RulesTypeInit, PresenceTypeInit DEF MCInit
<1>2. ASSUME RulesTypeInv, PresenceTypeInv, [MCNext]_allVars
      PROVE  RulesTypeInv' /\ PresenceTypeInv'
  <2>1. CASE RulesStep
    <3>1. Next /\ UNCHANGED D!vars
      BY <2>1 DEF RulesStep, desktopVars, debouncerVars, D!vars, D!debouncerVars, D!presenceVars
    <3> QED BY <3>1, <1>2, RulesTypeNext, PresenceTypeNext
  <2>2. CASE DesktopStep
    <3>1. D!Next /\ UNCHANGED vars
      BY <2>2 DEF DesktopStep
    <3> QED BY <3>1, <1>2, RulesTypeNext, PresenceTypeNext
  <2>3. CASE UNCHANGED allVars
    <3>1. UNCHANGED D!vars /\ UNCHANGED vars
      BY <2>3 DEF allVars, desktopVars, debouncerVars, D!vars, D!debouncerVars, D!presenceVars
    <3> QED BY <3>1, <1>2, RulesTypeNext, PresenceTypeNext
  <2> QED BY <1>2, <2>1, <2>2, <2>3 DEF MCNext
<1>3. RulesTypeInv /\ PresenceTypeInv => EventsTypeOK
  BY RulesTypes DEF PresenceTypeInv, EventsTypeOK
<1> QED BY <1>1, <1>2, <1>3, PTL DEF MCSpec

-----------------------------------------------------------------------------
(* LiveFolders.                                                            *)
Folder == Folders \cup {NoFolder}
Zone   == [folder: Folder, shows: [folder: Folder, content: Nat], deleted: BOOLEAN]

ShownIsAccountedFor(z) ==
    \/ zones[z].shows.folder = zones[z].folder
    \/ z \in unread /\ zones[z].folder # NoFolder

ZonesInv ==
    /\ zones \in [Zones -> Zone]
    /\ content \in [Folders -> Nat]
    /\ \A z \in Zones : ShownIsAccountedFor(z)

(* At first no zone has a folder.                                          *)
LEMMA ZonesInvInit == FoldersInit => ZonesInv
<1>1. Plain \in Zone /\ Plain.shows.folder = Plain.folder
  BY DEF Plain, Nothing, Zone, Folder
<1> HIDE DEF Zone
<1> SUFFICES ASSUME FoldersInit PROVE ZonesInv
  OBVIOUS
<1>2. zones = [z \in Zones |-> Plain] /\ content = [f \in Folders |-> 0]
  BY DEF FoldersInit
<1>3. zones \in [Zones -> Zone] /\ content \in [Folders -> Nat]
  BY <1>1, <1>2
<1>4. \A z \in Zones : ShownIsAccountedFor(z)
  BY <1>1, <1>2 DEF ShownIsAccountedFor
<1> QED BY <1>3, <1>4 DEF ZonesInv

(* A refresh, of whatever zone the queue names, that succeeds or has       *)
(* nothing to read.                                                        *)
LEMMA RefreshFacts ==
  ASSUME ZonesInv, NEW z
  PROVE  /\ Refreshed(z) \in [Zones -> Zone]
         /\ \A y \in Zones : Refreshed(z)[y].folder = zones[y].folder
         /\ \A y \in Zones : y # z => Refreshed(z)[y] = zones[y]
         /\ z \in Zones /\ CanRefresh(z)
            => Refreshed(z)[z].shows.folder = zones[z].folder
<1> USE DEF ZonesInv
<1>1. CASE CanRefresh(z) /\ z \in Zones
  <2> DEFINE f == zones[z].folder
             m == [zones[z] EXCEPT !.shows = Mirror(f)]
  <2>1. f \in Folders
    BY <1>1 DEF CanRefresh, Zone, Folder
  <2>2. Mirror(f) \in [folder: Folder, content: Nat] /\ Mirror(f).folder = f
    BY <2>1 DEF Mirror, Folder
  <2>3. m \in Zone /\ m.shows.folder = f /\ m.folder = f
    BY <1>1, <2>2 DEF Zone
  <2>4. Refreshed(z) = [zones EXCEPT ![z] = m]
    BY <1>1 DEF Refreshed
  <2> HIDE DEF m
  <2> QED BY <1>1, <2>3, <2>4
<1>2. CASE CanRefresh(z) /\ z \notin Zones
  BY <1>2 DEF Refreshed
<1>3. CASE ~CanRefresh(z)
  BY <1>3 DEF Refreshed
<1> QED BY <1>1, <1>2, <1>3

(* A refresh as it may go: only a zone that was read is taken from unread. *)
LEMMA RefreshKeepsZonesInv ==
  ASSUME ZonesInv, NEW z, Refresh(z), UNCHANGED content
  PROVE  ZonesInv'
<1>1. CASE CanRefresh(z) /\ zones' = Refreshed(z) /\ unread' = unread \ {z}
  <2>1. zones' \in [Zones -> Zone] /\ content' \in [Folders -> Nat]
    BY <1>1, RefreshFacts DEF ZonesInv
  <2>3. /\ \A y \in Zones : Refreshed(z)[y].folder = zones[y].folder
        /\ \A y \in Zones : y # z => Refreshed(z)[y] = zones[y]
        /\ z \in Zones => Refreshed(z)[z].shows.folder = zones[z].folder
    BY <1>1, RefreshFacts, Zenon
  <2> HIDE DEF Refreshed
  <2>2. ASSUME NEW y \in Zones PROVE ShownIsAccountedFor(y)'
    <3>1. CASE y = z
      <4>1. zones'[y].folder = zones[y].folder /\ zones'[y].shows.folder = zones[y].folder
        BY <1>1, <2>3, <3>1, Zenon
      <4> QED BY <4>1 DEF ShownIsAccountedFor
    <3>2. CASE y # z
      <4>1. zones'[y] = zones[y] /\ (y \in unread => y \in unread')
        BY <1>1, <2>3, <3>2
      <4> QED BY <4>1 DEF ShownIsAccountedFor, ZonesInv
    <3> QED BY <3>1, <3>2
  <2> QED BY <2>1, <2>2 DEF ZonesInv
<1>2. CASE UNCHANGED <<zones, unread>>
  BY <1>2 DEF ZonesInv, ShownIsAccountedFor
<1>3. CASE ~CanRefresh(z) /\ zones' = Refreshed(z) /\ UNCHANGED unread
  <2>1. zones' = zones
    BY <1>3 DEF Refreshed
  <2> QED BY <1>3, <2>1 DEF ZonesInv, ShownIsAccountedFor
<1> QED BY <1>1, <1>2, <1>3 DEF Refresh

(* A command that gives one zone another record, and says so if what it    *)
(* shows is not its folder's.                                              *)
LEMMA ReplaceFacts ==
  ASSUME ZonesInv, NEW z, NEW r \in Zone, UNCHANGED content,
         zones' = [zones EXCEPT ![z] = r],
         unread \ {z} \subseteq unread',
         r.shows.folder = r.folder \/ (z \in unread' /\ r.folder # NoFolder)
  PROVE  ZonesInv'
<1>1. zones' \in [Zones -> Zone] /\ content' \in [Folders -> Nat]
  BY DEF ZonesInv
<1>2. ASSUME NEW y \in Zones PROVE ShownIsAccountedFor(y)'
  <2>1. CASE y = z
    BY <2>1 DEF ZonesInv, ShownIsAccountedFor
  <2>2. CASE y # z
    <3>1. zones'[y] = zones[y] /\ (y \in unread => y \in unread')
      BY <2>2 DEF ZonesInv
    <3> QED BY <3>1 DEF ShownIsAccountedFor, ZonesInv
  <2> QED BY <2>1, <2>2
<1> QED BY <1>1, <1>2 DEF ZonesInv

(* Every step of the watcher, the drain and the commands keeps each zone   *)
(* with its folder.                                                        *)
LEMMA ZonesInvNext == ZonesInv /\ [FoldersNext]_liveVars => ZonesInv'
<1> SUFFICES ASSUME ZonesInv, [FoldersNext]_liveVars PROVE ZonesInv'
  OBVIOUS
<1>1. ASSUME UNCHANGED <<zones, content, unread>> PROVE ZonesInv'
  BY <1>1 DEF ZonesInv, ShownIsAccountedFor
<1>2. ASSUME NEW f, content' = [content EXCEPT ![f] = @ + 1], UNCHANGED <<zones, unread>>
      PROVE  ZonesInv'
  <2>1. content \in [Folders -> Nat]
    BY DEF ZonesInv
  <2>2. content' \in [Folders -> Nat]
    <3>1. CASE f \in Folders
      BY <1>2, <2>1, <3>1
    <3>2. CASE f \notin Folders
      BY <1>2, <2>1, <3>2
    <3> QED BY <3>1, <3>2
  <2> QED BY <1>2, <2>2 DEF ZonesInv, ShownIsAccountedFor
<1>3. ASSUME NEW p \in Paths, Change(p) PROVE ZonesInv'
  BY <1>3, <1>2, Zenon DEF Change
<1>4. ASSUME NEW f \in Folders, FolderGoes(f) \/ FolderReturns(f) PROVE ZonesInv'
  BY <1>4, <1>1, <1>2 DEF FolderGoes, FolderReturns
<1>5. CASE Worker
  BY <1>5, <1>1 DEF Worker, Dispatch, folderVars
<1>6. CASE Looks \/ TakeFlag \/ DrainEnds
  BY <1>6, <1>1 DEF Looks, TakeFlag, DrainEnds, unchangedByPump
<1>7. CASE TakeEvent
  BY <1>7, RefreshKeepsZonesInv DEF TakeEvent, unchangedByPump
<1>8. ASSUME NEW z \in Zones, Rescan(z) \/ RefreshZone(z) PROVE ZonesInv'
  BY <1>8, RefreshKeepsZonesInv DEF Rescan, RefreshZone, unchangedByPump
<1>9. ASSUME NEW z \in Zones, NEW f \in Folders, Bind(z, f) PROVE ZonesInv'
  <2>1. zones[z] \in Zone /\ Mirror(f) \in [folder: Folder, content: Nat] /\ f \in Folder
        /\ UNCHANGED content
    BY <1>9 DEF Bind, Mirror, Folder, ZonesInv
  <2>2. CASE zones' = [zones EXCEPT ![z].folder = f, ![z].shows = Mirror(f)]
             /\ unread' = unread \ {z}
    <3> DEFINE r == [zones[z] EXCEPT !.folder = f, !.shows = Mirror(f)]
    <3>1. zones' = [zones EXCEPT ![z] = r]
      BY <2>2 DEF ZonesInv
    <3>2. r \in Zone /\ r.folder = f /\ r.shows = Mirror(f)
      BY <2>1 DEF Zone
    <3>3. Mirror(f).folder = f /\ unread \ {z} \subseteq unread'
      BY <2>2 DEF Mirror
    <3> HIDE DEF r
    <3> QED BY <2>1, <3>1, <3>2, <3>3, ReplaceFacts
  <2>3. CASE /\ zones' = [zones EXCEPT ![z].folder = f, ![z].shows = Left(@, f)]
             /\ unread' = IF zones[z].shows.folder = f THEN unread \ {z} ELSE unread \cup {z}
    <3> DEFINE shown == Left(zones[z].shows, f)
               r     == [zones[z] EXCEPT !.folder = f, !.shows = shown]
    <3>1. zones' = [zones EXCEPT ![z] = r]
      BY <2>3 DEF ZonesInv
    <3>2. shown \in [folder: Folder, content: Nat] /\ shown.folder = zones[z].shows.folder
      BY <2>1 DEF Left, Zone
    <3>3. r \in Zone /\ r.folder = f /\ r.shows.folder = zones[z].shows.folder
      BY <2>1, <3>2 DEF Zone
    <3>4. unread \ {z} \subseteq unread'
      BY <2>3
    <3>5. r.shows.folder = r.folder \/ (z \in unread' /\ r.folder # NoFolder)
      BY <2>3, <3>3, FoldersAssumption
    <3> HIDE DEF r
    <3> QED BY <2>1, <3>1, <3>3, <3>4, <3>5, ReplaceFacts
  <2> QED BY <1>9, <2>2, <2>3 DEF Bind
<1>10. ASSUME NEW z \in Zones, NEW f \in Folder, NEW shown \in Folder,
              ApplyCheckpoint(z, f, shown)
       PROVE  ZonesInv'
  <2> DEFINE r == [zones[z] EXCEPT !.folder = f, !.shows = [folder |-> shown, content |-> 0]]
  <2>1. zones' = [zones EXCEPT ![z] = r] /\ UNCHANGED content
    BY <1>10 DEF ApplyCheckpoint, ZonesInv, unchangedByPump
  <2>2. zones[z] \in Zone
    BY DEF ZonesInv
  <2>3. r \in Zone /\ r.shows.folder = shown /\ r.folder = f
    BY <2>2 DEF Zone
  <2>4. shown = f \/ f # NoFolder
    BY <1>10, FoldersAssumption DEF ApplyCheckpoint
  <2>5. unread' = IF shown = f THEN unread \ {z} ELSE unread \cup {z}
    BY <1>10 DEF ApplyCheckpoint
  <2>6. unread \ {z} \subseteq unread' /\ (shown # f => z \in unread')
    BY <2>5
  <2> HIDE DEF r
  <2> QED BY <2>1, <2>3, <2>4, <2>6, ReplaceFacts
<1>11. ASSUME NEW z \in Zones, Unbind(z) \/ DeleteZone(z) PROVE ZonesInv'
  <2>1. Plain \in Zone /\ [Plain EXCEPT !.deleted = TRUE] \in Zone
    BY DEF Plain, Nothing, Zone, Folder
  <2>2. Plain.shows.folder = Plain.folder
        /\ [Plain EXCEPT !.deleted = TRUE].shows.folder = [Plain EXCEPT !.deleted = TRUE].folder
    BY DEF Plain, Nothing
  <2>3. CASE Unbind(z)
    BY <2>3, <2>1, <2>2, ReplaceFacts DEF Unbind
  <2>4. CASE DeleteZone(z)
    BY <2>4, <2>1, <2>2, ReplaceFacts DEF DeleteZone, unchangedByPump
  <2> QED BY <1>11, <2>3, <2>4
<1>12. CASE Rehydrate
  <2>1. PICK failed \in SUBSET {z \in Zones : CanRefresh(z) /\ Behind(z, zones[z].folder)} :
           /\ zones' = [z \in Zones |-> IF z \in failed THEN zones[z] ELSE Refreshed(z)[z]]
           /\ unread' = {z \in unread : CanRefresh(z) => z \in failed}
    BY <1>12 DEF Rehydrate, Reread
  <2>2. UNCHANGED content
    BY <1>12 DEF Rehydrate, Reread
  <2>3. ASSUME NEW z \in Zones PROVE zones'[z] \in Zone /\ ShownIsAccountedFor(z)'
    <3>1. zones[z] \in Zone /\ ShownIsAccountedFor(z)
      BY DEF ZonesInv
    <3>2. CASE z \in failed \/ ~CanRefresh(z)
      <4>1. zones'[z] = zones[z] /\ (z \in unread => z \in unread')
        <5>1. CASE z \in failed
          BY <2>1, <5>1
        <5>2. CASE z \notin failed /\ ~CanRefresh(z)
          BY <2>1, <5>2 DEF Refreshed
        <5> QED BY <3>2, <5>1, <5>2
      <4> QED BY <3>1, <4>1 DEF ShownIsAccountedFor
    <3>3. CASE z \notin failed /\ CanRefresh(z)
      <4>1. zones'[z] = Refreshed(z)[z]
        BY <2>1, <3>3
      <4>2. /\ Refreshed(z) \in [Zones -> Zone]
            /\ Refreshed(z)[z].shows.folder = zones[z].folder
            /\ Refreshed(z)[z].folder = zones[z].folder
        BY <3>3, RefreshFacts, Zenon
      <4> QED BY <4>1, <4>2 DEF ShownIsAccountedFor
    <3> QED BY <3>2, <3>3
  <2>4. zones' \in [Zones -> Zone] /\ content' \in [Folders -> Nat]
    BY <2>1, <2>2, <2>3 DEF ZonesInv
  <2> QED BY <2>3, <2>4 DEF ZonesInv
<1>13. CASE UNCHANGED liveVars
  BY <1>13, <1>1 DEF liveVars, folderVars
<1> QED
  BY <1>3, <1>4, <1>5, <1>6, <1>7, <1>8, <1>9, <1>10, <1>11, <1>12, <1>13
  DEF FoldersNext, Drain, Commands, Folder

(* live_folders.rs:107: a refresh looks the zone and its folder up when it *)
(* is taken, so one that was queued for an earlier binding shows nothing   *)
(* that is not the zone's; live_folders.rs:454: a bind whose read fails,   *)
(* or a checkpoint of what such a bind left, is the only way for a zone to *)
(* have one folder and show the items of another, and a zone without a     *)
(* folder never does.                                                      *)
THEOREM ZonesShowTheirFolders == FoldersSpec => []ShowsOwnFolder
<1>1. ZonesInv => ShowsOwnFolder
  BY DEF ZonesInv, ShownIsAccountedFor, ShowsOwnFolder
<1> QED BY <1>1, ZonesInvInit, ZonesInvNext, PTL DEF FoldersSpec
================================================================================
