------------------------ MODULE CronScheduler_proofs ------------------------
(***************************************************************************)
(* Proofs about the cron scheduler, for any number of jobs and any values  *)
(* of the limits.                                                          *)
(*                                                                         *)
(* An occurrence is fired once (OncePerOccurrence) and the timer is never  *)
(* set past a due row (SleepsPrecisely) if there is one scheduler: with    *)
(* two of them the run CronScheduler_duplicate fires one occurrence twice. *)
(* A fault or a crash may repeat a firing, and Paid says how each          *)
(* repetition is paid for: the row a scheduler still has to reschedule, or *)
(* an edit that writes an old row back, is a firing that may come again,   *)
(* and there are never more of those than failures.                        *)
(*                                                                         *)
(* That two replicas do not work on one job at a time (LockExcludes) needs *)
(* a bus that has room, so that a firing takes no longer than a lock       *)
(* lasts, and no toggle, which may save a row deleted meanwhile anew,      *)
(* unlocked.                                                               *)
(***************************************************************************)
EXTENDS CronScheduler, FiniteSetTheorems, WellFoundedInduction, TLAPS

\* One replica runs the scheduler.
OneScheduler == \A i, k \in Instances : i = k

WorkPC == {"check", "miss", "drop", "send", "update"}
CronPC == {"poll", "list", "sleep", "down"} \cup WorkPC
Item == [job : Jobs, run : Occurrences]

\* What the steps need of the types.
TableTypes ==
    /\ exists \in [Jobs -> BOOLEAN]
    /\ row \in [Jobs -> RowType]
    /\ lock \in [Jobs -> {Unlocked} \cup 0..(LockTTL + 1)]
    /\ failures \in [Jobs -> Nat]

SchedTypes ==
    /\ pc \in [Instances -> CronPC]
    /\ todo \in [Instances -> SUBSET Item]
    /\ cur \in [Instances -> Item \cup {NoItem}]
    /\ age \in [Instances -> 0..Period]
    /\ sleep \in [Instances -> {Never} \cup 0..(Period + IdleSleep)]

OtherTypes ==
    /\ notify \in [Instances -> BOOLEAN]
    /\ bus \in [Instances -> 0..Capacity]
    /\ reachable \in [Instances -> BOOLEAN]
    /\ edit \in [job : Jobs, row : RowType] \cup {NoEdit}
    /\ saved \in SUBSET Jobs
    /\ used \in [Jobs -> 0..MaxRuns]
    /\ fired \in [Jobs \X Occurrences -> Nat]
    /\ crashes \in 0..MaxCrashes /\ faults \in 0..MaxFaults /\ toggles \in 0..MaxToggles

\* A scheduler has a job in hand exactly between its lock and its rescheduling,
\* and a list only while it works it off.
InHand ==
    \A i \in Instances : /\ pc[i] \in WorkPC <=> cur[i] # NoItem
                         /\ pc[i] \in {"poll", "sleep", "down"} => todo[i] = {}

CronTypes == TableTypes /\ SchedTypes /\ OtherTypes /\ InHand

\* An occurrence is handed out before it is listed, edited or fired.
ItemsOut ==
    \A i \in Instances : /\ \A item \in todo[i] : item.run <= used[item.job]
                         /\ cur[i] # NoItem => cur[i].run <= used[cur[i].job]
RowsOut == \A j \in Jobs : row[j].wait # Never => row[j].run <= used[j]
EditOut == edit # NoEdit => used[edit.job] # 0 /\ toggles # 0
                            /\ (edit.row.wait # Never => edit.row.run <= used[edit.job])
NotMade == \A j \in Jobs : used[j] = 0 => ~exists[j] /\ failures[j] = 0
NotFired == \A j \in Jobs, n \in Occurrences : n > used[j] => fired[<<j, n>>] = 0

HandedOut == ItemsOut /\ RowsOut /\ EditOut /\ NotMade /\ NotFired

\* The only scheduler has each job once in its list or its hand.
ListedOnce ==
    \A i \in Instances :
        /\ \A a, b \in todo[i] : a.job = b.job => a = b
        /\ \A a \in todo[i] : a.job # cur[i].job

\* Occurrence n of j may yet be fired: it is in the list, in the hand, or the
\* row's, unless the scheduler is about to replace that.
BeingReplaced(j) == \E i \in Instances : pc[i] = "update" /\ cur[i].job = j
Pending(j, n) ==
    \/ exists[j] /\ row[j].run = n /\ ~BeingReplaced(j)
    \/ \E i \in Instances : \E item \in todo[i] : item.job = j /\ item.run = n
    \/ \E i \in Instances : pc[i] # "update" /\ cur[i].job = j /\ cur[i].run = n

\* The dashboard may bring it back.
Edited(j, n) == edit # NoEdit /\ edit.job = j /\ edit.row.run = n

Total == 1 + crashes + faults + toggles

\* What has gone wrong pays for what was fired and for what may yet be.
PaidFor(j, n) ==
    /\ fired[<<j, n>>] <= Total
    /\ Pending(j, n) \/ Edited(j, n) => fired[<<j, n>>] + 1 <= Total
    /\ Pending(j, n) /\ Edited(j, n) => fired[<<j, n>>] + 2 <= Total

Paid == \A j \in Jobs, n \in Occurrences : PaidFor(j, n)

\* A job misses a third time once for each scheduler that is about to drop it,
\* and for each that crashed or could not.
Droppers(j) == {i \in Instances : pc[i] = "drop" /\ cur[i].job = j}
Few(j) ==
    /\ failures[j] < cronMaxConsecutiveFailures + Cardinality(Instances) + crashes + faults
    /\ exists[j] => failures[j] < cronMaxConsecutiveFailures + Cardinality(Droppers(j))
                                    + crashes + faults
FewMisses == \A j \in Jobs : Few(j)

\* With room on the bus nothing takes time while a job is in hand.
BusHasRoom == \A i \in Instances : pc[i] = "send" => Room(i)
LockHeld == \A i \in Instances : cur[i] # NoItem /\ pc[i] # "drop" => lock[cur[i].job] = 0
-----------------------------------------------------------------------------
LEMMA CronBounds ==
    /\ Period \in Nat \ {0} /\ IdleSleep \in Nat \ {0} /\ LockTTL \in Nat \ {0}
    /\ Capacity \in Nat \ {0} /\ MaxRuns \in Nat \ {0}
    /\ MaxCrashes \in Nat /\ MaxFaults \in Nat /\ MaxToggles \in Nat
    /\ NoJob \notin Jobs /\ OnceJobs \subseteq Jobs
  BY CronAssumption DEF CronAssumption

LEMMA ItemFacts ==
    /\ NoItem \notin Item /\ NoItem.job = NoJob
    /\ \A item \in Item : item.job \in Jobs /\ item.run \in Occurrences /\ item # NoItem
    /\ \A e \in [job : Jobs, row : RowType] : e # NoEdit /\ e.job \in Jobs /\ e.row \in RowType
    /\ \A r \in RowType : r.enabled \in BOOLEAN /\ r.run \in Occurrences /\ r.wait \in Waiting
    /\ NoRow \in RowType
  BY CronBounds DEF NoItem, Item, NoEdit, RowType, NoRow, Waiting, Never, Occurrences

LEMMA RowTyped ==
  ASSUME TableTypes, OtherTypes, NEW j \in Jobs, NEW elapsed \in 0..Period
  PROVE  /\ NextRun(j, elapsed) \in RowType
         /\ NextRun(j, elapsed).wait # Never
               => NextRun(j, elapsed).run = used[j] + 1 /\ used[j] < MaxRuns
         /\ NextRun(j, elapsed).run > used[j]
         /\ NextRun(j, elapsed).enabled = row[j].enabled
  <1>1. row[j].enabled \in BOOLEAN /\ used[j] \in 0..MaxRuns
    BY ItemFacts DEF TableTypes, OtherTypes
  <1>2. CASE j \in OnceJobs \/ used[j] >= MaxRuns
    BY <1>1, <1>2, CronBounds DEF NextRun, RowType, Waiting, Occurrences, Never
  <1>3. CASE ~(j \in OnceJobs \/ used[j] >= MaxRuns)
    <2>1. Period - elapsed \in 0..Period /\ used[j] + 1 \in Occurrences /\ used[j] < MaxRuns
      BY <1>1, <1>3, CronBounds DEF Occurrences
    <2> QED
      BY <1>1, <1>3, <2>1 DEF NextRun, RowType, Waiting
  <1> QED
    BY <1>2, <1>3

LEMMA Counted ==
  ASSUME NEW S, NEW f \in [S -> Nat], NEW o \in S
  PROVE  [f EXCEPT ![o] = @ + 1] \in [S -> Nat]
  OBVIOUS

LEMMA CronInitial ==
  ASSUME Init
  PROVE  CronTypes
  <1>1. TableTypes
    BY ItemFacts, CronBounds DEF Init, TableTypes, Unlocked
  <1>2. SchedTypes
    BY CronBounds DEF Init, SchedTypes, CronPC
  <1>3. OtherTypes
    BY CronBounds DEF Init, OtherTypes
  <1>4. InHand
    BY DEF Init, InHand, WorkPC
  <1> QED
    BY <1>1, <1>2, <1>3, <1>4 DEF CronTypes

\* What each of the scheduler's steps does, with what it has in hand typed.
LEMMA CronListed ==
  ASSUME CronTypes, NEW i \in Instances, GetDueCronJobs(i)
  PROVE  CronTypes'
  <1> DEFINE due == {[job |-> j, run |-> row[j].run] : j \in {k \in Jobs : Due(k)}}
  <1>1. due \in SUBSET Item
    BY ItemFacts DEF CronTypes, TableTypes, Item
  <1> HIDE DEF due
  <1>2. /\ pc[i] = "poll" /\ pc' = [pc EXCEPT ![i] = "list"]
        /\ todo' = [todo EXCEPT ![i] = due] \/ todo' = todo
        /\ age' = [age EXCEPT ![i] = 0]
        /\ faults' \in 0..MaxFaults
        /\ UNCHANGED <<tableVars, cur, sleep, notify, bus, envVars, used, fired,
                       crashes, toggles, outages>>
    BY CronBounds DEF GetDueCronJobs, GoTo, Fault, due, CronTypes, OtherTypes
  <1>3. TableTypes' /\ OtherTypes'
    BY <1>2 DEF CronTypes, TableTypes, OtherTypes, tableVars, envVars
  <1>4. SchedTypes'
    BY <1>1, <1>2, CronBounds DEF CronTypes, SchedTypes, CronPC
  <1>5. InHand'
    BY <1>2 DEF CronTypes, SchedTypes, InHand, WorkPC
  <1> QED
    BY <1>3, <1>4, <1>5 DEF CronTypes

LEMMA CronLocked ==
  ASSUME CronTypes, NEW i \in Instances, LockCronJob(i)
  PROVE  CronTypes'
  <1>1. PICK item \in todo[i] :
            /\ pc[i] = "list" /\ todo' = [todo EXCEPT ![i] = @ \ {item}]
            /\ lock' = lock \/ lock' = [lock EXCEPT ![item.job] = 0]
            /\ \/ /\ cur' = [cur EXCEPT ![i] = item] /\ pc' = [pc EXCEPT ![i] = "check"]
               \/ UNCHANGED <<cur, pc>>
            /\ faults' = faults \/ Fault
            /\ UNCHANGED <<exists, row, failures, age, sleep, notify, bus, envVars, used,
                           fired, crashes, toggles, outages>>
    BY DEF LockCronJob, GoTo
  <1>2. item \in Item
    BY DEF CronTypes, SchedTypes
  <1>3. TableTypes'
    BY <1>1, <1>2, ItemFacts, CronBounds DEF CronTypes, TableTypes
  <1>4. OtherTypes'
    BY <1>1, CronBounds DEF CronTypes, OtherTypes, envVars, Fault
  <1>5. SchedTypes'
    BY <1>1, <1>2 DEF CronTypes, SchedTypes, CronPC, WorkPC
  <1>6. InHand'
    BY <1>1, <1>2, ItemFacts DEF CronTypes, SchedTypes, InHand, WorkPC
  <1> QED
    BY <1>3, <1>4, <1>5, <1>6 DEF CronTypes

\* The job in hand is one, and its row.
LEMMA HandFacts ==
  ASSUME CronTypes, NEW i \in Instances, pc[i] \in WorkPC
  PROVE  cur[i] \in Item /\ cur[i].job \in Jobs /\ cur[i].run \in Occurrences /\ cur[i] # NoItem
  BY ItemFacts DEF CronTypes, SchedTypes, InHand

\* A step that ends with the job in hand put down, or goes on with it.
LEMMA HandMoves ==
  ASSUME SchedTypes, InHand, NEW i \in Instances, pc[i] \in WorkPC,
         UNCHANGED <<todo, age, sleep>>,
         \/ pc' = [pc EXCEPT ![i] = "list"] /\ cur' = [cur EXCEPT ![i] = NoItem]
         \/ \E where \in WorkPC : pc' = [pc EXCEPT ![i] = where] /\ cur' = cur
  PROVE  SchedTypes' /\ InHand'
  <1>1. SchedTypes'
    BY DEF SchedTypes, CronPC
  <1>2. InHand'
    BY DEF SchedTypes, InHand, WorkPC
  <1> QED
    BY <1>1, <1>2

LEMMA CronWorks ==
  ASSUME CronTypes, NEW i \in Instances,
         CheckChannel(i) \/ IncrementCronJobFailure(i) \/ DropJob(i) \/ Fire(i)
  PROVE  CronTypes'
  <1>1. CASE CheckChannel(i)
    <2>1. /\ pc[i] = "check" /\ pc' = [pc EXCEPT ![i] = IF reachable[i] THEN "send" ELSE "miss"]
          /\ UNCHANGED <<tableVars, todo, cur, age, sleep, notify, bus, envVars, used,
                         fired, bounds>>
      BY <1>1 DEF CheckChannel, GoTo
    <2>2. SchedTypes' /\ InHand'
      BY <2>1, HandMoves DEF CronTypes, WorkPC
    <2> QED
      BY <2>1, <2>2 DEF CronTypes, TableTypes, OtherTypes, tableVars, envVars, bounds
  <1>2. CASE IncrementCronJobFailure(i)
    <2> DEFINE j == cur[i].job
    <2>1. /\ pc[i] = "miss"
          /\ \/ failures' = failures /\ lock' = lock
             \/ /\ failures' = [failures EXCEPT ![j] = @ + 1]
                /\ lock' = [lock EXCEPT ![j] = Unlocked]
          /\ \/ pc' = [pc EXCEPT ![i] = "list"] /\ cur' = [cur EXCEPT ![i] = NoItem]
             \/ pc' = [pc EXCEPT ![i] = "drop"] /\ cur' = cur
          /\ faults' \in 0..MaxFaults
          /\ UNCHANGED <<exists, row, todo, age, sleep, notify, bus, envVars, used,
                         fired, crashes, toggles, outages>>
      BY <1>2, CronBounds
         DEF IncrementCronJobFailure, Miss, GoTo, Fault, CronTypes, SchedTypes, OtherTypes
    <2>2. SchedTypes' /\ InHand'
      BY <2>1, HandMoves DEF CronTypes, WorkPC
    <2>3. j \in Jobs
      BY <2>1, HandFacts DEF WorkPC
    <2> HIDE DEF j
    <2>4. TableTypes'
      BY <2>1, <2>3 DEF CronTypes, TableTypes
    <2> QED
      BY <2>1, <2>2, <2>4 DEF CronTypes, OtherTypes, envVars
  <1>3. CASE DropJob(i)
    <2>1. /\ pc[i] = "drop"
          /\ exists' = exists \/ exists' = [exists EXCEPT ![cur[i].job] = FALSE]
          /\ pc' = [pc EXCEPT ![i] = "list"] /\ cur' = [cur EXCEPT ![i] = NoItem]
          /\ faults' \in 0..MaxFaults
          /\ UNCHANGED <<row, lock, failures, todo, age, sleep, notify, bus, envVars, used,
                         fired, crashes, toggles, outages>>
      BY <1>3, CronBounds DEF DropJob, Delete, GoTo, Fault, CronTypes, OtherTypes
    <2>2. SchedTypes' /\ InHand'
      BY <2>1, HandMoves DEF CronTypes, WorkPC
    <2> QED
      BY <2>1, <2>2 DEF CronTypes, TableTypes, OtherTypes, envVars
  <1>4. CASE Fire(i)
    <2>1. /\ pc[i] = "send" /\ pc' = [pc EXCEPT ![i] = "update"]
          /\ bus[i] < Capacity /\ bus' = [bus EXCEPT ![i] = @ + 1]
          /\ fired' = [fired EXCEPT ![<<cur[i].job, cur[i].run>>] = @ + 1]
          /\ UNCHANGED <<tableVars, todo, cur, age, sleep, notify, envVars, used, bounds>>
      BY <1>4 DEF Fire, GoTo, Room
    <2>2. SchedTypes' /\ InHand'
      BY <2>1, HandMoves DEF CronTypes, WorkPC
    <2>3. bus' \in [Instances -> 0..Capacity]
      BY <2>1, CronBounds DEF CronTypes, OtherTypes
    <2>4. <<cur[i].job, cur[i].run>> \in Jobs \X Occurrences
      BY <2>1, HandFacts DEF WorkPC
    <2>5. fired' \in [Jobs \X Occurrences -> Nat]
      <3> DEFINE S == Jobs \X Occurrences
                 o == <<cur[i].job, cur[i].run>>
      <3>1. o \in S /\ fired \in [S -> Nat] /\ fired' = [fired EXCEPT ![o] = @ + 1]
        BY <2>1, <2>4 DEF CronTypes, OtherTypes
      <3> HIDE DEF S, o
      <3>2. fired' \in [S -> Nat]
        BY <3>1, Counted
      <3> QED
        BY <3>2 DEF S
    <2> QED
      BY <2>1, <2>2, <2>3, <2>5 DEF CronTypes, TableTypes, OtherTypes, tableVars, envVars, bounds
  <1> QED
    BY <1>1, <1>2, <1>3, <1>4

LEMMA CronReschedules ==
  ASSUME CronTypes, NEW i \in Instances, Reschedule(i)
  PROVE  CronTypes'
  <1> DEFINE j == cur[i].job
             next == NextRun(cur[i].job, age[i])
  <1>0. j \in Jobs /\ pc[i] = "update"
    BY HandFacts DEF Reschedule, WorkPC
  <1>1. /\ pc[i] = "update" /\ pc' = [pc EXCEPT ![i] = "list"]
        /\ cur' = [cur EXCEPT ![i] = NoItem]
        /\ exists' = exists \/ exists' = [exists EXCEPT ![j] = FALSE]
        /\ row' = row \/ row' = [row EXCEPT ![j] = next]
        /\ used' = used \/ (next.wait # Never /\ used' = [used EXCEPT ![j] = @ + 1])
        /\ lock' = lock \/ lock' = [lock EXCEPT ![j] = Unlocked]
        /\ failures' = failures \/ failures' = [failures EXCEPT ![j] = 0]
        /\ faults' = faults \/ Fault
        /\ UNCHANGED <<todo, age, sleep, notify, bus, envVars, fired, crashes,
                       toggles, outages>>
    <2>1. ASSUME UpdateCronJobRun(j, i)
          PROVE  /\ row' = row \/ row' = [row EXCEPT ![j] = next]
                 /\ used' = used \/ (next.wait # Never /\ used' = [used EXCEPT ![j] = @ + 1])
                 /\ lock' = [lock EXCEPT ![j] = Unlocked]
                 /\ failures' = [failures EXCEPT ![j] = 0]
      BY <2>1, <1>0 DEF UpdateCronJobRun, CronTypes, TableTypes, OtherTypes
    <2> HIDE DEF next
    <2> QED
      BY <2>1 DEF Reschedule, Delete, GoTo, tableVars
  <1>2. SchedTypes' /\ InHand'
    BY <1>1, HandMoves DEF CronTypes, WorkPC
  <1>3. j \in Jobs
    BY <1>1, HandFacts DEF WorkPC
  <1>4. /\ next \in RowType
        /\ next.wait # Never => next.run = used[j] + 1 /\ used[j] < MaxRuns
    BY <1>3, RowTyped DEF CronTypes, SchedTypes
  <1> HIDE DEF j, next
  <1>5. TableTypes'
    <2>1. exists' \in [Jobs -> BOOLEAN] /\ row' \in [Jobs -> RowType]
      <3>1. exists' = exists \/ exists' = [exists EXCEPT ![j] = FALSE]
        BY <1>1
      <3>2. row' = row \/ row' = [row EXCEPT ![j] = next]
        BY <1>1
      <3>3. exists \in [Jobs -> BOOLEAN] /\ row \in [Jobs -> RowType]
        BY DEF CronTypes, TableTypes
      <3>4. exists' \in [Jobs -> BOOLEAN]
        BY <3>1, <3>3
      <3>5. row' \in [Jobs -> RowType]
        BY <1>4, <3>2, <3>3
      <3> QED
        BY <3>4, <3>5
    <2>2. lock' \in [Jobs -> {Unlocked} \cup 0..(LockTTL + 1)] /\ failures' \in [Jobs -> Nat]
      BY <1>1 DEF CronTypes, TableTypes
    <2> QED
      BY <2>1, <2>2 DEF TableTypes
  <1>6. used' \in [Jobs -> 0..MaxRuns] /\ faults' \in 0..MaxFaults
    BY <1>1, <1>3, <1>4, CronBounds DEF CronTypes, OtherTypes, Fault
  <1> QED
    BY <1>1, <1>2, <1>5, <1>6 DEF CronTypes, OtherTypes, envVars

\* The least of the times to go is one of them.
LEMMA LeastExists ==
  ASSUME NEW S \in SUBSET Nat, S # {}
  PROVE  \E w \in S : \A v \in S : w <= v
  <1> DEFINE R == OpToRel(<, Nat)
  <1>1. \E w \in S : \A v \in S : ~(<<v, w>> \in R)
    BY NatLessThanWellFounded, WFMin, Zenon
  <1>2. \A v, w \in Nat : v < w => <<v, w>> \in R
    BY SMT DEF OpToRel
  <1> HIDE DEF R
  <1>3. PICK w \in S : \A v \in S : ~(<<v, w>> \in R)
    BY <1>1
  <1>4. \A v \in S : ~(v < w)
    BY <1>2, <1>3
  <1> QED
    BY <1>3, <1>4

LEMMA EarliestFacts ==
  ASSUME TableTypes
  PROVE  /\ Upcoming # {} => Earliest \in 0..Period /\ \A w \in Upcoming : Earliest <= w
         /\ \A j \in Jobs : exists[j] /\ row[j].enabled
               => /\ row[j].wait \in Waits
                  /\ row[j].wait # Never => row[j].wait \in Upcoming
  <1>1. Upcoming \subseteq 0..Period
    BY ItemFacts, CronBounds DEF TableTypes, Upcoming, Waits, Waiting
  <1>2. Upcoming # {} => Earliest \in Upcoming /\ \A w \in Upcoming : Earliest <= w
    <2> SUFFICES ASSUME Upcoming # {}
                 PROVE  \E w \in Upcoming : \A v \in Upcoming : w <= v
      BY Zenon DEF Earliest
    <2>1. Upcoming \in SUBSET Nat
      BY <1>1, CronBounds
    <2> QED
      BY <2>1, LeastExists, Zenon
  <1>3. \A j \in Jobs : exists[j] /\ row[j].enabled
               => /\ row[j].wait \in Waits
                  /\ row[j].wait # Never => row[j].wait \in Upcoming
    BY DEF Waits, Upcoming
  <1> QED
    BY <1>1, <1>2, <1>3

LEMMA CronSleeps ==
  ASSUME CronTypes, NEW i \in Instances, GetNextDueTime(i) \/ WakeUp(i)
  PROVE  CronTypes'
  <1>1. CASE GetNextDueTime(i)
    <2>1. /\ pc[i] = "list" /\ todo[i] = {}
          /\ \/ pc' = [pc EXCEPT ![i] = "poll"] /\ sleep' = sleep
             \/ /\ pc' = [pc EXCEPT ![i] = "sleep"]
                /\ \E t \in {Never} \cup 0..(Period + IdleSleep) : sleep' = [sleep EXCEPT ![i] = t]
          /\ age' = [age EXCEPT ![i] = 0]
          /\ faults' = faults \/ Fault
          /\ UNCHANGED <<tableVars, todo, cur, notify, bus, envVars, used, fired,
                         crashes, toggles, outages>>
      <3>1. IdleSleep \in 0..(Period + IdleSleep)
            /\ \A w \in 0..Period : w \in 0..(Period + IdleSleep)
        BY CronBounds
      <3>2. CASE Upcoming # {} /\ Earliest = 0 /\ GoTo(i, "poll") /\ UNCHANGED <<sleep, faults>>
        BY <1>1, <3>2 DEF GetNextDueTime, GoTo
      <3>3. CASE Fault /\ GoTo(i, "sleep") /\ sleep' = [sleep EXCEPT ![i] = IdleSleep]
        BY <1>1, <3>1, <3>3 DEF GetNextDueTime, GoTo
      <3>4. CASE /\ GoTo(i, "sleep") /\ UNCHANGED faults
                 /\ sleep' = [sleep EXCEPT ![i] = CASE Waits = {} -> IdleSleep
                                                    [] Waits = {Never} -> Never
                                                    [] OTHER -> Earliest]
        <4>1. Waits # {} /\ Waits # {Never} => Earliest \in 0..Period
          BY EarliestFacts DEF CronTypes, Upcoming
        <4>2. (CASE Waits = {} -> IdleSleep [] Waits = {Never} -> Never [] OTHER -> Earliest)
                \in {Never} \cup 0..(Period + IdleSleep)
          <5>1. CASE Waits = {}
            BY <3>1, <5>1
          <5>2. CASE Waits = {Never}
            BY <3>1, <5>2
          <5>3. CASE Waits # {} /\ Waits # {Never}
            BY <3>1, <4>1, <5>3
          <5> QED
            BY <5>1, <5>2, <5>3
        <4> QED
          BY <1>1, <3>4, <4>2 DEF GetNextDueTime, GoTo
      <3> QED
        BY <1>1, <3>2, <3>3, <3>4 DEF GetNextDueTime
    <2>2. SchedTypes'
      BY <2>1, CronBounds DEF CronTypes, SchedTypes, CronPC
    <2>3. InHand'
      BY <2>1 DEF CronTypes, SchedTypes, InHand, WorkPC
    <2> QED
      BY <2>1, <2>2, <2>3, CronBounds
         DEF CronTypes, TableTypes, OtherTypes, tableVars, envVars, Fault
  <1>2. CASE WakeUp(i)
    <2>1. /\ pc[i] = "sleep" /\ pc' = [pc EXCEPT ![i] = "poll"]
          /\ sleep' = [sleep EXCEPT ![i] = 0]
          /\ notify' = notify \/ notify' = [notify EXCEPT ![i] = FALSE]
          /\ UNCHANGED <<tableVars, todo, cur, age, bus, envVars, used, fired, bounds>>
      BY <1>2 DEF WakeUp, GoTo
    <2>2. SchedTypes'
      BY <2>1, CronBounds DEF CronTypes, SchedTypes, CronPC
    <2>3. InHand'
      BY <2>1 DEF CronTypes, SchedTypes, InHand, WorkPC
    <2> QED
      BY <2>1, <2>2, <2>3
         DEF CronTypes, TableTypes, OtherTypes, tableVars, envVars, bounds
  <1> QED
    BY <1>1, <1>2

LEMMA CronEdited ==
  ASSUME CronTypes,
         \/ \E j \in Jobs, i \in Instances : CreateJob(j, i)
         \/ \E j \in Jobs : DeleteJob(j) \/ ToggleRead(j)
         \/ ToggleSave \/ ToggleFails
  PROVE  CronTypes'
  <1>1. ASSUME NEW j \in Jobs, NEW i \in Instances, CreateJob(j, i) PROVE CronTypes'
    <2> DEFINE new == [enabled |-> TRUE, run |-> 1, wait |-> Period]
    <2>1. new \in RowType
      BY CronBounds DEF RowType, Occurrences, Waiting
    <2> HIDE DEF new
    <2>2. /\ exists' = [exists EXCEPT ![j] = TRUE] /\ row' = [row EXCEPT ![j] = new]
          /\ used' = [used EXCEPT ![j] = 1] /\ notify' = [notify EXCEPT ![i] = TRUE]
          /\ UNCHANGED <<lock, failures, schedVars, bus, envVars, fired, bounds>>
      BY <1>1 DEF CreateJob, NotifyJobCreated, new
    <2>3. TableTypes' /\ OtherTypes'
      BY <2>1, <2>2, CronBounds DEF CronTypes, TableTypes, OtherTypes, envVars, bounds
    <2> QED
      BY <2>2, <2>3 DEF CronTypes, SchedTypes, InHand, schedVars
  <1>2. ASSUME NEW j \in Jobs, DeleteJob(j) PROVE CronTypes'
    BY <1>2 DEF DeleteJob, Delete, CronTypes, TableTypes, SchedTypes, OtherTypes, InHand,
                schedVars, envVars, bounds
  <1>3. ASSUME NEW j \in Jobs, ToggleRead(j) PROVE CronTypes'
    <2>1. \A b \in BOOLEAN : [row[j] EXCEPT !.enabled = b] \in RowType
      BY DEF CronTypes, TableTypes, RowType
    <2>2. edit' \in [job : Jobs, row : RowType]
      BY <1>3, <2>1 DEF ToggleRead
    <2>3. toggles' \in 0..MaxToggles
      BY <1>3, CronBounds DEF ToggleRead, CronTypes, OtherTypes
    <2> QED
      BY <1>3, <2>2, <2>3 DEF ToggleRead, CronTypes, TableTypes, SchedTypes, OtherTypes, InHand,
                              tableVars, schedVars
  <1>4. CASE ToggleSave
    <2>1. edit.job \in Jobs /\ edit.row \in RowType
      BY <1>4, ItemFacts DEF ToggleSave, CronTypes, OtherTypes
    <2>2. TableTypes'
      BY <1>4, <2>1 DEF ToggleSave, CronTypes, TableTypes
    <2> QED
      BY <1>4, <2>1, <2>2
         DEF ToggleSave, CronTypes, SchedTypes, OtherTypes, InHand, schedVars, bounds
  <1>5. CASE ToggleFails
    <2>1. faults' \in 0..MaxFaults
      BY <1>5, CronBounds DEF ToggleFails, Fault, CronTypes, OtherTypes
    <2> QED
      BY <1>5, <2>1 DEF ToggleFails, CronTypes, TableTypes, SchedTypes, OtherTypes, InHand,
                        tableVars, schedVars
  <1> QED
    BY <1>1, <1>2, <1>3, <1>4, <1>5

LEMMA CronSurroundings ==
  ASSUME CronTypes, NEW i \in Instances,
         Crash(i) \/ Restart(i) \/ RouterTakes(i) \/ ChannelLost(i) \/ ChannelBack(i)
  PROVE  CronTypes'
  <1>1. CASE RouterTakes(i) \/ ChannelLost(i) \/ ChannelBack(i)
    <2>1. bus' \in [Instances -> 0..Capacity]
      <3>1. bus[i] > 0 => bus[i] - 1 \in 0..Capacity
        BY CronBounds DEF CronTypes, OtherTypes
      <3>2. bus' = bus \/ (bus[i] > 0 /\ bus' = [bus EXCEPT ![i] = @ - 1])
        BY <1>1 DEF RouterTakes, ChannelLost, ChannelBack
      <3> QED
        BY <3>1, <3>2 DEF CronTypes, OtherTypes
    <2>2. reachable' \in [Instances -> BOOLEAN]
      BY <1>1 DEF RouterTakes, ChannelLost, ChannelBack, CronTypes, OtherTypes, envVars
    <2> QED
      BY <1>1, <2>1, <2>2
         DEF RouterTakes, ChannelLost, ChannelBack, CronTypes, TableTypes, SchedTypes,
             OtherTypes, InHand, tableVars, schedVars, envVars, bounds
  <1>2. CASE Crash(i)
    <2>1. SchedTypes' /\ InHand'
      BY <1>2 DEF Crash, GoTo, CronTypes, SchedTypes, InHand, CronPC, WorkPC
    <2> QED
      BY <1>2, <2>1, CronBounds DEF Crash, CronTypes, TableTypes, OtherTypes, tableVars, envVars
  <1>3. CASE Restart(i)
    <2>1. SchedTypes' /\ InHand'
      BY <1>3 DEF Restart, GoTo, CronTypes, SchedTypes, InHand, CronPC, WorkPC
    <2> QED
      BY <1>3, <2>1
         DEF Restart, CronTypes, TableTypes, OtherTypes, tableVars, envVars, bounds
  <1> QED
    BY <1>1, <1>2, <1>3

LEMMA CronTicks ==
  ASSUME CronTypes, Tick
  PROVE  CronTypes'
  <1>1. TableTypes'
    <2>1. \A j \in Jobs : [row[j] EXCEPT !.wait = Less(@)] \in RowType
      BY CronBounds DEF CronTypes, TableTypes, RowType, Less, Waiting, Never
    <2>2. row' \in [Jobs -> RowType]
      BY <2>1 DEF Tick
    <2>3. \A j \in Jobs : (IF lock[j] \in 0..LockTTL THEN lock[j] + 1 ELSE lock[j])
                             \in {Unlocked} \cup 0..(LockTTL + 1)
      BY CronBounds DEF CronTypes, TableTypes, Unlocked
    <2>4. lock' \in [Jobs -> {Unlocked} \cup 0..(LockTTL + 1)]
      BY <2>3 DEF Tick
    <2> QED
      BY <2>2, <2>4 DEF Tick, CronTypes, TableTypes
  <1>2. SchedTypes'
    <2>1. \A i \in Instances : (IF pc[i] \in {"list", "send"} /\ age[i] < Period
                                THEN age[i] + 1 ELSE age[i]) \in 0..Period
      BY CronBounds DEF CronTypes, SchedTypes
    <2>2. \A i \in Instances : Less(sleep[i]) \in {Never} \cup 0..(Period + IdleSleep)
      BY CronBounds DEF CronTypes, SchedTypes, Less, Never
    <2> QED
      BY <2>1, <2>2 DEF Tick, CronTypes, SchedTypes
  <1>3. OtherTypes' /\ InHand'
    BY DEF Tick, CronTypes, OtherTypes, InHand, envVars, bounds
  <1> QED
    BY <1>1, <1>2, <1>3 DEF CronTypes

LEMMA CronStep ==
  ASSUME CronTypes, [Next]_vars
  PROVE  CronTypes'
  <1>1. CASE UNCHANGED vars
    BY <1>1 DEF vars, tableVars, schedVars, envVars, bounds, CronTypes, TableTypes, SchedTypes,
       OtherTypes, InHand
  <1> QED
    BY <1>1, CronListed, CronLocked, CronWorks, CronReschedules, CronSleeps, CronEdited,
       CronSurroundings, CronTicks DEF Next, Scheduler
-----------------------------------------------------------------------------
\* A step that hands nothing out.
LEMMA NothingOut ==
  ASSUME CronTypes, HandedOut, UNCHANGED <<row, used, edit, toggles, failures, fired>>,
         \A j \in Jobs : exists'[j] => exists[j],
         \A i \in Instances : /\ \A item \in todo'[i] : item.run <= used[item.job]
                              /\ cur'[i] # NoItem => cur'[i].run <= used[cur'[i].job]
  PROVE  HandedOut'
  <1>1. ItemsOut' /\ NotMade'
    BY DEF HandedOut, ItemsOut, NotMade
  <1>2. RowsOut' /\ EditOut' /\ NotFired'
    BY DEF HandedOut, RowsOut, EditOut, NotFired
  <1> QED
    BY <1>1, <1>2 DEF HandedOut

LEMMA HandedTake ==
  ASSUME CronTypes, HandedOut, NEW i \in Instances,
         GetDueCronJobs(i) \/ LockCronJob(i)
  PROVE  HandedOut'
  <1>1. CASE GetDueCronJobs(i)
    <2>1. \A j \in Jobs : Due(j) => row[j].run <= used[j]
      BY DEF Due, HandedOut, RowsOut, Never
    <2>2. \A k \in Instances : \A item \in todo'[k] : item.run <= used[item.job]
      <3> SUFFICES ASSUME NEW k \in Instances, NEW item \in todo'[k]
                   PROVE  item.run <= used[item.job]
        OBVIOUS
      <3>1. CASE item \in todo[k]
        BY <3>1 DEF HandedOut, ItemsOut
      <3>2. CASE \E j \in Jobs : Due(j) /\ item = [job |-> j, run |-> row[j].run]
        BY <2>1, <3>2
      <3> QED
        BY <1>1, <3>1, <3>2 DEF GetDueCronJobs, CronTypes, SchedTypes
    <2> QED
      BY <1>1, <2>2, NothingOut
         DEF GetDueCronJobs, tableVars, envVars, HandedOut, ItemsOut
  <1>2. CASE LockCronJob(i)
    <2>1. PICK item \in todo[i] :
              /\ todo' = [todo EXCEPT ![i] = @ \ {item}]
              /\ cur' = [cur EXCEPT ![i] = item] \/ cur' = cur
      BY <1>2 DEF LockCronJob
    <2>2. \A k \in Instances : /\ \A it \in todo'[k] : it.run <= used[it.job]
                               /\ cur'[k] # NoItem => cur'[k].run <= used[cur'[k].job]
      BY <2>1 DEF HandedOut, ItemsOut, CronTypes, SchedTypes
    <2> QED
      BY <1>2, <2>2, NothingOut DEF LockCronJob, envVars
  <1> QED
    BY <1>1, <1>2

LEMMA HandedWork ==
  ASSUME CronTypes, HandedOut, NEW i \in Instances,
         \/ CheckChannel(i) \/ IncrementCronJobFailure(i) \/ DropJob(i) \/ Fire(i)
         \/ GetNextDueTime(i) \/ WakeUp(i) \/ Crash(i) \/ Restart(i)
         \/ RouterTakes(i) \/ ChannelLost(i) \/ ChannelBack(i)
  PROVE  HandedOut'
  <1>1. \A k \in Instances : /\ todo'[k] \subseteq todo[k]
                             /\ cur'[k] = cur[k] \/ cur'[k] = NoItem
    BY DEF CheckChannel, IncrementCronJobFailure, DropJob, Fire, GetNextDueTime, WakeUp, Crash,
           Restart, RouterTakes, ChannelLost, ChannelBack, schedVars, CronTypes, SchedTypes
  <1>2. \A k \in Instances : /\ \A it \in todo'[k] : it.run <= used[it.job]
                             /\ cur'[k] # NoItem => cur'[k].run <= used[cur'[k].job]
    BY <1>1 DEF HandedOut, ItemsOut
  <1>3. \A j \in Jobs : exists'[j] => exists[j]
    BY DEF CheckChannel, IncrementCronJobFailure, DropJob, Fire, GetNextDueTime, WakeUp, Crash,
           Restart, RouterTakes, ChannelLost, ChannelBack, tableVars, Delete, CronTypes,
           TableTypes
  <1>4. /\ UNCHANGED <<row, used, toggles>>
        /\ edit' = edit
    BY DEF CheckChannel, IncrementCronJobFailure, DropJob, Fire, GetNextDueTime, WakeUp, Crash,
           Restart, RouterTakes, ChannelLost, ChannelBack, tableVars, envVars, bounds
  <1>5. NotMade'
    <2>1. failures' = failures
            \/ \E j \in Jobs : exists[j] /\ failures' = [failures EXCEPT ![j] = @ + 1]
      <3>1. CASE IncrementCronJobFailure(i)
        <4>1. cur[i].job \in Jobs
          BY <3>1, HandFacts DEF IncrementCronJobFailure, WorkPC
        <4> QED
          BY <3>1, <4>1 DEF IncrementCronJobFailure, Miss
      <3> QED
        BY <3>1 DEF CheckChannel, DropJob, Fire, GetNextDueTime, WakeUp, Crash,
           Restart, RouterTakes, ChannelLost, ChannelBack, tableVars
    <2> QED
      BY <1>3, <1>4, <2>1 DEF HandedOut, NotMade, CronTypes, TableTypes
  <1>6. NotFired'
    <2>1. \A j \in Jobs, n \in Occurrences : n > used[j] => fired'[<<j, n>>] = fired[<<j, n>>]
      <3>1. CASE Fire(i)
        <4>1. cur[i].job \in Jobs /\ cur[i].run <= used[cur[i].job] /\ cur[i].run \in Nat
          BY <3>1, HandFacts, CronBounds DEF Fire, WorkPC, HandedOut, ItemsOut, Occurrences
        <4>2. fired' = [fired EXCEPT ![<<cur[i].job, cur[i].run>>] = @ + 1]
          BY <3>1 DEF Fire
        <4>3. \A j \in Jobs : used[j] \in Nat
          BY CronBounds DEF CronTypes, OtherTypes
        <4> SUFFICES ASSUME NEW j \in Jobs, NEW n \in Occurrences, n > used[j]
                     PROVE  fired'[<<j, n>>] = fired[<<j, n>>]
          OBVIOUS
        <4>4. <<j, n>> # <<cur[i].job, cur[i].run>>
          BY <4>1, <4>3, CronBounds DEF Occurrences
        <4> QED
          BY <4>2, <4>4 DEF CronTypes, OtherTypes
      <3> QED
        BY <3>1 DEF CheckChannel, IncrementCronJobFailure, DropJob, GetNextDueTime, WakeUp,
           Crash, Restart, RouterTakes, ChannelLost, ChannelBack
    <2> QED
      BY <1>4, <2>1 DEF HandedOut, NotFired
  <1>7. ItemsOut' /\ RowsOut' /\ EditOut'
    BY <1>2, <1>4 DEF HandedOut, ItemsOut, RowsOut, EditOut
  <1> QED
    BY <1>5, <1>6, <1>7 DEF HandedOut

\* used only grows.
LEMMA HandedGrows ==
  ASSUME CronTypes, HandedOut, NEW j \in Jobs, used'[j] \in Nat, used[j] <= used'[j],
         \A k \in Jobs : k # j => used'[k] = used[k],
         UNCHANGED <<edit, toggles, fired>>,
         \A i \in Instances : todo'[i] = todo[i] /\ (cur'[i] = cur[i] \/ cur'[i] = NoItem)
  PROVE  ItemsOut' /\ EditOut' /\ NotFired'
  <1>1. \A k \in Jobs : used[k] \in Nat /\ used'[k] \in Nat /\ used[k] <= used'[k]
    BY CronBounds DEF CronTypes, OtherTypes
  <1>2. ItemsOut'
    <2> SUFFICES ASSUME NEW item \in Item, item.run <= used[item.job]
                 PROVE  item.run <= used'[item.job]
      BY DEF HandedOut, ItemsOut, CronTypes, SchedTypes
    <2> QED
      BY <1>1, ItemFacts, CronBounds DEF Occurrences
  <1>3. EditOut'
    <2>1. edit # NoEdit => edit.job \in Jobs /\ edit.row.run \in Nat
      BY ItemFacts, CronBounds DEF CronTypes, OtherTypes, Occurrences
    <2> QED
      BY <1>1, <2>1 DEF HandedOut, EditOut
  <1>4. NotFired'
    BY <1>1, CronBounds DEF HandedOut, NotFired, Occurrences
  <1> QED
    BY <1>2, <1>3, <1>4

LEMMA HandedReschedule ==
  ASSUME CronTypes, HandedOut, NEW i \in Instances, Reschedule(i)
  PROVE  HandedOut'
  <1> DEFINE j == cur[i].job
             next == NextRun(cur[i].job, age[i])
  <1>1. j \in Jobs /\ age[i] \in 0..Period /\ pc[i] = "update"
    BY HandFacts DEF Reschedule, WorkPC, CronTypes, SchedTypes
  <1>2. /\ next.wait # Never => next.run = used[j] + 1
        /\ used[j] \in Nat
    BY <1>1, RowTyped, CronBounds DEF CronTypes, OtherTypes
  <1>3. /\ exists' = exists \/ exists' = [exists EXCEPT ![j] = FALSE]
        /\ \/ row' = row /\ used' = used
           \/ /\ row' = [row EXCEPT ![j] = next]
              /\ used' = IF next.wait # Never THEN [used EXCEPT ![j] = @ + 1] ELSE used
        /\ failures' = failures \/ failures' = [failures EXCEPT ![j] = 0]
        /\ cur' = [cur EXCEPT ![i] = NoItem]
        /\ UNCHANGED <<todo, edit, toggles, fired>>
    <2>1. ASSUME UpdateCronJobRun(j, i)
          PROVE  /\ \/ row' = row /\ used' = used
                    \/ /\ row' = [row EXCEPT ![j] = next]
                       /\ used' = IF next.wait # Never THEN [used EXCEPT ![j] = @ + 1] ELSE used
                 /\ failures' = [failures EXCEPT ![j] = 0]
      BY <2>1 DEF UpdateCronJobRun
    <2> HIDE DEF next
    <2> QED
      BY <2>1 DEF Reschedule, Delete, tableVars, envVars
  <1> HIDE DEF j, next
  <1>4. /\ used'[j] \in Nat /\ used[j] <= used'[j]
        /\ \A k \in Jobs : k # j => used'[k] = used[k] /\ row'[k] = row[k]
        /\ \/ row'[j] = row[j]
           \/ row'[j] = next /\ (next.wait # Never => used'[j] = used[j] + 1)
        /\ \A k \in Jobs : (exists'[k] => exists[k]) /\ (failures[k] = 0 => failures'[k] = 0)
    BY <1>1, <1>2, <1>3 DEF CronTypes, TableTypes, OtherTypes
  <1>5. ItemsOut' /\ EditOut' /\ NotFired'
    BY <1>1, <1>3, <1>4, HandedGrows DEF CronTypes, SchedTypes
  <1>6. RowsOut'
    <2>1. row[j].run \in Nat
      BY <1>1, ItemFacts, CronBounds DEF CronTypes, TableTypes, Occurrences
    <2> QED
      BY <1>1, <1>2, <1>4, <2>1 DEF HandedOut, RowsOut
  <1>7. NotMade'
    BY <1>1, <1>2, <1>4 DEF HandedOut, NotMade
  <1> QED
    BY <1>5, <1>6, <1>7 DEF HandedOut

LEMMA HandedEdit ==
  ASSUME CronTypes, HandedOut,
         \/ \E j \in Jobs, i \in Instances : CreateJob(j, i)
         \/ \E j \in Jobs : DeleteJob(j) \/ ToggleRead(j)
         \/ ToggleSave \/ ToggleFails
         \/ Tick
  PROVE  HandedOut'
  <1>1. ASSUME NEW j \in Jobs, NEW i \in Instances, CreateJob(j, i) PROVE HandedOut'
    <2>1. /\ used[j] = 0 /\ used' = [used EXCEPT ![j] = 1]
          /\ exists' = [exists EXCEPT ![j] = TRUE]
          /\ row' = [row EXCEPT ![j] = [enabled |-> TRUE, run |-> 1, wait |-> Period]]
          /\ UNCHANGED <<failures, todo, cur, edit, toggles, fired>>
      BY <1>1 DEF CreateJob, schedVars, envVars, bounds
    <2>2. used'[j] = 1 /\ row'[j].run = 1
          /\ \A k \in Jobs : k # j => used'[k] = used[k] /\ row'[k] = row[k]
                                      /\ exists'[k] = exists[k]
      BY <2>1 DEF CronTypes, TableTypes, OtherTypes
    <2>3. ItemsOut' /\ EditOut' /\ NotFired'
      BY <2>1, <2>2, HandedGrows
    <2>4. RowsOut' /\ NotMade'
      BY <2>1, <2>2 DEF HandedOut, RowsOut, NotMade
    <2> QED
      BY <2>3, <2>4 DEF HandedOut
  <1>2. ASSUME NEW j \in Jobs, DeleteJob(j) PROVE HandedOut'
    <2>1. \A k \in Jobs : exists'[k] => exists[k]
      BY <1>2 DEF DeleteJob, Delete, CronTypes, TableTypes
    <2> QED
      BY <1>2, <2>1, NothingOut DEF DeleteJob, schedVars, envVars, bounds, HandedOut, ItemsOut
  <1>3. ASSUME NEW j \in Jobs, ToggleRead(j) PROVE HandedOut'
    <2>1. /\ \E b \in BOOLEAN : edit' = [job |-> j, row |-> [row[j] EXCEPT !.enabled = b]]
          /\ exists[j] /\ toggles' = toggles + 1 /\ toggles \in Nat
          /\ UNCHANGED <<exists, row, failures, todo, cur, used, fired>>
      BY <1>3, CronBounds DEF ToggleRead, tableVars, schedVars, CronTypes, OtherTypes
    <2>2. /\ edit'.job = j /\ edit'.row.run = row[j].run /\ edit'.row.wait = row[j].wait
          /\ used[j] # 0 /\ toggles' # 0
      BY <2>1 DEF CronTypes, TableTypes, RowType, HandedOut, NotMade
    <2>3. EditOut'
      BY <2>1, <2>2 DEF HandedOut, RowsOut, EditOut
    <2> QED
      BY <2>1, <2>3 DEF HandedOut, ItemsOut, RowsOut, NotMade, NotFired
  <1>4. CASE ToggleSave
    <2> DEFINE j == edit.job
    <2>1. /\ edit # NoEdit /\ edit' = NoEdit /\ j \in Jobs
          /\ exists' = [exists EXCEPT ![j] = TRUE]
          /\ row' = [row EXCEPT ![j] = edit.row]
          /\ failures' = failures \/ failures' = [failures EXCEPT ![j] = 0]
          /\ UNCHANGED <<todo, cur, used, toggles, fired>>
      BY <1>4, ItemFacts DEF ToggleSave, schedVars, bounds, CronTypes, OtherTypes
    <2>2. used[j] # 0 /\ (edit.row.wait # Never => edit.row.run <= used[j])
      BY <2>1 DEF HandedOut, EditOut
    <2> HIDE DEF j
    <2>3. RowsOut' /\ NotMade'
      BY <2>1, <2>2 DEF HandedOut, RowsOut, NotMade, CronTypes, TableTypes
    <2> QED
      BY <2>1, <2>3 DEF HandedOut, ItemsOut, EditOut, NotFired
  <1>5. CASE Tick
    <2>1. /\ UNCHANGED <<exists, failures, todo, cur, edit, used, fired, toggles>>
          /\ row' = [j \in Jobs |-> [row[j] EXCEPT !.wait = Less(@)]]
      BY <1>5 DEF Tick, envVars, bounds
    <2>2. \A j \in Jobs : /\ row'[j].run = row[j].run
                          /\ row'[j].wait # Never => row[j].wait # Never
      BY <2>1 DEF CronTypes, TableTypes, RowType, Less, Never
    <2>3. RowsOut'
      BY <2>1, <2>2 DEF HandedOut, RowsOut
    <2> QED
      BY <2>1, <2>3 DEF HandedOut, ItemsOut, EditOut, NotMade, NotFired
  <1>6. CASE ToggleFails
    BY <1>6 DEF ToggleFails, tableVars, schedVars, HandedOut, ItemsOut, RowsOut, EditOut,
                NotMade, NotFired
  <1> QED
    BY <1>1, <1>2, <1>3, <1>4, <1>5, <1>6

LEMMA HandedStep ==
  ASSUME CronTypes, HandedOut, [Next]_vars
  PROVE  HandedOut'
  <1>1. CASE UNCHANGED vars
    BY <1>1 DEF vars, tableVars, schedVars, envVars, bounds, HandedOut, ItemsOut, RowsOut,
       EditOut, NotMade, NotFired
  <1> QED
    BY <1>1, HandedTake, HandedWork, HandedReschedule, HandedEdit DEF Next, Scheduler
-----------------------------------------------------------------------------
LEMMA ListedStep ==
  ASSUME CronTypes, ListedOnce, OneScheduler, [Next]_vars
  PROVE  ListedOnce'
  <1> DEFINE Once(i) == /\ \A a, b \in todo[i] : a.job = b.job => a = b
                        /\ \A a \in todo[i] : a.job # cur[i].job
  <1>1. ASSUME NEW i \in Instances, todo'[i] = {} PROVE Once(i)'
    BY <1>1
  <1>2. ASSUME NEW i \in Instances, todo'[i] \subseteq todo[i],
               cur'[i] = cur[i] \/ cur'[i] = NoItem
        PROVE  Once(i)'
    <2>1. \A a \in todo[i] : a.job \in Jobs
      BY ItemFacts DEF CronTypes, SchedTypes
    <2>2. NoItem.job \notin Jobs
      BY ItemFacts, CronBounds
    <2> QED
      BY <1>2, <2>1, <2>2 DEF ListedOnce
  <1>3. ASSUME NEW i \in Instances, GetDueCronJobs(i) PROVE Once(i)'
    <2>1. cur'[i] = NoItem /\ pc[i] = "poll" /\ todo[i] = {}
      BY <1>3 DEF GetDueCronJobs, CronTypes, InHand, WorkPC
    <2>2. CASE todo' = todo
      BY <2>1, <2>2
    <2>3. CASE todo' = [todo EXCEPT ![i] = {[job |-> j, run |-> row[j].run] :
                                              j \in {k \in Jobs : Due(k)}}]
      <3>1. todo'[i] = {[job |-> j, run |-> row[j].run] : j \in {k \in Jobs : Due(k)}}
        BY <2>3 DEF CronTypes, SchedTypes
      <3>2. \A a \in todo'[i] : a.job \in Jobs /\ a = [job |-> a.job, run |-> row[a.job].run]
        BY <3>1
      <3>3. NoItem.job \notin Jobs
        BY ItemFacts, CronBounds
      <3> QED
        BY <2>1, <3>2, <3>3
    <2> QED
      BY <1>3, <2>2, <2>3 DEF GetDueCronJobs
  <1>4. ASSUME NEW i \in Instances, LockCronJob(i) PROVE Once(i)'
    <2>1. PICK item \in todo[i] :
              /\ todo'[i] = todo[i] \ {item}
              /\ cur'[i] = item \/ cur'[i] = cur[i]
      BY <1>4 DEF LockCronJob, CronTypes, SchedTypes
    <2> QED
      BY <2>1 DEF ListedOnce
  <1>5. ASSUME NEW i \in Instances, Next \/ UNCHANGED vars,
               ~GetDueCronJobs(i), ~LockCronJob(i)
        PROVE  todo'[i] \subseteq todo[i] /\ (cur'[i] = cur[i] \/ cur'[i] = NoItem)
    <2>1. CASE ~(\E k \in Instances : Scheduler(k) \/ Crash(k))
      BY <1>5, <2>1
         DEF Next, RouterTakes, ChannelLost, ChannelBack, CreateJob, DeleteJob, ToggleRead,
             ToggleSave, ToggleFails, Tick, vars, schedVars, envVars
    <2>2. ASSUME NEW k \in Instances, Scheduler(k) \/ Crash(k)
          PROVE  todo'[i] \subseteq todo[i] /\ (cur'[i] = cur[i] \/ cur'[i] = NoItem)
      <3>1. k = i
        BY DEF OneScheduler
      <3> QED
        BY <1>5, <2>2, <3>1
           DEF Scheduler, CheckChannel, IncrementCronJobFailure, DropJob, Fire, Reschedule,
               GetNextDueTime, WakeUp, Restart, Crash, schedVars, CronTypes, SchedTypes
    <2> QED
      BY <2>1, <2>2
  <1>6. \A i \in Instances : Once(i)'
    BY <1>2, <1>3, <1>4, <1>5
  <1> QED
    BY <1>6 DEF ListedOnce
-----------------------------------------------------------------------------
LEMMA TotalTyped ==
  ASSUME CronTypes
  PROVE  /\ crashes \in Nat /\ faults \in Nat /\ toggles \in Nat /\ Total \in Nat
         /\ \A j \in Jobs, n \in Occurrences : fired[<<j, n>>] \in Nat
         /\ \A j \in Jobs : used[j] \in Nat
         /\ \A n \in Occurrences : n \in Nat
  BY CronBounds DEF CronTypes, OtherTypes, Total, Occurrences

\* Nothing was fired, and nothing may be that could not be before.
LEMMA PaidKept ==
  ASSUME CronTypes, CronTypes', Paid, fired' = fired, Total <= Total',
         \A j \in Jobs, n \in Occurrences : /\ Pending(j, n)' => Pending(j, n)
                                            /\ Edited(j, n)' => Edited(j, n)
  PROVE  Paid'
  <1> SUFFICES ASSUME NEW j \in Jobs, NEW n \in Occurrences PROVE PaidFor(j, n)'
    BY DEF Paid
  <1>1. /\ Pending(j, n)' => Pending(j, n)
        /\ Edited(j, n)' => Edited(j, n)
        /\ fired'[<<j, n>>] = fired[<<j, n>>] /\ fired[<<j, n>>] \in Nat
        /\ Total \in Nat /\ PaidFor(j, n)
    BY TotalTyped DEF Paid
  <1>2. Total' \in Nat
    <2>1. crashes' \in Nat /\ faults' \in Nat /\ toggles' \in Nat
      BY CronBounds DEF CronTypes, OtherTypes
    <2>2. \A a, b, c \in Nat : 1 + a + b + c \in Nat
      OBVIOUS
    <2> QED
      BY <2>1, <2>2, Zenon DEF Total
  <1> QED
    BY <1>1, <1>2 DEF PaidFor

\* Something went wrong, which pays for what comes back.
LEMMA PaidMore ==
  ASSUME CronTypes, CronTypes', Paid, fired' = fired, Total + 1 <= Total',
         \A j \in Jobs, n \in Occurrences : Edited(j, n)' => Edited(j, n)
  PROVE  Paid'
  <1> SUFFICES ASSUME NEW j \in Jobs, NEW n \in Occurrences PROVE PaidFor(j, n)'
    BY DEF Paid
  <1>1. /\ Edited(j, n)' => Edited(j, n)
        /\ fired'[<<j, n>>] = fired[<<j, n>>] /\ fired[<<j, n>>] \in Nat
        /\ Total \in Nat /\ PaidFor(j, n)
    BY TotalTyped DEF Paid
  <1>2. Total' \in Nat
    <2>1. crashes' \in Nat /\ faults' \in Nat /\ toggles' \in Nat
      BY CronBounds DEF CronTypes, OtherTypes
    <2>2. \A a, b, c \in Nat : 1 + a + b + c \in Nat
      OBVIOUS
    <2> QED
      BY <2>1, <2>2, Zenon DEF Total
  <1> QED
    BY <1>1, <1>2 DEF PaidFor

LEMMA PaidTake ==
  ASSUME CronTypes, CronTypes', Paid, OneScheduler, NEW i \in Instances,
         GetDueCronJobs(i) \/ LockCronJob(i)
  PROVE  Paid'
  <1>1. \A k \in Instances : k = i
    BY DEF OneScheduler
  <1>2. /\ UNCHANGED <<exists, row, edit, fired, crashes, toggles>>
        /\ faults' = faults \/ faults' = faults + 1
    BY DEF GetDueCronJobs, LockCronJob, Fault, tableVars, envVars
  <1>3. Total <= Total' /\ \A j \in Jobs, n \in Occurrences : Edited(j, n)' => Edited(j, n)
    BY <1>2, TotalTyped DEF Total, Edited
  <1>4. ASSUME NEW j \in Jobs, NEW n \in Occurrences, Pending(j, n)' PROVE Pending(j, n)
    <2>1. CASE GetDueCronJobs(i)
      <3>1. pc[i] = "poll" /\ pc'[i] = "list" /\ cur' = cur
        BY <2>1 DEF GetDueCronJobs, GoTo, CronTypes, SchedTypes
      <3>2. ~BeingReplaced(j)
        BY <1>1, <3>1 DEF BeingReplaced
      <3>3. \A item \in todo'[i] : \/ item \in todo[i]
                                   \/ item.run = row[item.job].run /\ exists[item.job]
        BY <2>1 DEF GetDueCronJobs, Due, CronTypes, SchedTypes
      <3> QED
        BY <1>1, <1>2, <1>4, <3>1, <3>2, <3>3 DEF Pending
    <2>2. CASE LockCronJob(i)
      <3>1. pc[i] = "list" /\ cur[i] = NoItem
        BY <2>2 DEF LockCronJob, CronTypes, InHand, WorkPC
      <3>2. PICK item \in todo[i] :
                /\ todo'[i] = todo[i] \ {item}
                /\ pc'[i] \in {"list", "check"} /\ (cur'[i] = item \/ cur'[i] = cur[i])
        BY <2>2, <3>1 DEF LockCronJob, GoTo, CronTypes, SchedTypes
      <3>3. ~BeingReplaced(j) /\ ~(cur[i].job = j)
        BY <1>1, <3>1, ItemFacts, CronBounds DEF BeingReplaced
      <3> QED
        BY <1>1, <1>2, <1>4, <3>1, <3>2, <3>3 DEF Pending
    <2> QED
      BY <2>1, <2>2
  <1> QED
    BY <1>2, <1>3, <1>4, PaidKept

LEMMA PaidFire ==
  ASSUME CronTypes, CronTypes', Paid, ListedOnce, OneScheduler, NEW i \in Instances, Fire(i)
  PROVE  Paid'
  <1>1. \A k \in Instances : k = i
    BY DEF OneScheduler
  <1>2. /\ pc[i] = "send" /\ pc'[i] = "update" /\ cur' = cur
        /\ fired' = [fired EXCEPT ![<<cur[i].job, cur[i].run>>] = @ + 1]
        /\ UNCHANGED <<exists, row, todo, edit, crashes, faults, toggles>>
    BY DEF Fire, GoTo, tableVars, envVars, bounds, CronTypes, SchedTypes
  <1>3. Total' = Total
    BY <1>2 DEF Total
  <1> SUFFICES ASSUME NEW j \in Jobs, NEW n \in Occurrences PROVE PaidFor(j, n)'
    BY DEF Paid
  <1>4. /\ Edited(j, n)' <=> Edited(j, n)
        /\ fired[<<j, n>>] \in Nat /\ Total \in Nat /\ PaidFor(j, n)
    BY <1>2, TotalTyped DEF Edited, Paid
  <1>5. CASE cur[i].job = j /\ cur[i].run = n
    <2>1. Pending(j, n)
      BY <1>2, <1>5 DEF Pending
    <2>2. ~(Pending(j, n)')
      BY <1>1, <1>2, <1>5 DEF Pending, BeingReplaced, ListedOnce
    <2>3. fired'[<<j, n>>] = fired[<<j, n>>] + 1
      BY <1>2, <1>5 DEF CronTypes, OtherTypes
    <2> QED
      BY <1>3, <1>4, <2>1, <2>2, <2>3 DEF PaidFor
  <1>6. CASE ~(cur[i].job = j /\ cur[i].run = n)
    <2>1. Pending(j, n)' => Pending(j, n)
      BY <1>1, <1>2, <1>6 DEF Pending, BeingReplaced
    <2>2. <<j, n>> # <<cur[i].job, cur[i].run>>
      BY <1>6
    <2>3. fired'[<<j, n>>] = fired[<<j, n>>]
      BY <1>2, <2>2 DEF CronTypes, OtherTypes
    <2> QED
      BY <1>3, <1>4, <2>1, <2>3 DEF PaidFor
  <1> QED
    BY <1>5, <1>6

\* The row is replaced by one that was never fired, or is gone, or the write failed.
LEMMA PaidReschedule ==
  ASSUME CronTypes, CronTypes', HandedOut, Paid, OneScheduler,
         NEW i \in Instances, Reschedule(i)
  PROVE  Paid'
  <1> DEFINE job == cur[i].job
             next == NextRun(cur[i].job, age[i])
  <1>1. job \in Jobs /\ age[i] \in 0..Period /\ pc[i] = "update" /\ \A k \in Instances : k = i
    BY HandFacts DEF Reschedule, WorkPC, CronTypes, SchedTypes, OneScheduler
  <1>2. next.run > used[job]
    BY <1>1, RowTyped DEF CronTypes
  <1>3. pc'[i] = "list" /\ cur'[i] = NoItem /\ UNCHANGED <<todo, edit, fired, crashes, toggles>>
    BY DEF Reschedule, GoTo, envVars, CronTypes, SchedTypes
  <1>4. \/ Fault
        \/ /\ UNCHANGED faults
           /\ exists' = [exists EXCEPT ![job] = FALSE] /\ row' = row
        \/ /\ UNCHANGED <<faults, exists>>
           /\ row' = IF exists[job] THEN [row EXCEPT ![job] = next] ELSE row
    <2>1. UpdateCronJobRun(job, i)
            => row' = IF exists[job] THEN [row EXCEPT ![job] = next] ELSE row
      BY DEF UpdateCronJobRun
    <2> HIDE DEF next
    <2> QED
      BY <2>1 DEF Reschedule, Delete
  <1> HIDE DEF next
  <1>5. \A j \in Jobs, n \in Occurrences : Edited(j, n)' <=> Edited(j, n)
    BY <1>3 DEF Edited
  <1>6. CASE Fault
    <2>1. Total + 1 <= Total'
      BY <1>3, <1>6, TotalTyped DEF Total, Fault
    <2> QED
      BY <1>3, <1>5, <2>1, PaidMore
  <1>7. CASE UNCHANGED faults
    <2>1. Total' = Total
      BY <1>3, <1>7 DEF Total
    <2> SUFFICES ASSUME NEW j \in Jobs, NEW n \in Occurrences PROVE PaidFor(j, n)'
      BY DEF Paid
    <2>2. /\ fired'[<<j, n>>] = fired[<<j, n>>] /\ fired[<<j, n>>] \in Nat
          /\ Total \in Nat /\ PaidFor(j, n)
      BY <1>3, TotalTyped DEF Paid
    <2>3. CASE Pending(j, n)' => Pending(j, n)
      BY <1>5, <2>1, <2>2, <2>3 DEF PaidFor
    <2>4. CASE Pending(j, n)' /\ ~Pending(j, n)
      <3>1. exists'[j] /\ row'[j].run = n
        BY <1>1, <1>3, <2>4, ItemFacts, CronBounds DEF Pending
      <3>2. job = j /\ n = next.run
        <4>1. CASE j # job
          <5>1. exists[j] /\ row[j].run = n
            BY <1>4, <1>7, <3>1, <4>1, TotalTyped DEF CronTypes, TableTypes, Fault
          <5>2. ~BeingReplaced(j)
            BY <1>1, <4>1 DEF BeingReplaced
          <5> QED
            BY <2>4, <5>1, <5>2 DEF Pending
        <4>2. CASE j = job
          BY <1>1, <1>4, <1>7, <3>1, <4>2, TotalTyped DEF CronTypes, TableTypes, Fault
        <4> QED
          BY <4>1, <4>2
      <3>3. n > used[j]
        BY <1>2, <3>2
      <3>4. fired[<<j, n>>] = 0
        BY <3>3 DEF HandedOut, NotFired
      <3>5. Edited(j, n) => toggles # 0
        BY DEF Edited, HandedOut, EditOut
      <3>6. Total >= 1 /\ (toggles # 0 => Total >= 2)
        BY TotalTyped DEF Total
      <3> QED
        BY <1>5, <2>1, <2>2, <3>4, <3>5, <3>6 DEF PaidFor
    <2> QED
      BY <2>3, <2>4
  <1> QED
    BY <1>4, <1>6, <1>7

LEMMA PaidOther ==
  ASSUME CronTypes, CronTypes', Paid, OneScheduler, NEW i \in Instances,
         \/ CheckChannel(i) \/ IncrementCronJobFailure(i) \/ DropJob(i)
         \/ GetNextDueTime(i) \/ WakeUp(i) \/ Restart(i)
         \/ RouterTakes(i) \/ ChannelLost(i) \/ ChannelBack(i)
         \/ (\E j \in Jobs : DeleteJob(j)) \/ Tick
  PROVE  Paid'
  <1>1. /\ UNCHANGED <<edit, fired, crashes, toggles>>
        /\ faults' = faults \/ faults' = faults + 1
        /\ \A k \in Instances : k = i
    BY DEF CheckChannel, IncrementCronJobFailure, DropJob, GetNextDueTime, WakeUp, Restart,
           RouterTakes, ChannelLost, ChannelBack, DeleteJob, Tick, Fault, envVars, bounds,
           OneScheduler
  <1>2. Total <= Total' /\ \A j \in Jobs, n \in Occurrences : Edited(j, n)' => Edited(j, n)
    BY <1>1, TotalTyped DEF Total, Edited
  <1>3. \A j \in Jobs : (exists'[j] => exists[j]) /\ row'[j].run = row[j].run
    <2>1. CASE Tick
      BY <2>1 DEF Tick, CronTypes, TableTypes, RowType
    <2>2. CASE ~Tick
      BY <2>2 DEF CheckChannel, IncrementCronJobFailure, DropJob, GetNextDueTime, WakeUp,
         Restart, RouterTakes, ChannelLost, ChannelBack, DeleteJob, Delete, tableVars,
         CronTypes, TableTypes
    <2> QED
      BY <2>1, <2>2
  <1>4. /\ todo' = todo
        /\ cur'[i] = NoItem \/ cur'[i] = cur[i]
        /\ pc[i] = "update" => pc'[i] = "update" /\ cur'[i] = cur[i]
        /\ pc'[i] = "update" => pc[i] = "update"
    BY DEF CheckChannel, IncrementCronJobFailure, DropJob, GetNextDueTime, WakeUp, Restart,
           RouterTakes, ChannelLost, ChannelBack, DeleteJob, Tick, GoTo, schedVars,
           CronTypes, SchedTypes
  <1>5. ASSUME NEW j \in Jobs, NEW n \in Occurrences, Pending(j, n)' PROVE Pending(j, n)
    <2>1. NoItem.job # j
      BY ItemFacts, CronBounds
    <2>2. BeingReplaced(j) => BeingReplaced(j)'
      BY <1>1, <1>4 DEF BeingReplaced
    <2> QED
      BY <1>1, <1>3, <1>4, <1>5, <2>1, <2>2 DEF Pending
  <1> QED
    BY <1>1, <1>2, <1>5, PaidKept

LEMMA PaidCrash ==
  ASSUME CronTypes, CronTypes', Paid, NEW i \in Instances, Crash(i)
  PROVE  Paid'
  <1>1. /\ UNCHANGED <<edit, fired, faults, toggles>> /\ crashes' = crashes + 1
    BY DEF Crash, envVars
  <1>2. Total + 1 <= Total' /\ \A j \in Jobs, n \in Occurrences : Edited(j, n)' => Edited(j, n)
    BY <1>1, TotalTyped DEF Total, Edited
  <1> QED
    BY <1>1, <1>2, PaidMore

LEMMA PaidEdit ==
  ASSUME CronTypes, CronTypes', HandedOut, Paid,
         \/ \E j \in Jobs, i \in Instances : CreateJob(j, i)
         \/ \E j \in Jobs : ToggleRead(j)
         \/ ToggleSave \/ ToggleFails
  PROVE  Paid'
  <1>1. ASSUME NEW job \in Jobs, NEW i \in Instances, CreateJob(job, i) PROVE Paid'
    <2>1. /\ used[job] = 0 /\ row' = [row EXCEPT ![job] = [enabled |-> TRUE, run |-> 1,
                                                           wait |-> Period]]
          /\ exists' = [exists EXCEPT ![job] = TRUE]
          /\ UNCHANGED <<pc, todo, cur, edit, fired, crashes, faults, toggles>>
      BY <1>1 DEF CreateJob, schedVars, envVars, bounds
    <2> SUFFICES ASSUME NEW j \in Jobs, NEW n \in Occurrences PROVE PaidFor(j, n)'
      BY DEF Paid
    <2>2. /\ fired'[<<j, n>>] = fired[<<j, n>>] /\ fired[<<j, n>>] \in Nat /\ Total' = Total
          /\ Total \in Nat /\ PaidFor(j, n) /\ (Edited(j, n)' <=> Edited(j, n))
      BY <2>1, TotalTyped DEF Paid, Total, Edited
    <2>3. CASE Pending(j, n)' => Pending(j, n)
      BY <2>2, <2>3 DEF PaidFor
    <2>4. CASE Pending(j, n)' /\ ~Pending(j, n)
      <3>1. BeingReplaced(j)' <=> BeingReplaced(j)
        BY <2>1 DEF BeingReplaced
      <3>2. j = job /\ n = 1
        BY <2>1, <2>4, <3>1 DEF Pending, CronTypes, TableTypes
      <3>3. fired[<<j, n>>] = 0
        BY <2>1, <3>2 DEF HandedOut, NotFired
      <3>4. Edited(j, n) => toggles # 0
        BY DEF Edited, HandedOut, EditOut
      <3>5. Total >= 1 /\ (toggles # 0 => Total >= 2)
        BY TotalTyped DEF Total
      <3> QED
        BY <2>2, <3>3, <3>4, <3>5 DEF PaidFor
    <2> QED
      BY <2>3, <2>4
  <1>2. ASSUME NEW job \in Jobs, ToggleRead(job) PROVE Paid'
    <2>1. /\ toggles' = toggles + 1 /\ edit = NoEdit
          /\ UNCHANGED <<exists, row, pc, todo, cur, fired, crashes, faults>>
      BY <1>2 DEF ToggleRead, tableVars, schedVars
    <2> SUFFICES ASSUME NEW j \in Jobs, NEW n \in Occurrences PROVE PaidFor(j, n)'
      BY DEF Paid
    <2>2. /\ fired'[<<j, n>>] = fired[<<j, n>>] /\ fired[<<j, n>>] \in Nat
          /\ Total' = Total + 1 /\ Total \in Nat /\ PaidFor(j, n)
      BY <2>1, TotalTyped DEF Paid, Total
    <2>3. (Pending(j, n)' <=> Pending(j, n)) /\ ~Edited(j, n)
      BY <2>1 DEF Pending, BeingReplaced, Edited
    <2> QED
      BY <2>2, <2>3 DEF PaidFor
  <1>3. CASE ToggleSave
    <2>1. /\ edit # NoEdit /\ edit' = NoEdit /\ edit.job \in Jobs
          /\ row' = [row EXCEPT ![edit.job] = edit.row]
          /\ \A j \in Jobs : j # edit.job => exists'[j] = exists[j]
          /\ UNCHANGED <<pc, todo, cur, fired, crashes, faults, toggles>>
      BY <1>3, ItemFacts DEF ToggleSave, schedVars, bounds, CronTypes, TableTypes, OtherTypes
    <2> SUFFICES ASSUME NEW j \in Jobs, NEW n \in Occurrences PROVE PaidFor(j, n)'
      BY DEF Paid
    <2>2. /\ fired'[<<j, n>>] = fired[<<j, n>>] /\ fired[<<j, n>>] \in Nat /\ Total' = Total
          /\ Total \in Nat /\ PaidFor(j, n) /\ ~(Edited(j, n)')
      BY <2>1, TotalTyped DEF Paid, Total, Edited
    <2>3. Pending(j, n)' => Pending(j, n) \/ Edited(j, n)
      <3>1. BeingReplaced(j)' <=> BeingReplaced(j)
        BY <2>1 DEF BeingReplaced
      <3>2. exists'[j] /\ row'[j].run = n => (exists[j] /\ row[j].run = n) \/ Edited(j, n)
        BY <2>1 DEF Edited, CronTypes, TableTypes
      <3> QED
        BY <2>1, <3>1, <3>2 DEF Pending
    <2> QED
      BY <2>2, <2>3 DEF PaidFor
  <1>4. CASE ToggleFails
    <2>1. /\ edit' = NoEdit /\ faults' = faults + 1
          /\ UNCHANGED <<fired, crashes, toggles>>
      BY <1>4 DEF ToggleFails, Fault
    <2>2. Total + 1 <= Total' /\ \A j \in Jobs, n \in Occurrences : Edited(j, n)' => Edited(j, n)
      BY <2>1, TotalTyped DEF Total, Edited
    <2> QED
      BY <2>1, <2>2, PaidMore
  <1> QED
    BY <1>1, <1>2, <1>3, <1>4

LEMMA PaidStep ==
  ASSUME CronTypes, CronTypes', HandedOut, ListedOnce, Paid, OneScheduler, [Next]_vars
  PROVE  Paid'
  <1>1. CASE UNCHANGED vars
    <2>1. UNCHANGED <<exists, row, pc, todo, cur, edit, fired, crashes, faults, toggles>>
      BY <1>1 DEF vars, tableVars, schedVars, envVars, bounds
    <2> SUFFICES ASSUME NEW j \in Jobs, NEW n \in Occurrences PROVE PaidFor(j, n)'
      BY DEF Paid
    <2>2. /\ Pending(j, n)' <=> Pending(j, n)
          /\ Edited(j, n)' <=> Edited(j, n)
          /\ Total' = Total /\ fired' = fired
      BY <2>1 DEF Pending, BeingReplaced, Edited, Total
    <2>3. PaidFor(j, n)
      BY DEF Paid
    <2> QED
      BY <2>2, <2>3 DEF PaidFor
  <1>2. Instances # {}
    BY CronAssumption DEF CronAssumption
  <1> QED
    BY <1>1, <1>2, PaidTake, PaidFire, PaidReschedule, PaidOther, PaidCrash, PaidEdit
       DEF Next, Scheduler

\* With one scheduler, an occurrence fires once, and once more at most for every
\* crash, every failed call of the store and every edit in the dashboard: what
\* ever is listed, locked, fired, rescheduled, deleted or edited meanwhile.
THEOREM OnceTheorem ==
  ASSUME OneScheduler
  PROVE  Spec => []OncePerOccurrence
  <1>1. CronTypes /\ HandedOut /\ ListedOnce /\ Paid => OncePerOccurrence
    BY DEF Paid, PaidFor, OncePerOccurrence, Total
  <1>2. Init => CronTypes /\ HandedOut /\ ListedOnce /\ Paid
    <2> SUFFICES ASSUME Init PROVE CronTypes /\ HandedOut /\ ListedOnce /\ Paid
      OBVIOUS
    <2>1. HandedOut
      BY DEF Init, HandedOut, ItemsOut, RowsOut, EditOut, NotMade, NotFired, NoRow
    <2>2. ListedOnce
      BY DEF Init, ListedOnce
    <2>3. Paid
      <3> SUFFICES ASSUME NEW j \in Jobs, NEW n \in Occurrences PROVE PaidFor(j, n)
        BY DEF Paid
      <3>1. fired[<<j, n>>] = 0 /\ ~Edited(j, n) /\ Total = 1
        BY DEF Init, Edited, Total
      <3> QED
        BY <3>1 DEF PaidFor
    <2> QED
      BY <2>1, <2>2, <2>3, CronInitial
  <1>3. CronTypes /\ HandedOut /\ ListedOnce /\ Paid /\ [Next]_vars
          => (CronTypes /\ HandedOut /\ ListedOnce /\ Paid)'
    BY CronStep, HandedStep, ListedStep, PaidStep
  <1> QED
    BY <1>1, <1>2, <1>3, PTL DEF Spec
-----------------------------------------------------------------------------
\* The lock of a job in hand is new, and its holder the only one, as long as no
\* send waits and nobody edits.
LEMMA LockStep ==
  ASSUME CronTypes, CronTypes', LockExcludes, LockHeld, edit = NoEdit, MaxToggles = 0,
         BusHasRoom, [Next]_vars
  PROVE  LockExcludes' /\ LockHeld' /\ edit' = NoEdit
  <1>1. \A i \in Instances : cur[i] # NoItem => cur[i].job \in Jobs
    BY ItemFacts DEF CronTypes, SchedTypes
  <1>2. NoItem.job \notin Jobs
    BY ItemFacts, CronBounds
  <1> DEFINE Same(i) ==
                \/ cur'[i] = NoItem
                \/ cur'[i] = cur[i] /\ pc'[i] = "drop"
                \/ cur'[i] = cur[i] /\ pc[i] # "drop" /\ lock'[cur[i].job] = lock[cur[i].job]
  <1>3. ASSUME edit' = NoEdit, \A i \in Instances : Same(i)
        PROVE  LockExcludes' /\ LockHeld' /\ edit' = NoEdit
    <2>1. LockHeld'
      BY <1>3 DEF LockHeld
    <2>2. LockExcludes'
      BY <1>2, <1>3 DEF LockExcludes, Working
    <2> QED
      BY <1>3, <2>1, <2>2
  <1>4. ASSUME NEW i \in Instances, LockCronJob(i)
        PROVE  LockExcludes' /\ LockHeld' /\ edit' = NoEdit
    <2>1. PICK item \in todo[i] :
              \/ /\ Lockable(item.job) /\ lock' = [lock EXCEPT ![item.job] = 0]
                 /\ cur' = [cur EXCEPT ![i] = item]
                 /\ pc' = [pc EXCEPT ![i] = "check"]
              \/ /\ cur' = cur /\ pc' = pc
                 /\ lock' = lock
                      \/ (Lockable(item.job) /\ lock' = [lock EXCEPT ![item.job] = 0])
      BY <1>4 DEF LockCronJob, GoTo
    <2>2. item \in Item /\ item.job \in Jobs /\ edit' = NoEdit
      BY <1>4, ItemFacts DEF LockCronJob, envVars, CronTypes, SchedTypes
    <2>3. Lockable(item.job) => lock[item.job] # 0
      BY CronBounds DEF Lockable, Unlocked
    <2>4. \A k \in Instances : Lockable(item.job) /\ pc[k] # "drop"
                                  => cur[k] = NoItem \/ cur[k].job # item.job
      BY <2>3 DEF LockHeld
    <2>5. CASE cur' = cur /\ pc' = pc
      <3>1. \A k \in Instances : Same(k)
        BY <1>1, <2>1, <2>2, <2>4, <2>5 DEF CronTypes, TableTypes, LockHeld
      <3> QED
        BY <1>3, <2>2, <3>1
    <2>6. CASE /\ Lockable(item.job) /\ lock' = [lock EXCEPT ![item.job] = 0]
               /\ cur' = [cur EXCEPT ![i] = item] /\ pc' = [pc EXCEPT ![i] = "check"]
      <3>1. LockHeld'
        BY <1>1, <2>2, <2>6 DEF LockHeld, CronTypes, TableTypes, SchedTypes
      <3>2. LockExcludes'
        <4> SUFFICES ASSUME NEW k \in Instances, NEW l \in Instances, k # l, NEW j \in Jobs,
                            cur'[k].job = j, cur'[l].job = j, pc'[k] # "drop", pc'[l] # "drop"
                     PROVE  FALSE
          BY DEF LockExcludes, Working
        <4>1. \A m \in Instances : m # i => cur'[m] = cur[m] /\ pc'[m] = pc[m]
          BY <2>6 DEF CronTypes, SchedTypes
        <4>2. cur'[i] = item
          BY <2>6 DEF CronTypes, SchedTypes
        <4> QED
          BY <1>2, <2>4, <2>6, <4>1, <4>2 DEF LockExcludes, Working
      <3> QED
        BY <2>2, <3>1, <3>2
    <2> QED
      BY <2>1, <2>5, <2>6
  <1>5. ASSUME NEW i \in Instances, IncrementCronJobFailure(i) \/ Reschedule(i)
        PROVE  LockExcludes' /\ LockHeld' /\ edit' = NoEdit
    <2>1. /\ pc[i] \in WorkPC \ {"drop"} /\ edit' = NoEdit
          /\ \/ cur' = [cur EXCEPT ![i] = NoItem] /\ pc' = [pc EXCEPT ![i] = "list"]
             \/ cur' = cur /\ pc' = [pc EXCEPT ![i] = "drop"]
          /\ lock' = lock \/ lock' = [lock EXCEPT ![cur[i].job] = Unlocked]
      BY <1>5 DEF IncrementCronJobFailure, Miss, Reschedule, UpdateCronJobRun, WorkPC, GoTo,
         tableVars, envVars, CronTypes, SchedTypes
    <2>2. \A k \in Instances : /\ k # i => cur'[k] = cur[k] /\ pc'[k] = pc[k]
                               /\ cur'[i] = NoItem \/ (cur'[i] = cur[i] /\ pc'[i] = "drop")
      BY <2>1 DEF CronTypes, SchedTypes
    <2>3. \A k \in Instances : k # i /\ cur[k] # NoItem /\ pc[k] # "drop"
                                  => cur[k].job # cur[i].job
      BY <1>1, <2>1, HandFacts DEF LockExcludes, Working
    <2>4. \A k \in Instances : Same(k)
      BY <1>1, <2>1, <2>2, <2>3 DEF CronTypes, TableTypes
    <2> QED
      BY <1>3, <2>1, <2>4
  <1>6. CASE Tick
    <2>1. \A i \in Instances : cur[i] = NoItem
      <3> SUFFICES ASSUME NEW i \in Instances, cur[i] # NoItem PROVE FALSE
        OBVIOUS
      <3>1. pc[i] \in WorkPC /\ TimeMayPass(i)
        BY <1>6 DEF Tick, CronTypes, InHand
      <3> QED
        BY <3>1 DEF TimeMayPass, WorkPC, BusHasRoom
    <2> QED
      BY <1>3, <1>6, <2>1 DEF Tick, envVars
  <1>7. ASSUME NEW i \in Instances,
               \/ GetDueCronJobs(i) \/ CheckChannel(i) \/ DropJob(i) \/ Fire(i)
               \/ GetNextDueTime(i) \/ WakeUp(i) \/ Restart(i)
               \/ Crash(i) \/ RouterTakes(i) \/ ChannelLost(i) \/ ChannelBack(i)
               \/ \E j \in Jobs : CreateJob(j, i) \/ DeleteJob(j)
        PROVE  LockExcludes' /\ LockHeld' /\ edit' = NoEdit
    <2>1. /\ lock' = lock /\ edit' = edit
          /\ cur' = cur \/ cur' = [cur EXCEPT ![i] = NoItem]
          /\ \A k \in Instances : pc[k] = "drop" /\ cur'[k] # NoItem => pc'[k] = "drop"
      BY <1>7 DEF GetDueCronJobs, CheckChannel, DropJob, Fire, GetNextDueTime, WakeUp, Restart,
         Crash, RouterTakes, ChannelLost, ChannelBack, CreateJob, DeleteJob, tableVars,
         schedVars, envVars, GoTo, CronTypes, SchedTypes
    <2>2. \A k \in Instances : Same(k)
      BY <2>1 DEF CronTypes, SchedTypes
    <2> QED
      BY <1>3, <2>1, <2>2
  <1>8. CASE UNCHANGED vars
    <2>1. UNCHANGED <<cur, pc, lock, edit>>
      BY <1>8 DEF vars, tableVars, schedVars, envVars
    <2>2. \A k \in Instances : Same(k)
      BY <2>1
    <2> QED
      BY <1>3, <2>1, <2>2
  <1>9. ~(\E j \in Jobs : ToggleRead(j)) /\ ~ToggleSave /\ ~ToggleFails
    BY CronBounds DEF ToggleRead, ToggleSave, ToggleFails, CronTypes, OtherTypes
  <1> QED
    BY <1>4, <1>5, <1>6, <1>7, <1>8, <1>9, CronAssumption DEF CronAssumption, Next, Scheduler

\* However many schedulers poll, crash and fail, and whoever creates and deletes
\* jobs, one of them at most has a job in hand: as long as the bus has room, so
\* that a lock does not expire while its holder waits, and nobody brings a deleted
\* row back without its lock; one that drops a row has given the lock back.
THEOREM LockTheorem ==
  ASSUME MaxToggles = 0
  PROVE  Spec /\ []BusHasRoom => []LockExcludes
  <1> DEFINE Inv == CronTypes /\ LockExcludes /\ LockHeld /\ edit = NoEdit
  <1>1. Init => Inv
    <2> SUFFICES ASSUME Init PROVE Inv
      OBVIOUS
    <2>1. NoItem.job \notin Jobs
      BY ItemFacts, CronBounds
    <2> QED
      BY <2>1, CronInitial DEF Init, LockExcludes, Working, LockHeld
  <1>2. Inv /\ BusHasRoom /\ [Next]_vars => Inv'
    BY CronStep, LockStep
  <1>3. Inv => LockExcludes
    OBVIOUS
  <1> QED
    BY <1>1, <1>2, <1>3, PTL DEF Spec
-----------------------------------------------------------------------------
Precise(i, j) ==
    ~notify[i] /\ exists[j] /\ row[j].enabled /\ row[j].wait # Never
        => sleep[i] # Never /\ sleep[i] <= row[j].wait

\* What the dashboard has saved enabled it has saved enabled for good.
LEMMA SavedGrows ==
  ASSUME [Next]_vars
  PROVE  saved \subseteq saved'
  <1>1. ASSUME NEW i \in Instances, Scheduler(i) PROVE saved' = saved
    BY <1>1 DEF Scheduler, GetDueCronJobs, LockCronJob, CheckChannel, IncrementCronJobFailure,
       DropJob, Fire, Reschedule, GetNextDueTime, WakeUp, Restart, envVars
  <1>2. CASE \E i \in Instances : Crash(i) \/ RouterTakes(i) \/ ChannelLost(i) \/ ChannelBack(i)
    BY <1>2 DEF Crash, RouterTakes, ChannelLost, ChannelBack, envVars
  <1>3. CASE \/ \E j \in Jobs, i \in Instances : CreateJob(j, i)
             \/ \E j \in Jobs : DeleteJob(j) \/ ToggleRead(j)
             \/ ToggleSave \/ ToggleFails \/ Tick \/ UNCHANGED vars
    BY <1>3 DEF CreateJob, DeleteJob, ToggleRead, ToggleSave, ToggleFails, Tick, vars, envVars
  <1> QED
    BY <1>1, <1>2, <1>3 DEF Next

\* The time to go of a row and the timer shrink together; what makes a row due
\* earlier notifies, is done by the scheduler itself, awake, or is put down in
\* saved.
LEMMA SleepStep ==
  ASSUME CronTypes, CronTypes', OneScheduler, [Next]_vars,
         NEW i \in Instances, pc'[i] = "sleep", faults' = 0,
         pc[i] = "sleep" => \A j \in Jobs \ saved : Precise(i, j),
         NEW j \in Jobs, j \notin saved'
  PROVE  Precise(i, j)'
  <1>1. \A k \in Instances : k = i
    BY DEF OneScheduler
  <1>2. row[j] \in RowType /\ sleep[i] \in {Never} \cup 0..(Period + IdleSleep)
    BY DEF CronTypes, TableTypes, SchedTypes
  <1>0. j \in Jobs \ saved
    BY SavedGrows
  <1>3. CASE GetNextDueTime(i)
    <2>1. faults \in Nat /\ ~(Fault)
      BY TotalTyped DEF Fault
    <2>2. /\ UNCHANGED <<exists, row>>
          /\ sleep' = [sleep EXCEPT ![i] = CASE Waits = {} -> IdleSleep
                                             [] Waits = {Never} -> Never
                                             [] OTHER -> Earliest]
      BY <1>3, <2>1 DEF GetNextDueTime, GoTo, tableVars, CronTypes, SchedTypes
    <2> SUFFICES ASSUME exists[j], row[j].enabled, row[j].wait # Never
                 PROVE  sleep'[i] # Never /\ sleep'[i] <= row[j].wait
      BY <2>2 DEF Precise
    <2>3. /\ row[j].wait \in Waits /\ row[j].wait \in Upcoming
          /\ Earliest \in 0..Period /\ Earliest <= row[j].wait
      BY EarliestFacts DEF CronTypes
    <2>4. Waits # {} /\ Waits # {Never}
      BY <2>3
    <2>5. sleep'[i] = Earliest
      BY <2>2, <2>4 DEF CronTypes, SchedTypes
    <2> QED
      BY <2>3, <2>5, CronBounds DEF Never
  <1>4. CASE Tick
    <2>1. /\ pc[i] = "sleep" /\ notify' = notify /\ exists' = exists
          /\ sleep[i] # 0 /\ sleep'[i] = Less(sleep[i])
          /\ row'[j] = [row[j] EXCEPT !.wait = Less(@)]
      BY <1>4 DEF Tick, TimeMayPass
    <2>2. row'[j].enabled = row[j].enabled /\ row'[j].wait = Less(row[j].wait)
          /\ row[j].wait \in Waiting
      BY <1>2, <2>1 DEF RowType
    <2>3. Precise(i, j)
      BY <1>0, <2>1
    <2> QED
      BY <1>2, <2>1, <2>2, <2>3, CronBounds DEF Precise, Less, Waiting, Never
  <1>5. ASSUME NEW job \in Jobs, NEW k \in Instances, CreateJob(job, k)
        PROVE  Precise(i, j)'
    <2>1. notify'[i]
      BY <1>1, <1>5 DEF CreateJob, NotifyJobCreated, CronTypes, OtherTypes
    <2> QED
      BY <2>1 DEF Precise
  <1>6. CASE ToggleSave
    <2>1. /\ edit # NoEdit /\ UNCHANGED <<pc, notify, sleep>>
          /\ row' = [row EXCEPT ![edit.job] = edit.row]
          /\ exists' = [exists EXCEPT ![edit.job] = TRUE]
          /\ saved' = IF edit.row.enabled THEN saved \cup {edit.job} ELSE saved
      BY <1>6 DEF ToggleSave, schedVars
    <2>2. CASE j = edit.job
      <3>1. ~edit.row.enabled
        BY <2>1, <2>2
      <3> QED
        BY <2>1, <2>2, <3>1 DEF Precise, CronTypes, TableTypes
    <2>3. CASE j # edit.job
      BY <1>0, <2>1, <2>3 DEF Precise, CronTypes, TableTypes
    <2> QED
      BY <2>2, <2>3
  <1>7. CASE \/ UNCHANGED vars
             \/ \E k \in Jobs : DeleteJob(k) \/ ToggleRead(k)
             \/ ToggleFails
             \/ RouterTakes(i) \/ ChannelLost(i) \/ ChannelBack(i)
    <2>1. UNCHANGED <<pc, notify, sleep, row>> /\ (exists'[j] => exists[j])
      BY <1>7 DEF vars, DeleteJob, Delete, ToggleRead, ToggleFails, RouterTakes, ChannelLost, ChannelBack,
         tableVars, schedVars, CronTypes, TableTypes
    <2> QED
      BY <1>0, <2>1 DEF Precise
  <1>8. CASE (Scheduler(i) /\ ~GetNextDueTime(i)) \/ Crash(i)
    <2>1. pc'[i] # "sleep"
      BY <1>8 DEF Scheduler, Crash, GetDueCronJobs, LockCronJob, CheckChannel,
         IncrementCronJobFailure, DropJob, Fire, Reschedule, WakeUp, Restart, GoTo,
         CronTypes, SchedTypes
    <2> QED
      BY <2>1
  <1> QED
    BY <1>1, <1>3, <1>4, <1>5, <1>6, <1>7, <1>8 DEF Next, Scheduler

\* As long as its queries succeed, the scheduler sleeps no longer than any enabled
\* job has to wait but those the dashboard has saved enabled, however jobs come
\* and go and are edited, unless a token waits in notify.
THEOREM SleepTheorem ==
  ASSUME OneScheduler
  PROVE  Spec => []SleepsPrecisely
  <1> DEFINE Inv == CronTypes /\ SleepsPrecisely
  <1>1. Init => Inv
    <2> SUFFICES ASSUME Init PROVE Inv
      OBVIOUS
    <2> QED
      BY CronInitial DEF Init, SleepsPrecisely
  <1>2. Inv /\ [Next]_vars => Inv'
    <2> SUFFICES ASSUME Inv, [Next]_vars PROVE Inv'
      OBVIOUS
    <2>1. CronTypes'
      BY CronStep
    <2>2. SleepsPrecisely'
      <3> SUFFICES ASSUME faults' = 0, NEW i \in Instances, pc'[i] = "sleep",
                          NEW j \in Jobs, j \notin saved'
                   PROVE  Precise(i, j)'
        BY DEF SleepsPrecisely, Precise
      <3>1. faults = 0
        <4>1. faults' = faults \/ faults' = faults + 1
          <5>1. ASSUME NEW k \in Instances, Scheduler(k)
                PROVE  faults' = faults \/ faults' = faults + 1
            BY <5>1 DEF Scheduler, GetDueCronJobs, LockCronJob, CheckChannel,
               IncrementCronJobFailure, DropJob, Fire, Reschedule, GetNextDueTime, WakeUp,
               Restart, Fault, bounds
          <5>2. CASE \E k \in Instances : \/ Crash(k) \/ RouterTakes(k)
                                         \/ ChannelLost(k) \/ ChannelBack(k)
            BY <5>2 DEF Crash, RouterTakes, ChannelLost, ChannelBack, bounds
          <5>3. CASE \/ \E job \in Jobs, k \in Instances : CreateJob(job, k)
                     \/ \E job \in Jobs : DeleteJob(job) \/ ToggleRead(job)
                     \/ ToggleSave \/ ToggleFails \/ Tick \/ UNCHANGED vars
            BY <5>3 DEF CreateJob, DeleteJob, ToggleRead, ToggleSave, ToggleFails, Tick, Fault,
               bounds, vars
          <5> QED
            BY <5>1, <5>2, <5>3 DEF Next
        <4> QED
          BY <4>1, TotalTyped
      <3>2. pc[i] = "sleep" => \A k \in Jobs \ saved : Precise(i, k)
        BY <3>1 DEF SleepsPrecisely, Precise
      <3> QED
        BY <2>1, <3>2, SleepStep
    <2> QED
      BY <2>1, <2>2
  <1>3. Inv => SleepsPrecisely
    OBVIOUS
  <1> QED
    BY <1>1, <1>2, <1>3, PTL DEF Spec
-----------------------------------------------------------------------------
\* The schedulers about to drop a job, before and after a step.
LEMMA DropperCounts ==
  ASSUME IsFiniteSet(Instances), NEW j \in Jobs
  PROVE  /\ Cardinality(Instances) \in Nat /\ Cardinality(Droppers(j)) \in Nat
         /\ Cardinality(Droppers(j)') \in Nat
         /\ Cardinality(Droppers(j)) <= Cardinality(Instances)
         /\ Cardinality(Droppers(j)') <= Cardinality(Instances)
         /\ Droppers(j) \subseteq Droppers(j)'
              => Cardinality(Droppers(j)) <= Cardinality(Droppers(j)')
         /\ \A i : Droppers(j) \ {i} \subseteq Droppers(j)'
              => Cardinality(Droppers(j)) <= Cardinality(Droppers(j)') + 1
         /\ \A i : i \notin Droppers(j) /\ Droppers(j) \cup {i} \subseteq Droppers(j)'
              => Cardinality(Droppers(j)) + 1 <= Cardinality(Droppers(j)')
  <1>1. Droppers(j) \subseteq Instances /\ Droppers(j)' \subseteq Instances
    BY DEF Droppers
  <1> DEFINE D == Droppers(j)
             E == Droppers(j)'
  <1>2. /\ IsFiniteSet(D) /\ Cardinality(D) <= Cardinality(Instances)
        /\ IsFiniteSet(E) /\ Cardinality(E) <= Cardinality(Instances)
    BY <1>1, FS_Subset
  <1> HIDE DEF D, E
  <1>3. Cardinality(Instances) \in Nat /\ Cardinality(D) \in Nat /\ Cardinality(E) \in Nat
    BY <1>2, FS_CardinalityType
  <1>4. D \subseteq E => Cardinality(D) <= Cardinality(E)
    BY <1>2, FS_Subset
  <1>5. ASSUME NEW i, D \ {i} \subseteq E PROVE Cardinality(D) <= Cardinality(E) + 1
    <2>1. /\ IsFiniteSet(D \ {i})
          /\ Cardinality(D \ {i}) = IF i \in D THEN Cardinality(D) - 1 ELSE Cardinality(D)
      BY <1>2, FS_RemoveElement
    <2>2. Cardinality(D \ {i}) <= Cardinality(E)
      BY <1>2, <1>5, FS_Subset
    <2> QED
      BY <1>3, <2>1, <2>2
  <1>6. ASSUME NEW i, i \notin D, D \cup {i} \subseteq E
        PROVE  Cardinality(D) + 1 <= Cardinality(E)
    <2>1. Cardinality(D \cup {i}) = Cardinality(D) + 1
      BY <1>2, <1>6, FS_AddElement
    <2>2. Cardinality(D \cup {i}) <= Cardinality(E)
      BY <1>2, <1>6, FS_Subset
    <2> QED
      BY <2>1, <2>2
  <1> QED
    BY <1>2, <1>3, <1>4, <1>5, <1>6 DEF D, E

\* Sums of what is counted.
LEMMA Sums ==
  ASSUME NEW a \in Nat, NEW b \in Nat, NEW c \in Nat, NEW f \in Nat
  PROVE  /\ c = a /\ (f = b \/ f = b + 1)
              => a + b <= c + f /\ (f # b => a + b + 1 <= c + f)
         /\ c = a + 1 /\ f = b => a + b <= c + f /\ a + b + 1 <= c + f
         /\ \A d, e \in Nat : d <= e /\ a + b <= c + f => d + a + b <= e + c + f
         /\ \A d, e \in Nat : d <= e + 1 /\ a + b + 1 <= c + f => d + a + b <= e + c + f
         /\ \A n, d, e \in Nat : n < 3 + d + a + b /\ d + a + b <= e + c + f
                                   => n < 3 + e + c + f
  OBVIOUS

\* A job whose misses are not counted: no scheduler stops dropping it, unless by
\* a crash or a failed call, or with the row gone.
LEMMA FewStays ==
  ASSUME CronTypes, CronTypes', IsFiniteSet(Instances), NEW j \in Jobs, Few(j),
         failures'[j] = failures[j] \/ failures'[j] = 0,
         exists'[j] => exists[j] \/ failures'[j] = 0,
         crashes + faults <= crashes' + faults',
         \/ Droppers(j) \subseteq Droppers(j)'
         \/ ~exists'[j]
         \/ /\ \E i : Droppers(j) \ {i} \subseteq Droppers(j)'
            /\ crashes + faults + 1 <= crashes' + faults'
  PROVE  Few(j)'
  <1> DEFINE N == Cardinality(Instances)
             d == Cardinality(Droppers(j))
             e == Cardinality(Droppers(j)')
  <1>1. /\ N \in Nat /\ d \in Nat /\ e \in Nat /\ d <= N /\ e <= N
        /\ crashes \in Nat /\ faults \in Nat /\ crashes' \in Nat /\ faults' \in Nat
        /\ failures[j] \in Nat /\ failures'[j] \in Nat
    BY DropperCounts, TotalTyped, CronBounds DEF CronTypes, TableTypes, OtherTypes
  <1>2. ~exists'[j] \/ d + crashes + faults <= e + crashes' + faults'
    <2>1. CASE Droppers(j) \subseteq Droppers(j)'
      <3>1. d <= e
        BY <2>1, DropperCounts
      <3> HIDE DEF d, e
      <3> QED
        BY <1>1, <3>1, Sums
    <2>2. CASE /\ \E i : Droppers(j) \ {i} \subseteq Droppers(j)'
               /\ crashes + faults + 1 <= crashes' + faults'
      <3>1. d <= e + 1
        BY <2>2, DropperCounts
      <3>2. crashes + faults + 1 <= crashes' + faults'
        BY <2>2
      <3> HIDE DEF d, e
      <3> QED
        BY <1>1, <3>1, <3>2, Sums
    <2> QED
      BY <2>1, <2>2
  <1>3. /\ failures[j] < 3 + N + crashes + faults
        /\ exists[j] => failures[j] < 3 + d + crashes + faults
    BY DEF Few, cronMaxConsecutiveFailures
  <1> SUFFICES /\ failures'[j] < 3 + N + crashes' + faults'
               /\ exists'[j] => failures'[j] < 3 + e + crashes' + faults'
    BY DEF Few, cronMaxConsecutiveFailures
  <1> HIDE DEF N, d, e
  <1>4. CASE failures'[j] = 0
    <2>1. \A n, m, c, f \in Nat : n = 0 => n < 3 + m + c + f
      OBVIOUS
    <2> QED
      BY <1>1, <1>4, <2>1
  <1>5. CASE failures'[j] = failures[j] /\ failures'[j] # 0
    <2>1. failures'[j] < 3 + N + crashes' + faults'
      <3>1. N + crashes + faults <= N + crashes' + faults'
        <4>1. N <= N
          BY <1>1
        <4>2. crashes + faults <= crashes' + faults'
          OBVIOUS
        <4> QED
          BY <1>1, <4>1, <4>2, Sums
      <3> QED
        BY <1>1, <1>3, <1>5, <3>1, Sums
    <2>2. ASSUME exists'[j] PROVE failures'[j] < 3 + e + crashes' + faults'
      <3>1. failures[j] < 3 + d + crashes + faults /\ d + crashes + faults <= e + crashes' + faults'
        BY <1>2, <1>3, <1>5, <2>2
      <3> QED
        BY <1>1, <1>5, <3>1, Sums
    <2> QED
      BY <2>1, <2>2
  <1> QED
    BY <1>4, <1>5

\* A miss: the third one makes its scheduler a dropper, unless the count could
\* not be read back.
LEMMA FewAfterMiss ==
  ASSUME CronTypes, CronTypes', IsFiniteSet(Instances), NEW j \in Jobs, Few(j),
         exists[j], failures'[j] = failures[j] + 1,
         crashes' = crashes, Droppers(j) \subseteq Droppers(j)',
         \/ faults' = faults + 1
         \/ /\ faults' = faults
            /\ \/ failures[j] + 1 < cronMaxConsecutiveFailures
               \/ \E i : i \notin Droppers(j) /\ Droppers(j) \cup {i} \subseteq Droppers(j)'
  PROVE  Few(j)'
  <1> DEFINE N == Cardinality(Instances)
             d == Cardinality(Droppers(j))
             e == Cardinality(Droppers(j)')
  <1>1. /\ N \in Nat /\ d \in Nat /\ e \in Nat /\ e <= N /\ d <= e
        /\ crashes \in Nat /\ faults \in Nat /\ failures[j] \in Nat
    BY DropperCounts, TotalTyped DEF CronTypes, TableTypes
  <1>2. failures[j] < 3 + d + crashes + faults
    BY DEF Few, cronMaxConsecutiveFailures
  <1>3. (\E i : i \notin Droppers(j) /\ Droppers(j) \cup {i} \subseteq Droppers(j)') => d + 1 <= e
    BY DropperCounts
  <1> SUFFICES /\ failures'[j] < 3 + N + crashes' + faults'
               /\ failures'[j] < 3 + e + crashes' + faults'
    BY DEF Few, cronMaxConsecutiveFailures
  <1> HIDE DEF N, d, e
  <1>4. \/ faults' = faults + 1
        \/ faults' = faults /\ (failures[j] + 1 < 3 \/ d + 1 <= e)
    BY <1>3 DEF cronMaxConsecutiveFailures
  <1> QED
    BY <1>1, <1>2, <1>4

LEMMA MissStep ==
  ASSUME CronTypes, CronTypes', HandedOut, IsFiniteSet(Instances), FewMisses, [Next]_vars
  PROVE  FewMisses'
  <1>1. crashes \in Nat /\ faults \in Nat /\ crashes' \in Nat /\ faults' \in Nat
    BY TotalTyped, CronBounds DEF CronTypes, OtherTypes
  <1>2. ASSUME NEW i \in Instances, IncrementCronJobFailure(i), NEW j \in Jobs PROVE Few(j)'
    <2>1. /\ pc[i] = "miss" /\ crashes' = crashes /\ exists' = exists
          /\ \A k \in Instances \ {i} : pc'[k] = pc[k] /\ cur'[k] = cur[k]
      BY <1>2 DEF IncrementCronJobFailure, GoTo, CronTypes, SchedTypes
    <2>0. PICK job \in Jobs : job = cur[i].job
      BY <2>1, HandFacts DEF WorkPC
    <2>2. i \notin Droppers(j) /\ Droppers(j) \subseteq Droppers(j)'
      BY <2>1 DEF Droppers
    <2>3. ASSUME Miss(job)
          PROVE  /\ exists[job] /\ failures'[job] = failures[job] + 1
                 /\ \A k \in Jobs : k # job => failures'[k] = failures[k]
      BY <2>3 DEF Miss, CronTypes, TableTypes
    <2>4. \/ /\ Miss(job) /\ faults' = faults
             /\ \/ failures[job] + 1 < cronMaxConsecutiveFailures
                \/ pc'[i] = "drop" /\ cur' = cur
          \/ failures' = failures /\ faults' = faults
          \/ faults' = faults + 1 /\ (Miss(job) \/ failures' = failures)
      <3>1. CASE /\ Miss(job) /\ UNCHANGED faults
                 /\ GoTo(i, IF failures[job] + 1 >= cronMaxConsecutiveFailures
                            THEN "drop" ELSE "list")
        <4>1. CASE failures[job] + 1 >= cronMaxConsecutiveFailures
          <5>1. pc'[i] = "drop" /\ cur' = cur
            BY <1>2, <2>0, <3>1, <4>1 DEF IncrementCronJobFailure, GoTo, CronTypes, SchedTypes
          <5> QED
            BY <3>1, <5>1
        <4>2. CASE ~(failures[job] + 1 >= cronMaxConsecutiveFailures)
          <5>1. failures[job] \in Nat
            BY DEF CronTypes, TableTypes
          <5> QED
            BY <3>1, <4>2, <5>1 DEF cronMaxConsecutiveFailures
        <4> QED
          BY <4>1, <4>2
      <3>2. CASE UNCHANGED <<failures, lock, faults>>
        BY <3>2
      <3>3. CASE Fault /\ (Miss(job) \/ UNCHANGED <<failures, lock>>)
        BY <3>3 DEF Fault
      <3> QED
        BY <1>2, <2>0, <3>1, <3>2, <3>3 DEF IncrementCronJobFailure
    <2>5. crashes + faults <= crashes' + faults'
      BY <1>1, <2>1, <2>4, Sums
    <2>6. CASE j = job /\ Miss(job)
      <3>1. ASSUME pc'[i] = "drop", cur' = cur PROVE Droppers(j) \cup {i} \subseteq Droppers(j)'
        BY <2>0, <2>2, <2>6, <3>1 DEF Droppers
      <3>2. \/ faults' = faults + 1
            \/ /\ faults' = faults
               /\ \/ failures[j] + 1 < cronMaxConsecutiveFailures
                  \/ i \notin Droppers(j) /\ Droppers(j) \cup {i} \subseteq Droppers(j)'
        <4>1. CASE Miss(job) /\ faults' = faults
                   /\ (failures[job] + 1 < cronMaxConsecutiveFailures \/ (pc'[i] = "drop" /\ cur' = cur))
          BY <2>2, <2>6, <3>1, <4>1
        <4>2. CASE failures' = failures
          <5>1. failures[job] \in Nat /\ failures'[job] = failures[job] + 1
            BY <2>3, <2>6 DEF CronTypes, TableTypes
          <5> QED
            BY <4>2, <5>1
        <4>3. CASE faults' = faults + 1
          BY <4>3
        <4> QED
          BY <2>4, <4>1, <4>2, <4>3
      <3>3. exists[j] /\ failures'[j] = failures[j] + 1 /\ Few(j)
        BY <2>3, <2>6 DEF FewMisses
      <3> QED
        BY <2>1, <2>2, <3>2, <3>3, FewAfterMiss
    <2>7. CASE ~(j = job /\ Miss(job))
      <3>1. failures'[j] = failures[j]
        BY <2>3, <2>4, <2>7
      <3>2. exists'[j] => exists[j]
        BY <2>1
      <3> QED
        BY <2>2, <2>5, <3>1, <3>2, FewStays DEF FewMisses
    <2> QED
      BY <2>6, <2>7
  <1>3. ASSUME NEW i \in Instances, DropJob(i), NEW j \in Jobs PROVE Few(j)'
    <2>1. /\ failures' = failures /\ crashes' = crashes /\ pc[i] = "drop"
          /\ \/ faults' = faults + 1 /\ exists' = exists
             \/ faults' = faults /\ exists' = [exists EXCEPT ![cur[i].job] = FALSE]
          /\ \A k \in Instances \ {i} : pc'[k] = pc[k] /\ cur'[k] = cur[k]
      BY <1>3 DEF DropJob, Delete, Fault, GoTo, CronTypes, SchedTypes
    <2>2. /\ Droppers(j) \ {i} \subseteq Droppers(j)'
          /\ j # cur[i].job => Droppers(j) \subseteq Droppers(j)'
      BY <2>1 DEF Droppers
    <2>3. /\ exists'[j] => exists[j]
          /\ faults' = faults /\ j = cur[i].job => ~exists'[j]
      BY <2>1, <1>1 DEF CronTypes, TableTypes
    <2>4. /\ crashes + faults <= crashes' + faults'
          /\ faults' # faults => crashes + faults + 1 <= crashes' + faults'
      <3>1. crashes' = crashes /\ (faults' = faults \/ faults' = faults + 1)
        BY <2>1
      <3> QED
        BY <1>1, <3>1, Sums
    <2>5. failures'[j] = failures[j] /\ Few(j)
      BY <2>1 DEF FewMisses
    <2>6. CASE faults' = faults
      BY <2>2, <2>3, <2>4, <2>5, <2>6, FewStays
    <2>7. CASE faults' # faults
      BY <2>2, <2>3, <2>4, <2>5, <2>7, FewStays
    <2> QED
      BY <2>6, <2>7
  <1>4. ASSUME NEW i \in Instances, Crash(i), NEW j \in Jobs PROVE Few(j)'
    <2>1. /\ crashes' = crashes + 1 /\ faults' = faults /\ failures' = failures
          /\ exists' = exists
          /\ \A k \in Instances \ {i} : pc'[k] = pc[k] /\ cur'[k] = cur[k]
      BY <1>4 DEF Crash, GoTo, tableVars, CronTypes, SchedTypes
    <2>2. Droppers(j) \ {i} \subseteq Droppers(j)'
      BY <2>1 DEF Droppers
    <2>3. crashes + faults + 1 <= crashes' + faults' /\ crashes + faults <= crashes' + faults'
      BY <1>1, <2>1
    <2>4. failures'[j] = failures[j] /\ (exists'[j] => exists[j]) /\ Few(j)
      BY <2>1 DEF FewMisses
    <2> QED
      BY <2>2, <2>3, <2>4, FewStays
  <1>5. ASSUME \/ \E j \in Jobs, i \in Instances : CreateJob(j, i)
               \/ \E j \in Jobs : DeleteJob(j) \/ ToggleRead(j)
               \/ ToggleSave \/ Tick \/ UNCHANGED vars,
               NEW job \in Jobs
        PROVE  Few(job)'
    <2>1. /\ UNCHANGED <<pc, cur, crashes, faults>>
          /\ failures' = failures \/ (ToggleSave /\ ~exists[edit.job] /\
                                      failures' = [failures EXCEPT ![edit.job] = 0])
      BY <1>5 DEF CreateJob, DeleteJob, ToggleRead, ToggleSave, Tick, vars, schedVars,
         tableVars, bounds
    <2>2. exists'[job] => exists[job] \/ failures'[job] = 0
      <3>1. CASE ToggleSave
        BY <3>1 DEF ToggleSave, CronTypes, TableTypes
      <3>2. ASSUME NEW k \in Jobs, NEW i \in Instances, CreateJob(k, i)
            PROVE  exists'[job] => exists[job] \/ failures'[job] = 0
        BY <3>2 DEF CreateJob, CronTypes, TableTypes, HandedOut, NotMade
      <3>3. CASE \/ \E j \in Jobs : DeleteJob(j) \/ ToggleRead(j)
                 \/ Tick \/ UNCHANGED vars
        BY <3>3 DEF DeleteJob, Delete, ToggleRead, Tick, vars, tableVars, CronTypes, TableTypes
      <3> QED
        BY <1>5, <3>1, <3>2, <3>3
    <2>3. failures'[job] = failures[job] \/ failures'[job] = 0
      BY <2>1 DEF CronTypes, TableTypes
    <2>4. Droppers(job) \subseteq Droppers(job)' /\ crashes + faults <= crashes' + faults'
      BY <1>1, <2>1 DEF Droppers
    <2> QED
      BY <2>2, <2>3, <2>4, FewStays DEF FewMisses
  <1>6. ASSUME NEW i \in Instances,
               \/ GetDueCronJobs(i) \/ LockCronJob(i) \/ CheckChannel(i) \/ Fire(i)
               \/ Reschedule(i) \/ GetNextDueTime(i) \/ WakeUp(i) \/ Restart(i)
               \/ RouterTakes(i) \/ ChannelLost(i) \/ ChannelBack(i),
               NEW j \in Jobs
        PROVE  Few(j)'
    <2>1. /\ crashes' = crashes
          /\ (faults' = faults \/ faults' = faults + 1)
          /\ (failures' = failures \/ failures' = [failures EXCEPT ![cur[i].job] = 0])
          /\ (exists' = exists \/ exists' = [exists EXCEPT ![cur[i].job] = FALSE])
          /\ pc[i] = "drop" => pc'[i] = "drop" /\ cur'[i] = cur[i]
          /\ \A k \in Instances \ {i} : pc'[k] = pc[k] /\ cur'[k] = cur[k]
      BY <1>6 DEF GetDueCronJobs, LockCronJob, CheckChannel, Fire, Reschedule,
         UpdateCronJobRun, Delete, GetNextDueTime, WakeUp, Restart, RouterTakes, ChannelLost,
         ChannelBack, Fault, GoTo, tableVars, schedVars, bounds, CronTypes, SchedTypes
    <2>2. Droppers(j) \subseteq Droppers(j)'
      BY <2>1 DEF Droppers
    <2>3. /\ exists'[j] => exists[j]
          /\ failures'[j] = failures[j] \/ failures'[j] = 0
      BY <2>1 DEF CronTypes, TableTypes
    <2>4. crashes + faults <= crashes' + faults'
      <3>1. crashes' = crashes /\ (faults' = faults \/ faults' = faults + 1)
        BY <2>1
      <3> QED
        BY <1>1, <3>1, Sums
    <2> QED
      BY <2>2, <2>3, <2>4, FewStays DEF FewMisses
  <1>7. ASSUME ToggleFails, NEW j \in Jobs PROVE Few(j)'
    <2>1. /\ faults' = faults + 1
          /\ UNCHANGED <<exists, failures, pc, cur, crashes>>
      BY <1>7 DEF ToggleFails, Fault, tableVars, schedVars
    <2>2. Droppers(j) \subseteq Droppers(j)' /\ crashes + faults <= crashes' + faults'
      BY <1>1, <2>1, Sums DEF Droppers
    <2> QED
      BY <2>1, <2>2, FewStays DEF FewMisses
  <1> SUFFICES ASSUME NEW j \in Jobs PROVE Few(j)'
    BY DEF FewMisses
  <1> QED
    BY <1>2, <1>3, <1>4, <1>5, <1>6, <1>7 DEF Next, Scheduler

\* The types, for any number of schedulers: a row's misses are bounded, since
\* whoever counts the third one drops it, unless a crash or a failed call comes
\* between.
THEOREM CronTypeTheorem ==
  ASSUME IsFiniteSet(Instances)
  PROVE  Spec => []TypeOK
  <1> DEFINE Inv == CronTypes /\ HandedOut /\ FewMisses
  <1>1. Init => Inv
    <2> SUFFICES ASSUME Init PROVE Inv
      OBVIOUS
    <2>1. HandedOut
      BY DEF Init, HandedOut, ItemsOut, RowsOut, EditOut, NotMade, NotFired, NoRow
    <2>2. FewMisses
      <3> SUFFICES ASSUME NEW j \in Jobs PROVE Few(j)
        BY DEF FewMisses
      <3>1. failures[j] = 0 /\ ~exists[j] /\ crashes = 0 /\ faults = 0
        BY DEF Init
      <3>2. Cardinality(Instances) \in Nat
        BY FS_CardinalityType
      <3> QED
        BY <3>1, <3>2 DEF Few, cronMaxConsecutiveFailures
    <2> QED
      BY <2>1, <2>2, CronInitial
  <1>2. Inv /\ [Next]_vars => Inv'
    BY CronStep, HandedStep, MissStep
  <1>3. Inv => TypeOK
    <2> SUFFICES ASSUME Inv PROVE TypeOK
      OBVIOUS
    <2>1. Cardinality(Instances) \in Nat
      BY FS_CardinalityType
    <2>2. \A j \in Jobs : failures[j] \in 0..(cronMaxConsecutiveFailures + Cardinality(Instances)
                                            + MaxCrashes + MaxFaults)
      BY <2>1, CronBounds DEF FewMisses, Few, CronTypes, TableTypes, OtherTypes,
         cronMaxConsecutiveFailures
    <2>3. failures \in [Jobs -> 0..(cronMaxConsecutiveFailures + Cardinality(Instances)
                                            + MaxCrashes + MaxFaults)]
      BY <2>2 DEF CronTypes, TableTypes
    <2>4. /\ Item \subseteq ItemType /\ NoItem \in ItemType
          /\ NoEdit \in [job : Jobs \cup {NoJob}, row : RowType]
      BY ItemFacts, CronBounds DEF Item, ItemType, NoItem, NoEdit, Occurrences
    <2>5. /\ todo \in [Instances -> SUBSET ItemType] /\ cur \in [Instances -> ItemType]
          /\ edit \in [job : Jobs \cup {NoJob}, row : RowType]
      BY <2>4 DEF CronTypes, SchedTypes, OtherTypes
    <2> QED
      BY <2>3, <2>5 DEF TypeOK, CronTypes, TableTypes, SchedTypes, OtherTypes, CronPC, WorkPC
  <1> QED
    BY <1>1, <1>2, <1>3, PTL DEF Spec

=============================================================================
