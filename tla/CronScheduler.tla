---------------------------- MODULE CronScheduler ---------------------------
(***************************************************************************)
(* internal/cron/scheduler.go over the cron_jobs table of                  *)
(* internal/store/database.go: every replica of the gateway runs a         *)
(* scheduler that lists the due jobs, locks, fires and reschedules them    *)
(* one by one, and sleeps until the next one is due.  The agent's cron     *)
(* tool creates and deletes jobs; the dashboard enables and disables them. *)
(*                                                                         *)
(* An occurrence of a job, a value of next_run, is named by a number; an   *)
(* interval job has MaxRuns of them, and after the last its next_run is    *)
(* Never.  Times are ages and times to go.  A Tick waits for schedulers    *)
(* with a job in hand, except for one blocked on the full inbound bus.     *)
(***************************************************************************)
EXTENDS Integers, FiniteSets

CONSTANTS
    Instances,     \* the schedulers, one per replica
    Jobs,          \* job IDs
    NoJob,         \* none of them
    OnceJobs,      \* the jobs of type "once"; the others are of type "interval"
    Period,        \* the period of an interval, the delay of a once
    IdleSleep,     \* the sleep of a scheduler without jobs (5 minutes)
    LockTTL,       \* age at which a lock may be taken over (5 minutes)
    Capacity,      \* room of the inbound bus
    MaxRuns,       \* bound on the occurrences of an interval job
    MaxCrashes, MaxFaults, MaxToggles, MaxOutages    \* bounds on what goes wrong

ASSUME CronAssumption ==
    /\ Instances # {} /\ NoJob \notin Jobs /\ OnceJobs \subseteq Jobs
    /\ {Period, IdleSleep, LockTTL, Capacity, MaxRuns} \subseteq Nat \ {0}
    /\ {MaxCrashes, MaxFaults, MaxToggles, MaxOutages} \subseteq Nat

Never == -1
Unlocked == -1
cronMaxConsecutiveFailures == 3
Occurrences == 0..(MaxRuns + 1)

VARIABLES
    \* the table cron_jobs
    exists,     \* there is a row
    row,        \* its enabled and next_run: an occurrence and the time to it
    lock,       \* age of locked_at, or Unlocked
    failures,   \* failure_count
    \* the schedulers
    pc,         \* where a scheduler is in pollStore and processDueJobs
    todo,       \* the rest of the due list, as it was read
    cur,        \* the job in hand
    age,        \* time since "now" was read at the head of processDueJobs
    sleep,      \* what is left of the timer
    notify,     \* globalNotify has a token
    \* the surroundings
    bus,        \* messages in a replica's bus.Inbound
    reachable,  \* its channels.Manager has the jobs' channel
    edit,       \* the dashboard's toggle in progress: the row it will save
    saved,      \* the jobs it has saved enabled
    \* history and bounds
    used,       \* the last occurrence handed out for a job
    fired,      \* how often an occurrence was put on the bus
    crashes, faults, toggles, outages

tableVars == <<exists, row, lock, failures>>
schedVars == <<pc, todo, cur, age, sleep>>
envVars   == <<reachable, edit, saved>>
bounds    == <<crashes, faults, toggles, outages>>
vars == <<tableVars, schedVars, notify, bus, envVars, used, fired, bounds>>

NoRow == [enabled |-> FALSE, run |-> 0, wait |-> Never]
NoItem == [job |-> NoJob, run |-> 0]
NoEdit == [job |-> NoJob, row |-> NoRow]

Init ==
    /\ exists = [j \in Jobs |-> FALSE]
    /\ row = [j \in Jobs |-> NoRow]
    /\ lock = [j \in Jobs |-> Unlocked]
    /\ failures = [j \in Jobs |-> 0]
    /\ pc = [i \in Instances |-> "poll"]
    /\ todo = [i \in Instances |-> {}]
    /\ cur = [i \in Instances |-> NoItem]
    /\ age = [i \in Instances |-> 0]
    /\ sleep = [i \in Instances |-> 0]
    /\ notify = [i \in Instances |-> FALSE]
    /\ bus = [i \in Instances |-> 0]
    /\ reachable = [i \in Instances |-> TRUE]
    /\ edit = NoEdit
    /\ saved = {}
    /\ used = [j \in Jobs |-> 0]
    /\ fired = [o \in Jobs \X Occurrences |-> 0]
    /\ crashes = 0 /\ faults = 0 /\ toggles = 0 /\ outages = 0

GoTo(i, where) == pc' = [pc EXCEPT ![i] = where]
Fault == faults < MaxFaults /\ faults' = faults + 1
Delete(j) == exists' = [exists EXCEPT ![j] = FALSE]

-----------------------------------------------------------------------------
(***************************************************************************)
(* pollStore and processDueJobs.                                           *)
(***************************************************************************)
Due(j) == exists[j] /\ row[j].enabled /\ row[j].wait = 0

GetDueCronJobs(i) ==
    /\ pc[i] = "poll"
    /\ \/ /\ todo' = [todo EXCEPT ![i] = {[job |-> j, run |-> row[j].run] :
                                              j \in {k \in Jobs : Due(k)}}]
          /\ UNCHANGED faults
       \/ Fault /\ UNCHANGED todo
    /\ age' = [age EXCEPT ![i] = 0]
    /\ GoTo(i, "list")
    /\ UNCHANGED <<tableVars, cur, sleep, notify, bus, envVars, used, fired,
                   crashes, toggles, outages>>

\* The lock looks at the row's lock alone, not at next_run or enabled again.
LockIsFree(j) == exists[j]                     \* (mutant: locked_by not looked at)
NoTakeover(j) == exists[j] /\ lock[j] = Unlocked   \* (mutant: locked_at not looked at)
Lockable(j) == exists[j] /\ (lock[j] = Unlocked \/ lock[j] > LockTTL)

LockCronJob(i) ==
    /\ pc[i] = "list"
    /\ \E item \in todo[i] :
        /\ todo' = [todo EXCEPT ![i] = @ \ {item}]
        /\ \/ /\ Lockable(item.job)
              /\ lock' = [lock EXCEPT ![item.job] = 0]
              /\ cur' = [cur EXCEPT ![i] = item]
              /\ GoTo(i, "check")
              /\ UNCHANGED faults
           \/ /\ ~Lockable(item.job)
              /\ UNCHANGED <<lock, cur, pc, faults>>
           \/ /\ Fault                                  \* err: continue
              /\ UNCHANGED <<cur, pc>>
              /\ \/ UNCHANGED lock
                 \/ Lockable(item.job) /\ lock' = [lock EXCEPT ![item.job] = 0]
    /\ UNCHANGED <<exists, row, failures, age, sleep, notify, bus, envVars, used,
                   fired, crashes, toggles, outages>>

\* The pre-flight asks the channel manager.
CheckChannel(i) ==
    /\ pc[i] = "check"
    /\ GoTo(i, IF reachable[i] THEN "send" ELSE "miss")
    /\ UNCHANGED <<tableVars, todo, cur, age, sleep, notify, bus, envVars, used,
                   fired, bounds>>

\* One more miss: the lock is cleared, next_run stays.  The row may be gone,
\* and the count may fail to be read back.
Miss(j) ==
    /\ exists[j]
    /\ failures' = [failures EXCEPT ![j] = @ + 1]
    /\ lock' = [lock EXCEPT ![j] = Unlocked]

IncrementCronJobFailure(i) ==
    LET j == cur[i].job
    IN  /\ pc[i] = "miss"
        /\ \/ /\ Miss(j)
              /\ GoTo(i, IF failures[j] + 1 >= cronMaxConsecutiveFailures
                         THEN "drop" ELSE "list")
              /\ UNCHANGED faults
           \/ /\ ~exists[j]
              /\ GoTo(i, "list")
              /\ UNCHANGED <<failures, lock, faults>>
           \/ /\ Fault
              /\ GoTo(i, "list")
              /\ Miss(j) \/ UNCHANGED <<failures, lock>>
        /\ cur' = IF pc'[i] = "list" THEN [cur EXCEPT ![i] = NoItem] ELSE cur
        /\ UNCHANGED <<exists, row, todo, age, sleep, notify, bus, envVars, used,
                       fired, crashes, toggles, outages>>

\* The row of a dead destination is deleted.
DropJob(i) ==
    /\ pc[i] = "drop"
    /\ \/ Delete(cur[i].job) /\ UNCHANGED faults
       \/ Fault /\ UNCHANGED exists
    /\ GoTo(i, "list")
    /\ cur' = [cur EXCEPT ![i] = NoItem]
    /\ UNCHANGED <<row, lock, failures, todo, age, sleep, notify, bus, envVars, used,
                   fired, crashes, toggles, outages>>

\* "s.bus.Inbound <- ...", which blocks while the bus is full.
Unbounded(i) == TRUE                           \* (mutant: the bus never fills)
Room(i) == bus[i] < Capacity

Fire(i) ==
    /\ pc[i] = "send"
    /\ Room(i)
    /\ bus' = [bus EXCEPT ![i] = @ + 1]
    /\ fired' = [fired EXCEPT ![<<cur[i].job, cur[i].run>>] = @ + 1]
    /\ GoTo(i, "update")
    /\ UNCHANGED <<tableVars, todo, cur, age, sleep, notify, envVars, used, bounds>>

\* next_run of an interval job: a period after the "now" of the poll.
NextRun(j, elapsed) ==
    IF j \in OnceJobs \/ used[j] >= MaxRuns
    THEN [enabled |-> row[j].enabled, run |-> MaxRuns + 1, wait |-> Never]
    ELSE [enabled |-> row[j].enabled, run |-> used[j] + 1, wait |-> Period - elapsed]

\* (mutant: next_run left as it is)
KeepNextRun(j, i) ==
    /\ lock' = [lock EXCEPT ![j] = Unlocked]
    /\ failures' = [failures EXCEPT ![j] = 0]
    /\ UNCHANGED <<row, used>>

UpdateCronJobRun(j, i) ==
    /\ row' = IF exists[j] THEN [row EXCEPT ![j] = NextRun(j, age[i])] ELSE row
    /\ used' = IF exists[j] /\ NextRun(j, age[i]).wait # Never
               THEN [used EXCEPT ![j] = @ + 1] ELSE used
    /\ lock' = [lock EXCEPT ![j] = Unlocked]
    /\ failures' = [failures EXCEPT ![j] = 0]

\* A once job's row is deleted, or put off for ever if that fails; a failed
\* UpdateCronJobRun is ignored.  What fails the delete may fail the update too.
Reschedule(i) ==
    LET j == cur[i].job
    IN  /\ pc[i] = "update"
        /\ \/ /\ j \in OnceJobs
              /\ Delete(j)
              /\ UNCHANGED <<row, used, lock, failures, faults>>
           \/ /\ j \in OnceJobs /\ Fault
              /\ UpdateCronJobRun(j, i)
              /\ UNCHANGED exists
           \/ /\ j \notin OnceJobs
              /\ UpdateCronJobRun(j, i)
              /\ UNCHANGED <<exists, faults>>
           \/ /\ Fault
              /\ UNCHANGED <<tableVars, used>>
        /\ GoTo(i, "list")
        /\ cur' = [cur EXCEPT ![i] = NoItem]
        /\ UNCHANGED <<todo, age, sleep, notify, bus, envVars, fired, crashes,
                       toggles, outages>>

\* The time to the earliest next_run of the enabled jobs, due or not.
Waits == {row[j].wait : j \in {k \in Jobs : exists[k] /\ row[k].enabled}}
Upcoming == Waits \ {Never}
Earliest == CHOOSE w \in Upcoming : \A v \in Upcoming : w <= v

\* Nothing is left to do: sleep until the next job is due.  Idle means no
\* enabled row at all; far-future rows alone let it sleep until notified.
GetNextDueTime(i) ==
    /\ pc[i] = "list" /\ todo[i] = {}
    /\ \/ /\ Upcoming # {} /\ Earliest = 0
          /\ GoTo(i, "poll")
          /\ UNCHANGED <<sleep, faults>>
       \/ /\ ~(Upcoming # {} /\ Earliest = 0)
          /\ GoTo(i, "sleep")
          /\ sleep' = [sleep EXCEPT ![i] = CASE Waits = {} -> IdleSleep
                                             [] Waits = {Never} -> Never
                                             [] OTHER -> Earliest]
          /\ UNCHANGED faults
       \/ /\ Fault
          /\ GoTo(i, "sleep")
          /\ sleep' = [sleep EXCEPT ![i] = IdleSleep]
    /\ age' = [age EXCEPT ![i] = 0]
    /\ UNCHANGED <<tableVars, todo, cur, notify, bus, envVars, used, fired,
                   crashes, toggles, outages>>

\* The select after it.
WakeUp(i) ==
    /\ pc[i] = "sleep"
    /\ \/ sleep[i] = 0 /\ UNCHANGED notify
       \/ notify[i] /\ notify' = [notify EXCEPT ![i] = FALSE]
    /\ sleep' = [sleep EXCEPT ![i] = 0]
    /\ GoTo(i, "poll")
    /\ UNCHANGED <<tableVars, todo, cur, age, bus, envVars, used, fired, bounds>>

-----------------------------------------------------------------------------
(***************************************************************************)
(* The agent's cron tool, which runs in one of the replicas, and the       *)
(* dashboard.                                                              *)
(***************************************************************************)
Unnotified(i) == UNCHANGED notify              \* (mutant: no NotifyJobCreated)
NotifyJobCreated(i) == notify' = [notify EXCEPT ![i] = TRUE]

CreateJob(j, i) ==
    /\ used[j] = 0 /\ pc[i] # "down"
    /\ exists' = [exists EXCEPT ![j] = TRUE]
    /\ row' = [row EXCEPT ![j] = [enabled |-> TRUE, run |-> 1, wait |-> Period]]
    /\ used' = [used EXCEPT ![j] = 1]
    /\ NotifyJobCreated(i)
    /\ UNCHANGED <<lock, failures, schedVars, bus, envVars, fired, bounds>>

DeleteJob(j) ==
    /\ exists[j]
    /\ Delete(j)
    /\ UNCHANGED <<row, lock, failures, schedVars, notify, bus, envVars, used, fired, bounds>>

\* The dashboard reads the row, sets enabled to what the request says, which
\* may be what it was, and saves the whole row: an upsert, which inserts it
\* anew if it is gone by then.
ToggleRead(j) ==
    /\ edit = NoEdit /\ toggles < MaxToggles
    /\ exists[j]
    /\ \E enabled \in BOOLEAN :
          edit' = [job |-> j, row |-> [row[j] EXCEPT !.enabled = enabled]]
    /\ toggles' = toggles + 1
    /\ UNCHANGED <<tableVars, schedVars, notify, bus, reachable, saved, used, fired,
                   crashes, faults, outages>>

ToggleSave ==
    LET j == edit.job
    IN  /\ edit # NoEdit
        /\ exists' = [exists EXCEPT ![j] = TRUE]
        /\ row' = [row EXCEPT ![j] = edit.row]
        /\ lock' = IF exists[j] THEN lock ELSE [lock EXCEPT ![j] = Unlocked]
        /\ failures' = IF exists[j] THEN failures ELSE [failures EXCEPT ![j] = 0]
        /\ saved' = IF edit.row.enabled THEN saved \cup {j} ELSE saved
        /\ edit' = NoEdit
        /\ UNCHANGED <<schedVars, notify, bus, reachable, used, fired, bounds>>

\* SaveCronJob fails and the request with it.
ToggleFails ==
    /\ edit # NoEdit /\ Fault
    /\ edit' = NoEdit
    /\ UNCHANGED <<tableVars, schedVars, notify, bus, reachable, saved, used, fired,
                   crashes, toggles, outages>>

-----------------------------------------------------------------------------
(***************************************************************************)
(* The surroundings.                                                       *)
(***************************************************************************)
\* The inbound router takes a message.
RouterTakes(i) ==
    /\ bus[i] > 0
    /\ bus' = [bus EXCEPT ![i] = @ - 1]
    /\ UNCHANGED <<tableVars, schedVars, notify, envVars, used, fired, bounds>>

ChannelLost(i) ==
    /\ reachable[i] /\ outages < MaxOutages
    /\ reachable' = [reachable EXCEPT ![i] = FALSE]
    /\ outages' = outages + 1
    /\ UNCHANGED <<tableVars, schedVars, notify, bus, edit, saved, used, fired, crashes,
                   faults, toggles>>

ChannelBack(i) ==
    /\ ~reachable[i]
    /\ reachable' = [reachable EXCEPT ![i] = TRUE]
    /\ UNCHANGED <<tableVars, schedVars, notify, bus, edit, saved, used, fired, bounds>>

Crash(i) ==
    /\ pc[i] # "down" /\ crashes < MaxCrashes
    /\ crashes' = crashes + 1
    /\ GoTo(i, "down")
    /\ todo' = [todo EXCEPT ![i] = {}]
    /\ cur' = [cur EXCEPT ![i] = NoItem]
    /\ notify' = [notify EXCEPT ![i] = FALSE]
    /\ bus' = [bus EXCEPT ![i] = 0]
    /\ UNCHANGED <<tableVars, age, sleep, envVars, used, fired, faults, toggles, outages>>

Restart(i) ==
    /\ pc[i] = "down"
    /\ GoTo(i, "poll")
    /\ UNCHANGED <<tableVars, todo, cur, age, sleep, notify, bus, envVars, used,
                   fired, bounds>>

\* A scheduler that finds the due jobs locked by somebody else goes round
\* between "poll" and "list" and takes time there.
TimeMayPass(i) ==
    \/ pc[i] \in {"poll", "down"}
    \/ pc[i] = "list" /\ \A item \in todo[i] : ~Lockable(item.job)
    \/ pc[i] = "send" /\ ~Room(i)
    \/ pc[i] = "sleep" /\ sleep[i] # 0 /\ ~notify[i]

Less(n) == IF n > 0 THEN n - 1 ELSE n

Tick ==
    /\ \A i \in Instances : TimeMayPass(i)
    /\ edit = NoEdit
    /\ row' = [j \in Jobs |-> [row[j] EXCEPT !.wait = Less(@)]]
    /\ lock' = [j \in Jobs |-> IF lock[j] \in 0..LockTTL THEN lock[j] + 1 ELSE lock[j]]
    /\ age' = [i \in Instances |-> IF pc[i] \in {"list", "send"} /\ age[i] < Period
                                     THEN age[i] + 1 ELSE age[i]]
    /\ sleep' = [i \in Instances |-> Less(sleep[i])]
    /\ UNCHANGED <<exists, failures, pc, todo, cur, notify, bus, envVars, used, fired,
                   bounds>>

Scheduler(i) ==
    \/ GetDueCronJobs(i) \/ LockCronJob(i) \/ CheckChannel(i)
    \/ IncrementCronJobFailure(i) \/ DropJob(i)
    \/ Fire(i) \/ Reschedule(i)
    \/ GetNextDueTime(i) \/ WakeUp(i) \/ Restart(i)

Next ==
    \/ \E i \in Instances :
          Scheduler(i) \/ Crash(i) \/ RouterTakes(i) \/ ChannelLost(i) \/ ChannelBack(i)
    \/ \E j \in Jobs, i \in Instances : CreateJob(j, i)
    \/ \E j \in Jobs : DeleteJob(j) \/ ToggleRead(j)
    \/ ToggleSave \/ ToggleFails
    \/ Tick

Spec == Init /\ [][Next]_vars

\* Schedulers and the router run, crashed replicas are restarted, a handler
\* finishes, time passes.
FairSpec ==
    /\ Spec
    /\ \A i \in Instances : WF_vars(Scheduler(i)) /\ WF_vars(RouterTakes(i))
    /\ WF_vars(ToggleSave \/ ToggleFails) /\ WF_vars(Tick)

-----------------------------------------------------------------------------
\* The type invariant.
Waiting == {Never} \cup 0..Period
RowType == [enabled : BOOLEAN, run : Occurrences, wait : Waiting]
ItemType == [job : Jobs \cup {NoJob}, run : Occurrences]

TypeOK ==
    /\ exists \in [Jobs -> BOOLEAN]
    /\ row \in [Jobs -> RowType]
    /\ lock \in [Jobs -> {Unlocked} \cup 0..(LockTTL + 1)]
    /\ failures \in [Jobs -> 0..(cronMaxConsecutiveFailures + Cardinality(Instances)
                               + MaxCrashes + MaxFaults)]
    /\ pc \in [Instances -> {"poll", "list", "check", "miss", "drop", "send",
                             "update", "sleep", "down"}]
    /\ todo \in [Instances -> SUBSET ItemType]
    /\ cur \in [Instances -> ItemType]
    /\ age \in [Instances -> 0..Period]
    /\ sleep \in [Instances -> {Never} \cup 0..(Period + IdleSleep)]
    /\ notify \in [Instances -> BOOLEAN]
    /\ bus \in [Instances -> 0..Capacity]
    /\ reachable \in [Instances -> BOOLEAN]
    /\ edit \in [job : Jobs \cup {NoJob}, row : RowType]
    /\ saved \subseteq Jobs
    /\ used \in [Jobs -> 0..MaxRuns]

\* An occurrence fires once, and once more at most for every crash, every failed
\* write, and every edit in the dashboard that overlaps its firing.
OncePerOccurrence ==
    \A o \in Jobs \X Occurrences : fired[o] <= 1 + crashes + faults + toggles

\* Two schedulers do not have one job in hand, unless one was blocked on the bus
\* for longer than a lock lasts: the runs give the bus room.  A third miss gives
\* the lock back before the row is dropped.
Working(i, j) == cur[i].job = j /\ pc[i] # "drop"
LockExcludes ==
    \A i, k \in Instances : i # k => \A j \in Jobs : ~(Working(i, j) /\ Working(k, j))

\* As long as its queries succeed, a sleeping scheduler wakes up in time for
\* every enabled job but those the dashboard has saved enabled: it does not
\* notify, and what it saves may be due earlier than what was there.
SleepsPrecisely ==
    faults = 0 =>
        \A i \in Instances, j \in Jobs \ saved :
            pc[i] = "sleep" /\ ~notify[i] /\ exists[j] /\ row[j].enabled /\ row[j].wait # Never
                => sleep[i] # Never /\ sleep[i] <= row[j].wait

\* A job that is due fires or is rescheduled by who fired it, unless it is
\* deleted or disabled first: whatever crashed while it had the job locked, or
\* failed to write.
DueJobFires ==
    \A j \in Jobs : \A n \in 1..MaxRuns :
        (Due(j) /\ row[j].run = n) ~>
            (fired[<<j, n>>] > 0 \/ row[j].run # n \/ ~exists[j] \/ ~row[j].enabled)
=============================================================================
