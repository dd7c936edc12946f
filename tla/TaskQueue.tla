----------------------------- MODULE TaskQueue ------------------------------
(***************************************************************************)
(* internal/taskqueue/queue.go: the queue between the gateway's inbound    *)
(* router and the agents.  A chat gets a buffered Go channel and a worker  *)
(* goroutine on its first task; the workers share a counting semaphore; a  *)
(* janitor closes the channel of a chat that looks idle.                   *)
(*                                                                         *)
(* A chatQueue object and its worker are named by the task whose Submit    *)
(* created them: a chat whose queue was removed gets a new object later,   *)
(* while the worker of the old one may still be busy.                      *)
(*                                                                         *)
(* Time.  The code compares time.Now() with lastUsed and bounds a handler  *)
(* by taskTimeout; the model keeps the two ages and a Tick that advances   *)
(* them.  Goroutines that are able to run take no time: a Tick waits for   *)
(* every step that needs no waiting (the unit of a Tick is minutes).       *)
(***************************************************************************)
EXTENDS Integers, SequencesExt, FiniteSets

CONSTANTS
    Chats,           \* the serialization keys (channel:account:chat)
    MaxTasks,        \* bound on the tasks submitted in a behaviour
    MaxConcurrent,   \* capacity of the semaphore (Queue.maxConcurrent)
    Capacity,        \* buffer of a chat's channel (100 in the code)
    TaskTimeout,     \* deadline of a handler, in Ticks (Queue.taskTimeout)
    IdleTimeout,     \* age after which a chat is idle (Queue.idleTimeout)
    Retention        \* tasks kept for observability (200 in the code)

ASSUME QueueAssumption ==
    /\ Chats # {}
    /\ MaxTasks \in Nat
    /\ MaxConcurrent \in Nat \ {0}
    /\ Capacity \in Nat \ {0}
    /\ TaskTimeout \in Nat \ {0}
    /\ IdleTimeout \in Nat \ {0}
    /\ Retention \in Nat

VARIABLES
    seq,        \* Queue.seq: tasks are numbered 1..seq
    status,     \* Task.Status, "none" before the task exists
    chatKey,    \* Task.ChatKey
    listed,     \* domain of Queue.tasks
    pruning,    \* a pruneOldTasks goroutine is about to run
    queueOf,    \* Queue.chatQueues: the object registered for a chat, or 0
    ch,         \* chatQueue.ch: the buffered tasks, oldest first
    closed,     \* the channel was closed by the janitor
    idle,       \* now - chatQueue.lastUsed, up to IdleTimeout + 1
    pc,         \* where the worker goroutine of a queue is
    job,        \* the task in the worker's hands, or 0
    runtime,    \* age of the handler call in progress, up to TaskTimeout
    sem,        \* len(Queue.sem)
    waiters,    \* workers blocked on Queue.sem, in the order Go serves them
    sending,    \* the task Submit has registered and not yet sent, or 0
    dest,       \* the queue object Submit will send it to
    stopped     \* Queue.ctx was cancelled by Stop

submitVars == <<seq, chatKey, sending, dest>>
taskVars   == <<status, listed, pruning>>
queueVars  == <<queueOf, ch, closed, idle>>
workVars   == <<pc, job, runtime, sem, waiters>>
vars == <<submitVars, taskVars, queueVars, workVars, stopped>>

Tasks  == 1..MaxTasks
Queues == Tasks
Finished == {"done", "failed"}

Status == {"none", "pending", "running"} \cup Finished
WorkerPC ==
    {"none", "idle", "acquire", "mark", "running", "release", "touch", "exited"}

-----------------------------------------------------------------------------
Init ==
    /\ seq = 0
    /\ status = [t \in Tasks |-> "none"]
    /\ chatKey = [t \in Tasks |-> CHOOSE c \in Chats : TRUE]
    /\ listed = {}
    /\ pruning = FALSE
    /\ queueOf = [c \in Chats |-> 0]
    /\ ch = [q \in Queues |-> <<>>]
    /\ closed = [q \in Queues |-> FALSE]
    /\ idle = [q \in Queues |-> 0]
    /\ pc = [q \in Queues |-> "none"]
    /\ job = [q \in Queues |-> 0]
    /\ runtime = [q \in Queues |-> 0]
    /\ sem = 0
    /\ waiters = <<>>
    /\ sending = 0
    /\ dest = 0
    /\ stopped = FALSE

\* The queue object of a chat; a chat without one gets a new object, named by
\* the task being submitted.
FreshQueue(c) == seq + 1                       \* (mutant: never finds the old one)
QueueFor(c) == IF queueOf[c] = 0 THEN seq + 1 ELSE queueOf[c]

\* Submit up to the unlock.  Its only caller is the router goroutine, which
\* has returned before Gateway.Run calls Stop.
Submit(c) ==
    LET t == seq + 1
        q == QueueFor(c)
    IN  /\ sending = 0 /\ ~stopped
        /\ seq < MaxTasks
        /\ seq' = t
        /\ status' = [status EXCEPT ![t] = "pending"]
        /\ chatKey' = [chatKey EXCEPT ![t] = c]
        /\ listed' = listed \cup {t}
        /\ queueOf' = [queueOf EXCEPT ![c] = q]
        /\ pc' = IF q = t THEN [pc EXCEPT ![t] = "idle"] ELSE pc
        /\ idle' = [idle EXCEPT ![q] = 0]
        /\ sending' = t
        /\ dest' = q
        /\ UNCHANGED <<pruning, ch, closed, job, runtime, sem, waiters, stopped>>

\* "cq.ch <- task", outside the lock: it blocks while the buffer is full and
\* panics if the channel is closed (NoSendOnClosed says it never is).
Send ==
    /\ sending # 0
    /\ ~closed[dest]
    /\ Len(ch[dest]) < Capacity
    /\ ch' = [ch EXCEPT ![dest] = Append(@, sending)]
    /\ sending' = 0
    /\ dest' = 0
    /\ UNCHANGED <<seq, chatKey, taskVars, queueOf, closed, idle, workVars, stopped>>

\* A worker takes the head of its channel and goes to the semaphore.  If the
\* buffer was full and Submit is blocked on it, the Go runtime moves the
\* blocked task into the buffer in the same step.
Receive(q) ==
    LET handoff == sending # 0 /\ dest = q /\ Len(ch[q]) = Capacity
    IN  /\ pc[q] = "idle"
        /\ ch[q] # <<>>
        /\ ch' = [ch EXCEPT ![q] = IF handoff THEN Append(Tail(@), sending)
                                              ELSE Tail(@)]
        /\ sending' = IF handoff THEN 0 ELSE sending
        /\ dest' = IF handoff THEN 0 ELSE dest
        /\ job' = [job EXCEPT ![q] = Head(ch[q])]
        /\ pc' = [pc EXCEPT ![q] = "acquire"]
        /\ waiters' = Append(waiters, q)
        /\ UNCHANGED <<seq, chatKey, taskVars, queueOf, closed, idle, runtime,
                       sem, stopped>>

\* The worker of a closed channel drains what is buffered before it leaves;
\* after Stop a worker may leave at any of its selects.
WorkerExit(q) ==
    /\ pc[q] = "idle"
    /\ stopped \/ (closed[q] /\ ch[q] = <<>>)
    /\ pc' = [pc EXCEPT ![q] = "exited"]
    /\ UNCHANGED <<submitVars, taskVars, queueVars, job, runtime, sem, waiters,
                   stopped>>

\* executeTask gets a slot, first come, first served.
AcquireSem(q) ==
    /\ pc[q] = "acquire"
    /\ waiters # <<>> /\ q = Head(waiters)
    /\ sem < MaxConcurrent
    /\ sem' = sem + 1
    /\ waiters' = Tail(waiters)
    /\ pc' = [pc EXCEPT ![q] = "mark"]
    /\ UNCHANGED <<submitVars, taskVars, queueVars, job, runtime, stopped>>

\* With its slot it takes q.mu, marks the task and calls the handler: workers
\* that hold slots race for the mutex, so they mark in any order.
MarkRunning(q) ==
    /\ pc[q] = "mark"
    /\ status' = [status EXCEPT ![job[q]] = "running"]
    /\ runtime' = [runtime EXCEPT ![q] = 0]
    /\ pc' = [pc EXCEPT ![q] = "running"]
    /\ UNCHANGED <<submitVars, listed, pruning, queueVars, job, sem, waiters,
                   stopped>>

\* The other branch of that select: executeTask returns, the task stays pending.
AcquireMayFail(q) == TRUE                      \* (mutant: a non-blocking acquire)
Cancelled(q) == stopped

AbandonTask(q) ==
    /\ pc[q] = "acquire"
    /\ Cancelled(q)
    /\ \E i \in DOMAIN waiters : waiters[i] = q /\ waiters' = RemoveAt(waiters, i)
    /\ job' = [job EXCEPT ![q] = 0]
    /\ pc' = [pc EXCEPT ![q] = "touch"]
    /\ UNCHANGED <<submitVars, taskVars, queueVars, runtime, sem, stopped>>

\* The handler returned and the outcome is recorded under the lock.
Finish(q) ==
    /\ pc[q] = "running"
    /\ \E s \in Finished : status' = [status EXCEPT ![job[q]] = s]
    /\ job' = [job EXCEPT ![q] = 0]
    /\ runtime' = [runtime EXCEPT ![q] = 0]
    /\ pc' = [pc EXCEPT ![q] = "release"]
    /\ UNCHANGED <<submitVars, listed, pruning, queueVars, sem, waiters, stopped>>

\* The deferred "<-q.sem" of executeTask.
LeakSlot(q) ==                                 \* (mutant: the release is missing)
    /\ pc[q] = "release"
    /\ pc' = [pc EXCEPT ![q] = "touch"]
    /\ UNCHANGED <<submitVars, taskVars, queueVars, job, runtime, sem, waiters, stopped>>

ReleaseSem(q) ==
    /\ pc[q] = "release"
    /\ sem' = sem - 1
    /\ pc' = [pc EXCEPT ![q] = "touch"]
    /\ UNCHANGED <<submitVars, taskVars, queueVars, job, runtime, waiters, stopped>>

\* processChatQueue renews lastUsed after every task.
SkipTouch(q) ==                                \* (mutant: lastUsed not renewed)
    /\ pc[q] = "touch"
    /\ pc' = [pc EXCEPT ![q] = "idle"]
    /\ UNCHANGED <<submitVars, taskVars, queueVars, job, runtime, sem, waiters, stopped>>

Touch(q) ==
    /\ pc[q] = "touch"
    /\ idle' = [idle EXCEPT ![q] = 0]
    /\ pc' = [pc EXCEPT ![q] = "idle"]
    /\ UNCHANGED <<submitVars, taskVars, queueOf, ch, closed, job, runtime, sem,
                   waiters, stopped>>

\* What the janitor takes for an idle chat: an old lastUsed, nothing buffered.
OldChats ==                                    \* (mutant: len(cq.ch) not looked at)
    {c \in Chats : queueOf[c] # 0 /\ idle[queueOf[c]] > IdleTimeout}

IdleChats ==
    {c \in Chats : /\ queueOf[c] # 0
                   /\ idle[queueOf[c]] > IdleTimeout
                   /\ ch[queueOf[c]] = <<>>}

CleanupIdleQueues ==
    /\ IdleChats # {}
    /\ closed' = [q \in Queues |-> closed[q] \/ \E c \in IdleChats : queueOf[c] = q]
    /\ queueOf' = [c \in Chats |-> IF c \in IdleChats THEN 0 ELSE queueOf[c]]
    /\ UNCHANGED <<submitVars, taskVars, ch, idle, workVars, stopped>>

\* RecentTasks reads the table and asks for a pruning when it has grown.
RecentTasks ==
    /\ Cardinality(listed) > Retention
    /\ pruning' = TRUE
    /\ UNCHANGED <<submitVars, status, listed, queueVars, workVars, stopped>>

AllTasks == listed                             \* (mutant: status not looked at)
CompletedTasks == {t \in listed : status[t] \in Finished}

\* The oldest completed tasks, as many as the table is over its limit.
Victims ==
    {t \in CompletedTasks :
        Cardinality({u \in CompletedTasks : u < t}) + Retention < Cardinality(listed)}

PruneOldTasks ==
    /\ pruning
    /\ pruning' = FALSE
    /\ listed' = listed \ Victims
    /\ UNCHANGED <<submitVars, status, queueVars, workVars, stopped>>

Stop ==
    /\ sending = 0
    /\ stopped' = TRUE
    /\ UNCHANGED <<submitVars, taskVars, queueVars, workVars>>

\* The steps that need no waiting, and a handler whose deadline has come.
NoDeadline(q) == FALSE                         \* (mutant: no context deadline)
DeadlineReached(q) == pc[q] = "running" /\ runtime[q] >= TaskTimeout

Runnable(q) ==
    \/ pc[q] = "idle" /\ (ch[q] # <<>> \/ closed[q] \/ stopped)
    \/ pc[q] = "acquire" /\ (stopped \/ (q = Head(waiters) /\ sem < MaxConcurrent))
    \/ pc[q] \in {"mark", "release", "touch"}
    \/ DeadlineReached(q)

SendRunnable == sending # 0 /\ (closed[dest] \/ Len(ch[dest]) < Capacity)

Tick ==
    /\ ~SendRunnable
    /\ \A q \in Queues : ~Runnable(q)
    /\ idle' = [q \in Queues |-> IF \E c \in Chats : queueOf[c] = q
                                    /\ idle[q] <= IdleTimeout
                                 THEN idle[q] + 1 ELSE idle[q]]
    /\ runtime' = [q \in Queues |-> IF pc[q] = "running" THEN runtime[q] + 1
                                                         ELSE runtime[q]]
    /\ UNCHANGED <<submitVars, taskVars, queueOf, ch, closed, pc, job, sem,
                   waiters, stopped>>

Worker(q) ==
    \/ Receive(q) \/ WorkerExit(q)
    \/ AcquireSem(q) \/ MarkRunning(q) \/ AbandonTask(q)
    \/ Finish(q) \/ ReleaseSem(q) \/ Touch(q)

Next ==
    \/ \E c \in Chats : Submit(c)
    \/ Send
    \/ \E q \in Queues : Worker(q)
    \/ CleanupIdleQueues
    \/ RecentTasks \/ PruneOldTasks
    \/ Stop
    \/ Tick

Spec == Init /\ [][Next]_vars

\* Goroutines that can run do run, and a handler returns: its context has a
\* deadline.  Nothing obliges messages to arrive, time to pass or Stop to come.
Fairness == WF_vars(Send) /\ \A q \in Queues : WF_vars(Worker(q))

FairSpec == Spec /\ Fairness

-----------------------------------------------------------------------------
\* The type invariant.
TypeOK ==
    /\ seq \in 0..MaxTasks
    /\ status \in [Tasks -> Status]
    /\ chatKey \in [Tasks -> Chats]
    /\ listed \subseteq Tasks
    /\ pruning \in BOOLEAN
    /\ queueOf \in [Chats -> Queues \cup {0}]
    /\ ch \in [Queues -> Seq(Tasks)]
    /\ closed \in [Queues -> BOOLEAN]
    /\ idle \in [Queues -> 0..(IdleTimeout + 1)]
    /\ pc \in [Queues -> WorkerPC]
    /\ job \in [Queues -> Tasks \cup {0}]
    /\ runtime \in [Queues -> 0..TaskTimeout]
    /\ sem \in Int
    /\ waiters \in Seq(Queues)
    /\ sending \in Tasks \cup {0}
    /\ dest \in Queues \cup {0}
    /\ stopped \in BOOLEAN

SlotHolders == {q \in Queues : pc[q] \in {"mark", "running", "release"}}

\* The slots taken are exactly those of the workers between the acquire and
\* the deferred release of executeTask, and never more than maxConcurrent:
\* no path through executeTask leaks or doubles a slot.
SlotsAccounted ==
    /\ sem = Cardinality(SlotHolders)
    /\ sem <= MaxConcurrent

\* Where a task can be: with Submit, in a channel, or in a worker's hands.
Buffered(t, q) == \E i \in DOMAIN ch[q] : ch[q][i] = t
Held(t, q) == job[q] = t
Served(q) == pc[q] \notin {"none", "exited"}

\* Until shutdown, every unfinished task is in exactly one place, and that
\* place is a queue somebody serves: removing an idle queue, replacing it and
\* filling its buffer neither lose a task nor hand it out twice.
NoTaskLost ==
    \A t \in Tasks :
        /\ status[t] \in {"pending", "running"} /\ ~stopped =>
              \/ sending = t /\ Served(dest)
              \/ \E q \in Queues : Served(q) /\ (Buffered(t, q) \/ Held(t, q))
        /\ \A q, r \in Queues : q # r => ~((Buffered(t, q) \/ Held(t, q))
                                           /\ (Buffered(t, r) \/ Held(t, r)))
        /\ \A q \in Queues : ~(Buffered(t, q) /\ Held(t, q))
        /\ sending = t => \A q \in Queues : ~Buffered(t, q) /\ ~Held(t, q)

\* Submit's send, done after the unlock, never meets a channel the janitor
\* closed: a send blocked on a full buffer keeps len(cq.ch) above 0, and a
\* send about to happen comes just after lastUsed was renewed.
NoSendOnClosed == sending # 0 => ~closed[dest]

\* The observability table forgets only tasks that have finished.
UnfinishedListed ==
    \A t \in Tasks : status[t] \in {"pending", "running"} => t \in listed

\* No task starts over an older task of its chat that still waits for a slot,
\* even when two workers serve the chat (the old queue's worker asked first).
\* The order among workers that both hold a slot is the mutex's to choose.
HoldsSlot(t) == \E q \in Queues : job[q] = t /\ pc[q] = "mark"

NoOvertaking ==
    [][\A t, u \in Tasks :
          (/\ ~stopped /\ u < t /\ chatKey[u] = chatKey[t]
           /\ status[t] = "pending" /\ status'[t] = "running")
          => (status[u] # "pending" \/ HoldsSlot(u))]_vars

\* Messages for one chat run sequentially: at most one of its tasks is with
\* the handler at any time.
SerialPerChat ==
    \A t, u \in Tasks :
        (status[t] = "running" /\ status[u] = "running" /\ chatKey[t] = chatKey[u])
        => t = u

\* Every submitted task is handled to the end, or the process shuts down.
EveryTaskFinishes ==
    \A t \in Tasks : status[t] = "pending" ~> (status[t] \in Finished \/ stopped)

\* The queue implements the executor the gateway was designed against.
Executor == INSTANCE ChatExecutor WITH
                seq <- seq, status <- status, chatKey <- chatKey,
                stopped <- stopped, Chats <- Chats, MaxTasks <- MaxTasks,
                MaxConcurrent <- MaxConcurrent
ImplementsExecutor == Executor!ASpec
=============================================================================
