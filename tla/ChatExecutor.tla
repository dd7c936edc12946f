---------------------------- MODULE ChatExecutor ----------------------------
(***************************************************************************)
(* What the gateway expects of its task queue, stated without channels,    *)
(* workers or timers: every chat is served by one turn at a time, in the   *)
(* order its messages were submitted, with at most MaxConcurrent turns in  *)
(* all, and every submitted task is served unless the process shuts down.  *)
(***************************************************************************)
EXTENDS Naturals, FiniteSets

CONSTANTS
    Chats,           \* the serialization keys (channel:account:chat)
    MaxTasks,        \* bound on the tasks submitted in a behaviour
    MaxConcurrent    \* turns that may run at once, over all chats

VARIABLES
    seq,       \* number of tasks submitted so far
    status,    \* status[t]: "none" before t is submitted
    chatKey,   \* chatKey[t]: the chat task t belongs to
    stopped    \* the queue was told to shut down

avars == <<seq, status, chatKey, stopped>>

Tasks == 1..MaxTasks

RunningTasks == {t \in Tasks : status[t] = "running"}

\* The submitted tasks of t's chat that are older than t and not yet started.
OlderPending(t) ==
    {u \in 1..(t - 1) : status[u] = "pending" /\ chatKey[u] = chatKey[t]}

AInit ==
    /\ seq = 0
    /\ status = [t \in Tasks |-> "none"]
    /\ chatKey \in [Tasks -> Chats]
    /\ stopped = FALSE

ASubmit ==
    /\ seq < MaxTasks
    /\ seq' = seq + 1
    /\ status' = [status EXCEPT ![seq + 1] = "pending"]
    /\ \E c \in Chats : chatKey' = [chatKey EXCEPT ![seq + 1] = c]
    /\ UNCHANGED stopped

\* After a shutdown the order is no longer promised: a task may be abandoned.
AStart(t) ==
    /\ status[t] = "pending"
    /\ \A u \in RunningTasks : chatKey[u] # chatKey[t]
    /\ stopped \/ OlderPending(t) = {}
    /\ Cardinality(RunningTasks) < MaxConcurrent
    /\ status' = [status EXCEPT ![t] = "running"]
    /\ UNCHANGED <<seq, chatKey, stopped>>

AFinish(t) ==
    /\ status[t] = "running"
    /\ \E s \in {"done", "failed"} : status' = [status EXCEPT ![t] = s]
    /\ UNCHANGED <<seq, chatKey, stopped>>

AStop == stopped' = TRUE /\ UNCHANGED <<seq, status, chatKey>>

ANext ==
    \/ ASubmit
    \/ \E t \in Tasks : AStart(t) \/ AFinish(t)
    \/ AStop

\* A turn ends, and a chat whose turn it is gets a slot, until shutdown.
ASpec ==
    /\ AInit /\ [][ANext]_avars
    /\ \A t \in Tasks : WF_avars(AFinish(t)) /\ SF_avars(~stopped /\ AStart(t))
=============================================================================
