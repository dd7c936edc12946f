-------------------------- MODULE TaskQueue_proofs --------------------------
(***************************************************************************)
(* Proofs about the task queue, for every number of chats, tasks, slots    *)
(* and every value of the two timeouts.                                    *)
(***************************************************************************)
EXTENDS TaskQueue, SequenceTheorems, FiniteSetTheorems, TLAPS

-----------------------------------------------------------------------------
(* Type correctness.                                                       *)

\* A function updated at x keeps its type when x, if it is in the domain at all,
\* gets a value of the range: an update of nothing (x = 0) changes nothing.
LEMMA ExceptType ==
  ASSUME NEW S, NEW T, NEW f \in [S -> T], NEW x, NEW v, x \in S => v \in T
  PROVE  [f EXCEPT ![x] = v] \in [S -> T]
  OBVIOUS

\* Leaving the semaphore's line keeps the rest of the line.
LEMMA LeaveLineType ==
  ASSUME NEW S, NEW line \in Seq(S), NEW i \in DOMAIN line
  PROVE  RemoveAt(line, i) \in Seq(S)
  <1>1. i \in 1..Len(line)
    OBVIOUS
  <1>2. SubSeq(line, 1, i - 1) \in Seq(S) /\ SubSeq(line, i + 1, Len(line)) \in Seq(S)
    BY <1>1, SubSeqProperties
  <1> QED
    BY <1>2, ConcatProperties DEF RemoveAt

\* The queue that NewQueue builds is well typed.
LEMMA InitTypeOK == Init => TypeOK
  <1> SUFFICES ASSUME Init PROVE TypeOK
    OBVIOUS
  <1>1. chatKey \in [Tasks -> Chats] /\ status \in [Tasks -> Status]
    BY QueueAssumption DEF QueueAssumption, Init, Status
  <1>2. ch \in [Queues -> Seq(Tasks)] /\ waiters \in Seq(Queues)
    BY DEF Init
  <1>3. queueOf \in [Chats -> Queues \cup {0}] /\ job \in [Queues -> Tasks \cup {0}]
    BY DEF Init
  <1>4. /\ idle \in [Queues -> 0..(IdleTimeout + 1)]
        /\ runtime \in [Queues -> 0..TaskTimeout]
        /\ seq \in 0..MaxTasks
    BY QueueAssumption DEF QueueAssumption, Init
  <1>5. pc \in [Queues -> WorkerPC] /\ closed \in [Queues -> BOOLEAN]
    BY DEF Init, WorkerPC
  <1>6. listed \subseteq Tasks /\ sem \in Int
    BY DEF Init
  <1>7. sending \in Tasks \cup {0} /\ dest \in Queues \cup {0}
    BY DEF Init
  <1>8. pruning \in BOOLEAN /\ stopped \in BOOLEAN
    BY DEF Init
  <1> QED
    BY <1>1, <1>2, <1>3, <1>4, <1>5, <1>6, <1>7, <1>8 DEF TypeOK

\* Every step of the router, the workers, the janitor and the pruner keeps it.
LEMMA NextTypeOK == TypeOK /\ [Next]_vars => TypeOK'
  <1> SUFFICES ASSUME TypeOK, [Next]_vars PROVE TypeOK'
    OBVIOUS
  <1> USE DEF submitVars, taskVars, queueVars, workVars
  <1>1. ASSUME NEW c \in Chats, Submit(c) PROVE TypeOK'
    <2>1. seq + 1 \in Tasks /\ QueueFor(c) \in Queues /\ seq' \in 0..MaxTasks
      BY <1>1, QueueAssumption
      DEF QueueAssumption, TypeOK, Submit, QueueFor, Tasks, Queues
    <2>2. status' \in [Tasks -> Status] /\ chatKey' \in [Tasks -> Chats]
      BY <1>1, <2>1 DEF TypeOK, Submit, Status
    <2>3. pc' \in [Queues -> WorkerPC] /\ queueOf' \in [Chats -> Queues \cup {0}]
      BY <1>1, <2>1 DEF TypeOK, Submit, WorkerPC
    <2>4. idle' \in [Queues -> 0..(IdleTimeout + 1)]
      BY <1>1, <2>1, QueueAssumption DEF QueueAssumption, TypeOK, Submit
    <2> QED
      BY <1>1, <2>1, <2>2, <2>3, <2>4 DEF TypeOK, Submit, Queues
  <1>2. CASE Send
    <2>1. dest \in Queues => Append(ch[dest], sending) \in Seq(Tasks)
      BY <1>2 DEF TypeOK, Send
    <2>2. ch' \in [Queues -> Seq(Tasks)]
      BY <1>2, <2>1, ExceptType DEF TypeOK, Send
    <2> QED
      BY <1>2, <2>2 DEF TypeOK, Send
  <1>3. ASSUME NEW q \in Queues, Receive(q) PROVE TypeOK'
    <2>1. Head(ch[q]) \in Tasks /\ Tail(ch[q]) \in Seq(Tasks)
      BY <1>3, HeadTailProperties DEF TypeOK, Receive
    <2>2. ch' \in [Queues -> Seq(Tasks)]
      BY <1>3, <2>1 DEF TypeOK, Receive
    <2>3. job' \in [Queues -> Tasks \cup {0}] /\ pc' \in [Queues -> WorkerPC]
      BY <1>3, <2>1 DEF TypeOK, Receive, WorkerPC
    <2>4. waiters' \in Seq(Queues)
      BY <1>3 DEF TypeOK, Receive
    <2>5. sending' \in Tasks \cup {0} /\ dest' \in Queues \cup {0}
      BY <1>3 DEF TypeOK, Receive
    <2> QED
      BY <1>3, <2>2, <2>3, <2>4, <2>5 DEF TypeOK, Receive
  <1>4. ASSUME NEW q \in Queues, WorkerExit(q) PROVE TypeOK'
    BY <1>4 DEF TypeOK, WorkerExit, WorkerPC
  <1>5. ASSUME NEW q \in Queues, AcquireSem(q) PROVE TypeOK'
    <2>1. waiters' \in Seq(Queues) /\ sem' \in Int
      BY <1>5, HeadTailProperties DEF TypeOK, AcquireSem
    <2>2. pc' \in [Queues -> WorkerPC]
      BY <1>5 DEF TypeOK, AcquireSem, WorkerPC
    <2> QED
      BY <1>5, <2>1, <2>2 DEF TypeOK, AcquireSem
  <1>14. ASSUME NEW q \in Queues, MarkRunning(q) PROVE TypeOK'
    <2>1. status' \in [Tasks -> Status] /\ pc' \in [Queues -> WorkerPC]
      BY <1>14 DEF TypeOK, MarkRunning, Status, WorkerPC
    <2>2. runtime' \in [Queues -> 0..TaskTimeout]
      BY <1>14, QueueAssumption DEF QueueAssumption, TypeOK, MarkRunning
    <2> QED
      BY <1>14, <2>1, <2>2 DEF TypeOK, MarkRunning
  <1>6. ASSUME NEW q \in Queues, AbandonTask(q) PROVE TypeOK'
    <2>1. waiters' \in Seq(Queues)
      BY <1>6, LeaveLineType DEF TypeOK, AbandonTask
    <2> QED
      BY <1>6, <2>1 DEF TypeOK, AbandonTask, WorkerPC
  <1>7. ASSUME NEW q \in Queues, Finish(q) PROVE TypeOK'
    <2>1. status' \in [Tasks -> Status] /\ pc' \in [Queues -> WorkerPC]
      BY <1>7 DEF TypeOK, Finish, Status, Finished, WorkerPC
    <2>2. runtime' \in [Queues -> 0..TaskTimeout]
      BY <1>7, QueueAssumption DEF QueueAssumption, TypeOK, Finish
    <2> QED
      BY <1>7, <2>1, <2>2 DEF TypeOK, Finish
  <1>8. ASSUME NEW q \in Queues, ReleaseSem(q) PROVE TypeOK'
    BY <1>8 DEF TypeOK, ReleaseSem, WorkerPC
  <1>9. ASSUME NEW q \in Queues, Touch(q) PROVE TypeOK'
    <2>1. idle' \in [Queues -> 0..(IdleTimeout + 1)]
      BY <1>9, QueueAssumption DEF QueueAssumption, TypeOK, Touch
    <2> QED
      BY <1>9, <2>1 DEF TypeOK, Touch, WorkerPC
  <1>10. CASE CleanupIdleQueues
    BY <1>10 DEF TypeOK, CleanupIdleQueues
  <1>11. CASE RecentTasks \/ PruneOldTasks \/ Stop
    BY <1>11 DEF TypeOK, RecentTasks, PruneOldTasks, Stop
  <1>12. CASE Tick
    <2>1. idle' \in [Queues -> 0..(IdleTimeout + 1)]
      BY <1>12, QueueAssumption DEF QueueAssumption, TypeOK, Tick
    <2>2. runtime' \in [Queues -> 0..TaskTimeout]
      BY <1>12, QueueAssumption
      DEF QueueAssumption, TypeOK, Tick, Runnable, DeadlineReached
    <2> QED
      BY <1>12, <2>1, <2>2 DEF TypeOK, Tick
  <1>13. CASE UNCHANGED vars
    BY <1>13 DEF TypeOK, vars
  <1> QED
    BY <1>1, <1>2, <1>3, <1>4, <1>5, <1>6, <1>7, <1>8, <1>9, <1>10, <1>11, <1>12,
       <1>13, <1>14 DEF Next, Worker

\* Every variable keeps its type whatever messages arrive and however the
\* goroutines of queue.go interleave.
THEOREM TypeCorrect == Spec => []TypeOK
  BY InitTypeOK, NextTypeOK, PTL DEF Spec
-----------------------------------------------------------------------------
(* The safety invariants.  None of them is inductive: the steps that create *)
(* a queue need to know that its name was never used, and the janitor's     *)
(* step needs to know how a send in progress keeps its queue from looking   *)
(* idle.                                                                    *)

\* A name above seq belongs to no queue yet.
NamesFresh ==
    /\ \A q \in Queues : q > seq => pc[q] = "none" /\ ~closed[q] /\ ch[q] = <<>>
    /\ \A c \in Chats : queueOf[c] <= seq
    /\ dest <= seq

\* A queue that Submit can find in the table has not been closed.
RegisteredOpen == \A c \in Chats : queueOf[c] # 0 => ~closed[queueOf[c]]

BuffersBounded == \A q \in Queues : Len(ch[q]) <= Capacity

\* A send in progress is blocked on a full buffer, or lastUsed is recent.
SenderProtected ==
    sending # 0 => /\ dest \in Queues
                   /\ Len(ch[dest]) = Capacity \/ idle[dest] <= IdleTimeout

IInv ==
    /\ TypeOK
    /\ NamesFresh
    /\ RegisteredOpen
    /\ BuffersBounded
    /\ SenderProtected
    /\ NoSendOnClosed
    /\ SlotsAccounted

\* NewQueue establishes the invariant.
LEMMA InitIInv == Init => IInv
  <1> SUFFICES ASSUME Init PROVE IInv
    OBVIOUS
  <1>1. TypeOK
    BY InitTypeOK
  <1>2. NamesFresh /\ RegisteredOpen
    BY DEF Init, NamesFresh, RegisteredOpen
  <1>3. BuffersBounded
    BY QueueAssumption DEF QueueAssumption, Init, BuffersBounded
  <1>4. SenderProtected /\ NoSendOnClosed
    BY DEF Init, SenderProtected, NoSendOnClosed
  <1>5. SlotsAccounted
    <2>1. SlotHolders = {}
      BY DEF Init, SlotHolders
    <2> QED
      BY <2>1, FS_EmptySet, QueueAssumption DEF QueueAssumption, Init, SlotsAccounted
  <1> QED
    BY <1>1, <1>2, <1>3, <1>4, <1>5 DEF IInv

\* Only Submit uses a name, and it uses the next one.
LEMMA NamesFreshStep == TypeOK /\ NamesFresh /\ [Next]_vars => NamesFresh'
  <1> SUFFICES ASSUME TypeOK, NamesFresh, [Next]_vars PROVE NamesFresh'
    OBVIOUS
  <1> USE DEF NamesFresh, submitVars, taskVars, queueVars, workVars
  <1>1. ASSUME NEW c \in Chats, Submit(c) PROVE NamesFresh'
    <2>0. seq' = seq + 1 /\ seq + 1 \in Queues /\ seq \in Nat
      BY <1>1, QueueAssumption DEF QueueAssumption, TypeOK, Submit, Tasks, Queues
    <2>1. QueueFor(c) <= seq + 1 /\ QueueFor(c) \in Queues /\ seq' = seq + 1
      BY <2>0 DEF TypeOK, QueueFor, Tasks, Queues
    <2>2. \A d \in Chats : queueOf'[d] <= seq'
      <3>1. queueOf' = [queueOf EXCEPT ![c] = QueueFor(c)]
        BY <1>1 DEF Submit
      <3>2. \A d \in Chats : queueOf[d] \in Int /\ queueOf[d] <= seq
        BY DEF TypeOK, Queues, Tasks
      <3>3. \A d \in Chats : queueOf'[d] = IF d = c THEN QueueFor(c) ELSE queueOf[d]
        BY <3>1 DEF TypeOK
      <3> HIDE DEF NamesFresh
      <3> QED
        BY <2>0, <2>1, <3>2, <3>3
    <2>3. \A q \in Queues : q > seq' => pc'[q] = "none" /\ ~closed'[q] /\ ch'[q] = <<>>
      <3>1. /\ ch' = ch /\ closed' = closed
            /\ pc' = IF QueueFor(c) = seq + 1 THEN [pc EXCEPT ![seq + 1] = "idle"] ELSE pc
        BY <1>1 DEF Submit
      <3>2. \A q \in Queues : q > seq' => q # seq + 1 /\ q > seq
        BY <2>0 DEF Queues, Tasks
      <3> QED
        BY <3>1, <3>2 DEF TypeOK
    <2> QED
      BY <1>1, <2>1, <2>2, <2>3 DEF Submit
  <1>2. CASE Send
    <2>1. dest <= seq /\ seq \in Nat /\ dest \in Nat
      BY QueueAssumption DEF QueueAssumption, TypeOK, Tasks, Queues
    <2>2. \A q \in Queues : q # dest => ch'[q] = ch[q]
      BY <1>2 DEF TypeOK, Send
    <2>3. \A q \in Queues : q > seq => ch'[q] = ch[q]
      BY <2>1, <2>2 DEF Queues, Tasks
    <2>4. dest' = 0 /\ seq' = seq /\ pc' = pc /\ closed' = closed /\ queueOf' = queueOf
      BY <1>2 DEF Send
    <2> QED
      BY <2>1, <2>3, <2>4
  <1>3. ASSUME NEW q \in Queues, Worker(q) PROVE NamesFresh'
    <2>1. pc[q] # "none"
      BY <1>3 DEF Worker, Receive, WorkerExit, AcquireSem, MarkRunning, AbandonTask, Finish,
                  ReleaseSem, Touch
    <2>2. ~(q > seq)
      BY <2>1
    <2>3. seq' = seq /\ closed' = closed /\ queueOf' = queueOf
      BY <1>3 DEF Worker, Receive, WorkerExit, AcquireSem, MarkRunning, AbandonTask, Finish,
                  ReleaseSem, Touch
    <2>4. dest' = dest \/ dest' = 0
      BY <1>3 DEF Worker, Receive, WorkerExit, AcquireSem, MarkRunning, AbandonTask, Finish,
                  ReleaseSem, Touch
    <2>5. \A r \in Queues : r # q => pc'[r] = pc[r]
      <3> HIDE DEF NamesFresh
      <3> QED
        BY <1>3 DEF TypeOK, Worker, Receive, WorkerExit, AcquireSem, MarkRunning, AbandonTask,
                    Finish, ReleaseSem, Touch
    <2>6. \A r \in Queues : r # q => ch'[r] = ch[r]
      <3> HIDE DEF NamesFresh
      <3> QED
        BY <1>3 DEF TypeOK, Worker, Receive, WorkerExit, AcquireSem, MarkRunning, AbandonTask,
                    Finish, ReleaseSem, Touch
    <2>7. seq \in Nat
      BY QueueAssumption DEF QueueAssumption, TypeOK
    <2>8. \A r \in Queues : r > seq => pc'[r] = "none" /\ ~closed'[r] /\ ch'[r] = <<>>
      BY <2>2, <2>3, <2>5, <2>6
    <2>9. dest' <= seq' /\ \A c \in Chats : queueOf'[c] <= seq'
      BY <2>3, <2>4, <2>7
    <2> QED
      BY <2>3, <2>8, <2>9
  <1>4. CASE CleanupIdleQueues
    <2>1. seq' = seq /\ dest' = dest /\ pc' = pc /\ ch' = ch
      BY <1>4 DEF CleanupIdleQueues
    <2>2. \A q \in Queues : q > seq => ~\E c \in IdleChats : queueOf[c] = q
      <3>1. \A c \in IdleChats : c \in Chats
        BY DEF IdleChats
      <3>2. \A c \in Chats : queueOf[c] \in Int /\ queueOf[c] <= seq
        BY DEF TypeOK, Queues, Tasks
      <3> QED
        BY <3>1, <3>2, QueueAssumption DEF QueueAssumption, TypeOK, Queues, Tasks
    <2>3. \A q \in Queues : q > seq => ~closed'[q]
      BY <1>4, <2>2 DEF TypeOK, CleanupIdleQueues
    <2>4. \A c \in Chats : queueOf'[c] <= seq
      BY <1>4, QueueAssumption DEF QueueAssumption, TypeOK, CleanupIdleQueues
    <2> QED
      BY <2>1, <2>3, <2>4
  <1>5. CASE RecentTasks \/ PruneOldTasks \/ Stop \/ Tick \/ UNCHANGED vars
    BY <1>5 DEF RecentTasks, PruneOldTasks, Stop, Tick, vars
  <1> QED
    BY <1>1, <1>2, <1>3, <1>4, <1>5 DEF Next

\* Submit registers a fresh queue or finds an open one; the janitor closes a
\* queue and forgets it in the same critical section.
LEMMA RegisteredOpenStep ==
  TypeOK /\ NamesFresh /\ RegisteredOpen /\ [Next]_vars => RegisteredOpen'
  <1> SUFFICES ASSUME TypeOK, NamesFresh, RegisteredOpen, [Next]_vars
               PROVE  RegisteredOpen'
    OBVIOUS
  <1> USE DEF RegisteredOpen, submitVars, taskVars, queueVars, workVars
  <1>1. ASSUME NEW c \in Chats, Submit(c) PROVE RegisteredOpen'
    <2>1. seq + 1 \in Queues /\ ~closed[seq + 1]
      BY <1>1, QueueAssumption
      DEF QueueAssumption, TypeOK, NamesFresh, Submit, Tasks, Queues
    <2>2. QueueFor(c) \in Queues /\ ~closed[QueueFor(c)]
      BY <1>1, <2>1 DEF TypeOK, QueueFor, Queues
    <2>3. queueOf' = [queueOf EXCEPT ![c] = QueueFor(c)] /\ closed' = closed
      BY <1>1 DEF Submit
    <2> QED
      BY <2>2, <2>3 DEF TypeOK
  <1>2. ASSUME NEW q \in Queues, Worker(q) PROVE RegisteredOpen'
    BY <1>2 DEF Worker, Receive, WorkerExit, AcquireSem, MarkRunning, AbandonTask, Finish,
                ReleaseSem, Touch
  <1>3. CASE CleanupIdleQueues
    BY <1>3 DEF TypeOK, CleanupIdleQueues, IdleChats
  <1>4. CASE Send \/ RecentTasks \/ PruneOldTasks \/ Stop \/ Tick \/ UNCHANGED vars
    BY <1>4 DEF Send, RecentTasks, PruneOldTasks, Stop, Tick, vars
  <1> QED
    BY <1>1, <1>2, <1>3, <1>4 DEF Next

\* A buffer grows only by Send, which needs room, and a handoff refills the
\* place its own receive made.
LEMMA BuffersBoundedStep ==
  TypeOK /\ BuffersBounded /\ [Next]_vars => BuffersBounded'
  <1> SUFFICES ASSUME TypeOK, BuffersBounded, [Next]_vars PROVE BuffersBounded'
    OBVIOUS
  <1> USE QueueAssumption DEF QueueAssumption, BuffersBounded, submitVars, taskVars,
                              queueVars, workVars
  <1>1. CASE Send
    <2>1. dest \in Queues => Len(Append(ch[dest], sending)) <= Capacity
      BY <1>1 DEF TypeOK, Send
    <2> QED
      BY <1>1, <2>1 DEF TypeOK, Send
  <1>2. ASSUME NEW q \in Queues, Receive(q) PROVE BuffersBounded'
    <2>1. Tail(ch[q]) \in Seq(Tasks) /\ Len(Tail(ch[q])) = Len(ch[q]) - 1
      BY <1>2, HeadTailProperties DEF TypeOK, Receive
    <2>2. sending # 0 => Len(Append(Tail(ch[q]), sending)) <= Capacity
      BY <2>1 DEF TypeOK
    <2>3. Len(ch'[q]) <= Capacity
      <3>1. ch'[q] = Tail(ch[q]) \/ (sending # 0 /\ ch'[q] = Append(Tail(ch[q]), sending))
        BY <1>2 DEF TypeOK, Receive
      <3>2. Len(Tail(ch[q])) <= Capacity
        BY <2>1 DEF TypeOK
      <3> QED
        BY <2>2, <3>1, <3>2
    <2> QED
      BY <1>2, <2>3 DEF TypeOK, Receive
  <1>3. ASSUME NEW q \in Queues, Worker(q), ~Receive(q) PROVE BuffersBounded'
    BY <1>3 DEF Worker, WorkerExit, AcquireSem, MarkRunning, AbandonTask, Finish, ReleaseSem, Touch
  <1>4. ASSUME NEW c \in Chats, Submit(c) PROVE BuffersBounded'
    BY <1>4 DEF Submit
  <1>5. CASE \/ CleanupIdleQueues \/ RecentTasks \/ PruneOldTasks \/ Stop \/ Tick
             \/ UNCHANGED vars
    BY <1>5 DEF CleanupIdleQueues, RecentTasks, PruneOldTasks, Stop, Tick, vars
  <1> QED
    BY <1>1, <1>2, <1>3, <1>4, <1>5 DEF Next

\* The janitor closes only queues that are old and empty, which the queue of a
\* send in progress is not; Tick does not pass while that send could be done.
LEMMA SenderStep ==
  ASSUME TypeOK, NamesFresh, RegisteredOpen, BuffersBounded, SenderProtected,
         NoSendOnClosed, [Next]_vars
  PROVE  SenderProtected' /\ NoSendOnClosed'
  <1> USE QueueAssumption DEF QueueAssumption, SenderProtected, NoSendOnClosed,
                              submitVars, taskVars, queueVars, workVars
  <1> DEFINE Goal == SenderProtected' /\ NoSendOnClosed'
  <1>1. ASSUME NEW c \in Chats, Submit(c) PROVE Goal
    <2>1. seq + 1 \in Queues /\ ~closed[seq + 1]
      BY <1>1 DEF TypeOK, NamesFresh, Submit, Tasks, Queues
    <2>2. QueueFor(c) \in Queues /\ ~closed[QueueFor(c)]
      BY <2>1 DEF TypeOK, RegisteredOpen, QueueFor
    <2>3. dest' = QueueFor(c) /\ closed' = closed /\ idle' = [idle EXCEPT ![QueueFor(c)] = 0]
      BY <1>1 DEF Submit
    <2>4. idle'[dest'] <= IdleTimeout
      BY <2>2, <2>3 DEF TypeOK
    <2> QED
      BY <2>2, <2>3, <2>4
  <1>2. CASE Send
    BY <1>2 DEF Send
  <1>3. ASSUME NEW q \in Queues, Receive(q) PROVE Goal
    <2>1. CASE sending' = 0
      BY <2>1
    <2>2. CASE sending' # 0 /\ dest = q
      <3>1. sending # 0 /\ dest' = dest /\ idle' = idle /\ closed' = closed /\ Len(ch[q]) # Capacity
        BY <1>3, <2>2 DEF Receive
      <3> QED
        BY <2>2, <3>1
    <2>3. CASE sending' # 0 /\ dest # q
      <3>1. sending # 0 /\ dest' = dest /\ idle' = idle /\ closed' = closed
        BY <1>3, <2>3 DEF Receive
      <3>2. dest \in Queues => ch'[dest] = ch[dest]
        BY <1>3, <2>3 DEF Receive, TypeOK
      <3> QED
        BY <2>3, <3>1, <3>2
    <2> QED
      BY <2>1, <2>2, <2>3
  <1>4. ASSUME NEW q \in Queues, Touch(q) PROVE Goal
    BY <1>4 DEF Touch, TypeOK
  <1>5. ASSUME NEW q \in Queues, Worker(q), ~Receive(q), ~Touch(q) PROVE Goal
    BY <1>5 DEF Worker, WorkerExit, AcquireSem, MarkRunning, AbandonTask, Finish, ReleaseSem
  <1>6. CASE CleanupIdleQueues
    <2>1. sending # 0 => ~\E c \in IdleChats : queueOf[c] = dest
      BY DEF IdleChats, TypeOK
    <2> QED
      BY <1>6, <2>1 DEF CleanupIdleQueues, TypeOK
  <1>7. CASE Tick
    <2>1. sending # 0 => Len(ch[dest]) = Capacity
      <3> SUFFICES ASSUME sending # 0 PROVE Len(ch[dest]) = Capacity
        OBVIOUS
      <3>1. ~(Len(ch[dest]) < Capacity)
        BY <1>7 DEF Tick, SendRunnable
      <3>2. Len(ch[dest]) <= Capacity /\ Len(ch[dest]) \in Nat
        BY DEF BuffersBounded, TypeOK
      <3> QED
        BY <3>1, <3>2
    <2> QED
      BY <1>7, <2>1 DEF Tick
  <1>8. CASE RecentTasks \/ PruneOldTasks \/ Stop \/ UNCHANGED vars
    BY <1>8 DEF RecentTasks, PruneOldTasks, Stop, vars
  <1> QED
    BY <1>1, <1>2, <1>3, <1>4, <1>5, <1>6, <1>7, <1>8 DEF Next, Worker

\* executeTask takes a slot only below the limit and gives it back once.
LEMMA SlotsStep ==
  ASSUME TypeOK, NamesFresh, SlotsAccounted, [Next]_vars
  PROVE  SlotsAccounted'
  <1> USE DEF submitVars, taskVars, queueVars, workVars
  <1>0. IsFiniteSet(SlotHolders)
    <2>1. IsFiniteSet(Queues)
      BY QueueAssumption, FS_Interval DEF QueueAssumption, Queues, Tasks
    <2> QED
      BY <2>1, FS_Subset DEF SlotHolders
  <1>1. ASSUME NEW q \in Queues, AcquireSem(q) PROVE SlotsAccounted'
    <2>1. SlotHolders' = SlotHolders \cup {q} /\ q \notin SlotHolders
      BY <1>1 DEF AcquireSem, SlotHolders, TypeOK
    <2>2. Cardinality(SlotHolders') = Cardinality(SlotHolders) + 1
      BY <1>0, <2>1, FS_AddElement
    <2> QED
      BY <1>1, <2>2, QueueAssumption
      DEF QueueAssumption, AcquireSem, SlotsAccounted, TypeOK
  <1>2. ASSUME NEW q \in Queues, ReleaseSem(q) PROVE SlotsAccounted'
    <2>1. SlotHolders' = SlotHolders \ {q} /\ q \in SlotHolders
      BY <1>2 DEF ReleaseSem, SlotHolders, TypeOK
    <2>2. Cardinality(SlotHolders') = Cardinality(SlotHolders) - 1
      BY <1>0, <2>1, FS_RemoveElement
    <2> QED
      BY <1>2, <2>2, QueueAssumption
      DEF QueueAssumption, ReleaseSem, SlotsAccounted, TypeOK
  <1>3. ASSUME SlotHolders' = SlotHolders, sem' = sem PROVE SlotsAccounted'
    BY <1>3 DEF SlotsAccounted
  <1>4. ASSUME NEW c \in Chats, Submit(c) PROVE SlotHolders' = SlotHolders /\ sem' = sem
    <2>1. seq + 1 \in Queues => pc[seq + 1] = "none"
      BY DEF NamesFresh, TypeOK
    <2> QED
      BY <1>4, <2>1 DEF Submit, SlotHolders, TypeOK
  <1>5. ASSUME NEW q \in Queues, Worker(q), ~AcquireSem(q), ~ReleaseSem(q)
        PROVE  SlotHolders' = SlotHolders /\ sem' = sem
    BY <1>5 DEF Worker, Receive, WorkerExit, MarkRunning, AbandonTask, Finish, Touch,
                SlotHolders, TypeOK
  <1>6. CASE \/ Send \/ CleanupIdleQueues \/ RecentTasks \/ PruneOldTasks \/ Stop
             \/ Tick \/ UNCHANGED vars
    BY <1>3, <1>6 DEF Send, CleanupIdleQueues, RecentTasks, PruneOldTasks, Stop, Tick,
                      vars, SlotHolders
  <1> QED
    BY <1>1, <1>2, <1>3, <1>4, <1>5, <1>6 DEF Next, Worker

\* The invariant is inductive.
LEMMA NextIInv == IInv /\ [Next]_vars => IInv'
  BY NextTypeOK, NamesFreshStep, RegisteredOpenStep, BuffersBoundedStep, SenderStep,
     SlotsStep DEF IInv

LEMMA Invariance == Spec => []IInv
  BY InitIInv, NextIInv, PTL DEF Spec

\* Slots: maxConcurrent is never exceeded and no slot is leaked or given back
\* twice, on any path through executeTask.
THEOREM SlotsTheorem == Spec => []SlotsAccounted
  <1>1. IInv => SlotsAccounted
    BY DEF IInv
  <1> QED
    BY Invariance, <1>1, PTL

\* Submit never panics on a channel closed by cleanupIdleQueues, for any buffer
\* size and any two timeouts, although it sends outside the lock.
THEOREM SendTheorem == Spec => []NoSendOnClosed
  <1>1. IInv => NoSendOnClosed
    BY DEF IInv
  <1> QED
    BY Invariance, <1>1, PTL
-----------------------------------------------------------------------------
(* Where the tasks are.  A task moves from Submit to a channel, to a worker *)
(* and out; that no step makes it twice or drops it needs the statuses that *)
(* go with the places, and workers that serve what holds a task.            *)

\* No task is in two places.
Once ==
    /\ \A q \in Queues : \A i, j \in DOMAIN ch[q] : ch[q][i] = ch[q][j] => i = j
    /\ \A q, r \in Queues : q # r =>
          /\ \A i \in DOMAIN ch[q], j \in DOMAIN ch[r] : ch[q][i] # ch[r][j]
          /\ job[q] # 0 => job[q] # job[r]
    /\ \A q, r \in Queues : \A i \in DOMAIN ch[q] : ch[q][i] # job[r]
    /\ sending # 0 => \A q \in Queues : /\ job[q] # sending
                                       /\ \A i \in DOMAIN ch[q] : ch[q][i] # sending

\* The status of a task says where it may be.
Stated ==
    /\ sending # 0 => status[sending] = "pending"
    /\ \A q \in Queues : \A i \in DOMAIN ch[q] : status[ch[q][i]] = "pending"
    /\ \A q \in Queues : CASE pc[q] \in {"acquire", "mark"} -> job[q] # 0 /\ status[job[q]] = "pending"
                            [] pc[q] = "running" -> job[q] # 0 /\ status[job[q]] = "running"
                            [] OTHER -> job[q] = 0
    /\ \A t \in Tasks : t > seq => status[t] = "none"

\* A queue that has a task, or is about to get one, has its worker.
Manned ==
    /\ \A q \in Queues : pc[q] = "none" => ch[q] = <<>>
    /\ \A q \in Queues : pc[q] = "exited" /\ ~stopped => closed[q] /\ ch[q] = <<>>
    /\ \A c \in Chats : queueOf[c] # 0 => pc[queueOf[c]] # "none"
    /\ sending # 0 => dest \in Queues /\ pc[dest] # "none"

\* An unfinished task is somewhere.
Somewhere ==
    \A t \in Tasks : status[t] \in {"pending", "running"} /\ ~stopped =>
        sending = t \/ \E q \in Queues : Buffered(t, q) \/ Held(t, q)

PlaceInv == Once /\ Stated /\ Manned /\ Somewhere /\ UnfinishedListed

\* What the rest of the invariant contributes.
Ground == TypeOK /\ NamesFresh /\ RegisteredOpen /\ NoSendOnClosed

LEMMA PlaceInit ==
  ASSUME Init
  PROVE  PlaceInv
  <1>1. Once /\ Manned
    BY DEF Init, Once, Manned
  <1>2. Stated
    BY DEF Init, Stated
  <1>3. Somewhere /\ UnfinishedListed
    BY DEF Init, Somewhere, UnfinishedListed
  <1> QED
    BY <1>1, <1>2, <1>3 DEF PlaceInv

LEMMA PlaceSubmit ==
  ASSUME Ground, PlaceInv, NEW c \in Chats, Submit(c)
  PROVE  PlaceInv'
  <1> DEFINE t == seq + 1
             k == QueueFor(c)
  <1>1. /\ sending = 0 /\ sending' = t /\ seq' = t /\ dest' = k
        /\ status' = [status EXCEPT ![t] = "pending"] /\ listed' = listed \cup {t}
        /\ queueOf' = [queueOf EXCEPT ![c] = k]
        /\ pc' = (IF k = t THEN [pc EXCEPT ![t] = "idle"] ELSE pc)
        /\ UNCHANGED <<ch, job, closed, stopped>>
    BY DEF Submit
  <1>2. /\ t \in Tasks /\ t \in Queues /\ k \in Queues /\ seq \in Nat /\ ~stopped
        /\ k = t \/ (k = queueOf[c] /\ queueOf[c] # 0)
    BY QueueAssumption DEF QueueAssumption, Ground, TypeOK, Submit, QueueFor, Tasks, Queues
  <1>3. pc[t] = "none" /\ status[t] = "none"
    BY <1>2 DEF Ground, NamesFresh, PlaceInv, Stated
  <1>4. \A q \in Queues : /\ job[q] # t /\ \A i \in DOMAIN ch[q] : ch[q][i] # t
    BY <1>2, <1>3 DEF PlaceInv, Stated
  <1> HIDE DEF t, k
  <1>5. Once'
    BY <1>1, <1>4 DEF PlaceInv, Once
  <1>6. /\ status'[t] = "pending" /\ \A u \in Tasks : u # t => status'[u] = status[u]
        /\ \A q \in Queues : q # t => pc'[q] = pc[q]
        /\ pc'[t] \in {"none", "idle"} /\ (k = t => pc'[t] = "idle")
    BY <1>1, <1>2, <1>3 DEF Ground, TypeOK
  <1>7. Stated'
    <2>1. \A q \in Queues : \A i \in DOMAIN ch[q] : ch[q][i] \in Tasks
      BY ElementOfSeq DEF Ground, TypeOK
    <2>2. \A q \in Queues : \A i \in DOMAIN ch'[q] : status'[ch'[q][i]] = "pending"
      BY <1>1, <1>4, <1>6, <2>1 DEF PlaceInv, Stated
    <2>3. \A q \in Queues : job[q] # 0 => status'[job[q]] = status[job[q]]
      BY <1>4, <1>6 DEF Ground, TypeOK
    <2>4. job[t] = 0
      BY <1>2, <1>3 DEF PlaceInv, Stated
    <2>5. \A u \in Tasks : u > seq' => status'[u] = "none"
      BY <1>1, <1>2, <1>6 DEF t, PlaceInv, Stated, Tasks
    <2>6. \A q \in Queues : CASE pc'[q] \in {"acquire", "mark"} -> job'[q] # 0 /\ status'[job'[q]] = "pending"
                              [] pc'[q] = "running" -> job'[q] # 0 /\ status'[job'[q]] = "running"
                              [] OTHER -> job'[q] = 0
      BY <1>1, <1>6, <2>3, <2>4 DEF PlaceInv, Stated
    <2> QED
      BY <1>1, <1>6, <2>2, <2>5, <2>6 DEF Stated
  <1>8. Manned'
    <2>1. k = t \/ pc[k] # "none"
      BY <1>2 DEF PlaceInv, Manned
    <2>2. ch[t] = <<>>
      BY <1>2, <1>3 DEF PlaceInv, Manned
    <2>3. pc'[k] # "none"
      BY <1>1, <1>2, <1>6, <2>1
    <2>4. \A d \in Chats : queueOf'[d] # 0 => pc'[queueOf'[d]] # "none"
      BY <1>1, <1>2, <1>3, <1>6, <2>3 DEF Ground, TypeOK, PlaceInv, Manned
    <2> QED
      BY <1>1, <1>2, <1>6, <2>2, <2>3, <2>4 DEF PlaceInv, Manned
  <1>9. Somewhere'
    <2> SUFFICES ASSUME NEW u \in Tasks, status'[u] \in {"pending", "running"}, u # t
                 PROVE  \E q \in Queues : Buffered(u, q) \/ Held(u, q)
      BY <1>1 DEF Somewhere, Buffered, Held
    <2>1. status[u] \in {"pending", "running"} /\ sending # u
      BY <1>1, <1>6 DEF Tasks
    <2> QED
      BY <1>2, <2>1 DEF PlaceInv, Somewhere
  <1>10. UnfinishedListed'
    BY <1>1, <1>6 DEF PlaceInv, UnfinishedListed
  <1> QED
    BY <1>5, <1>7, <1>8, <1>9, <1>10 DEF PlaceInv

LEMMA PlaceSend ==
  ASSUME Ground, PlaceInv, Send
  PROVE  PlaceInv'
  <1> DEFINE d == dest
             x == sending
             n == Len(ch[d])
  <1>1. /\ x # 0 /\ ch' = [ch EXCEPT ![d] = Append(@, x)] /\ sending' = 0
        /\ UNCHANGED <<seq, status, listed, queueOf, closed, pc, job, stopped>>
    BY DEF Send, taskVars, workVars
  <1>2. d \in Queues /\ pc[d] # "none" /\ ~closed[d] /\ x \in Tasks
    BY <1>1 DEF Ground, TypeOK, NoSendOnClosed, PlaceInv, Manned
  <1>3. /\ ch[d] \in Seq(Tasks) /\ n \in Nat /\ DOMAIN ch[d] = 1..n
        /\ \A q \in Queues : q # d => ch'[q] = ch[q]
        /\ ch'[d] = Append(ch[d], x)
    BY <1>1, <1>2 DEF Ground, TypeOK
  <1>4. /\ DOMAIN ch'[d] = 1..n + 1 /\ ch'[d][n + 1] = x
        /\ \A i \in 1..n : ch'[d][i] = ch[d][i]
    BY <1>2, <1>3, AppendProperties
  <1>5. /\ \A q \in Queues : job[q] # x
        /\ \A q \in Queues : \A i \in DOMAIN ch[q] : ch[q][i] # x
        /\ status[x] = "pending"
    BY <1>1 DEF PlaceInv, Once, Stated
  <1> HIDE DEF d, x, n
  <1>6. Once'
    <2>1. ASSUME NEW q \in Queues, NEW i \in DOMAIN ch'[q], NEW j \in DOMAIN ch'[q],
                 ch'[q][i] = ch'[q][j]
          PROVE  i = j
      <3>1. CASE q # d
        BY <1>3, <2>1, <3>1 DEF PlaceInv, Once
      <3>2. CASE q = d
        <4>1. (i \in 1..n \/ i = n + 1) /\ (j \in 1..n \/ j = n + 1)
          BY <1>3, <1>4, <3>2
        <4>2. \A l \in 1..n : ch'[d][l] # x
          BY <1>2, <1>3, <1>4, <1>5
        <4>3. \A l, m \in 1..n : ch'[d][l] = ch'[d][m] => l = m
          BY <1>2, <1>3, <1>4 DEF PlaceInv, Once
        <4> QED
          BY <1>4, <2>1, <3>2, <4>1, <4>2, <4>3
      <3> QED
        BY <3>1, <3>2
    <2>2. \A q \in Queues : \A i \in DOMAIN ch'[q] :
              \/ i \in DOMAIN ch[q] /\ ch'[q][i] = ch[q][i]
              \/ q = d /\ ch'[q][i] = x
      <3>1. \A i \in 1..n + 1 : i \in 1..n \/ i = n + 1
        BY <1>3
      <3> QED
        BY <1>3, <1>4, <3>1
    <2>3. /\ \A q, r \in Queues : q # r =>
                 \A i \in DOMAIN ch[q], j \in DOMAIN ch[r] : ch[q][i] # ch[r][j]
          /\ \A q, r \in Queues : \A i \in DOMAIN ch[q] : ch[q][i] # job[r]
      BY DEF PlaceInv, Once
    <2>4. \A q, r \in Queues : q # r =>
             \A i \in DOMAIN ch'[q], j \in DOMAIN ch'[r] : ch'[q][i] # ch'[r][j]
      BY <1>5, <2>2, <2>3
    <2>5. \A q, r \in Queues : \A i \in DOMAIN ch'[q] : ch'[q][i] # job[r]
      BY <1>5, <2>2, <2>3
    <2> QED
      BY <1>1, <2>1, <2>4, <2>5 DEF PlaceInv, Once
  <1>7. Stated'
    <2>1. ASSUME NEW q \in Queues, NEW i \in DOMAIN ch'[q] PROVE status[ch'[q][i]] = "pending"
      <3>1. CASE q # d
        BY <1>3, <3>1 DEF PlaceInv, Stated
      <3>2. CASE q = d /\ i = n + 1
        BY <1>4, <1>5, <3>2
      <3>3. CASE q = d /\ i # n + 1
        <4>1. i \in DOMAIN ch[d] /\ ch'[q][i] = ch[d][i]
          BY <1>3, <1>4, <3>3
        <4>2. status[ch[d][i]] = "pending"
          BY <1>2, <4>1 DEF PlaceInv, Stated
        <4> QED
          BY <4>1, <4>2
      <3> QED
        BY <3>1, <3>2, <3>3
    <2> QED
      BY <1>1, <2>1 DEF PlaceInv, Stated
  <1>8. Manned'
    <2>1. \A q \in Queues : q # d => ch'[q] = ch[q]
      BY <1>3
    <2>2. ~(pc[d] = "exited" /\ ~stopped)
      BY <1>2 DEF PlaceInv, Manned
    <2> QED
      BY <1>1, <1>2, <2>1, <2>2 DEF PlaceInv, Manned
  <1>9. Somewhere'
    <2> SUFFICES ASSUME NEW u \in Tasks, status[u] \in {"pending", "running"}, ~stopped
                 PROVE  \E q \in Queues : (\E i \in DOMAIN ch'[q] : ch'[q][i] = u) \/ job[q] = u
      BY <1>1 DEF Somewhere, Buffered, Held
    <2>1. CASE x = u
      BY <1>2, <1>3, <1>4, <2>1
    <2>2. CASE x # u
      <3>1. PICK q \in Queues : (\E i \in DOMAIN ch[q] : ch[q][i] = u) \/ job[q] = u
        BY <2>2 DEF x, PlaceInv, Somewhere, Buffered, Held
      <3>2. CASE q = d
        BY <1>3, <1>4, <3>1, <3>2
      <3>3. CASE q # d
        BY <1>3, <3>1, <3>3
      <3> QED
        BY <3>2, <3>3
    <2> QED
      BY <2>1, <2>2
  <1>10. UnfinishedListed'
    BY <1>1 DEF PlaceInv, UnfinishedListed
  <1> QED
    BY <1>6, <1>7, <1>8, <1>9, <1>10 DEF PlaceInv

\* What a receive leaves in the buffer: the rest, and the task of a Submit that
\* was blocked.
LEMMA ReceivedRest ==
  ASSUME NEW S, NEW s \in Seq(S), s # <<>>
  PROVE  /\ Len(s) \in Nat \ {0} /\ Head(s) = s[1] /\ Tail(s) \in Seq(S)
         /\ Len(Tail(s)) = Len(s) - 1 /\ DOMAIN Tail(s) = 1..Len(s) - 1
         /\ \A i \in 1..Len(s) - 1 : Tail(s)[i] = s[i + 1]
  <1>1. /\ Tail(s) \in Seq(S) /\ Len(Tail(s)) = Len(s) - 1 /\ Head(s) = s[1]
        /\ \A i \in 1..Len(Tail(s)) : Tail(s)[i] = s[i + 1]
    BY HeadTailProperties
  <1> QED
    BY <1>1

LEMMA Received ==
  ASSUME NEW S, NEW s \in Seq(S), s # <<>>, NEW x \in S
  PROVE  /\ DOMAIN Append(Tail(s), x) = 1..Len(s)
         /\ \A i \in 1..Len(s) - 1 : Append(Tail(s), x)[i] = s[i + 1]
         /\ Append(Tail(s), x)[Len(s)] = x
  BY ReceivedRest, AppendProperties

LEMMA PlaceReceive ==
  ASSUME Ground, PlaceInv, NEW q \in Queues, Receive(q)
  PROVE  PlaceInv'
  <1> DEFINE s == ch[q]
             n == Len(s)
             x == sending
             h == s[1]
             z == ch'[q]
             handoff == x # 0 /\ dest = q /\ Len(s) = Capacity
  <1>1. /\ pc[q] = "idle" /\ s # <<>> /\ job' = [job EXCEPT ![q] = Head(s)]
        /\ pc' = [pc EXCEPT ![q] = "acquire"]
        /\ ch' = [ch EXCEPT ![q] = IF handoff THEN Append(Tail(s), x) ELSE Tail(s)]
        /\ sending' = (IF handoff THEN 0 ELSE x) /\ dest' = (IF handoff THEN 0 ELSE dest)
        /\ UNCHANGED <<seq, status, listed, queueOf, closed, stopped>>
    BY DEF Receive, taskVars
  <1>2. /\ s \in Seq(Tasks) /\ job \in [Queues -> Tasks \cup {0}]
        /\ pc \in [Queues -> WorkerPC] /\ x \in Tasks \cup {0}
        /\ ch \in [Queues -> Seq(Tasks)]
    BY DEF Ground, TypeOK
  <1> HIDE DEF x, n, h, z
  <1>3. /\ n \in Nat \ {0} /\ h = Head(s) /\ DOMAIN s = 1..n /\ h \in Tasks
        /\ \A r \in Queues : r # q => ch'[r] = ch[r]
    BY <1>1, <1>2, ReceivedRest, LenProperties, ElementOfSeq DEF n, h
  <1>4. \/ /\ ~handoff /\ sending' = x /\ dest' = dest /\ DOMAIN z = 1..n - 1
           /\ \A i \in 1..n - 1 : z[i] = s[i + 1]
        \/ /\ handoff /\ x # 0 /\ sending' = 0 /\ DOMAIN z = 1..n
           /\ \A i \in 1..n - 1 : z[i] = s[i + 1]
           /\ z[n] = x
    <2>1. CASE handoff
      <3>1. z = Append(Tail(s), x) /\ x \in Tasks
        BY <1>1, <1>2, <2>1 DEF z
      <3> QED
        BY <1>1, <1>2, <2>1, <3>1, Received DEF n
    <2>2. CASE ~handoff
      <3>1. z = Tail(s)
        BY <1>1, <1>2, <2>2 DEF z
      <3> QED
        BY <1>1, <1>2, <2>2, <3>1, ReceivedRest DEF n
    <2> QED
      BY <2>1, <2>2
  <1>5. /\ job[q] = 0 /\ job'[q] = h /\ \A r \in Queues : r # q => job'[r] = job[r]
        /\ pc'[q] = "acquire" /\ \A r \in Queues : r # q => pc'[r] = pc[r]
    BY <1>1, <1>2, <1>3 DEF PlaceInv, Stated
  <1> HIDE DEF s, handoff
  \* A task in the new buffer was behind the head, or is the one handed off.
  <1>6. \A i \in DOMAIN z :
           \/ i \in 1..n - 1 /\ i + 1 \in DOMAIN s /\ z[i] = s[i + 1]
           \/ i = n /\ handoff /\ z[i] = x /\ x # 0 /\ sending' = 0
    <2> SUFFICES ASSUME NEW i \in DOMAIN z
                 PROVE  \/ i \in 1..n - 1 /\ i + 1 \in DOMAIN s /\ z[i] = s[i + 1]
                        \/ i = n /\ handoff /\ z[i] = x /\ x # 0 /\ sending' = 0
      OBVIOUS
    <2>1. i \in Int /\ 1 <= i /\ i <= n
      BY <1>3, <1>4
    <2>2. CASE i <= n - 1
      <3>1. i \in 1..n - 1 /\ i + 1 \in DOMAIN s
        BY <1>3, <2>1, <2>2
      <3> QED
        BY <1>4, <3>1
    <2>3. CASE i = n
      <3>1. DOMAIN z # 1..n - 1
        BY <1>3, <2>3
      <3> QED
        BY <1>4, <2>3, <3>1
    <2> QED
      BY <1>3, <2>1, <2>2, <2>3
  <1>7. /\ \A i, j \in DOMAIN s : s[i] = s[j] => i = j
        /\ \A r \in Queues : r # q => \A i \in DOMAIN s, j \in DOMAIN ch[r] : s[i] # ch[r][j]
        /\ \A r \in Queues : \A i \in DOMAIN s : s[i] # job[r]
        /\ x # 0 => \A r \in Queues : job[r] # x /\ \A i \in DOMAIN ch[r] : ch[r][i] # x
        /\ x # 0 => \A i \in DOMAIN s : s[i] # x
        /\ 1 \in DOMAIN s
    BY <1>3 DEF s, x, PlaceInv, Once
  <1>8. Once'
    <2>1. \A i, j \in DOMAIN z : z[i] = z[j] => i = j
      BY <1>3, <1>6, <1>7
    <2>2. \A r \in Queues : r # q => \A i \in DOMAIN z, j \in DOMAIN ch[r] : z[i] # ch[r][j]
      BY <1>6, <1>7
    <2>3. /\ \A i \in DOMAIN z : z[i] # h
          /\ \A r \in Queues : \A i \in DOMAIN z : z[i] # job[r]
      BY <1>3, <1>6, <1>7 DEF h
    <2>4. \A r \in Queues : r # q => job[r] # h /\ \A i \in DOMAIN ch[r] : ch[r][i] # h
      BY <1>7 DEF h
    <2>5. sending' # 0 => /\ x # 0 /\ sending' = x /\ h # x
                          /\ \A i \in DOMAIN z : z[i] # x
      BY <1>4, <1>6, <1>7 DEF h
    <2>6. \A r \in Queues : \A i, j \in DOMAIN ch'[r] : ch'[r][i] = ch'[r][j] => i = j
      BY <1>3, <2>1 DEF z, PlaceInv, Once
    <2>7. \A r, v \in Queues : r # v =>
             \A i \in DOMAIN ch'[r], j \in DOMAIN ch'[v] : ch'[r][i] # ch'[v][j]
      BY <1>3, <2>2 DEF z, PlaceInv, Once
    <2>8. \A r, v \in Queues : r # v => (job'[r] # 0 => job'[r] # job'[v])
      BY <1>5, <2>4 DEF PlaceInv, Once
    <2>9. \A r, v \in Queues : \A i \in DOMAIN ch'[r] : ch'[r][i] # job'[v]
      BY <1>3, <1>5, <2>3, <2>4 DEF z, PlaceInv, Once
    <2>10. sending' # 0 => \A r \in Queues : /\ job'[r] # sending'
                                            /\ \A i \in DOMAIN ch'[r] : ch'[r][i] # sending'
      BY <1>3, <1>5, <1>7, <2>5 DEF z
    <2> QED
      BY <2>6, <2>7, <2>8, <2>9, <2>10 DEF Once
  <1>9. Stated'
    <2>1. \A i \in DOMAIN s : status[s[i]] = "pending"
      BY DEF s, PlaceInv, Stated
    <2>2. x # 0 => status[x] = "pending"
      BY DEF x, PlaceInv, Stated
    <2>3. \A r \in Queues : \A i \in DOMAIN ch'[r] : status[ch'[r][i]] = "pending"
      BY <1>3, <1>6, <2>1, <2>2 DEF z, PlaceInv, Stated
    <2>4. h # 0 /\ status[h] = "pending"
      BY <1>3, <1>7, <2>1 DEF h, Tasks
    <2>5. \A r \in Queues : CASE pc'[r] \in {"acquire", "mark"} -> job'[r] # 0 /\ status[job'[r]] = "pending"
                             [] pc'[r] = "running" -> job'[r] # 0 /\ status[job'[r]] = "running"
                             [] OTHER -> job'[r] = 0
      BY <1>5, <2>4 DEF PlaceInv, Stated
    <2> QED
      BY <1>1, <1>4, <2>2, <2>3, <2>5 DEF PlaceInv, Stated
  <1>10. Manned'
    <2>1. dest' = dest \/ sending' = 0
      BY <1>4
    <2>2. sending' # 0 => x # 0
      BY <1>4
    <2> QED
      BY <1>1, <1>3, <1>5, <2>1, <2>2 DEF x, PlaceInv, Manned
  <1>11. Somewhere'
    <2> SUFFICES ASSUME NEW u \in Tasks, status[u] \in {"pending", "running"}, ~stopped
                 PROVE  \/ sending' = u
                        \/ \E r \in Queues : (\E i \in DOMAIN ch'[r] : ch'[r][i] = u) \/ job'[r] = u
      BY <1>1 DEF Somewhere, Buffered, Held
    <2>1. CASE x = u
      <3>1. sending' = u \/ (n \in DOMAIN z /\ z[n] = u)
        BY <1>3, <1>4, <2>1
      <3> QED
        BY <3>1 DEF z
    <2>2. ASSUME NEW r \in Queues, NEW i \in DOMAIN ch[r], ch[r][i] = u
          PROVE  \E v \in Queues : (\E j \in DOMAIN ch'[v] : ch'[v][j] = u) \/ job'[v] = u
      <3>1. CASE r # q
        BY <1>3, <2>2, <3>1
      <3>2. CASE r = q /\ i = 1
        BY <1>5, <2>2, <3>2 DEF h, s
      <3>3. CASE r = q /\ i # 1
        <4>1. i - 1 \in 1..n - 1 /\ i \in 1..n
          BY <1>3, <2>2, <3>3 DEF s
        <4>2. i - 1 \in DOMAIN z /\ z[i - 1] = s[i]
          BY <1>3, <1>4, <4>1
        <4> QED
          BY <2>2, <3>3, <4>2 DEF z, s
      <3> QED
        BY <3>1, <3>2, <3>3
    <2>3. ASSUME NEW r \in Queues, job[r] = u PROVE job'[r] = u
      <3>1. r # q
        BY <1>5, <2>3 DEF Tasks
      <3> QED
        BY <1>5, <2>3, <3>1
    <2> QED
      BY <2>1, <2>2, <2>3 DEF x, PlaceInv, Somewhere, Buffered, Held
  <1>12. UnfinishedListed'
    BY <1>1 DEF PlaceInv, UnfinishedListed
  <1> QED
    BY <1>8, <1>9, <1>10, <1>11, <1>12 DEF PlaceInv

\* A worker that moves one task on: nobody else has that task.
LEMMA PlaceMark ==
  ASSUME Ground, PlaceInv, NEW q \in Queues, MarkRunning(q)
  PROVE  PlaceInv'
  <1> DEFINE t == job[q]
  <1>1. /\ pc[q] = "mark" /\ status' = [status EXCEPT ![t] = "running"]
        /\ pc' = [pc EXCEPT ![q] = "running"]
        /\ UNCHANGED <<seq, sending, dest, listed, queueOf, ch, closed, job, stopped>>
    BY DEF MarkRunning, submitVars, queueVars
  <1>2. t # 0 /\ status[t] = "pending" /\ t \in Tasks
    BY <1>1 DEF PlaceInv, Stated, Ground, TypeOK
  <1>3. /\ status'[t] = "running" /\ \A u \in Tasks : u # t => status'[u] = status[u]
        /\ pc'[q] = "running" /\ \A r \in Queues : r # q => pc'[r] = pc[r]
    BY <1>1, <1>2 DEF Ground, TypeOK
  <1>4. /\ sending # t /\ \A r \in Queues : r # q => job[r] # t
        /\ \A r \in Queues : \A i \in DOMAIN ch[r] : ch[r][i] # t
    BY <1>2 DEF PlaceInv, Once
  <1> HIDE DEF t
  <1>5. Once'
    BY <1>1 DEF PlaceInv, Once
  <1>6. Stated'
    <2>1. sending' # 0 => status'[sending'] = "pending"
      BY <1>1, <1>3, <1>4 DEF PlaceInv, Stated, Ground, TypeOK
    <2>2. \A r \in Queues : \A i \in DOMAIN ch[r] : ch[r][i] \in Tasks
      BY ElementOfSeq DEF Ground, TypeOK
    <2>3. \A r \in Queues : \A i \in DOMAIN ch'[r] : status'[ch'[r][i]] = "pending"
      BY <1>1, <1>3, <1>4, <2>2 DEF PlaceInv, Stated
    <2>4. \A r \in Queues : r # q /\ job[r] # 0 => status'[job[r]] = status[job[r]]
      BY <1>3, <1>4 DEF Ground, TypeOK
    <2>5. \A r \in Queues : CASE pc'[r] \in {"acquire", "mark"} -> job'[r] # 0 /\ status'[job'[r]] = "pending"
                              [] pc'[r] = "running" -> job'[r] # 0 /\ status'[job'[r]] = "running"
                              [] OTHER -> job'[r] = 0
      <3>1. ASSUME NEW r \in Queues, r # q
            PROVE  CASE pc'[r] \in {"acquire", "mark"} -> job'[r] # 0 /\ status'[job'[r]] = "pending"
                     [] pc'[r] = "running" -> job'[r] # 0 /\ status'[job'[r]] = "running"
                     [] OTHER -> job'[r] = 0
        BY <1>1, <1>3, <2>4, <3>1 DEF PlaceInv, Stated
      <3>2. pc'[q] = "running" /\ job'[q] # 0 /\ status'[job'[q]] = "running"
        BY <1>1, <1>2, <1>3 DEF t
      <3> QED
        BY <3>1, <3>2
    <2>6. \A u \in Tasks : u > seq' => status'[u] = "none"
      BY <1>1, <1>2, <1>3 DEF PlaceInv, Stated
    <2> QED
      BY <2>1, <2>3, <2>5, <2>6 DEF Stated
  <1>7. Manned'
    BY <1>1, <1>3 DEF PlaceInv, Manned, Ground, TypeOK
  <1>8. Somewhere'
    BY <1>1, <1>2, <1>3 DEF PlaceInv, Somewhere, Buffered, Held
  <1>9. UnfinishedListed'
    BY <1>1, <1>2, <1>3 DEF PlaceInv, UnfinishedListed
  <1> QED
    BY <1>5, <1>6, <1>7, <1>8, <1>9 DEF PlaceInv

\* A worker that gets its slot keeps its task, and the task its status.
LEMMA PlaceSlot ==
  ASSUME Ground, PlaceInv, NEW q \in Queues, AcquireSem(q)
  PROVE  PlaceInv'
  <1>1. /\ pc[q] = "acquire" /\ pc' = [pc EXCEPT ![q] = "mark"]
        /\ UNCHANGED <<seq, sending, dest, status, listed, queueOf, ch, closed, job, stopped>>
    BY DEF AcquireSem, submitVars, queueVars, taskVars
  <1>2. pc'[q] = "mark" /\ \A r \in Queues : r # q => pc'[r] = pc[r]
    BY <1>1 DEF Ground, TypeOK
  <1>3. Once' /\ Somewhere' /\ UnfinishedListed'
    BY <1>1 DEF PlaceInv, Once, Somewhere, Buffered, Held, UnfinishedListed
  <1>4. Stated'
    <2>1. job'[q] # 0 /\ status'[job'[q]] = "pending"
      BY <1>1 DEF PlaceInv, Stated
    <2> QED
      BY <1>1, <1>2, <2>1 DEF PlaceInv, Stated
  <1>5. Manned'
    BY <1>1, <1>2 DEF PlaceInv, Manned, Ground, TypeOK
  <1> QED
    BY <1>3, <1>4, <1>5 DEF PlaceInv

\* A worker that lets go of its task: it has finished, or the process stops.
LEMMA PlaceLeave ==
  ASSUME Ground, PlaceInv, NEW q \in Queues, Finish(q) \/ AbandonTask(q)
  PROVE  PlaceInv'
  <1> DEFINE t == job[q]
  <1>1. /\ pc[q] \in {"acquire", "running"} /\ job' = [job EXCEPT ![q] = 0]
        /\ \/ stopped /\ status' = status
           \/ \E v \in Finished : status' = [status EXCEPT ![t] = v]
              /\ pc[q] = "running"
        /\ \E v \in {"release", "touch"} : pc' = [pc EXCEPT ![q] = v]
        /\ UNCHANGED <<seq, sending, dest, listed, queueOf, ch, closed, stopped>>
    BY DEF Finish, AbandonTask, Cancelled, submitVars, queueVars, taskVars
  <1>2. t # 0 /\ status[t] # "none" /\ t \in Tasks
    BY <1>1 DEF PlaceInv, Stated, Ground, TypeOK
  <1>3. /\ \A u \in Tasks : u # t => status'[u] = status[u]
        /\ stopped \/ status'[t] \in Finished
        /\ status' = status \/ status'[t] \in Finished
        /\ pc'[q] \in {"release", "touch"} /\ \A r \in Queues : r # q => pc'[r] = pc[r]
        /\ job'[q] = 0 /\ \A r \in Queues : r # q => job'[r] = job[r]
    BY <1>1, <1>2 DEF Ground, TypeOK
  <1>4. /\ sending # t /\ \A r \in Queues : r # q => job[r] # t
        /\ \A r \in Queues : \A i \in DOMAIN ch[r] : ch[r][i] # t
    BY <1>2 DEF PlaceInv, Once
  <1>5. \A r \in Queues : \A i \in DOMAIN ch[r] : ch[r][i] \in Tasks
    BY ElementOfSeq DEF Ground, TypeOK
  <1> HIDE DEF t
  <1>6. Once'
    <2>1. \A r, v \in Queues : \A i \in DOMAIN ch[r] : ch[r][i] # job'[v]
      BY <1>3, <1>5 DEF PlaceInv, Once, Tasks
    <2>2. \A r, v \in Queues : r # v /\ job'[r] # 0 => job'[r] # job'[v]
      BY <1>3 DEF PlaceInv, Once
    <2>3. sending # 0 => \A r \in Queues : job'[r] # sending
      BY <1>3 DEF PlaceInv, Once
    <2> QED
      BY <1>1, <2>1, <2>2, <2>3 DEF PlaceInv, Once
  <1>7. Stated'
    <2>1. sending' # 0 => status'[sending'] = "pending"
      BY <1>1, <1>3, <1>4 DEF PlaceInv, Stated, Ground, TypeOK
    <2>2. \A r \in Queues : \A i \in DOMAIN ch'[r] : status'[ch'[r][i]] = "pending"
      BY <1>1, <1>3, <1>4, <1>5 DEF PlaceInv, Stated
    <2>3. \A r \in Queues : r # q /\ job[r] # 0 => status'[job[r]] = status[job[r]]
      BY <1>3, <1>4 DEF Ground, TypeOK
    <2>4. ASSUME NEW r \in Queues, r # q
          PROVE  CASE pc'[r] \in {"acquire", "mark"} -> job'[r] # 0 /\ status'[job'[r]] = "pending"
                   [] pc'[r] = "running" -> job'[r] # 0 /\ status'[job'[r]] = "running"
                   [] OTHER -> job'[r] = 0
      BY <1>3, <2>3, <2>4 DEF PlaceInv, Stated
    <2>5. pc'[q] \notin {"acquire", "mark", "running"} /\ job'[q] = 0
      BY <1>3
    <2>6. \A r \in Queues : CASE pc'[r] \in {"acquire", "mark"} -> job'[r] # 0 /\ status'[job'[r]] = "pending"
                              [] pc'[r] = "running" -> job'[r] # 0 /\ status'[job'[r]] = "running"
                              [] OTHER -> job'[r] = 0
      BY <2>4, <2>5
    <2>7. \A u \in Tasks : u > seq' => status'[u] = "none"
      BY <1>1, <1>2, <1>3 DEF PlaceInv, Stated
    <2> QED
      BY <2>1, <2>2, <2>6, <2>7 DEF Stated
  <1>8. Manned'
    BY <1>1, <1>3 DEF PlaceInv, Manned, Ground, TypeOK
  <1>9. Somewhere'
    <2> SUFFICES ASSUME NEW u \in Tasks, status'[u] \in {"pending", "running"}, ~stopped
                 PROVE  \/ sending = u
                        \/ \E r \in Queues : (\E i \in DOMAIN ch[r] : ch[r][i] = u) \/ job'[r] = u
      BY <1>1 DEF Somewhere, Buffered, Held
    <2>1. u # t /\ status[u] \in {"pending", "running"}
      BY <1>3 DEF Finished
    <2> QED
      BY <1>3, <2>1 DEF t, PlaceInv, Somewhere, Buffered, Held
  <1>10. UnfinishedListed'
    BY <1>1, <1>3 DEF PlaceInv, UnfinishedListed, Finished
  <1> QED
    BY <1>6, <1>7, <1>8, <1>9, <1>10 DEF PlaceInv

\* A worker that goes its way without a task; one that leaves has none to serve.
LEMMA PlaceWorker ==
  ASSUME Ground, PlaceInv, NEW q \in Queues, WorkerExit(q) \/ ReleaseSem(q) \/ Touch(q)
  PROVE  PlaceInv'
  <1>1. /\ pc[q] \in {"idle", "release", "touch"}
        /\ \/ \E v \in {"touch", "idle"} : pc' = [pc EXCEPT ![q] = v]
           \/ /\ pc' = [pc EXCEPT ![q] = "exited"]
              /\ stopped \/ (closed[q] /\ ch[q] = <<>>)
        /\ UNCHANGED <<seq, sending, dest, status, listed, queueOf, ch, closed, job, stopped>>
    BY DEF WorkerExit, ReleaseSem, Touch, submitVars, queueVars, taskVars
  <1>2. /\ pc'[q] \in {"idle", "touch", "exited"} /\ \A r \in Queues : r # q => pc'[r] = pc[r]
        /\ pc'[q] = "exited" => stopped \/ (closed[q] /\ ch[q] = <<>>)
    BY <1>1 DEF Ground, TypeOK
  <1>3. Once' /\ Somewhere' /\ UnfinishedListed'
    BY <1>1 DEF PlaceInv, Once, Somewhere, Buffered, Held, UnfinishedListed
  <1>4. Stated'
    <2>1. pc'[q] \notin {"acquire", "mark", "running"} /\ job'[q] = 0
      BY <1>1, <1>2 DEF PlaceInv, Stated
    <2> QED
      BY <1>1, <1>2, <2>1 DEF PlaceInv, Stated
  <1>5. Manned'
    BY <1>1, <1>2 DEF PlaceInv, Manned, Ground, TypeOK
  <1> QED
    BY <1>3, <1>4, <1>5 DEF PlaceInv

\* The janitor closes channels; what it takes out of the table is finished.
LEMMA PlaceJanitor ==
  ASSUME Ground, PlaceInv, CleanupIdleQueues \/ PruneOldTasks
  PROVE  PlaceInv'
  <1>1. CASE CleanupIdleQueues
    <2>1. /\ closed' = [q \in Queues |-> closed[q] \/ \E c \in IdleChats : queueOf[c] = q]
          /\ queueOf' = [c \in Chats |-> IF c \in IdleChats THEN 0 ELSE queueOf[c]]
          /\ UNCHANGED <<seq, sending, dest, status, listed, ch, pc, job, stopped>>
      BY <1>1 DEF CleanupIdleQueues, submitVars, taskVars, workVars
    <2>2. Once' /\ Stated' /\ Somewhere' /\ UnfinishedListed'
      BY <2>1 DEF PlaceInv, Once, Stated, Somewhere, Buffered, Held, UnfinishedListed
    <2>3. /\ \A q \in Queues : closed[q] => closed'[q]
          /\ \A c \in Chats : queueOf'[c] # 0 => queueOf'[c] = queueOf[c]
      BY <2>1
    <2>4. Manned'
      BY <2>1, <2>3 DEF PlaceInv, Manned
    <2> QED
      BY <2>2, <2>4 DEF PlaceInv
  <1>2. CASE PruneOldTasks
    <2>1. /\ listed' = listed \ Victims
          /\ UNCHANGED <<seq, sending, dest, status, queueOf, ch, closed, pc, job, stopped>>
      BY <1>2 DEF PruneOldTasks, submitVars, queueVars, workVars
    <2>2. \A t \in Victims : status[t] \notin {"pending", "running"}
      BY DEF Victims, CompletedTasks, Finished
    <2> QED
      BY <2>1, <2>2 DEF PlaceInv, Once, Stated, Manned, Somewhere, Buffered, Held,
                        UnfinishedListed
  <1> QED
    BY <1>1, <1>2

\* The other steps move no task.
LEMMA PlaceRest ==
  ASSUME Ground, PlaceInv, RecentTasks \/ Stop \/ Tick \/ UNCHANGED vars
  PROVE  PlaceInv'
  <1>1. /\ UNCHANGED <<seq, sending, dest, status, listed, queueOf, ch, closed, pc, job>>
        /\ stopped => stopped'
    BY DEF RecentTasks, Stop, Tick, vars, submitVars, taskVars, queueVars, workVars
  <1>2. Once' /\ Stated' /\ UnfinishedListed'
    BY <1>1 DEF PlaceInv, Once, Stated, UnfinishedListed
  <1>3. Manned' /\ Somewhere'
    BY <1>1 DEF PlaceInv, Manned, Somewhere, Buffered, Held
  <1> QED
    BY <1>2, <1>3 DEF PlaceInv

\* The places are an inductive invariant, given the first one.
LEMMA PlaceInvariance == Spec => []PlaceInv
  <1>1. Init => PlaceInv
    BY PlaceInit
  <1>2. IInv /\ PlaceInv /\ [Next]_vars => PlaceInv'
    <2> SUFFICES ASSUME IInv, PlaceInv, [Next]_vars PROVE PlaceInv'
      OBVIOUS
    <2>1. Ground
      BY DEF IInv, Ground
    <2>2. ASSUME NEW c \in Chats, Submit(c) PROVE PlaceInv'
      BY <2>1, <2>2, PlaceSubmit
    <2>3. CASE Send
      BY <2>1, <2>3, PlaceSend
    <2>4. ASSUME NEW q \in Queues, Worker(q) PROVE PlaceInv'
      BY <2>1, <2>4, PlaceReceive, PlaceSlot, PlaceMark, PlaceLeave, PlaceWorker DEF Worker
    <2>5. CASE CleanupIdleQueues \/ PruneOldTasks
      BY <2>1, <2>5, PlaceJanitor
    <2>6. CASE RecentTasks \/ Stop \/ Tick \/ UNCHANGED vars
      BY <2>1, <2>6, PlaceRest
    <2> QED
      BY <2>2, <2>3, <2>4, <2>5, <2>6 DEF Next
  <1> QED
    BY Invariance, <1>1, <1>2, PTL DEF Spec

\* Removing an idle queue, making its replacement and filling its buffer lose
\* no task and hand none out twice, for any number of chats and any capacity.
THEOREM NoTaskLostTheorem == Spec => []NoTaskLost
  <1>1. ASSUME IInv, PlaceInv PROVE NoTaskLost
    <2>1. ASSUME NEW t \in Tasks, status[t] \in {"pending", "running"}, ~stopped
          PROVE  \/ sending = t /\ Served(dest)
                 \/ \E q \in Queues : Served(q) /\ (Buffered(t, q) \/ Held(t, q))
      <3>1. t # 0
        BY DEF Tasks
      <3>2. CASE sending = t
        BY <1>1, <2>1, <3>1, <3>2 DEF IInv, NoSendOnClosed, PlaceInv, Manned, Served
      <3>3. ASSUME NEW q \in Queues, Buffered(t, q) \/ Held(t, q) PROVE Served(q)
        <4>1. CASE Buffered(t, q)
          <5>1. ch[q] # <<>>
            BY <4>1 DEF Buffered
          <5> QED
            BY <1>1, <2>1, <5>1 DEF PlaceInv, Manned, Served
        <4>2. CASE Held(t, q)
          BY <1>1, <3>1, <4>2 DEF Held, PlaceInv, Stated, Served
        <4> QED
          BY <3>3, <4>1, <4>2
      <3> QED
        BY <1>1, <2>1, <3>2, <3>3 DEF PlaceInv, Somewhere
    <2>2. ASSUME NEW t \in Tasks, NEW q \in Queues, NEW r \in Queues, q # r
          PROVE  ~((Buffered(t, q) \/ Held(t, q)) /\ (Buffered(t, r) \/ Held(t, r)))
      <3>1. t # 0
        BY DEF Tasks
      <3> QED
        BY <1>1, <2>2, <3>1 DEF PlaceInv, Once, Buffered, Held
    <2>3. \A t \in Tasks : \A q \in Queues : ~(Buffered(t, q) /\ Held(t, q))
      BY <1>1 DEF PlaceInv, Once, Buffered, Held
    <2>4. \A t \in Tasks : sending = t => \A q \in Queues : ~Buffered(t, q) /\ ~Held(t, q)
      BY <1>1 DEF PlaceInv, Once, Buffered, Held, Tasks
    <2> QED
      BY <2>1, <2>2, <2>3, <2>4 DEF NoTaskLost
  <1> QED
    BY Invariance, PlaceInvariance, <1>1, PTL

\* pruneOldTasks forgets no task that has not finished, whatever the retention.
THEOREM UnfinishedListedTheorem == Spec => []UnfinishedListed
  <1>1. PlaceInv => UnfinishedListed
    BY DEF PlaceInv
  <1> QED
    BY PlaceInvariance, <1>1, PTL

-----------------------------------------------------------------------------
(* Order, and one turn per chat.  A chat may have two workers with work, but  *)
(* only its registered queue has tasks buffered, and who comes first to the   *)
(* semaphore has the older task.  With a slot for every chat no worker waits  *)
(* for one while time passes, and with handlers no slower than the idle       *)
(* timeout the janitor meets no queue whose worker is busy: then a chat has   *)
(* one worker with work.                                                      *)

\* What the deployment has to provide for that (taskqueue_overlap shows a chat
\* served twice at a time without it).
RoomForAll ==
    /\ IsFiniteSet(Chats) /\ Cardinality(Chats) <= MaxConcurrent
    /\ TaskTimeout <= IdleTimeout

\* A queue holds the tasks of the chat of the task that created it.
Keyed ==
    /\ \A c \in Chats : queueOf[c] # 0 => chatKey[queueOf[c]] = c
    /\ \A q \in Queues : \A i \in DOMAIN ch[q] : chatKey[ch[q][i]] = chatKey[q]
    /\ \A q \in Queues : job[q] # 0 => chatKey[job[q]] = chatKey[q]
    /\ sending # 0 => chatKey[sending] = chatKey[dest]

\* A queue is registered until it is closed, and a closed one has no tasks.
Retired ==
    /\ \A q \in Queues : closed[q] => ch[q] = <<>>
    /\ \A q \in Queues : ~closed[q] /\ pc[q] # "none" => queueOf[chatKey[q]] = q

\* The line at the semaphore is made of the workers that wait, by age.
InLine ==
    /\ \A q \in Queues : pc[q] = "acquire" => \E i \in DOMAIN waiters : waiters[i] = q
    /\ \A i \in DOMAIN waiters : pc[waiters[i]] = "acquire"
    /\ \A i, j \in DOMAIN waiters : waiters[i] = waiters[j] => i = j
ByTurns ==
    \A i, j \in DOMAIN waiters : i < j /\ chatKey[waiters[i]] = chatKey[waiters[j]]
        => job[waiters[i]] < job[waiters[j]]

\* A running task is in the hands of a worker that runs it.
InHand ==
    \A t \in Tasks : status[t] = "running"
        => \E q \in Queues : pc[q] = "running" /\ job[q] = t

\* A chat's buffered tasks are in order of age, those in hand before them.
ByAge ==
    /\ sending # 0 => sending = seq
    /\ \A q \in Queues : \A i, j \in DOMAIN ch[q] : i < j => ch[q][i] < ch[q][j]
    /\ \A q, r \in Queues : job[r] # 0 /\ chatKey[r] = chatKey[q]
                               => \A i \in DOMAIN ch[q] : job[r] < ch[q][i]

\* While a worker has work, lastUsed is no older than its handler's call.
Punctual ==
    /\ \A q \in Queues : closed[q] => pc[q] \in {"idle", "exited"}
    /\ \A q \in Queues : pc[q] \in {"acquire", "mark"} => idle[q] = 0
    /\ \A q \in Queues : pc[q] = "running" => idle[q] <= runtime[q]
    /\ \A q \in Queues : pc[q] \in {"release", "touch"} => idle[q] <= IdleTimeout
    /\ \A q \in Queues : pc[q] = "idle" /\ ch[q] # <<>> => idle[q] = 0
    /\ sending # 0 /\ pc[dest] = "idle" => idle[dest] = 0
Timely == RoomForAll => Punctual

SerialInv == Keyed /\ Retired /\ InLine /\ ByTurns /\ InHand /\ ByAge /\ Timely

\* At the start there are no queues, workers or tasks.
LEMMA SerialInit ==
  ASSUME Init
  PROVE  SerialInv
  <1>1. Keyed /\ Retired /\ InHand /\ ByAge
    BY DEF Init, Keyed, Retired, InHand, ByAge
  <1>2. Timely
    BY DEF Init, Timely, Punctual
  <1>3. InLine /\ ByTurns
    BY DEF Init, InLine, ByTurns
  <1> QED
    BY <1>1, <1>2, <1>3 DEF SerialInv

\* A chat that gets a new queue has no other that is not closed.
LEMMA SerialSubmit ==
  ASSUME Ground, PlaceInv, SerialInv, NEW c \in Chats, Submit(c)
  PROVE  SerialInv'
  <1> DEFINE t == seq + 1
             k == QueueFor(c)
  <1>1. /\ sending = 0 /\ sending' = t /\ seq' = t /\ dest' = k
        /\ status' = [status EXCEPT ![t] = "pending"]
        /\ chatKey' = [chatKey EXCEPT ![t] = c]
        /\ queueOf' = [queueOf EXCEPT ![c] = k]
        /\ pc' = (IF k = t THEN [pc EXCEPT ![t] = "idle"] ELSE pc)
        /\ idle' = [idle EXCEPT ![k] = 0]
        /\ UNCHANGED <<ch, job, closed, runtime, waiters, stopped>>
    BY DEF Submit
  <1>2. /\ t \in Tasks /\ t \in Queues /\ k \in Queues /\ seq \in Nat
        /\ (k = t /\ queueOf[c] = 0) \/ (k = queueOf[c] /\ queueOf[c] # 0)
    BY QueueAssumption DEF QueueAssumption, Ground, TypeOK, Submit, QueueFor, Tasks, Queues
  <1>3. /\ pc[t] = "none" /\ status[t] = "none" /\ ~closed[t] /\ ch[t] = <<>>
        /\ \A d \in Chats : queueOf[d] # t
    BY <1>2 DEF Ground, NamesFresh, PlaceInv, Stated, TypeOK
  <1>4. \A q \in Queues : /\ job[q] # t /\ \A i \in DOMAIN ch[q] : ch[q][i] # t
    BY <1>2, <1>3 DEF PlaceInv, Stated
  <1>5. job[t] = 0
    BY <1>2, <1>3 DEF PlaceInv, Stated
  <1> HIDE DEF t, k
  <1>6. /\ chatKey'[t] = c /\ \A u \in Tasks : u # t => chatKey'[u] = chatKey[u]
        /\ \A q \in Queues : q # t => pc'[q] = pc[q]
        /\ pc'[t] = (IF k = t THEN "idle" ELSE "none")
        /\ idle'[k] = 0 /\ \A q \in Queues : q # k => idle'[q] = idle[q]
        /\ queueOf'[c] = k /\ \A d \in Chats : d # c => queueOf'[d] = queueOf[d]
        /\ status'[t] = "pending" /\ \A u \in Tasks : u # t => status'[u] = status[u]
    BY <1>1, <1>2, <1>3 DEF Ground, TypeOK
  <1>7. /\ \A q \in Queues : \A i \in DOMAIN ch[q] : ch[q][i] \in Tasks
        /\ \A q \in Queues : job[q] # 0 => job[q] \in Tasks
        /\ \A d \in Chats : queueOf[d] # 0 => queueOf[d] \in Tasks
    BY ElementOfSeq DEF Ground, TypeOK, Queues
  <1>8. chatKey'[k] = c
    BY <1>2, <1>3, <1>6, <1>7 DEF SerialInv, Keyed
  <1>9. Keyed'
    <2>1. \A d \in Chats : queueOf'[d] # 0 => chatKey'[queueOf'[d]] = d
      BY <1>3, <1>6, <1>7, <1>8 DEF SerialInv, Keyed
    <2>2. \A q \in Queues : \A i \in DOMAIN ch'[q] : chatKey'[ch'[q][i]] = chatKey'[q]
      <3> SUFFICES ASSUME NEW q \in Queues, NEW i \in DOMAIN ch[q]
                   PROVE  chatKey'[ch[q][i]] = chatKey'[q]
        BY <1>1
      <3>1. q # t
        BY <1>3
      <3> QED
        BY <1>4, <1>6, <1>7, <3>1 DEF SerialInv, Keyed, Queues
    <2>3. \A q \in Queues : job'[q] # 0 => chatKey'[job'[q]] = chatKey'[q]
      BY <1>1, <1>4, <1>5, <1>6, <1>7 DEF SerialInv, Keyed, Queues
    <2> QED
      BY <1>1, <1>6, <1>8, <2>1, <2>2, <2>3 DEF Keyed
  <1>10. Retired'
    <2>1. \A q \in Queues : closed[q] => q # t
      BY <1>3
    <2>2. ASSUME NEW q \in Queues, ~closed[q], pc'[q] # "none"
          PROVE  queueOf'[chatKey'[q]] = q
      <3>1. CASE q = k
        BY <1>6, <1>8, <3>1
      <3>2. CASE q # k
        <4>1. q # t /\ pc[q] # "none"
          BY <1>6, <2>2, <3>2
        <4>2. queueOf[chatKey[q]] = q /\ chatKey[q] \in Chats
          BY <2>2, <4>1 DEF SerialInv, Retired, Ground, TypeOK, Queues
        <4>3. chatKey[q] # c
          BY <1>2, <3>2, <4>2 DEF Queues, Tasks
        <4> QED
          BY <1>6, <4>1, <4>2, <4>3 DEF Queues
      <3> QED
        BY <3>1, <3>2
    <2>3. \A q \in Queues : closed'[q] => ch'[q] = <<>>
      BY <1>1, <2>1 DEF SerialInv, Retired
    <2> QED
      BY <1>1, <2>2, <2>3 DEF Retired
  <1>11. Timely'
    <2> SUFFICES ASSUME RoomForAll PROVE Punctual'
      BY DEF Timely, RoomForAll
    <2>0. RoomForAll
      OBVIOUS
    <2>1. idle'[k] = 0 /\ 0 <= IdleTimeout /\ \A q \in Queues : runtime[q] \in Nat
      BY <1>6, QueueAssumption DEF QueueAssumption, Ground, TypeOK
    <2>2. ASSUME NEW q \in Queues, q # k
          PROVE  /\ idle'[q] = idle[q] /\ (pc'[q] = pc[q] \/ pc'[q] = "none")
      BY <1>6, <2>2
    <2>3. /\ \A q \in Queues : pc'[q] \in {"acquire", "mark"} => idle'[q] = 0
          /\ \A q \in Queues : pc'[q] = "running" => idle'[q] <= runtime[q]
          /\ \A q \in Queues : pc'[q] \in {"release", "touch"} => idle'[q] <= IdleTimeout
          /\ \A q \in Queues : pc'[q] = "idle" /\ ch[q] # <<>> => idle'[q] = 0
      BY <2>0, <2>1, <2>2 DEF SerialInv, Timely, Punctual
    <2>4. \A q \in Queues : closed'[q] => pc'[q] \in {"idle", "exited"}
      BY <1>1, <1>3, <1>6, <2>0 DEF SerialInv, Timely, Punctual
    <2> QED
      BY <1>1, <2>1, <2>3, <2>4 DEF Punctual
  <1>12. InLine' /\ ByTurns'
    <2>1. \A i \in DOMAIN waiters : waiters[i] \in Queues
      BY ElementOfSeq DEF Ground, TypeOK
    <2>2. \A i \in DOMAIN waiters : pc'[waiters[i]] = "acquire"
      BY <1>3, <1>6, <2>1 DEF SerialInv, InLine
    <2>3. \A q \in Queues : pc'[q] = "acquire" => pc[q] = "acquire"
      BY <1>6
    <2>4. InLine'
      BY <1>1, <2>2, <2>3 DEF SerialInv, InLine
    <2>5. \A i \in DOMAIN waiters : chatKey'[waiters[i]] = chatKey[waiters[i]]
      <3>1. \A i \in DOMAIN waiters : waiters[i] # t
        BY <1>3 DEF SerialInv, InLine
      <3> QED
        BY <1>6, <2>1, <3>1 DEF Queues
    <2>6. ByTurns'
      BY <1>1, <2>5 DEF SerialInv, ByTurns
    <2> QED
      BY <2>4, <2>6
  <1>13. InHand'
    <2> SUFFICES ASSUME NEW u \in Tasks, status'[u] = "running"
                 PROVE  \E q \in Queues : pc'[q] = "running" /\ job[q] = u
      BY <1>1 DEF InHand
    <2>1. status[u] = "running"
      BY <1>6
    <2>2. PICK q \in Queues : pc[q] = "running" /\ job[q] = u
      BY <2>1 DEF SerialInv, InHand
    <2> QED
      BY <1>3, <1>6, <2>2
  <1>14. ByAge'
    <2>1. ASSUME NEW q \in Queues, NEW r \in Queues, job[r] # 0, chatKey'[r] = chatKey'[q],
                 NEW i \in DOMAIN ch[q]
          PROVE  job[r] < ch[q][i]
      <3>1. q # t /\ r # t
        BY <1>3, <1>5, <2>1
      <3> QED
        BY <1>6, <2>1, <3>1 DEF SerialInv, ByAge, Queues
    <2> QED
      BY <1>1, <2>1 DEF SerialInv, ByAge
  <1> QED
    BY <1>9, <1>10, <1>11, <1>12, <1>13, <1>14 DEF SerialInv

\* Only submitted tasks have a status, and what a worker has in hand has one.
LEMMA SubmittedTasks ==
  ASSUME Ground, PlaceInv, NEW u \in Tasks, status[u] # "none"
  PROVE  u <= seq
  <1>1. ~(u > seq)
    BY DEF PlaceInv, Stated
  <1>2. u \in Int /\ seq \in Int
    BY DEF Ground, TypeOK, Tasks
  <1> QED
    BY <1>1, <1>2

\* A task in a worker's hands is pending until the worker has its slot and marks it.
LEMMA WorkedOn ==
  ASSUME Ground, PlaceInv, NEW q \in Queues, job[q] # 0
  PROVE  /\ job[q] \in Tasks
         /\ \/ pc[q] \in {"acquire", "mark"} /\ status[job[q]] = "pending"
            \/ pc[q] = "running" /\ status[job[q]] = "running"
  <1>1. job[q] \in Tasks
    BY DEF Ground, TypeOK
  <1>2. pc[q] \in {"acquire", "mark"} => status[job[q]] = "pending"
    BY DEF PlaceInv, Stated
  <1>3. pc[q] = "running" => status[job[q]] = "running"
    BY DEF PlaceInv, Stated
  <1>4. pc[q] \in {"acquire", "mark"} \/ pc[q] = "running"
    BY DEF PlaceInv, Stated
  <1> QED
    BY <1>1, <1>2, <1>3, <1>4

\* Send puts the youngest task at the end of its chat's queue, resetting lastUsed.
LEMMA SerialSend ==
  ASSUME Ground, PlaceInv, SerialInv, Send
  PROVE  SerialInv'
  <1> DEFINE d == dest
             x == sending
             n == Len(ch[d])
  <1>1. /\ x # 0 /\ ch' = [ch EXCEPT ![d] = Append(@, x)] /\ sending' = 0
        /\ UNCHANGED <<seq, status, chatKey, queueOf, closed, idle, pc, job, runtime, waiters,
                       stopped>>
    BY DEF Send, taskVars, workVars
  <1>2. d \in Queues /\ pc[d] # "none" /\ ~closed[d] /\ x \in Tasks
    BY <1>1 DEF Ground, TypeOK, NoSendOnClosed, PlaceInv, Manned
  <1>3. /\ ch[d] \in Seq(Tasks) /\ n \in Nat /\ DOMAIN ch[d] = 1..n
        /\ \A q \in Queues : q # d => ch'[q] = ch[q]
        /\ ch'[d] = Append(ch[d], x)
    BY <1>1, <1>2 DEF Ground, TypeOK
  <1>4. /\ DOMAIN ch'[d] = 1..n + 1 /\ ch'[d][n + 1] = x
        /\ \A i \in 1..n : ch'[d][i] = ch[d][i]
    BY <1>2, <1>3, AppendProperties
  <1>5. /\ \A q \in Queues : \A i \in DOMAIN ch[q] : ch[q][i] \in Tasks
        /\ \A u \in Tasks : status[u] # "none" => u <= seq
        /\ x = seq
    BY <1>1, ElementOfSeq, SubmittedTasks DEF Ground, TypeOK, SerialInv, ByAge
  \* What was there before is older.
  <1>6. /\ \A i \in DOMAIN ch[d] : ch[d][i] < x
        /\ \A q \in Queues : job[q] # 0 => job[q] < x
    <2>1. \A i \in DOMAIN ch[d] : status[ch[d][i]] = "pending" /\ ch[d][i] # x
      BY <1>1, <1>2 DEF PlaceInv, Stated, Once
    <2>2. \A q \in Queues : job[q] # 0 => status[job[q]] # "none" /\ job[q] \in Tasks
                                         /\ job[q] # x
      BY <1>1, <1>2, WorkedOn DEF PlaceInv, Once
    <2> QED
      BY <1>2, <1>5, <2>1, <2>2 DEF Tasks
  <1>7. /\ chatKey[x] = chatKey[d]
        /\ RoomForAll => (pc[d] = "idle" => idle[d] = 0)
    BY <1>1 DEF SerialInv, Keyed, Timely, Punctual
  <1> HIDE DEF d, x, n
  <1>8. Keyed'
    <2>1. \A q \in Queues : \A i \in DOMAIN ch'[q] : chatKey[ch'[q][i]] = chatKey[q]
      <3> SUFFICES ASSUME NEW q \in Queues, NEW i \in DOMAIN ch'[q]
                   PROVE  chatKey[ch'[q][i]] = chatKey[q]
        OBVIOUS
      <3>1. CASE q # d
        BY <1>3, <3>1 DEF SerialInv, Keyed
      <3>2. CASE q = d /\ i = n + 1
        BY <1>4, <1>7, <3>2
      <3>3. CASE q = d /\ i # n + 1
        <4>1. i \in DOMAIN ch[d]
          BY <1>3, <1>4, <3>3
        <4> QED
          BY <1>2, <1>3, <1>4, <3>3, <4>1 DEF SerialInv, Keyed
      <3> QED
        BY <3>1, <3>2, <3>3
    <2> QED
      BY <1>1, <2>1 DEF SerialInv, Keyed
  <1>9. Retired'
    BY <1>1, <1>2, <1>3 DEF SerialInv, Retired
  <1>10. Timely'
    <2> SUFFICES ASSUME RoomForAll PROVE Punctual'
      BY DEF Timely, RoomForAll
    <2>1. Punctual
      BY DEF SerialInv, Timely
    <2>2. \A q \in Queues : pc[q] = "idle" /\ ch'[q] # <<>> => idle[q] = 0
      BY <1>3, <1>7, <2>1 DEF Punctual
    <2> QED
      BY <1>1, <2>1, <2>2 DEF Punctual
  <1>11. InLine' /\ ByTurns' /\ InHand'
    BY <1>1 DEF SerialInv, InLine, ByTurns, InHand
  <1>12. ByAge'
    <2>1. ASSUME NEW q \in Queues, NEW i \in DOMAIN ch'[q], NEW j \in DOMAIN ch'[q], i < j
          PROVE  ch'[q][i] < ch'[q][j]
      <3>1. CASE q # d
        BY <1>3, <2>1, <3>1 DEF SerialInv, ByAge
      <3>2. CASE q = d
        <4>1. i \in 1..n /\ (j \in 1..n \/ j = n + 1)
          BY <1>3, <1>4, <2>1, <3>2
        <4>2. CASE j \in 1..n
          BY <1>2, <1>3, <1>4, <2>1, <3>2, <4>1, <4>2 DEF SerialInv, ByAge
        <4>3. CASE j = n + 1
          BY <1>3, <1>4, <1>6, <3>2, <4>1, <4>3
        <4> QED
          BY <4>1, <4>2, <4>3
      <3> QED
        BY <3>1, <3>2
    <2>2. ASSUME NEW q \in Queues, NEW r \in Queues, job[r] # 0, chatKey[r] = chatKey[q],
                 NEW i \in DOMAIN ch'[q]
          PROVE  job[r] < ch'[q][i]
      <3>1. CASE q # d
        BY <1>3, <2>2, <3>1 DEF SerialInv, ByAge
      <3>2. CASE q = d /\ i = n + 1
        BY <1>4, <1>6, <2>2, <3>2
      <3>3. CASE q = d /\ i # n + 1
        <4>1. i \in DOMAIN ch[d] /\ ch'[d][i] = ch[d][i]
          BY <1>3, <1>4, <3>3
        <4> QED
          BY <1>2, <2>2, <3>3, <4>1 DEF SerialInv, ByAge
      <3> QED
        BY <3>1, <3>2, <3>3
    <2> QED
      BY <1>1, <2>1, <2>2 DEF ByAge
  <1> QED
    BY <1>8, <1>9, <1>10, <1>11, <1>12 DEF SerialInv

\* Only a queue that is not closed has something to receive.
LEMMA SerialReceive ==
  ASSUME Ground, PlaceInv, SerialInv, NEW q \in Queues, Receive(q)
  PROVE  SerialInv'
  <1> DEFINE s == ch[q]
             n == Len(s)
             x == sending
             h == s[1]
             z == ch'[q]
             handoff == x # 0 /\ dest = q /\ Len(s) = Capacity
  <1>1. /\ pc[q] = "idle" /\ s # <<>> /\ job' = [job EXCEPT ![q] = Head(s)]
        /\ pc' = [pc EXCEPT ![q] = "acquire"] /\ waiters' = Append(waiters, q)
        /\ ch' = [ch EXCEPT ![q] = IF handoff THEN Append(Tail(s), x) ELSE Tail(s)]
        /\ sending' = (IF handoff THEN 0 ELSE x) /\ dest' = (IF handoff THEN 0 ELSE dest)
        /\ UNCHANGED <<seq, status, chatKey, queueOf, closed, idle, runtime, stopped>>
    BY DEF Receive, taskVars
  <1>2. /\ s \in Seq(Tasks) /\ job \in [Queues -> Tasks \cup {0}]
        /\ pc \in [Queues -> WorkerPC] /\ x \in Tasks \cup {0}
        /\ ch \in [Queues -> Seq(Tasks)] /\ waiters \in Seq(Queues)
    BY DEF Ground, TypeOK
  <1> HIDE DEF x, n, h, z
  <1>3. /\ n \in Nat \ {0} /\ h = Head(s) /\ DOMAIN s = 1..n /\ h \in Tasks
        /\ \A r \in Queues : r # q => ch'[r] = ch[r]
    BY <1>1, <1>2, ReceivedRest, LenProperties, ElementOfSeq DEF n, h
  <1>4. \/ /\ ~handoff /\ sending' = x /\ dest' = dest /\ DOMAIN z = 1..n - 1
           /\ \A i \in 1..n - 1 : z[i] = s[i + 1]
        \/ /\ handoff /\ x # 0 /\ sending' = 0 /\ DOMAIN z = 1..n
           /\ \A i \in 1..n - 1 : z[i] = s[i + 1]
           /\ z[n] = x
    <2>1. CASE handoff
      <3>1. z = Append(Tail(s), x) /\ x \in Tasks
        BY <1>1, <1>2, <2>1 DEF z
      <3> QED
        BY <1>1, <1>2, <2>1, <3>1, Received DEF n
    <2>2. CASE ~handoff
      <3>1. z = Tail(s)
        BY <1>1, <1>2, <2>2 DEF z
      <3> QED
        BY <1>1, <1>2, <2>2, <3>1, ReceivedRest DEF n
    <2> QED
      BY <2>1, <2>2
  <1>5. /\ job'[q] = h /\ \A r \in Queues : r # q => job'[r] = job[r]
        /\ pc'[q] = "acquire" /\ \A r \in Queues : r # q => pc'[r] = pc[r]
    BY <1>1, <1>2, <1>3
  <1>6. handoff => dest = q /\ x # 0
    OBVIOUS
  <1> HIDE DEF s, handoff
  \* A task in the new buffer was behind the head, or is the one handed off.
  <1>7. \A i \in DOMAIN z :
           \/ i \in 1..n - 1 /\ i + 1 \in DOMAIN s /\ z[i] = s[i + 1]
           \/ i = n /\ handoff /\ z[i] = x
    <2> SUFFICES ASSUME NEW i \in DOMAIN z
                 PROVE  \/ i \in 1..n - 1 /\ i + 1 \in DOMAIN s /\ z[i] = s[i + 1]
                        \/ i = n /\ handoff /\ z[i] = x
      OBVIOUS
    <2>1. i \in Int /\ 1 <= i /\ i <= n
      BY <1>3, <1>4
    <2>2. CASE i <= n - 1
      <3>1. i \in 1..n - 1 /\ i + 1 \in DOMAIN s
        BY <1>3, <2>1, <2>2
      <3> QED
        BY <1>4, <3>1
    <2>3. CASE i = n
      <3>1. DOMAIN z # 1..n - 1
        BY <1>3, <2>3
      <3> QED
        BY <1>4, <2>3, <3>1
    <2> QED
      BY <1>3, <2>1, <2>2, <2>3
  <1>8. /\ \A i \in DOMAIN s : chatKey[s[i]] = chatKey[q] /\ s[i] \in Tasks
        /\ \A i, j \in DOMAIN s : i < j => s[i] < s[j]
        /\ x # 0 => x = seq /\ x \in Tasks
        /\ x # 0 => \A i \in DOMAIN s : s[i] < x
        /\ handoff => chatKey[x] = chatKey[q]
        /\ 1 \in DOMAIN s /\ ~closed[q]
        /\ RoomForAll => idle[q] = 0
    <2>1. \A i \in DOMAIN s : chatKey[s[i]] = chatKey[q] /\ s[i] \in Tasks
      BY <1>2, ElementOfSeq DEF s, SerialInv, Keyed
    <2>2. \A i, j \in DOMAIN s : i < j => s[i] < s[j]
      BY DEF s, SerialInv, ByAge
    <2>3. x # 0 => x = seq /\ x \in Tasks
      BY <1>2 DEF x, SerialInv, ByAge
    <2>4. x # 0 => \A i \in DOMAIN s : s[i] < x
      <3> SUFFICES ASSUME x # 0, NEW i \in DOMAIN s PROVE s[i] < x
        OBVIOUS
      <3>1. status[s[i]] = "pending" /\ s[i] # x
        BY DEF s, x, PlaceInv, Stated, Once
      <3>2. s[i] <= seq
        BY <2>1, <3>1, SubmittedTasks
      <3> QED
        BY <2>1, <2>3, <3>1, <3>2 DEF Tasks
    <2>5. handoff => chatKey[x] = chatKey[q]
      BY <1>6 DEF x, SerialInv, Keyed
    <2>6. ~closed[q] /\ (RoomForAll => idle[q] = 0)
      BY <1>1 DEF s, SerialInv, Timely, Punctual, Retired
    <2> QED
      BY <1>3, <2>1, <2>2, <2>3, <2>4, <2>5, <2>6
  <1>9. Keyed'
    <2>1. \A r \in Queues : \A i \in DOMAIN ch'[r] : chatKey[ch'[r][i]] = chatKey[r]
      <3>1. \A i \in DOMAIN z : chatKey[z[i]] = chatKey[q]
        BY <1>7, <1>8
      <3> QED
        BY <1>3, <3>1 DEF z, SerialInv, Keyed
    <2>2. \A r \in Queues : job'[r] # 0 => chatKey[job'[r]] = chatKey[r]
      BY <1>5, <1>8 DEF h, SerialInv, Keyed
    <2>3. sending' # 0 => chatKey[sending'] = chatKey[dest']
      BY <1>4 DEF x, SerialInv, Keyed
    <2> QED
      BY <1>1, <2>1, <2>2, <2>3 DEF SerialInv, Keyed
  <1>10. Retired'
    BY <1>1, <1>3, <1>5, <1>8 DEF SerialInv, Retired
  <1>11. Timely'
    <2> SUFFICES ASSUME RoomForAll PROVE Punctual'
      BY DEF Timely, RoomForAll
    <2>1. Punctual
      BY DEF SerialInv, Timely
    <2>2. sending' # 0 /\ pc'[dest'] = "idle" => idle[dest'] = 0
      <3> SUFFICES ASSUME sending' # 0, pc'[dest'] = "idle" PROVE idle[dest'] = 0
        OBVIOUS
      <3>1. sending # 0 /\ dest' = dest
        BY <1>4 DEF x
      <3>2. dest \in Queues
        BY <3>1 DEF PlaceInv, Manned
      <3>3. pc[dest] = "idle"
        BY <1>5, <3>1, <3>2
      <3> QED
        BY <2>1, <3>1, <3>3 DEF Punctual
    <2>3. \A r \in Queues : pc'[r] = "idle" /\ ch'[r] # <<>> => idle[r] = 0
      BY <1>3, <1>5, <2>1 DEF Punctual
    <2>4. idle[q] = 0 /\ \A r \in Queues : closed[r] => pc'[r] \in {"idle", "exited"}
      BY <1>5, <1>8, <2>1 DEF Punctual
    <2> QED
      BY <1>1, <1>5, <2>1, <2>2, <2>3, <2>4 DEF Punctual
  <1>12. InLine' /\ ByTurns'
    <2> DEFINE w == Len(waiters)
    <2>1. /\ w \in Nat /\ DOMAIN waiters = 1..w /\ DOMAIN waiters' = 1..w + 1
          /\ waiters'[w + 1] = q /\ \A i \in 1..w : waiters'[i] = waiters[i]
      BY <1>1, <1>2, AppendProperties
    <2>2. \A i \in 1..w : waiters[i] \in Queues /\ waiters[i] # q
      BY <1>1, <1>2, <2>1, ElementOfSeq DEF SerialInv, InLine
    <2> HIDE DEF w
    <2>3. \A i \in DOMAIN waiters' : i \in 1..w \/ i = w + 1
      BY <2>1
    <2>4. \A i, j \in DOMAIN waiters' : waiters'[i] = waiters'[j] => i = j
      BY <2>1, <2>2, <2>3 DEF SerialInv, InLine
    <2>5. \A i \in DOMAIN waiters' : pc'[waiters'[i]] = "acquire"
      BY <1>5, <2>1, <2>2, <2>3 DEF SerialInv, InLine
    <2>6. ASSUME NEW r \in Queues, pc'[r] = "acquire"
          PROVE  \E i \in DOMAIN waiters' : waiters'[i] = r
      <3>1. CASE r = q
        BY <2>1, <3>1
      <3>2. CASE r # q
        <4>1. PICK i \in 1..w : waiters[i] = r
          BY <1>5, <2>1, <2>6, <3>2 DEF SerialInv, InLine
        <4> QED
          BY <2>1, <4>1
      <3> QED
        BY <3>1, <3>2
    \* It comes last, and has what was buffered behind those in hand.
    <2>7. \A i \in 1..w : chatKey[waiters[i]] = chatKey[q] => job[waiters[i]] < h
      <3> SUFFICES ASSUME NEW i \in 1..w, chatKey[waiters[i]] = chatKey[q]
                   PROVE  job[waiters[i]] < h
        OBVIOUS
      <3>1. waiters[i] \in Queues /\ pc[waiters[i]] = "acquire"
        BY <2>1, <2>2 DEF SerialInv, InLine
      <3>2. job[waiters[i]] # 0
        BY <3>1 DEF PlaceInv, Stated
      <3> QED
        BY <1>8, <3>1, <3>2 DEF SerialInv, ByAge, h, s
    <2>8. ByTurns'
      <3> SUFFICES ASSUME NEW i \in DOMAIN waiters', NEW j \in DOMAIN waiters', i < j,
                          chatKey[waiters'[i]] = chatKey[waiters'[j]]
                   PROVE  job'[waiters'[i]] < job'[waiters'[j]]
        BY <1>1 DEF ByTurns
      <3>1. i \in 1..w /\ (j \in 1..w \/ j = w + 1)
        BY <2>1, <2>3
      <3>2. job'[waiters'[i]] = job[waiters[i]]
        BY <1>5, <2>1, <2>2, <3>1
      <3>3. CASE j = w + 1
        BY <1>5, <2>1, <2>7, <3>1, <3>2, <3>3
      <3>4. CASE j \in 1..w
        <4>1. job'[waiters'[j]] = job[waiters[j]]
          BY <1>5, <2>1, <2>2, <3>4
        <4> QED
          BY <2>1, <3>1, <3>2, <3>4, <4>1 DEF SerialInv, ByTurns
      <3> QED
        BY <3>1, <3>3, <3>4
    <2> QED
      BY <2>4, <2>5, <2>6, <2>8 DEF InLine
  <1>13. InHand'
    <2> SUFFICES ASSUME NEW u \in Tasks, status[u] = "running"
                 PROVE  \E r \in Queues : pc'[r] = "running" /\ job'[r] = u
      BY <1>1 DEF InHand
    <2>1. PICK r \in Queues : pc[r] = "running" /\ job[r] = u
      BY DEF SerialInv, InHand
    <2> QED
      BY <1>1, <1>5, <2>1
  <1>14. ByAge'
    <2>1. \A i, j \in DOMAIN z : i < j => z[i] < z[j]
      <3> SUFFICES ASSUME NEW i \in DOMAIN z, NEW j \in DOMAIN z, i < j PROVE z[i] < z[j]
        OBVIOUS
      <3>1. i \in 1..n - 1 /\ i + 1 \in DOMAIN s /\ z[i] = s[i + 1]
        <4>1. i # n
          BY <1>3, <1>4
        <4> QED
          BY <1>7, <4>1
      <3>2. CASE j \in 1..n - 1 /\ j + 1 \in DOMAIN s /\ z[j] = s[j + 1]
        BY <1>8, <3>1, <3>2
      <3>3. CASE j = n /\ handoff /\ z[j] = x
        BY <1>6, <1>8, <3>1, <3>3
      <3> QED
        BY <1>7, <3>2, <3>3
    <2>2. \A i \in DOMAIN z : h < z[i]
      <3> SUFFICES ASSUME NEW i \in DOMAIN z PROVE h < z[i]
        OBVIOUS
      <3>1. CASE i \in 1..n - 1 /\ i + 1 \in DOMAIN s /\ z[i] = s[i + 1]
        BY <1>8, <3>1 DEF h
      <3>2. CASE i = n /\ handoff /\ z[i] = x
        BY <1>6, <1>8, <3>2 DEF h
      <3> QED
        BY <1>7, <3>1, <3>2
    <2>3. \A r \in Queues : \A i, j \in DOMAIN ch'[r] : i < j => ch'[r][i] < ch'[r][j]
      BY <1>3, <2>1 DEF z, SerialInv, ByAge
    <2>4. ASSUME NEW r \in Queues, NEW v \in Queues, job'[v] # 0, chatKey[v] = chatKey[r],
                 NEW i \in DOMAIN ch'[r]
          PROVE  job'[v] < ch'[r][i]
      <3>1. CASE v = q /\ r = q
        BY <1>5, <2>2, <2>4, <3>1 DEF z
      <3>2. CASE v = q /\ r # q
        \* The other queue with tasks would be registered as well.
        <4>1. ch[r] # <<>> /\ pc[r] # "none" /\ ~closed[r]
          BY <1>3, <2>4, <3>2 DEF PlaceInv, Manned, SerialInv, Retired
        <4>2. queueOf[chatKey[r]] = r /\ queueOf[chatKey[q]] = q
          BY <1>1, <1>8, <4>1 DEF SerialInv, Retired
        <4> QED
          BY <2>4, <3>2, <4>2
      <3>3. CASE v # q /\ r # q
        BY <1>3, <1>5, <2>4, <3>3 DEF SerialInv, ByAge
      <3>4. CASE v # q /\ r = q
        <4>1. job[v] # 0 /\ job'[v] = job[v]
          BY <1>5, <2>4, <3>4
        <4>2. \A j \in DOMAIN s : job[v] < s[j]
          BY <2>4, <3>4, <4>1 DEF s, SerialInv, ByAge
        <4>3. x # 0 => job[v] < x
          <5>1. job[v] \in Tasks /\ status[job[v]] # "none"
            BY <4>1, WorkedOn
          <5>2. x # 0 => job[v] # x
            BY DEF x, PlaceInv, Once
          <5> QED
            BY <1>8, <5>1, <5>2, SubmittedTasks DEF Tasks
        <4> QED
          BY <1>6, <1>7, <2>4, <3>4, <4>1, <4>2, <4>3 DEF z
      <3> QED
        BY <3>1, <3>2, <3>3, <3>4
    <2>5. sending' # 0 => sending' = seq
      BY <1>4 DEF x, SerialInv, ByAge
    <2> QED
      BY <1>1, <2>3, <2>4, <2>5 DEF ByAge
  <1> QED
    BY <1>9, <1>10, <1>11, <1>12, <1>13, <1>14 DEF SerialInv

\* Workers of one chat that both have work are the same.
LEMMA OneWorks ==
  ASSUME RoomForAll, SerialInv, NEW q \in Queues, NEW r \in Queues, chatKey[q] = chatKey[r],
         pc[q] \notin {"none", "idle", "exited"}, pc[r] \notin {"none", "idle", "exited"}
  PROVE  q = r
  <1>1. ~closed[q] /\ ~closed[r]
    BY DEF SerialInv, Timely, Punctual
  <1>2. queueOf[chatKey[q]] = q /\ queueOf[chatKey[r]] = r
    BY <1>1 DEF SerialInv, Retired
  <1> QED
    BY <1>2

\* The head of the line gets its slot.
LEMMA SerialAcquire ==
  ASSUME Ground, PlaceInv, SerialInv, NEW q \in Queues, AcquireSem(q)
  PROVE  SerialInv'
  <1>1. /\ pc[q] = "acquire" /\ pc' = [pc EXCEPT ![q] = "mark"]
        /\ waiters # <<>> /\ q = Head(waiters) /\ waiters' = Tail(waiters)
        /\ UNCHANGED <<seq, chatKey, sending, dest, status, queueOf, ch, closed, idle, job,
                       runtime, stopped>>
    BY DEF AcquireSem, submitVars, queueVars, taskVars
  <1>3. pc'[q] = "mark" /\ \A r \in Queues : r # q => pc'[r] = pc[r]
    BY <1>1 DEF Ground, TypeOK
  <1>4. Keyed' /\ ByAge'
    BY <1>1 DEF SerialInv, Keyed, ByAge
  <1>5. Retired'
    BY <1>1, <1>3 DEF SerialInv, Retired
  <1>6. Timely'
    <2> SUFFICES ASSUME RoomForAll PROVE Punctual'
      BY DEF Timely, RoomForAll
    <2>1. Punctual
      BY DEF SerialInv, Timely
    <2>2. idle[q] = 0 /\ ~closed[q]
      BY <1>1, <2>1 DEF Punctual
    <2>3. sending # 0 => dest \in Queues
      BY DEF PlaceInv, Manned
    <2>4. sending # 0 /\ pc'[dest] = "idle" => idle[dest] = 0
      BY <1>3, <2>1, <2>3 DEF Punctual
    <2> QED
      BY <1>1, <1>3, <2>1, <2>2, <2>4 DEF Punctual
  <1>7. InLine' /\ ByTurns'
    <2> DEFINE w == Len(waiters)
    <2>1. /\ waiters \in Seq(Queues) /\ w \in Nat \ {0} /\ waiters[1] = q /\ DOMAIN waiters = 1..w
          /\ DOMAIN waiters' = 1..w - 1 /\ \A i \in 1..w - 1 : waiters'[i] = waiters[i + 1]
      BY <1>1, ReceivedRest, LenProperties DEF Ground, TypeOK
    <2> HIDE DEF w
    <2>2. /\ 1 \in DOMAIN waiters
          /\ \A i \in DOMAIN waiters' : i + 1 \in DOMAIN waiters /\ i + 1 # 1
      BY <2>1
    <2>3. \A i \in DOMAIN waiters' : waiters'[i] = waiters[i + 1] /\ waiters'[i] # q
                                     /\ waiters'[i] \in Queues
      <3> SUFFICES ASSUME NEW i \in DOMAIN waiters'
                   PROVE  waiters'[i] = waiters[i + 1] /\ waiters'[i] # q
                          /\ waiters'[i] \in Queues
        OBVIOUS
      <3>1. waiters'[i] = waiters[i + 1]
        BY <2>1
      <3>2. waiters[i + 1] # waiters[1]
        BY <2>2 DEF SerialInv, InLine
      <3>3. waiters[i + 1] \in Queues
        BY <2>1, <2>2, ElementOfSeq
      <3> QED
        BY <2>1, <3>1, <3>2, <3>3
    <2>4. \A i \in DOMAIN waiters' : pc'[waiters'[i]] = "acquire"
      BY <1>3, <2>2, <2>3 DEF SerialInv, InLine
    <2>5. \A i, j \in DOMAIN waiters' : waiters'[i] = waiters'[j] => i = j
      <3> SUFFICES ASSUME NEW i \in DOMAIN waiters', NEW j \in DOMAIN waiters',
                          waiters'[i] = waiters'[j]
                   PROVE  i = j
        OBVIOUS
      <3>1. i + 1 = j + 1
        BY <2>2, <2>3 DEF SerialInv, InLine
      <3> QED
        BY <2>1, <3>1
    <2>6. ASSUME NEW r \in Queues, pc'[r] = "acquire"
          PROVE  \E i \in DOMAIN waiters' : waiters'[i] = r
      <3>1. r # q /\ pc[r] = "acquire"
        BY <1>3, <2>6
      <3>2. PICK j \in DOMAIN waiters : waiters[j] = r
        BY <3>1 DEF SerialInv, InLine
      <3>3. j - 1 \in 1..w - 1 /\ (j - 1) + 1 = j
        BY <2>1, <3>1, <3>2
      <3> QED
        BY <2>1, <3>2, <3>3
    <2>7. ByTurns'
      <3> SUFFICES ASSUME NEW i \in DOMAIN waiters', NEW j \in DOMAIN waiters', i < j,
                          chatKey[waiters'[i]] = chatKey[waiters'[j]]
                   PROVE  job[waiters'[i]] < job[waiters'[j]]
        BY <1>1 DEF ByTurns
      <3>1. i + 1 < j + 1
        BY <2>1
      <3> QED
        BY <2>2, <2>3, <3>1 DEF SerialInv, ByTurns
    <2> QED
      BY <2>4, <2>5, <2>6, <2>7 DEF InLine
  <1>8. InHand'
    <2> SUFFICES ASSUME NEW u \in Tasks, status[u] = "running"
                 PROVE  \E r \in Queues : pc'[r] = "running" /\ job[r] = u
      BY <1>1 DEF InHand
    <2>1. PICK r \in Queues : pc[r] = "running" /\ job[r] = u
      BY DEF SerialInv, InHand
    <2> QED
      BY <1>1, <1>3, <2>1
  <1> QED
    BY <1>4, <1>5, <1>6, <1>7, <1>8 DEF SerialInv

\* A worker with a slot marks its task: one with a slot waits for nothing but q.mu.
LEMMA SerialMark ==
  ASSUME Ground, PlaceInv, SerialInv, NEW q \in Queues, MarkRunning(q)
  PROVE  SerialInv'
  <1>1. /\ pc[q] = "mark" /\ status' = [status EXCEPT ![job[q]] = "running"]
        /\ pc' = [pc EXCEPT ![q] = "running"] /\ runtime' = [runtime EXCEPT ![q] = 0]
        /\ UNCHANGED <<seq, chatKey, sending, dest, queueOf, ch, closed, idle, job, waiters,
                       stopped>>
    BY DEF MarkRunning, submitVars, queueVars
  <1>2. job[q] \in Tasks /\ status[job[q]] = "pending"
    BY <1>1 DEF PlaceInv, Stated, Ground, TypeOK
  <1>3. /\ status'[job[q]] = "running" /\ \A u \in Tasks : u # job[q] => status'[u] = status[u]
        /\ pc'[q] = "running" /\ \A r \in Queues : r # q => pc'[r] = pc[r]
        /\ runtime'[q] = 0 /\ \A r \in Queues : r # q => runtime'[r] = runtime[r]
    BY <1>1, <1>2 DEF Ground, TypeOK
  <1>4. Keyed' /\ ByAge'
    BY <1>1 DEF SerialInv, Keyed, ByAge
  <1>5. Retired'
    BY <1>1, <1>3 DEF SerialInv, Retired
  <1>6. Timely'
    <2> SUFFICES ASSUME RoomForAll PROVE Punctual'
      BY DEF Timely, RoomForAll
    <2>1. Punctual
      BY DEF SerialInv, Timely
    <2>2. idle[q] = 0 /\ ~closed[q]
      BY <1>1, <2>1 DEF Punctual
    <2>3. sending # 0 => dest \in Queues
      BY DEF PlaceInv, Manned
    <2>4. sending # 0 /\ pc'[dest] = "idle" => idle[dest] = 0
      BY <1>3, <2>1, <2>3 DEF Punctual
    <2>5. \A r \in Queues : pc'[r] = "running" => idle[r] <= runtime'[r]
      BY <1>3, <2>1, <2>2 DEF Punctual
    <2> QED
      BY <1>1, <1>3, <2>1, <2>2, <2>4, <2>5 DEF Punctual
  <1>7. InLine' /\ ByTurns'
    <2>1. \A i \in DOMAIN waiters : waiters[i] \in Queues /\ waiters[i] # q
      BY <1>1, ElementOfSeq DEF Ground, TypeOK, SerialInv, InLine
    <2> QED
      BY <1>1, <1>3, <2>1 DEF SerialInv, InLine, ByTurns
  <1>8. InHand'
    <2> SUFFICES ASSUME NEW u \in Tasks, status'[u] = "running"
                 PROVE  \E r \in Queues : pc'[r] = "running" /\ job[r] = u
      BY <1>1 DEF InHand
    <2>1. CASE u = job[q]
      BY <1>3, <2>1
    <2>2. CASE u # job[q]
      <3>1. PICK r \in Queues : pc[r] = "running" /\ job[r] = u
        BY <1>3, <2>2 DEF SerialInv, InHand
      <3> QED
        BY <1>3, <2>2, <3>1
    <2> QED
      BY <2>1, <2>2
  <1> QED
    BY <1>4, <1>5, <1>6, <1>7, <1>8 DEF SerialInv

\* What is left of the line when the one at i leaves it.
LEMMA LeaveLine ==
  ASSUME NEW S, NEW line \in Seq(S), NEW i \in DOMAIN line
  PROVE  /\ DOMAIN RemoveAt(line, i) = 1..Len(line) - 1
         /\ \A j \in 1..Len(line) - 1 :
               RemoveAt(line, i)[j] = IF j < i THEN line[j] ELSE line[j + 1]
  <1> DEFINE n == Len(line)
             a == SubSeq(line, 1, i - 1)
             b == SubSeq(line, i + 1, n)
  <1>1. i \in 1..n /\ n \in Nat
    BY LenProperties
  <1>2. /\ a \in Seq(S) /\ Len(a) = i - 1 /\ \A j \in 1..i - 1 : a[j] = line[j]
    BY <1>1, SubSeqProperties
  <1>3. /\ b \in Seq(S) /\ Len(b) = n - i /\ \A j \in 1..n - i : b[j] = line[i + j]
    BY <1>1, SubSeqProperties
  <1>4. RemoveAt(line, i) = a \o b
    BY DEF RemoveAt
  <1> HIDE DEF a, b
  <1>5. /\ Len(a \o b) = Len(a) + Len(b) /\ DOMAIN (a \o b) = 1..Len(a) + Len(b)
        /\ \A j \in 1..Len(a) + Len(b) :
              (a \o b)[j] = IF j <= Len(a) THEN a[j] ELSE b[j - Len(a)]
    <2>1. /\ a \o b \in Seq(S) /\ Len(a \o b) = Len(a) + Len(b)
          /\ \A j \in 1..Len(a) + Len(b) :
                (a \o b)[j] = IF j <= Len(a) THEN a[j] ELSE b[j - Len(a)]
      BY <1>2, <1>3, ConcatProperties
    <2> QED
      BY <2>1, LenProperties
  <1>6. DOMAIN (a \o b) = 1..n - 1
    BY <1>1, <1>2, <1>3, <1>5
  <1>7. ASSUME NEW j \in 1..n - 1
        PROVE  (a \o b)[j] = IF j < i THEN line[j] ELSE line[j + 1]
    <2>1. j \in 1..Len(a) + Len(b)
      BY <1>1, <1>2, <1>3
    <2>2. CASE j < i
      BY <1>1, <1>2, <1>5, <2>1, <2>2
    <2>3. CASE ~(j < i)
      <3>1. j - (i - 1) \in 1..n - i /\ i + (j - (i - 1)) = j + 1
        BY <1>1, <2>3
      <3>2. b[j - (i - 1)] = line[j + 1]
        BY <1>3, <3>1
      <3>3. (a \o b)[j] = b[j - Len(a)]
        BY <1>1, <1>2, <1>5, <2>1, <2>3
      <3> QED
        BY <1>2, <2>3, <3>2, <3>3
    <2> QED
      BY <2>2, <2>3
  <1> QED
    BY <1>4, <1>6, <1>7

\* A worker that gives up (ctx cancelled) leaves the line where it stands.
LEMMA SerialAbandon ==
  ASSUME Ground, PlaceInv, SerialInv, NEW q \in Queues, AbandonTask(q)
  PROVE  SerialInv'
  <1>1. /\ pc[q] = "acquire" /\ job' = [job EXCEPT ![q] = 0]
        /\ pc' = [pc EXCEPT ![q] = "touch"]
        /\ UNCHANGED <<seq, chatKey, sending, dest, status, queueOf, ch, closed, idle, runtime,
                       stopped>>
    BY DEF AbandonTask, submitVars, taskVars, queueVars
  <1>2. PICK k \in DOMAIN waiters : waiters[k] = q /\ waiters' = RemoveAt(waiters, k)
    BY DEF AbandonTask
  <1>3. /\ pc'[q] = "touch" /\ \A r \in Queues : r # q => pc'[r] = pc[r]
        /\ job'[q] = 0 /\ \A r \in Queues : r # q => job'[r] = job[r]
    BY <1>1 DEF Ground, TypeOK
  <1>4. Keyed' /\ ByAge'
    BY <1>1, <1>3 DEF SerialInv, Keyed, ByAge
  <1>5. Retired'
    BY <1>1, <1>3 DEF SerialInv, Retired
  <1>6. Timely'
    <2> SUFFICES ASSUME RoomForAll PROVE Punctual'
      BY DEF Timely, RoomForAll
    <2>1. Punctual
      BY DEF SerialInv, Timely
    <2>2. idle[q] = 0 /\ 0 <= IdleTimeout /\ ~closed[q]
      BY <1>1, <2>1, QueueAssumption DEF QueueAssumption, Punctual
    <2>3. sending # 0 => dest \in Queues
      BY DEF PlaceInv, Manned
    <2>4. sending # 0 /\ pc'[dest] = "idle" => idle[dest] = 0
      BY <1>3, <2>1, <2>3 DEF Punctual
    <2> QED
      BY <1>1, <1>3, <2>1, <2>2, <2>4 DEF Punctual
  <1>7. InLine' /\ ByTurns'
    <2> DEFINE n == Len(waiters)
    <2>1. /\ waiters \in Seq(Queues) /\ n \in Nat /\ DOMAIN waiters = 1..n
          /\ DOMAIN waiters' = 1..n - 1
          /\ \A j \in 1..n - 1 : waiters'[j] = IF j < k THEN waiters[j] ELSE waiters[j + 1]
      BY <1>2, LeaveLine, LenProperties DEF Ground, TypeOK
    <2> HIDE DEF n
    <2> DEFINE from(j) == IF j < k THEN j ELSE j + 1
    <2>2. \A j \in 1..n - 1 : /\ waiters'[j] = waiters[from(j)]
                              /\ from(j) \in 1..n /\ from(j) # k
      BY <1>2, <2>1
    <2>3. \A i, j \in 1..n - 1 : /\ from(i) = from(j) => i = j
                                 /\ i < j => from(i) < from(j)
      BY <1>2, <2>1
    <2> HIDE DEF from
    <2>4. \A j \in 1..n - 1 : waiters'[j] # q /\ waiters'[j] \in Queues
                              /\ pc[waiters'[j]] = "acquire"
      <3> SUFFICES ASSUME NEW j \in 1..n - 1
                   PROVE  /\ waiters'[j] # q /\ waiters'[j] \in Queues
                          /\ pc[waiters'[j]] = "acquire"
        OBVIOUS
      <3>1. /\ waiters'[j] = waiters[from(j)] /\ from(j) \in DOMAIN waiters
            /\ from(j) # k /\ from(j) \in 1..Len(waiters)
        BY <2>1, <2>2 DEF n
      <3>2. waiters[from(j)] # q
        BY <1>2, <3>1 DEF SerialInv, InLine
      <3>3. waiters[from(j)] \in Queues
        BY <2>1, <3>1, ElementOfSeq
      <3>4. pc[waiters[from(j)]] = "acquire"
        BY <3>1 DEF SerialInv, InLine
      <3> QED
        BY <3>1, <3>2, <3>3, <3>4
    <2>5. \A i, j \in DOMAIN waiters' : waiters'[i] = waiters'[j] => i = j
      BY <2>1, <2>2, <2>3 DEF SerialInv, InLine
    <2>6. ASSUME NEW r \in Queues, pc'[r] = "acquire"
          PROVE  \E i \in DOMAIN waiters' : waiters'[i] = r
      <3>1. r # q /\ pc[r] = "acquire"
        BY <1>3, <2>6
      <3>2. PICK j \in 1..n : waiters[j] = r
        BY <2>1, <3>1 DEF SerialInv, InLine
      <3>3. CASE j < k
        BY <1>2, <2>1, <3>2, <3>3
      <3>4. CASE j > k
        <4>1. j - 1 \in 1..n - 1 /\ ~(j - 1 < k) /\ (j - 1) + 1 = j
          BY <1>2, <2>1, <3>4
        <4> QED
          BY <2>1, <3>2, <4>1
      <3> QED
        BY <1>2, <2>1, <3>1, <3>2, <3>3, <3>4
    <2>7. ByTurns'
      <3> SUFFICES ASSUME NEW i \in 1..n - 1, NEW j \in 1..n - 1, i < j,
                          chatKey[waiters'[i]] = chatKey[waiters'[j]]
                   PROVE  job'[waiters'[i]] < job'[waiters'[j]]
        BY <1>1, <2>1 DEF ByTurns
      <3>1. job[waiters'[i]] < job[waiters'[j]]
        <4>1. /\ waiters'[i] = waiters[from(i)] /\ from(i) \in DOMAIN waiters
              /\ waiters'[j] = waiters[from(j)] /\ from(j) \in DOMAIN waiters
          BY <2>1, <2>2
        <4>2. from(i) < from(j)
          BY <2>3
        <4> QED
          BY <4>1, <4>2 DEF SerialInv, ByTurns
      <3> QED
        BY <1>3, <2>4, <3>1
    <2> QED
      BY <1>3, <2>1, <2>4, <2>5, <2>6, <2>7 DEF InLine
  <1>8. InHand'
    <2> SUFFICES ASSUME NEW u \in Tasks, status[u] = "running"
                 PROVE  \E r \in Queues : pc'[r] = "running" /\ job'[r] = u
      BY <1>1 DEF InHand
    <2>1. PICK r \in Queues : pc[r] = "running" /\ job[r] = u
      BY DEF SerialInv, InHand
    <2> QED
      BY <1>1, <1>3, <2>1
  <1> QED
    BY <1>4, <1>5, <1>6, <1>7, <1>8 DEF SerialInv

\* The handler took no longer than the idle timeout.
LEMMA SerialFinish ==
  ASSUME Ground, PlaceInv, SerialInv, NEW q \in Queues, Finish(q)
  PROVE  SerialInv'
  <1>1. /\ pc[q] = "running" /\ job' = [job EXCEPT ![q] = 0]
        /\ \E v \in Finished : status' = [status EXCEPT ![job[q]] = v]
        /\ pc' = [pc EXCEPT ![q] = "release"] /\ runtime' = [runtime EXCEPT ![q] = 0]
        /\ UNCHANGED <<seq, chatKey, sending, dest, queueOf, ch, closed, idle, waiters, stopped>>
    BY DEF Finish, submitVars, queueVars
  <1>2. /\ pc'[q] = "release" /\ \A r \in Queues : r # q => pc'[r] = pc[r]
        /\ job'[q] = 0 /\ \A r \in Queues : r # q => job'[r] = job[r]
        /\ \A r \in Queues : r # q => runtime'[r] = runtime[r]
        /\ job[q] \in Tasks
    BY <1>1 DEF Ground, TypeOK, PlaceInv, Stated
  <1>3. /\ \A u \in Tasks : u # job[q] => status'[u] = status[u]
        /\ status'[job[q]] \in Finished
    BY <1>1, <1>2 DEF Ground, TypeOK
  <1>4. Keyed' /\ ByAge'
    BY <1>1, <1>2 DEF SerialInv, Keyed, ByAge
  <1>5. Retired'
    BY <1>1, <1>2 DEF SerialInv, Retired
  <1>6. Timely'
    <2> SUFFICES ASSUME RoomForAll PROVE Punctual'
      BY DEF Timely, RoomForAll
    <2>0. Punctual
      BY DEF SerialInv, Timely
    <2>1. idle[q] <= IdleTimeout /\ ~closed[q]
      <3>1. idle[q] <= runtime[q] /\ runtime[q] <= TaskTimeout /\ TaskTimeout <= IdleTimeout
        BY <1>1, <2>0 DEF Punctual, Ground, TypeOK, RoomForAll
      <3>2. {idle[q], runtime[q], TaskTimeout, IdleTimeout} \subseteq Int
        BY QueueAssumption DEF QueueAssumption, Ground, TypeOK
      <3>3. ~closed[q]
        BY <1>1, <2>0 DEF Punctual
      <3> QED
        BY <3>1, <3>2, <3>3
    <2>2. sending # 0 => dest \in Queues
      BY DEF PlaceInv, Manned
    <2>3. sending # 0 /\ pc'[dest] = "idle" => idle[dest] = 0
      BY <1>2, <2>0, <2>2 DEF Punctual
    <2> QED
      BY <1>1, <1>2, <2>0, <2>1, <2>3 DEF Punctual
  <1>7. InLine' /\ ByTurns'
    <2>1. \A i \in DOMAIN waiters : waiters[i] \in Queues /\ waiters[i] # q
      BY <1>1, ElementOfSeq DEF Ground, TypeOK, SerialInv, InLine
    <2>2. InLine'
      BY <1>1, <1>2, <2>1 DEF SerialInv, InLine
    <2>3. \A i \in DOMAIN waiters : job'[waiters[i]] = job[waiters[i]]
      BY <1>2, <2>1
    <2>4. ByTurns'
      BY <1>1, <2>3 DEF SerialInv, ByTurns
    <2> QED
      BY <2>2, <2>4
  <1>8. InHand'
    <2> SUFFICES ASSUME NEW u \in Tasks, status'[u] = "running"
                 PROVE  \E r \in Queues : pc'[r] = "running" /\ job'[r] = u
      BY DEF InHand
    <2>1. u # job[q] /\ status[u] = "running"
      BY <1>3 DEF Finished
    <2>2. PICK r \in Queues : pc[r] = "running" /\ job[r] = u
      BY <2>1 DEF SerialInv, InHand
    <2> QED
      BY <1>2, <2>1, <2>2
  <1> QED
    BY <1>4, <1>5, <1>6, <1>7, <1>8 DEF SerialInv

\* A worker goes its way without a task.
LEMMA SerialWorker ==
  ASSUME Ground, PlaceInv, SerialInv, NEW q \in Queues, WorkerExit(q) \/ ReleaseSem(q) \/ Touch(q)
  PROVE  SerialInv'
  <1>1. /\ \/ pc[q] = "idle" /\ pc' = [pc EXCEPT ![q] = "exited"] /\ idle' = idle
           \/ pc[q] = "release" /\ pc' = [pc EXCEPT ![q] = "touch"] /\ idle' = idle
           \/ pc[q] = "touch" /\ pc' = [pc EXCEPT ![q] = "idle"]
              /\ idle' = [idle EXCEPT ![q] = 0]
        /\ UNCHANGED <<seq, chatKey, sending, dest, status, queueOf, ch, closed, job, runtime,
                       waiters, stopped>>
    BY DEF WorkerExit, ReleaseSem, Touch, submitVars, queueVars, taskVars
  <1>2. /\ \A r \in Queues : r # q => pc'[r] = pc[r] /\ idle'[r] = idle[r]
        /\ \/ pc[q] = "idle" /\ pc'[q] = "exited"
           \/ pc[q] = "release" /\ pc'[q] = "touch" /\ idle'[q] = idle[q]
           \/ pc[q] = "touch" /\ pc'[q] = "idle" /\ idle'[q] = 0
    BY <1>1 DEF Ground, TypeOK
  <1>3. Keyed' /\ ByAge'
    BY <1>1 DEF SerialInv, Keyed, ByAge
  <1>4. Retired'
    BY <1>1, <1>2 DEF SerialInv, Retired
  <1>5. Timely'
    <2> SUFFICES ASSUME RoomForAll PROVE Punctual'
      BY DEF Timely, RoomForAll
    <2>1. Punctual
      BY DEF SerialInv, Timely
    <2>2. sending # 0 => dest \in Queues
      BY DEF PlaceInv, Manned
    <2>3. sending # 0 /\ pc'[dest] = "idle" => idle'[dest] = 0
      BY <1>2, <2>1, <2>2 DEF Punctual
    <2> QED
      BY <1>1, <1>2, <2>1, <2>3 DEF Punctual
  <1>6. InLine' /\ ByTurns'
    <2>1. \A i \in DOMAIN waiters : waiters[i] \in Queues
      BY ElementOfSeq DEF Ground, TypeOK
    <2> QED
      BY <1>1, <1>2, <2>1 DEF SerialInv, InLine, ByTurns
  <1>7. InHand'
    <2> SUFFICES ASSUME NEW u \in Tasks, status[u] = "running"
                 PROVE  \E r \in Queues : pc'[r] = "running" /\ job[r] = u
      BY <1>1 DEF InHand
    <2>1. PICK r \in Queues : pc[r] = "running" /\ job[r] = u
      BY DEF SerialInv, InHand
    <2> QED
      BY <1>2, <2>1
  <1> QED
    BY <1>3, <1>4, <1>5, <1>6, <1>7 DEF SerialInv

\* What the janitor closes has been idle for too long to have work.
LEMMA SerialJanitor ==
  ASSUME Ground, PlaceInv, SerialInv, CleanupIdleQueues
  PROVE  SerialInv'
  <1>1. /\ closed' = [q \in Queues |-> closed[q] \/ \E c \in IdleChats : queueOf[c] = q]
        /\ queueOf' = [c \in Chats |-> IF c \in IdleChats THEN 0 ELSE queueOf[c]]
        /\ UNCHANGED <<seq, chatKey, sending, dest, status, ch, idle, pc, job, runtime, waiters,
                       stopped>>
    BY DEF CleanupIdleQueues, submitVars, taskVars, workVars
  <1>2. ASSUME NEW q \in Queues, closed'[q], ~closed[q]
        PROVE  /\ ch[q] = <<>> /\ pc[q] # "none" /\ pc[q] \in WorkerPC
               /\ idle[q] > IdleTimeout
    <2>1. PICK c \in IdleChats : queueOf[c] = q
      BY <1>1, <1>2
    <2>2. c \in Chats /\ q # 0 /\ idle[q] > IdleTimeout /\ ch[q] = <<>>
      BY <2>1 DEF IdleChats, Queues, Tasks
    <2> QED
      BY <2>1, <2>2 DEF PlaceInv, Manned, Ground, TypeOK
  <1>3. Retired'
    <2>1. ASSUME NEW q \in Queues, ~closed'[q], pc[q] # "none"
          PROVE  queueOf'[chatKey[q]] = q
      <3>1. ~closed[q] /\ ~\E c \in IdleChats : queueOf[c] = q
        BY <1>1, <2>1
      <3>2. queueOf[chatKey[q]] = q /\ chatKey[q] \in Chats
        BY <2>1, <3>1 DEF SerialInv, Retired, Ground, TypeOK, Queues
      <3> QED
        BY <1>1, <3>1, <3>2
    <2>2. \A q \in Queues : closed'[q] => ch[q] = <<>>
      BY <1>2 DEF SerialInv, Retired
    <2> QED
      BY <1>1, <2>1, <2>2 DEF Retired
  <1>4. Keyed'
    <2>1. \A c \in Chats : queueOf'[c] # 0 => queueOf'[c] = queueOf[c]
      BY <1>1
    <2> QED
      BY <1>1, <2>1 DEF SerialInv, Keyed
  <1>5. Timely'
    <2> SUFFICES ASSUME RoomForAll PROVE Punctual'
      BY DEF Timely, RoomForAll
    <2>1. Punctual
      BY DEF SerialInv, Timely
    <2>2. ASSUME NEW q \in Queues, closed'[q], ~closed[q]
          PROVE  pc[q] \in {"idle", "exited"}
      <3>1. idle[q] > IdleTimeout /\ pc[q] # "none" /\ pc[q] \in WorkerPC
        BY <1>2, <2>2
      <3>2. /\ idle[q] \in Int /\ runtime[q] \in Int /\ runtime[q] <= TaskTimeout
            /\ TaskTimeout <= IdleTimeout /\ TaskTimeout \in Int /\ IdleTimeout \in Nat
        BY QueueAssumption DEF QueueAssumption, Ground, TypeOK, RoomForAll
      <3>3. pc[q] \notin {"acquire", "mark", "running", "release", "touch"}
        BY <2>1, <3>1, <3>2 DEF Punctual
      <3> QED
        BY <3>1, <3>3 DEF WorkerPC
    <2> QED
      BY <1>1, <2>1, <2>2 DEF Punctual
  <1>6. InLine' /\ ByTurns' /\ InHand' /\ ByAge'
    BY <1>1 DEF SerialInv, InLine, ByTurns, InHand, ByAge
  <1> QED
    BY <1>3, <1>4, <1>5, <1>6 DEF SerialInv

\* A slot is free for a worker that waits: those that have one serve other chats.
LEMMA SlotIsFree ==
  ASSUME RoomForAll, Ground, SlotsAccounted, SerialInv, NEW q \in Queues, pc[q] = "acquire"
  PROVE  sem < MaxConcurrent
  <1> DEFINE others == Chats \ {chatKey[q]}
             key == [r \in SlotHolders |-> chatKey[r]]
  <1>1. chatKey[q] \in Chats
    BY DEF Ground, TypeOK, Queues
  <1>2. key \in [SlotHolders -> others]
    <2> SUFFICES ASSUME NEW r \in SlotHolders PROVE chatKey[r] \in Chats /\ chatKey[r] # chatKey[q]
      OBVIOUS
    <2>1. r \in Queues /\ pc[r] \in {"mark", "running", "release"}
      BY DEF SlotHolders
    <2> QED
      BY <2>1, OneWorks DEF Ground, TypeOK, Queues
  <1>3. \A r, v \in SlotHolders : key[r] = key[v] => r = v
    BY OneWorks DEF SlotHolders
  <1>4. key \in Injection(SlotHolders, others)
    BY <1>2, <1>3 DEF Injection, IsInjective
  <1>5. IsFiniteSet(others) /\ Cardinality(others) = Cardinality(Chats) - 1
    BY <1>1, FS_RemoveElement DEF RoomForAll
  <1>6. Cardinality(SlotHolders) <= Cardinality(others) /\ IsFiniteSet(SlotHolders)
    BY <1>4, <1>5, FS_Injection
  <1>7. Cardinality(SlotHolders) \in Nat /\ Cardinality(Chats) \in Nat
    BY <1>6, FS_CardinalityType DEF RoomForAll
  <1> QED
    BY <1>5, <1>6, <1>7, QueueAssumption DEF QueueAssumption, SlotsAccounted, RoomForAll

\* Time passes only while no worker has anything to do but to run its handler.
LEMMA SerialTick ==
  ASSUME Ground, PlaceInv, BuffersBounded, SlotsAccounted, SerialInv, Tick
  PROVE  SerialInv'
  <1>1. /\ \A q \in Queues : ~Runnable(q)
        /\ idle' = [q \in Queues |-> IF \E c \in Chats : queueOf[c] = q
                                        /\ idle[q] <= IdleTimeout
                                     THEN idle[q] + 1 ELSE idle[q]]
        /\ runtime' = [q \in Queues |-> IF pc[q] = "running" THEN runtime[q] + 1
                                                             ELSE runtime[q]]
        /\ UNCHANGED <<seq, chatKey, sending, dest, status, queueOf, ch, closed, pc, job, waiters,
                       stopped>>
    BY DEF Tick, submitVars, taskVars
  <1>2. \A q \in Queues : pc[q] \notin {"mark", "release", "touch"}
                          /\ ~(pc[q] = "idle" /\ ch[q] # <<>>)
    BY <1>1 DEF Runnable
  <1>3. ASSUME RoomForAll, NEW q \in Queues, pc[q] = "acquire" PROVE FALSE
    <2>1. sem < MaxConcurrent
      BY <1>3, SlotIsFree
    <2>2. waiters # <<>> /\ waiters \in Seq(Queues)
      BY <1>3 DEF SerialInv, InLine, Ground, TypeOK
    <2>3. Head(waiters) = waiters[1] /\ 1 \in DOMAIN waiters /\ waiters[1] \in Queues
      BY <2>2, ReceivedRest, LenProperties, ElementOfSeq
    <2>4. pc[Head(waiters)] = "acquire"
      BY <2>3 DEF SerialInv, InLine
    <2> QED
      BY <1>1, <2>1, <2>3, <2>4 DEF Runnable
  <1>4. ~(sending # 0 /\ pc[dest] = "idle")
    <2> SUFFICES ASSUME sending # 0, pc[dest] = "idle" PROVE FALSE
      OBVIOUS
    <2>1. ~(Len(ch[dest]) < Capacity) /\ dest \in Queues
      BY DEF Tick, SendRunnable, PlaceInv, Manned
    <2>2. ch[dest] # <<>>
      <3>1. 0 < Capacity
        BY QueueAssumption DEF QueueAssumption
      <3> QED
        BY <2>1, <3>1
    <2> QED
      BY <1>2, <2>1, <2>2
  <1>5. Timely'
    <2> SUFFICES ASSUME RoomForAll PROVE Punctual'
      BY DEF Timely, RoomForAll
    <2>0. Punctual
      BY DEF SerialInv, Timely
    <2>1. \A q \in Queues : pc[q] = "running" => idle'[q] <= runtime'[q]
      <3> SUFFICES ASSUME NEW q \in Queues, pc[q] = "running" PROVE idle'[q] <= runtime'[q]
        OBVIOUS
      <3>1. idle[q] <= runtime[q] /\ idle[q] \in Int /\ runtime[q] \in Int
        BY <2>0 DEF Punctual, Ground, TypeOK
      <3>2. runtime'[q] = runtime[q] + 1 /\ (idle'[q] = idle[q] + 1 \/ idle'[q] = idle[q])
        BY <1>1
      <3> QED
        BY <3>1, <3>2
    <2> QED
      BY <1>1, <1>2, <1>3, <1>4, <2>0, <2>1 DEF Punctual
  <1>6. Keyed' /\ Retired' /\ InLine' /\ ByTurns' /\ InHand' /\ ByAge'
    BY <1>1 DEF SerialInv, Keyed, Retired, InLine, ByTurns, InHand, ByAge
  <1> QED
    BY <1>5, <1>6 DEF SerialInv

\* What does not touch the queues: /tasks, pruning and Stop.
LEMMA SerialRest ==
  ASSUME SerialInv, RecentTasks \/ PruneOldTasks \/ Stop \/ UNCHANGED vars
  PROVE  SerialInv'
  <1>1. UNCHANGED <<seq, chatKey, sending, dest, status, queueOf, ch, closed, idle, pc, job,
                    runtime, waiters>>
    BY DEF RecentTasks, PruneOldTasks, Stop, vars, submitVars, taskVars, queueVars, workVars
  <1> QED
    BY <1>1 DEF SerialInv, Keyed, Retired, Timely, Punctual, RoomForAll, InLine, ByTurns,
                InHand, ByAge

\* Together with the invariants it rests on.
LEMMA SerialInvariance == Spec => []SerialInv
  <1>1. Init => SerialInv
    BY SerialInit
  <1>2. IInv /\ PlaceInv /\ SerialInv /\ [Next]_vars => SerialInv'
    <2> SUFFICES ASSUME IInv, PlaceInv, SerialInv, [Next]_vars PROVE SerialInv'
      OBVIOUS
    <2>1. Ground /\ BuffersBounded /\ SlotsAccounted
      BY DEF IInv, Ground
    <2>2. ASSUME NEW c \in Chats, Submit(c) PROVE SerialInv'
      BY <2>1, <2>2, SerialSubmit
    <2>3. CASE Send
      BY <2>1, <2>3, SerialSend
    <2>4. ASSUME NEW q \in Queues, Worker(q) PROVE SerialInv'
      BY <2>1, <2>4, SerialReceive, SerialAcquire, SerialMark, SerialAbandon, SerialFinish, SerialWorker
      DEF Worker
    <2>5. CASE CleanupIdleQueues
      BY <2>1, <2>5, SerialJanitor
    <2>6. CASE Tick
      BY <2>1, <2>6, SerialTick
    <2>7. CASE RecentTasks \/ PruneOldTasks \/ Stop \/ UNCHANGED vars
      BY <2>7, SerialRest
    <2> QED
      BY <2>2, <2>3, <2>4, <2>5, <2>6, <2>7 DEF Next
  <1> QED
    BY Invariance, PlaceInvariance, <1>1, <1>2, PTL DEF Spec

\* A worker that has its slot has an older task than those of its chat that wait
\* for theirs: it was before them in the line, and what they received since is
\* younger than what it has in hand.
SlotFirst ==
    \A q, r \in Queues : pc[q] = "mark" /\ pc[r] = "acquire" /\ chatKey[q] = chatKey[r]
        => job[q] < job[r]

\* A step that lets nobody start to wait or get a slot leaves that as it is.
LEMMA SlotFirstKept ==
  ASSUME SlotFirst,
         \A r \in Queues : pc'[r] \in {"mark", "acquire"}
                           => /\ pc'[r] = pc[r] /\ job'[r] = job[r]
                              /\ chatKey'[r] = chatKey[r]
  PROVE  SlotFirst'
  BY DEF SlotFirst

LEMMA SlotFirstInvariance == Spec => []SlotFirst
  <1>1. Init => SlotFirst
    BY DEF Init, SlotFirst
  <1>2. IInv /\ PlaceInv /\ SerialInv /\ SlotFirst /\ [Next]_vars => SlotFirst'
    <2> SUFFICES ASSUME IInv, PlaceInv, SerialInv, SlotFirst, [Next]_vars PROVE SlotFirst'
      OBVIOUS
    <2>1. Ground
      BY DEF IInv, Ground
    <2>2. ASSUME NEW c \in Chats, Submit(c) PROVE SlotFirst'
      <3>1. /\ seq + 1 \in Queues /\ pc[seq + 1] = "none"
            /\ chatKey' = [chatKey EXCEPT ![seq + 1] = c] /\ job' = job
            /\ pc' = pc \/ pc' = [pc EXCEPT ![seq + 1] = "idle"]
        BY <2>1, <2>2, QueueAssumption
        DEF QueueAssumption, Submit, Ground, TypeOK, NamesFresh, Queues, Tasks
      <3> QED
        BY <2>1, <3>1, SlotFirstKept DEF Ground, TypeOK, Queues
    <2>3. ASSUME NEW q \in Queues, Receive(q) PROVE SlotFirst'
      <3>1. /\ ch[q] # <<>> /\ job' = [job EXCEPT ![q] = Head(ch[q])]
            /\ pc' = [pc EXCEPT ![q] = "acquire"] /\ chatKey' = chatKey
        BY <2>3 DEF Receive
      <3>2. job'[q] = ch[q][1] /\ 1 \in DOMAIN ch[q]
        BY <2>1, <3>1, ReceivedRest, LenProperties DEF Ground, TypeOK
      <3>3. \A r \in Queues : r # q => pc'[r] = pc[r] /\ job'[r] = job[r]
        BY <2>1, <3>1 DEF Ground, TypeOK
      <3>4. pc'[q] = "acquire"
        BY <2>1, <3>1 DEF Ground, TypeOK
      <3>5. ASSUME NEW r \in Queues, pc'[r] = "mark", chatKey[r] = chatKey[q]
            PROVE  job'[r] < job'[q]
        <4>1. r # q /\ pc[r] = "mark" /\ job'[r] = job[r]
          BY <3>3, <3>4, <3>5
        <4>2. job[r] # 0
          BY <4>1 DEF PlaceInv, Stated
        <4> QED
          BY <3>2, <3>5, <4>1, <4>2 DEF SerialInv, ByAge
      <3> QED
        BY <3>1, <3>3, <3>4, <3>5 DEF SlotFirst
    <2>4. ASSUME NEW q \in Queues, AcquireSem(q) PROVE SlotFirst'
      <3>1. /\ waiters # <<>> /\ q = Head(waiters) /\ pc' = [pc EXCEPT ![q] = "mark"]
            /\ job' = job /\ chatKey' = chatKey
        BY <2>4 DEF AcquireSem, submitVars
      <3>2. q = waiters[1] /\ 1 \in DOMAIN waiters /\ DOMAIN waiters = 1..Len(waiters)
        BY <2>1, <3>1, ReceivedRest, LenProperties DEF Ground, TypeOK
      <3>3. pc'[q] = "mark" /\ \A r \in Queues : r # q => pc'[r] = pc[r]
        BY <2>1, <3>1 DEF Ground, TypeOK
      <3>4. ASSUME NEW r \in Queues, pc'[r] = "acquire", chatKey[q] = chatKey[r]
            PROVE  job[q] < job[r]
        <4>1. r # q /\ pc[r] = "acquire"
          BY <3>3, <3>4
        <4>2. PICK j \in DOMAIN waiters : waiters[j] = r
          BY <4>1 DEF SerialInv, InLine
        <4>3. 1 < j
          BY <3>2, <4>1, <4>2
        <4> QED
          BY <3>2, <3>4, <4>2, <4>3 DEF SerialInv, ByTurns
      <3> QED
        BY <3>1, <3>3, <3>4 DEF SlotFirst
    <2>5. ASSUME NEW q \in Queues, MarkRunning(q) \/ AbandonTask(q) \/ Finish(q)
          PROVE  SlotFirst'
      <3>1. /\ \E v \in {"running", "touch", "release"} : pc' = [pc EXCEPT ![q] = v]
            /\ job' = job \/ job' = [job EXCEPT ![q] = 0]
            /\ chatKey' = chatKey
        BY <2>5 DEF MarkRunning, AbandonTask, Finish, submitVars
      <3> QED
        BY <2>1, <3>1, SlotFirstKept DEF Ground, TypeOK
    <2>6. ASSUME NEW q \in Queues, WorkerExit(q) \/ ReleaseSem(q) \/ Touch(q)
          PROVE  SlotFirst'
      <3>1. /\ \E v \in {"exited", "touch", "idle"} : pc' = [pc EXCEPT ![q] = v]
            /\ job' = job /\ chatKey' = chatKey
        BY <2>6 DEF WorkerExit, ReleaseSem, Touch, submitVars
      <3> QED
        BY <2>1, <3>1, SlotFirstKept DEF Ground, TypeOK
    <2>7. CASE \/ Send \/ CleanupIdleQueues \/ RecentTasks \/ PruneOldTasks \/ Stop \/ Tick
               \/ UNCHANGED vars
      BY <2>7, SlotFirstKept DEF Send, CleanupIdleQueues, RecentTasks, PruneOldTasks, Stop,
         Tick, vars, submitVars, workVars
    <2> QED
      BY <2>2, <2>3, <2>4, <2>5, <2>6, <2>7 DEF Next, Worker
  <1> QED
    BY Invariance, PlaceInvariance, SerialInvariance, <1>1, <1>2, PTL DEF Spec

\* Who starts a task has the oldest of its chat that is not started, but for those
\* whose workers have their slots too: an older one without a slot would be in
\* the buffer before it, or with a worker further up the line.
LEMMA OldestFirst ==
  ASSUME Ground, PlaceInv, SerialInv, SlotFirst, NEW q \in Queues, MarkRunning(q), ~stopped,
         NEW u \in Tasks, status[u] = "pending", chatKey[u] = chatKey[job[q]], u < job[q]
  PROVE  HoldsSlot(u)
  <1>1. pc[q] = "mark"
    BY DEF MarkRunning
  <1>2. job[q] # 0 /\ job[q] \in Tasks /\ status[job[q]] = "pending" /\ u # 0
    BY <1>1 DEF PlaceInv, Stated, Ground, TypeOK, Tasks
  <1>3. chatKey[u] = chatKey[q]
    BY <1>2 DEF SerialInv, Keyed
  <1>4. CASE sending = u
    <2>1. u = seq /\ job[q] <= seq
      BY <1>2, <1>4, SubmittedTasks DEF SerialInv, ByAge
    <2> QED
      BY <1>2, <2>1 DEF Tasks
  <1>5. ASSUME NEW r \in Queues, Buffered(u, r) PROVE FALSE
    <2>1. PICK i \in DOMAIN ch[r] : ch[r][i] = u
      BY <1>5 DEF Buffered
    <2>2. chatKey[r] = chatKey[q]
      BY <1>3, <2>1 DEF SerialInv, Keyed
    <2>3. job[q] < u
      BY <1>2, <2>1, <2>2 DEF SerialInv, ByAge
    <2> QED
      BY <1>2, <2>3 DEF Tasks
  <1>6. ASSUME NEW r \in Queues, Held(u, r) PROVE HoldsSlot(u)
    <2>1. job[r] = u /\ job[r] # 0
      BY <1>2, <1>6 DEF Held
    <2>2. pc[r] \in {"acquire", "mark"} /\ chatKey[r] = chatKey[q]
      BY <1>3, <2>1, WorkedOn DEF SerialInv, Keyed
    <2>3. CASE pc[r] = "acquire"
      <3>1. job[q] < u
        BY <1>1, <2>1, <2>2, <2>3 DEF SlotFirst
      <3> QED
        BY <1>2, <3>1 DEF Tasks
    <2> QED
      BY <2>1, <2>2, <2>3 DEF HoldsSlot
  <1> QED
    BY <1>2, <1>4, <1>5, <1>6 DEF PlaceInv, Somewhere

\* No task of a chat starts over an older one that still waits for a slot, also
\* while two workers serve the chat (the old queue's got in line first, and the
\* select of executeTask serves the line).
THEOREM OrderTheorem == Spec => NoOvertaking
  <1>1. IInv /\ PlaceInv /\ SerialInv /\ SlotFirst /\ [Next]_vars
          => [\A t, u \in Tasks :
                (/\ ~stopped /\ u < t /\ chatKey[u] = chatKey[t]
                 /\ status[t] = "pending" /\ status'[t] = "running")
                => (status[u] # "pending" \/ HoldsSlot(u))]_vars
    <2> SUFFICES ASSUME IInv, PlaceInv, SerialInv, SlotFirst, [Next]_vars,
                        NEW t \in Tasks, NEW u \in Tasks, ~stopped, u < t,
                        chatKey[u] = chatKey[t], status[t] = "pending",
                        status'[t] = "running", status[u] = "pending"
                 PROVE  HoldsSlot(u)
      OBVIOUS
    <2>1. Ground /\ status \in [Tasks -> Status]
      BY DEF IInv, Ground, TypeOK
    <2>2. ASSUME NEW q \in Queues, MarkRunning(q) PROVE HoldsSlot(u)
      <3>1. t = job[q]
        BY <2>1, <2>2 DEF MarkRunning
      <3> QED
        BY <2>1, <2>2, <3>1, OldestFirst
    <2>3. ASSUME NEW c \in Chats, Submit(c) PROVE FALSE
      BY <2>1, <2>3 DEF Submit
    <2>4. ASSUME NEW q \in Queues, Finish(q) PROVE FALSE
      BY <2>1, <2>4 DEF Finish, Finished
    <2>5. ASSUME NEW q \in Queues,
                 \/ Receive(q) \/ WorkerExit(q) \/ AcquireSem(q) \/ AbandonTask(q)
                 \/ ReleaseSem(q) \/ Touch(q)
          PROVE  FALSE
      BY <2>5 DEF Receive, WorkerExit, AcquireSem, AbandonTask, ReleaseSem, Touch,
                  submitVars, taskVars
    <2>6. CASE \/ Send \/ CleanupIdleQueues \/ RecentTasks \/ PruneOldTasks \/ Stop \/ Tick
               \/ UNCHANGED vars
      BY <2>6 DEF Send, CleanupIdleQueues, RecentTasks, PruneOldTasks, Stop, Tick, vars,
                  submitVars, taskVars
    <2> QED
      BY <2>2, <2>3, <2>4, <2>5, <2>6 DEF Next, Worker
  <1> QED
    BY Invariance, PlaceInvariance, SerialInvariance, SlotFirstInvariance, <1>1, PTL
    DEF Spec, NoOvertaking

\* Two running tasks of a chat are in the hands of one worker.
LEMMA OneRuns ==
  ASSUME RoomForAll, SerialInv, NEW t \in Tasks, NEW u \in Tasks,
         status[t] = "running", status[u] = "running", chatKey[t] = chatKey[u]
  PROVE  t = u
  <1>1. PICK q \in Queues : pc[q] = "running" /\ job[q] = t
    BY DEF SerialInv, InHand
  <1>2. PICK r \in Queues : pc[r] = "running" /\ job[r] = u
    BY DEF SerialInv, InHand
  <1>3. chatKey[q] = chatKey[r]
    <2>1. job[q] # 0 /\ job[r] # 0
      BY <1>1, <1>2 DEF Tasks
    <2> QED
      BY <1>1, <1>2, <2>1 DEF SerialInv, Keyed
  <1>4. q = r
    BY <1>1, <1>2, <1>3, OneWorks
  <1> QED
    BY <1>1, <1>2, <1>4

\* Messages for one chat run sequentially, whatever the janitor removes, where
\* each chat has a slot and no handler outlasts the idle timeout (queue.go:20).
THEOREM SerialTheorem ==
  ASSUME RoomForAll
  PROVE  Spec => []SerialPerChat
  <1>1. SerialInv => SerialPerChat
    BY OneRuns DEF SerialPerChat
  <1> QED
    BY SerialInvariance, <1>1, PTL
-----------------------------------------------------------------------------
(* The refinement, step by step.                                            *)

\* A worker with a slot starts the oldest waiting task of its chat, none of
\* which runs, within the limit.
LEMMA MarkStarts ==
  ASSUME RoomForAll, IInv, PlaceInv, SerialInv, SlotFirst, NEW q \in Queues, MarkRunning(q)
  PROVE  Executor!AStart(job[q]) /\ job[q] \in Tasks
  <1> DEFINE t == job[q]
  <1>1. Ground /\ SlotsAccounted
    BY DEF IInv, Ground
  <1>2. /\ pc[q] = "mark" /\ status' = [status EXCEPT ![t] = "running"]
        /\ UNCHANGED <<seq, chatKey, stopped>>
    BY DEF MarkRunning, submitVars
  <1>3. t # 0 /\ t \in Tasks /\ status[t] = "pending" /\ chatKey[t] = chatKey[q]
    BY <1>1, <1>2 DEF PlaceInv, Stated, Ground, TypeOK, SerialInv, Keyed
  <1>4. \A u \in Executor!RunningTasks : chatKey[u] # chatKey[t]
    <2> SUFFICES ASSUME NEW u \in Tasks, status[u] = "running", chatKey[u] = chatKey[t]
                 PROVE  FALSE
      BY DEF Executor!RunningTasks, Executor!Tasks, Tasks
    <2>1. PICK r \in Queues : pc[r] = "running" /\ job[r] = u
      BY DEF SerialInv, InHand
    <2>2. u # 0
      BY DEF Tasks
    <2>3. chatKey[r] = chatKey[q]
      BY <1>3, <2>1, <2>2 DEF SerialInv, Keyed
    <2> QED
      BY <1>1, <1>2, <2>1, <2>3, OneWorks
  <1>5. stopped \/ Executor!OlderPending(t) = {}
    <2> SUFFICES ASSUME ~stopped, NEW u \in 1..(t - 1), status[u] = "pending",
                        chatKey[u] = chatKey[t]
                 PROVE  FALSE
      BY DEF Executor!OlderPending
    <2>1. u \in Tasks /\ u < t
      <3>1. t \in 1..MaxTasks /\ MaxTasks \in Nat
        BY <1>3, QueueAssumption DEF QueueAssumption, Tasks
      <3> HIDE DEF t
      <3> QED
        BY <3>1 DEF Tasks
    <2>2. HoldsSlot(u)
      BY <1>1, <1>3, <2>1, OldestFirst
    <2>3. PICK r \in Queues : job[r] = u /\ pc[r] = "mark"
      BY <2>2 DEF HoldsSlot
    <2>4. u # 0 /\ t # u
      BY <2>1 DEF Tasks
    <2>5. chatKey[r] = chatKey[q]
      BY <1>3, <2>3, <2>4 DEF SerialInv, Keyed
    <2> QED
      BY <1>2, <2>3, <2>4, <2>5, OneWorks
  <1>6. Cardinality(Executor!RunningTasks) < MaxConcurrent
    <2> DEFINE R == Executor!RunningTasks
               others == SlotHolders \ {q}
               hand == [u \in R |-> CHOOSE r \in Queues : pc[r] = "running" /\ job[r] = u]
    <2>1. R = {u \in Tasks : status[u] = "running"}
      BY DEF Executor!RunningTasks, Executor!Tasks, Tasks
    <2>2. \A u \in R : pc[hand[u]] = "running" /\ hand[u] \in Queues /\ job[hand[u]] = u
      BY <2>1 DEF SerialInv, InHand
    <2>3. \A u \in R : hand[u] \in others
      BY <1>2, <2>2 DEF SlotHolders
    <2> HIDE DEF R, others
    <2>4. hand \in Injection(R, others)
      BY <2>2, <2>3 DEF Injection, IsInjective
    <2> HIDE DEF hand
    <2>5. IsFiniteSet(SlotHolders) /\ q \in SlotHolders
      <3>1. IsFiniteSet(Queues)
        BY FS_Interval, QueueAssumption DEF QueueAssumption, Queues, Tasks
      <3>2. SlotHolders \in SUBSET Queues
        BY DEF SlotHolders
      <3> QED
        BY <1>2, <3>1, <3>2, FS_Subset DEF SlotHolders
    <2>6. IsFiniteSet(others) /\ Cardinality(others) = Cardinality(SlotHolders) - 1
      BY <2>5, FS_RemoveElement DEF others
    <2>7. IsFiniteSet(R) /\ Cardinality(R) <= Cardinality(others)
      BY <2>4, <2>6, FS_Injection
    <2>8. Cardinality(R) \in Nat /\ Cardinality(SlotHolders) \in Nat
      BY <2>5, <2>7, FS_CardinalityType
    <2> QED
      BY <1>1, <2>6, <2>7, <2>8, QueueAssumption DEF QueueAssumption, SlotsAccounted, R
  <1> HIDE DEF t
  <1>7. Executor!Cardinality(Executor!RunningTasks) < MaxConcurrent
    BY <1>6 DEF Cardinality, Executor!Cardinality
  <1>8. Executor!AStart(t)
    BY <1>2, <1>3, <1>4, <1>5, <1>7 DEF Executor!AStart
  <1> QED
    BY <1>3, <1>8 DEF t

\* With a slot for each chat and handlers no slower than the idle timeout, the
\* queue does what the gateway was designed against, but for fairness: every
\* step of Submit, the workers, the janitor and Stop is a step of ChatExecutor
\* or none (ImplementsExecutor adds the fairness, and is model-checked).
THEOREM ExecutorTheorem ==
  ASSUME RoomForAll
  PROVE  Spec => Executor!AInit /\ [][Executor!ANext]_(Executor!avars)
  <1>1. Init => Executor!AInit
    <2> SUFFICES ASSUME Init PROVE Executor!AInit
      OBVIOUS
    <2>1. chatKey \in [Tasks -> Chats]
      BY QueueAssumption DEF QueueAssumption, Init
    <2> QED
      BY <2>1 DEF Init, Executor!AInit, Executor!Tasks, Tasks
  <1>2. IInv /\ PlaceInv /\ SerialInv /\ SlotFirst /\ [Next]_vars
          => [Executor!ANext]_(Executor!avars)
    <2> SUFFICES ASSUME IInv, PlaceInv, SerialInv, SlotFirst, [Next]_vars
                 PROVE  Executor!ANext \/ UNCHANGED <<seq, status, chatKey, stopped>>
      BY DEF Executor!avars
    <2> DEFINE Goal == Executor!ANext \/ UNCHANGED <<seq, status, chatKey, stopped>>
    <2>1. Ground
      BY DEF IInv, Ground
    <2>2. ASSUME NEW c \in Chats, Submit(c) PROVE Goal
      <3>1. Executor!ASubmit
        BY <2>2 DEF Submit, Executor!ASubmit
      <3> QED
        BY <3>1 DEF Executor!ANext
    <2>3. ASSUME NEW q \in Queues, MarkRunning(q) PROVE Goal
      <3>1. Executor!AStart(job[q]) /\ job[q] \in Tasks
        BY <2>3, MarkStarts
      <3> QED
        BY <3>1 DEF Executor!ANext, Executor!Tasks, Tasks
    <2>4. ASSUME NEW q \in Queues, Finish(q) PROVE Goal
      <3>1. pc[q] = "running"
        BY <2>4 DEF Finish
      <3>2. status[job[q]] = "running" /\ job[q] \in Tasks
        BY <2>1, <3>1 DEF PlaceInv, Stated, Ground, TypeOK
      <3>3. Executor!AFinish(job[q])
        BY <2>4, <3>2 DEF Finish, Finished, submitVars, Executor!AFinish
      <3> QED
        BY <3>2, <3>3 DEF Executor!ANext, Executor!Tasks, Tasks
    <2>5. CASE Stop
      <3>1. Executor!AStop
        BY <2>5 DEF Stop, submitVars, taskVars, Executor!AStop
      <3> QED
        BY <3>1 DEF Executor!ANext
    <2>6. ASSUME NEW q \in Queues,
                 \/ Receive(q) \/ WorkerExit(q) \/ AcquireSem(q) \/ AbandonTask(q)
                 \/ ReleaseSem(q) \/ Touch(q)
          PROVE  Goal
      BY <2>6 DEF Receive, WorkerExit, AcquireSem, AbandonTask, ReleaseSem, Touch,
                  submitVars, taskVars
    <2>7. CASE Send \/ CleanupIdleQueues \/ RecentTasks \/ PruneOldTasks \/ Tick \/ UNCHANGED vars
      BY <2>7 DEF Send, CleanupIdleQueues, RecentTasks, PruneOldTasks, Tick, vars, submitVars,
                  taskVars
    <2> QED
      BY <2>2, <2>3, <2>4, <2>5, <2>6, <2>7 DEF Next, Worker
  <1> QED
    BY Invariance, PlaceInvariance, SerialInvariance, SlotFirstInvariance, <1>1, <1>2, PTL
    DEF Spec
=============================================================================
