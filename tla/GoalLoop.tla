------------------------------ MODULE GoalLoop ------------------------------
(***************************************************************************)
(* The /goal loop of one chat: internal/agent/goal, goal_hook.go,          *)
(* slash_goal.go, tools/goal.go and the part of the turn in loop.go that   *)
(* drives them, over the row of agent_goals and bus.Inbound.               *)
(*                                                                         *)
(* Messages of the chat's bus run one by one on the chat's worker; a web   *)
(* request runs its turn in the handler's own goroutine, beside it.  The   *)
(* router takes messages off the bus: into the running turn, if there is   *)
(* one (steering), or to the worker's queue.  A message is its kind.       *)
(*                                                                         *)
(* A row is read and written whole, in two steps of its reader.  Tokens    *)
(* come in units of one call's usage.                                      *)
(***************************************************************************)
EXTENDS Integers, Sequences, FiniteSets

CONSTANTS
    Worker,       \* the chat's worker in the task queue
    Webs,         \* handlers of web requests
    Capacity,     \* room of bus.Inbound
    TokenBudget,  \* token_budget of the row; 0 for nil, which is what /goal leaves
    MaxRounds,    \* maxToolIterations
    MaxInputs,    \* bound on what users and cron send
    MaxGoals,     \* bound on the rows ever inserted
    MaxSpent,     \* bound on the calls that report usage
    MaxFaults     \* bound on failed calls of the store and the model and on refused turns

ASSUME GoalAssumption ==
    /\ Worker \notin Webs
    /\ {Capacity, MaxRounds} \subseteq Nat \ {0}
    /\ {TokenBudget, MaxInputs, MaxGoals, MaxSpent, MaxFaults} \subseteq Nat

Threads == {Worker} \cup Webs
Commands == {"create", "pause", "resume", "clear"}
Kinds == Commands \cup {"text", "cron", "goal"}
Status == {"active", "paused", "budget_limited", "complete"}
ThreadPC == {"idle", "slash", "flip", "post", "publish", "begin", "model", "fold", "act",
             "complete", "end"}

VARIABLES
    goal,       \* the row of the chat
    bus,        \* the chat's messages in bus.Inbound
    queue,      \* its tasks
    steer,      \* how many messages the session has buffered for the running turn
    pc,         \* where a thread is in HandleMessage
    job,        \* the message it handles
    got,        \* its copy of the row, while it has one
    rounds,     \* iterations of its turn so far
    \* history and bounds
    last,       \* the newest row's ID
    spent,      \* the usage reported while a goal was active
    overlapped, \* two threads were at work at a time
    inputs, faults

threadVars == <<pc, job, got, rounds>>
ghosts == <<last, spent, overlapped>>
bounds == <<inputs, faults>>
vars == <<goal, bus, queue, steer, threadVars, ghosts, bounds>>

NoGoal == [id |-> 0, status |-> "none", used |-> 0]

Init ==
    /\ goal = NoGoal
    /\ bus = <<>> /\ queue = <<>> /\ steer = 0
    /\ pc = [t \in Threads |-> "idle"]
    /\ job = [t \in Threads |-> "text"]
    /\ got = [t \in Threads |-> NoGoal]
    /\ rounds = [t \in Threads |-> 0]
    /\ last = 0
    /\ spent = [g \in 1..MaxGoals |-> 0]
    /\ overlapped = FALSE
    /\ inputs = 0 /\ faults = 0

GoTo(t, where) == pc' = [pc EXCEPT ![t] = where]
Forget(t) == got' = [got EXCEPT ![t] = NoGoal]
Fault == faults < MaxFaults /\ faults' = faults + 1

\* Between BeginTurn and EndTurn.
InTurn(t) == pc[t] \notin {"idle", "begin"} /\ job[t] \notin Commands
TurnActive == \E t \in Threads : InTurn(t)

\* UPDATE ... WHERE id: a row inserted since then is another goal's.
WhateverRow(row) == goal # NoGoal /\ goal' = [row EXCEPT !.id = goal.id]  \* (mutant: WHERE agent_id, session_key)
UpdateGoal(row) == goal.id = row.id /\ goal' = row

-----------------------------------------------------------------------------
(***************************************************************************)
(* Messages come in.                                                       *)
(***************************************************************************)
Sent == inputs < MaxInputs /\ inputs' = inputs + 1

UserSends(k) ==
    /\ Sent
    /\ Len(bus) < Capacity
    /\ bus' = Append(bus, k)
    /\ UNCHANGED <<goal, queue, steer, threadVars, ghosts, faults>>

\* The dashboard's steering endpoint.
SteerWeb ==
    /\ Sent
    /\ TurnActive
    /\ steer' = steer + 1
    /\ UNCHANGED <<goal, bus, queue, threadVars, ghosts, faults>>

\* processInbound and trySteer: whatever the message is, a command or a goal
\* prompt too, it becomes text of the running turn if there is one.
Route ==
    /\ bus # <<>>
    /\ bus' = Tail(bus)
    /\ IF TurnActive
       THEN steer' = steer + 1 /\ UNCHANGED queue
       ELSE queue' = Append(queue, Head(bus)) /\ UNCHANGED steer
    /\ UNCHANGED <<goal, threadVars, ghosts, bounds>>

\* HandleMessage begins.
Start(t, k) ==
    /\ pc[t] = "idle"
    /\ job' = [job EXCEPT ![t] = k]
    /\ GoTo(t, IF k \in Commands THEN "slash" ELSE "begin")
    /\ overlapped' = (overlapped \/ \E u \in Threads \ {t} : pc[u] # "idle")

WorkerTakes ==
    /\ queue # <<>>
    /\ Start(Worker, Head(queue))
    /\ queue' = Tail(queue)
    /\ UNCHANGED <<goal, bus, steer, got, rounds, last, spent, bounds>>

WebSends(t, k) ==
    /\ Sent
    /\ Start(t, k)
    /\ UNCHANGED <<goal, bus, queue, steer, got, rounds, last, spent, faults>>

-----------------------------------------------------------------------------
(***************************************************************************)
(* slash_goal.go.  A failed read or write is the command's reply.          *)
(***************************************************************************)
ActiveGoal == [id |-> last + 1, status |-> "active", used |-> 0]

SlashCreate(t) ==
    /\ pc[t] = "slash" /\ job[t] = "create"
    /\ \/ /\ goal = NoGoal /\ last < MaxGoals
          /\ goal' = ActiveGoal
          /\ last' = last + 1
          /\ GoTo(t, "post")
          /\ UNCHANGED faults
       \/ /\ goal # NoGoal                           \* ErrAlreadyExists
          /\ GoTo(t, "idle")
          /\ UNCHANGED <<goal, last, faults>>
       \/ /\ Fault
          /\ GoTo(t, "idle")
          /\ UNCHANGED <<goal, last>>
    /\ UNCHANGED <<bus, queue, steer, job, got, rounds, spent, overlapped, inputs>>

\* The state a command starts from and the one it leads to.
AnyStatus(k) == Status                               \* (mutant: no wrongStateMsg)
From(k) == CASE k = "pause" -> {"active"} [] k = "resume" -> {"paused"} [] OTHER -> Status
To(k) == IF k = "pause" THEN "paused" ELSE "active"

SlashRead(t) ==
    /\ pc[t] = "slash" /\ job[t] \in {"pause", "resume", "clear"}
    /\ \/ /\ goal.status \in From(job[t])
          /\ got' = [got EXCEPT ![t] = goal]
          /\ GoTo(t, "flip")
          /\ UNCHANGED faults
       \/ /\ goal.status \notin From(job[t])
          /\ GoTo(t, "idle")
          /\ UNCHANGED <<got, faults>>
       \/ /\ Fault
          /\ GoTo(t, "idle")
          /\ UNCHANGED got
    /\ UNCHANGED <<goal, bus, queue, steer, job, rounds, ghosts, inputs>>

\* The write of transitionGoal or slashGoalClear.
SlashWrite(t) ==
    /\ pc[t] = "flip"
    /\ \/ /\ job[t] = "clear"
          /\ goal' = IF goal.id = got[t].id THEN NoGoal ELSE goal
          /\ GoTo(t, "idle")
          /\ UNCHANGED faults
       \/ /\ job[t] # "clear"
          /\ UpdateGoal([got[t] EXCEPT !.status = To(job[t])])
          /\ GoTo(t, IF job[t] = "resume" THEN "post" ELSE "idle")
          /\ UNCHANGED faults
       \/ /\ job[t] # "clear" /\ goal.id # got[t].id            \* ErrNotFound
          /\ GoTo(t, "idle")
          /\ UNCHANGED <<goal, faults>>
       \/ /\ Fault
          /\ GoTo(t, "idle")
          /\ UNCHANGED goal
    /\ Forget(t)
    /\ UNCHANGED <<bus, queue, steer, job, rounds, ghosts, inputs>>

-----------------------------------------------------------------------------
(***************************************************************************)
(* TryFireContinuation, the end of a turn and of the commands that start   *)
(* the loop.                                                               *)
(***************************************************************************)
Publish == bus' = IF Len(bus) < Capacity THEN Append(bus, "goal") ELSE bus

\* What follows: the deferred EndTurn of a turn, nothing for a command.
Done(t) == IF job[t] \in Commands THEN "idle" ELSE "end"

AnyGoal(g) == g # NoGoal                             \* (mutant: status not looked at)
MayContinue(g) == g.status = "active"

FireRead(t) ==
    /\ pc[t] = "post"
    /\ \/ /\ MayContinue(goal)
          /\ GoTo(t, "publish")
          /\ UNCHANGED faults
       \/ /\ ~MayContinue(goal)
          /\ GoTo(t, Done(t))
          /\ UNCHANGED faults
       \/ /\ Fault
          /\ GoTo(t, Done(t))
    /\ UNCHANGED <<goal, bus, queue, steer, job, got, rounds, ghosts, inputs>>

FirePublish(t) ==
    /\ pc[t] = "publish"
    /\ Publish
    /\ GoTo(t, Done(t))
    /\ UNCHANGED <<goal, queue, steer, job, got, rounds, ghosts, bounds>>

-----------------------------------------------------------------------------
(***************************************************************************)
(* The turn.                                                               *)
(***************************************************************************)
BeginTurn(t) ==
    /\ pc[t] = "begin"
    /\ \/ /\ GoTo(t, "model")
          /\ rounds' = [rounds EXCEPT ![t] = 0]
          /\ UNCHANGED faults
       \/ /\ Fault                                  \* checkQuota
          /\ GoTo(t, "idle")
          /\ UNCHANGED rounds
    /\ UNCHANGED <<goal, bus, queue, steer, job, got, ghosts, inputs>>

\* allowedContinuationSources
PostTurn(t) == IF job[t] \in {"text", "goal"} THEN "post" ELSE "end"

OneRoundMore(t) ==                                   \* (mutant: off by one)
    IF rounds[t] < MaxRounds
    THEN rounds' = [rounds EXCEPT ![t] = @ + 1] /\ GoTo(t, "model")
    ELSE GoTo(t, PostTurn(t)) /\ UNCHANGED rounds
\* The next iteration, or the final synthesis when the turn has had them all.
NextRound(t) ==
    IF rounds[t] + 1 < MaxRounds
    THEN rounds' = [rounds EXCEPT ![t] = @ + 1] /\ GoTo(t, "model")
    ELSE GoTo(t, PostTurn(t)) /\ UNCHANGED rounds

\* A model call and the read of the hook after it.  A call that fails after all
\* its retries ends the turn without PostTurn.
ModelCall(t) ==
    /\ pc[t] = "model"
    /\ \/ /\ goal.status = "active" /\ spent[goal.id] < MaxSpent
          /\ spent' = [spent EXCEPT ![goal.id] = @ + 1]
          /\ got' = [got EXCEPT ![t] = goal]
          /\ GoTo(t, "fold")
          /\ UNCHANGED faults
       \/ /\ GoTo(t, "act")                          \* no usage, no active goal, a failed read
          /\ UNCHANGED <<spent, got, faults>>
       \/ /\ Fault
          /\ GoTo(t, "end")
          /\ UNCHANGED <<spent, got>>
    /\ UNCHANGED <<goal, bus, queue, steer, job, rounds, last, overlapped, inputs>>

Exhausted(g) == TokenBudget # 0 /\ g.used >= TokenBudget

\* The row with one call's usage added.
DropsLastCall(g) ==                                  \* (mutant: the budget looked at first)
    IF Exhausted([g EXCEPT !.used = @ + 1]) THEN [g EXCEPT !.status = "budget_limited"]
    ELSE [g EXCEPT !.used = @ + 1]
FoldUsage(g) ==
    LET billed == [g EXCEPT !.used = @ + 1]
    IN  IF Exhausted(billed) THEN [billed EXCEPT !.status = "budget_limited"] ELSE billed

\* The rest of the hook: the row is written, and a goal that has just run out
\* of budget gets its wrap-up prompt.  A write that fails is logged and dropped.
Fold(t) ==
    /\ pc[t] = "fold"
    /\ LET row == FoldUsage(got[t])
       IN  \/ /\ UpdateGoal(row)
              /\ IF row.status = "budget_limited" THEN Publish ELSE UNCHANGED bus
              /\ UNCHANGED faults
           \/ /\ goal.id # row.id                    \* ErrNotFound
              /\ UNCHANGED <<goal, bus, faults>>
           \/ Fault /\ UNCHANGED <<goal, bus>>
    /\ GoTo(t, "act")
    /\ Forget(t)
    /\ UNCHANGED <<queue, steer, job, rounds, ghosts, inputs>>

\* The model called another tool than update_goal, or the same call for the
\* third time: the loop detection ends the turn there and drains nothing.
ToolRound(t) ==
    /\ pc[t] = "act"
    /\ \/ steer' = 0 /\ NextRound(t)
       \/ GoTo(t, PostTurn(t)) /\ UNCHANGED <<steer, rounds>>
    /\ UNCHANGED <<goal, bus, queue, job, got, ghosts, bounds>>

\* It called update_goal, which refuses a goal that is not active.
UpdateGoalRead(t) ==
    /\ pc[t] = "act"
    /\ \/ /\ goal.status = "active"
          /\ got' = [got EXCEPT ![t] = goal]
          /\ GoTo(t, "complete")
          /\ UNCHANGED <<steer, rounds, faults>>
       \/ /\ goal.status # "active"
          /\ steer' = 0
          /\ NextRound(t)
          /\ UNCHANGED <<got, faults>>
       \/ /\ Fault
          /\ steer' = 0
          /\ NextRound(t)
          /\ UNCHANGED got
    /\ UNCHANGED <<goal, bus, queue, job, ghosts, inputs>>

UpdateGoalWrite(t) ==
    /\ pc[t] = "complete"
    /\ \/ /\ UpdateGoal([got[t] EXCEPT !.status = "complete"])
          /\ UNCHANGED faults
       \/ /\ goal.id # got[t].id
          /\ UNCHANGED <<goal, faults>>
       \/ Fault /\ UNCHANGED goal
    /\ steer' = 0
    /\ NextRound(t)
    /\ Forget(t)
    /\ UNCHANGED <<bus, queue, job, ghosts, inputs>>

\* It answered: the turn goes on if somebody has steered it meanwhile.  An empty
\* answer ends the turn without PostTurn.
Answer(t) ==
    /\ pc[t] = "act"
    /\ \/ /\ steer > 0
          /\ steer' = 0
          /\ NextRound(t)
          /\ UNCHANGED faults
       \/ /\ steer = 0
          /\ GoTo(t, PostTurn(t))
          /\ UNCHANGED <<steer, rounds, faults>>
       \/ /\ Fault
          /\ GoTo(t, "end")
          /\ UNCHANGED <<steer, rounds>>
    /\ UNCHANGED <<goal, bus, queue, job, got, ghosts, inputs>>

\* flushLeftoverSteer: what is still buffered when the last turn ends is parked
\* in the history, and starts no turn.
EndTurn(t) ==
    /\ pc[t] = "end"
    /\ GoTo(t, "idle")
    /\ steer' = IF \E u \in Threads \ {t} : InTurn(u) THEN steer ELSE 0
    /\ UNCHANGED <<goal, bus, queue, job, got, rounds, ghosts, bounds>>

Thread(t) ==
    \/ SlashCreate(t) \/ SlashRead(t) \/ SlashWrite(t)
    \/ FireRead(t) \/ FirePublish(t)
    \/ BeginTurn(t) \/ ModelCall(t) \/ Fold(t)
    \/ ToolRound(t) \/ UpdateGoalRead(t) \/ UpdateGoalWrite(t) \/ Answer(t)
    \/ EndTurn(t)

Next ==
    \/ \E k \in Kinds \ {"goal"} : UserSends(k)
    \/ \E t \in Webs, k \in Commands \cup {"text"} : WebSends(t, k)
    \/ SteerWeb
    \/ Route \/ WorkerTakes
    \/ \E t \in Threads : Thread(t)

Spec == Init /\ [][Next]_vars

\* The router, the worker and the handlers run; model calls and tools return or
\* time out.  Nobody has to send anything.
FairSpec ==
    /\ Spec
    /\ WF_vars(Route) /\ WF_vars(WorkerTakes)
    /\ \A t \in Threads : WF_vars(Thread(t))

-----------------------------------------------------------------------------
\* The type invariant.
Rows == [id : 1..MaxGoals, status : Status, used : 0..MaxSpent] \cup {NoGoal}

TypeOK ==
    /\ goal \in Rows
    /\ bus \in Seq(Kinds) /\ Len(bus) <= Capacity
    /\ queue \in Seq(Kinds)
    /\ steer \in Nat
    /\ pc \in [Threads -> ThreadPC]
    /\ job \in [Threads -> Kinds]
    /\ got \in [Threads -> Rows]
    /\ rounds \in [Threads -> 0..(MaxRounds - 1)]
    /\ last \in 0..MaxGoals
    /\ spent \in [1..MaxGoals -> 0..MaxSpent]
    /\ overlapped \in BOOLEAN
    /\ inputs \in 0..MaxInputs
    /\ faults \in 0..MaxFaults

\* A goal is never billed for more than was spent on it, whatever turns and
\* commands overlap and however often the goal was cleared and set anew.
NeverOverbilled == goal # NoGoal => goal.used <= spent[goal.id]

\* While the chat's messages are handled one at a time, and the store works, a
\* goal is billed for exactly what was spent.
Unfolded(t) == IF pc[t] = "fold" /\ got[t].id = goal.id THEN 1 ELSE 0
BilledExactly ==
    ~overlapped /\ faults = 0 /\ goal # NoGoal =>
        goal.used + Cardinality({t \in Threads : Unfolded(t) = 1}) = spent[goal.id]

\* While they are handled one at a time, a goal that is complete or out of
\* budget stays so, and a paused one is active again only after /goal resume.
StatusIsOrderly ==
    [][(~overlapped' /\ goal # NoGoal /\ goal'.id = goal.id /\ goal'.status # goal.status)
       => \/ goal.status = "active"
          \/ /\ goal.status = "paused" /\ goal'.status = "active"
             /\ \E t \in Threads : pc[t] = "flip" /\ job[t] = "resume"]_vars

\* Goal prompts under way: on the bus, in the queue, about to be published, or
\* handled by a thread whose goal is still active and so to be continued.
Prompts ==
    LET Count(s) == Cardinality({n \in DOMAIN s : s[n] = "goal"})
        Handled == {t \in Threads :
                        \/ pc[t] = "publish"
                        \/ /\ pc[t] \notin {"idle", "end"}
                           /\ job[t] = "goal" /\ goal.status = "active"}
    IN  Count(bus) + Count(queue) + Cardinality(Handled)

\* Every prompt under way goes back to a message somebody sent: a turn leaves
\* one prompt behind at most, the continuation or the wrap-up.
PromptsAreAccounted == ~overlapped => Prompts <= inputs

\* The loop ends: once a goal is not active any more its prompts run out,
\* unless somebody starts it again.
LoopEnds == (goal.status # "active") ~> (Prompts = 0 \/ goal.status = "active")

\* The loop goes on: while a goal is active a prompt is on its way.
LoopGoesOn == (goal.status = "active") ~> (Prompts > 0 \/ goal.status # "active")
=============================================================================
