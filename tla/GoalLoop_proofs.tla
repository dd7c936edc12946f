--------------------------- MODULE GoalLoop_proofs ---------------------------
(***************************************************************************)
(* Proofs about GoalLoop, for any number of web handlers beside the chat's *)
(* worker and any limits: a goal is never billed for more than was spent   *)
(* on it; and while messages are handled one at a time, it is billed for   *)
(* exactly that, its status is orderly, and its prompts do not multiply.   *)
(*                                                                         *)
(* A thread's copy of the row may be stale, but the usage it says was      *)
(* spent on the goal of its ID, and what was spent on a goal never         *)
(* shrinks.  With one thread at work, the copy is the row.                 *)
(*                                                                         *)
(* The actions are first reduced to what they do to the row, the thread's  *)
(* copy and the account (Effects); each conjunct of the invariant is then  *)
(* shown to be preserved effect by effect.                                 *)
(***************************************************************************)
EXTENDS GoalLoop, FiniteSetTheorems, TLAPS

Writing == {"flip", "fold", "complete"}

\* A thread that is about to write has a row to write, in the status it asked for.
HoldsRow ==
    \A t \in Threads :
        /\ pc[t] \in Writing => got[t] # NoGoal
        /\ pc[t] \in {"fold", "complete"} => got[t].status = "active"
        /\ pc[t] = "flip" => /\ job[t] \in {"pause", "resume", "clear"}
                             /\ got[t].status \in From(job[t])

\* A row's usage was spent on the goal of its ID.
Covered(g) == g # NoGoal => g.used <= spent[g.id]

CopiesCovered ==
    \A t \in Threads :
        /\ Covered(got[t])
        /\ pc[t] = "fold" => got[t].used + 1 <= spent[got[t].id]

\* While messages are handled one at a time, one thread is at work, and what it
\* has read is what it will overwrite.
OneAtWork ==
    ~overlapped => \A t, u \in Threads : pc[t] # "idle" /\ pc[u] # "idle" => t = u

CopyIsCurrent ==
    ~overlapped => \A t \in Threads : pc[t] \in Writing => got[t] = goal

\* Nothing was spent on a goal that is not set yet.
FutureUnspent == \A g \in 1..MaxGoals : g > last => spent[g] = 0

Balanced ==
    ~overlapped /\ faults = 0 /\ goal # NoGoal =>
        /\ \A t \in Threads : pc[t] = "fold" => goal.used + 1 = spent[goal.id]
        /\ (\A t \in Threads : pc[t] # "fold") => goal.used = spent[goal.id]

\* The ID of the row has been handed out.
Numbered == goal.id <= last

IInv ==
    /\ TypeOK
    /\ HoldsRow
    /\ Covered(goal) /\ CopiesCovered
    /\ OneAtWork /\ CopyIsCurrent
    /\ Numbered /\ FutureUnspent
    /\ Balanced

-----------------------------------------------------------------------------
\* The bounds one by one.
LEMMA Bounds ==
    /\ Capacity \in Nat \ {0} /\ MaxRounds \in Nat \ {0}
    /\ TokenBudget \in Nat /\ MaxInputs \in Nat /\ MaxGoals \in Nat
    /\ MaxSpent \in Nat /\ MaxFaults \in Nat
  BY GoalAssumption DEF GoalAssumption

USE Bounds

\* What the proofs need to know of rows, kinds and places.
LEMMA RowFacts ==
    /\ NoGoal \in Rows
    /\ \A g \in Rows : g # NoGoal => /\ g.id \in 1..MaxGoals
                                     /\ g.used \in 0..MaxSpent
                                     /\ g.status \in Status
    /\ NoGoal.id = 0 /\ NoGoal.status \notin Status
  BY DEF Rows, NoGoal, Status

LEMMA RowIsWritten ==
    \A g \in Rows : \A s \in Status :
        g # NoGoal => /\ [g EXCEPT !.status = s] \in Rows \ {NoGoal}
                      /\ [g EXCEPT !.status = s].id = g.id
                      /\ [g EXCEPT !.status = s].used = g.used
  BY DEF Rows, NoGoal

LEMMA FoldFacts ==
    \A g \in Rows :
        g # NoGoal /\ g.used + 1 <= MaxSpent
            => /\ FoldUsage(g) \in Rows \ {NoGoal}
               /\ FoldUsage(g).id = g.id
               /\ FoldUsage(g).used = g.used + 1
<1> SUFFICES ASSUME NEW g \in Rows, g # NoGoal, g.used + 1 <= MaxSpent
             PROVE  /\ FoldUsage(g) \in Rows \ {NoGoal}
                    /\ FoldUsage(g).id = g.id
                    /\ FoldUsage(g).used = g.used + 1
  OBVIOUS
<1> DEFINE billed == [g EXCEPT !.used = @ + 1]
<1>1. billed \in Rows \ {NoGoal} /\ billed.id = g.id /\ billed.used = g.used + 1
  BY DEF Rows, NoGoal
<1>2. FoldUsage(g) = billed \/ FoldUsage(g) = [billed EXCEPT !.status = "budget_limited"]
  BY DEF FoldUsage
<1> HIDE DEF billed
<1> QED BY <1>1, <1>2, RowIsWritten DEF Status

LEMMA FoldKeepsId == \A g \in Rows : FoldUsage(g).id = g.id
  BY DEF Rows, NoGoal, FoldUsage

LEMMA StatusFacts ==
    /\ "active" \in Status /\ "complete" \in Status
    /\ \A k : To(k) \in Status
    /\ \A k \in Kinds : From(k) \subseteq Status
<1>1. \A k \in Kinds : From(k) \subseteq Status
  <2> SUFFICES ASSUME NEW k \in Kinds PROVE From(k) \subseteq Status
    OBVIOUS
  <2>1. CASE k = "pause"
    BY <2>1 DEF From, Status
  <2>2. CASE k = "resume"
    BY <2>2 DEF From, Status
  <2>3. CASE k # "pause" /\ k # "resume"
    BY <2>3 DEF From
  <2> QED BY <2>1, <2>2, <2>3
<1>2. \A k : To(k) \in Status
  BY DEF Status, To
<1> QED BY <1>1, <1>2 DEF Status

\* Nothing is set and nothing was spent at the start.
LEMMA InitIInv == Init => IInv
<1> SUFFICES ASSUME Init PROVE IInv
  OBVIOUS
<1>1. TypeOK
  <2>1. "text" \in Kinds /\ "idle" \in ThreadPC
    BY DEF Kinds, ThreadPC
  <2>2. bus \in Seq(Kinds) /\ Len(bus) <= Capacity /\ queue \in Seq(Kinds)
    BY DEF Init
  <2>3. rounds \in [Threads -> 0..(MaxRounds - 1)] /\ spent \in [1..MaxGoals -> 0..MaxSpent]
    BY DEF Init
  <2>4. overlapped \in BOOLEAN /\ got \in [Threads -> Rows] /\ goal \in Rows
    BY RowFacts DEF Init
  <2> QED BY <2>1, <2>2, <2>3, <2>4 DEF Init, TypeOK
<1>2. HoldsRow /\ Covered(goal) /\ CopiesCovered /\ OneAtWork /\ CopyIsCurrent
  BY DEF Init, HoldsRow, Covered, CopiesCovered, OneAtWork, CopyIsCurrent, Writing
<1>3. Numbered /\ FutureUnspent /\ Balanced
  BY DEF Init, Numbered, FutureUnspent, Balanced, NoGoal
<1> QED BY <1>1, <1>2, <1>3 DEF IInv

-----------------------------------------------------------------------------
LEMMA GoToTyped ==
    ASSUME TypeOK, NEW t \in Threads, NEW where \in ThreadPC, GoTo(t, where)
    PROVE  pc' \in [Threads -> ThreadPC]
  BY DEF TypeOK, GoTo

LEMMA PublishTyped ==
    ASSUME TypeOK, Publish
    PROVE  bus' \in Seq(Kinds) /\ Len(bus') <= Capacity
  BY DEF TypeOK, Publish, Kinds

LEMMA NextRoundTyped ==
    ASSUME TypeOK, NEW t \in Threads, NextRound(t)
    PROVE  /\ rounds' \in [Threads -> 0..(MaxRounds - 1)]
           /\ pc' \in [Threads -> ThreadPC]
<1>1. PostTurn(t) \in ThreadPC /\ "model" \in ThreadPC
  BY DEF PostTurn, ThreadPC
<1>2. rounds' \in [Threads -> 0..(MaxRounds - 1)]
  <2>1. rounds \in [Threads -> 0..(MaxRounds - 1)]
    BY DEF TypeOK
  <2>2. rounds[t] \in 0..(MaxRounds - 1) /\ MaxRounds \in Nat /\ MaxRounds > 0
    BY <2>1, GoalAssumption DEF GoalAssumption
  <2> QED BY <2>1, <2>2 DEF NextRound
<1>3. pc' \in [Threads -> ThreadPC]
  BY <1>1, GoToTyped DEF NextRound
<1> QED BY <1>2, <1>3

\* The steps of a thread outside the turn.
LEMMA CommandTyped ==
    ASSUME IInv, NEW t \in Threads,
           SlashCreate(t) \/ SlashRead(t) \/ SlashWrite(t) \/ FireRead(t) \/ FirePublish(t)
    PROVE  TypeOK'
<1> SUFFICES ASSUME TypeOK, HoldsRow PROVE TypeOK'
  BY DEF IInv
<1>1. CASE SlashCreate(t)
  <2>1. goal' \in Rows /\ last' \in 0..MaxGoals
    <3>1. UNCHANGED <<goal, last>> \/ (last < MaxGoals /\ goal' = ActiveGoal /\ last' = last + 1)
      BY <1>1 DEF SlashCreate
    <3>2. goal \in Rows /\ last \in 0..MaxGoals
      BY DEF TypeOK
    <3>3. ASSUME last < MaxGoals PROVE ActiveGoal \in Rows /\ last + 1 \in 0..MaxGoals
      BY <3>2, <3>3, GoalAssumption DEF GoalAssumption, ActiveGoal, Rows, Status
    <3> QED BY <3>1, <3>2, <3>3
  <2>2. pc' \in [Threads -> ThreadPC]
    <3>1. {"post", "idle"} \subseteq ThreadPC
      BY DEF ThreadPC
    <3>2. PICK w \in {"post", "idle"} : GoTo(t, w)
      BY <1>1 DEF SlashCreate
    <3> QED BY <3>1, <3>2, GoToTyped
  <2>3. faults' \in 0..MaxFaults
    <3>1. faults' = faults \/ Fault
      BY <1>1 DEF SlashCreate
    <3> QED BY <3>1 DEF TypeOK, Fault
  <2>4. UNCHANGED <<bus, queue, steer, job, got, rounds, spent, overlapped, inputs>>
    BY <1>1 DEF SlashCreate
  <2> QED BY <2>1, <2>2, <2>3, <2>4 DEF TypeOK
<1>2. CASE SlashRead(t)
  <2>1. pc' \in [Threads -> ThreadPC]
    <3>1. {"flip", "idle"} \subseteq ThreadPC
      BY DEF ThreadPC
    <3>2. PICK w \in {"flip", "idle"} : GoTo(t, w)
      BY <1>2 DEF SlashRead
    <3> QED BY <3>1, <3>2, GoToTyped
  <2>2. got' \in [Threads -> Rows]
    BY <1>2 DEF TypeOK, SlashRead
  <2>3. faults' \in 0..MaxFaults
    BY <1>2 DEF TypeOK, SlashRead, Fault
  <2> QED BY <1>2, <2>1, <2>2, <2>3 DEF TypeOK, SlashRead, ghosts
<1>3. CASE SlashWrite(t)
  <2>1. goal' \in Rows
    <3>1. goal \in Rows /\ NoGoal \in Rows
      BY RowFacts DEF TypeOK
    <3>2. CASE goal' = NoGoal \/ goal' = goal
      BY <3>1, <3>2
    <3>3. CASE job[t] # "clear" /\ UpdateGoal([got[t] EXCEPT !.status = To(job[t])])
      <4>1. got[t] \in Rows /\ got[t] # NoGoal /\ To(job[t]) \in Status
        BY <1>3, <3>3, RowFacts, StatusFacts DEF TypeOK, HoldsRow, Writing, SlashWrite
      <4>2. [got[t] EXCEPT !.status = To(job[t])] \in Rows
        BY <4>1, RowIsWritten
      <4> QED BY <3>1, <3>3, <4>2 DEF UpdateGoal
    <3> QED BY <1>3, <3>2, <3>3 DEF SlashWrite
  <2>2. pc' \in [Threads -> ThreadPC]
    <3>1. {"idle", "post"} \subseteq ThreadPC
      BY DEF ThreadPC
    <3>2. PICK w \in {"idle", "post"} : GoTo(t, w)
      <4> HIDE DEF IInv
      <4>1. \/ GoTo(t, "idle")
            \/ GoTo(t, IF job[t] = "resume" THEN "post" ELSE "idle")
        BY <1>3 DEF SlashWrite
      <4> QED BY <4>1
    <3> QED BY <3>1, <3>2, GoToTyped
  <2>3. got' \in [Threads -> Rows]
    BY <1>3, RowFacts DEF TypeOK, SlashWrite, Forget
  <2>4. faults' \in 0..MaxFaults
    <3>1. faults' = faults \/ Fault
      BY <1>3 DEF SlashWrite
    <3> QED BY <3>1 DEF TypeOK, Fault
  <2>5. UNCHANGED <<bus, queue, steer, job, rounds, ghosts, inputs>>
    BY <1>3 DEF SlashWrite
  <2> QED BY <2>1, <2>2, <2>3, <2>4, <2>5, TypeOK DEF TypeOK, ghosts
<1>4. CASE FireRead(t)
  <2>1. pc' \in [Threads -> ThreadPC]
    <3>1. "publish" \in ThreadPC /\ Done(t) \in ThreadPC
      BY DEF Done, ThreadPC
    <3>2. GoTo(t, "publish") \/ GoTo(t, Done(t))
      BY <1>4 DEF FireRead
    <3> QED BY <3>1, <3>2, GoToTyped
  <2>2. faults' \in 0..MaxFaults
    <3>1. faults' = faults \/ Fault
      BY <1>4 DEF FireRead
    <3> QED BY <3>1 DEF TypeOK, Fault
  <2>3. UNCHANGED <<goal, bus, queue, steer, job, got, rounds, ghosts, inputs>>
    BY <1>4 DEF FireRead
  <2> QED BY <2>1, <2>2, <2>3 DEF TypeOK, ghosts
<1>5. CASE FirePublish(t)
  <2>1. pc' \in [Threads -> ThreadPC]
    BY <1>5 DEF TypeOK, FirePublish, GoTo, Done, ThreadPC
  <2>2. bus' \in Seq(Kinds) /\ Len(bus') <= Capacity
    BY <1>5, PublishTyped DEF FirePublish
  <2>3. UNCHANGED <<goal, queue, steer, job, got, rounds, ghosts, bounds>>
    BY <1>5 DEF FirePublish
  <2> QED BY <2>1, <2>2, <2>3 DEF TypeOK, ghosts, bounds
<1> QED BY <1>1, <1>2, <1>3, <1>4, <1>5

\* The steps of a turn.
LEMMA TurnTyped ==
    ASSUME IInv, NEW t \in Threads,
           \/ BeginTurn(t) \/ ModelCall(t) \/ Fold(t) \/ ToolRound(t)
           \/ UpdateGoalRead(t) \/ UpdateGoalWrite(t) \/ Answer(t) \/ EndTurn(t)
    PROVE  TypeOK'
<1> SUFFICES ASSUME TypeOK, HoldsRow, CopiesCovered PROVE TypeOK'
  BY DEF IInv
<1>p. PostTurn(t) \in ThreadPC
  BY DEF PostTurn, ThreadPC
<1>1. CASE BeginTurn(t)
  <2>1. pc' \in [Threads -> ThreadPC]
    <3>1. "model" \in ThreadPC /\ "idle" \in ThreadPC
      BY DEF ThreadPC
    <3>2. GoTo(t, "model") \/ GoTo(t, "idle")
      BY <1>1 DEF BeginTurn
    <3> QED BY <3>1, <3>2, GoToTyped
  <2>2. rounds' \in [Threads -> 0..(MaxRounds - 1)] /\ faults' \in 0..MaxFaults
    <3>1. 0 \in 0..(MaxRounds - 1)
      BY GoalAssumption DEF GoalAssumption
    <3>2. rounds' = rounds \/ rounds' = [rounds EXCEPT ![t] = 0]
      BY <1>1 DEF BeginTurn
    <3>3. rounds' \in [Threads -> 0..(MaxRounds - 1)]
      BY <3>1, <3>2 DEF TypeOK
    <3>4. faults' \in 0..MaxFaults
      BY <1>1 DEF TypeOK, BeginTurn, Fault
    <3> QED BY <3>3, <3>4
  <2>3. UNCHANGED <<goal, bus, queue, steer, job, got, ghosts, inputs>>
    BY <1>1 DEF BeginTurn
  <2> QED BY <2>1, <2>2, <2>3 DEF TypeOK, ghosts
<1>2. CASE ModelCall(t)
  <2>1. pc' \in [Threads -> ThreadPC]
    BY <1>2 DEF TypeOK, ModelCall, GoTo, ThreadPC
  <2>2. got' \in [Threads -> Rows]
    BY <1>2 DEF TypeOK, ModelCall
  <2>3. spent' \in [1..MaxGoals -> 0..MaxSpent]
    <3>1. CASE UNCHANGED spent
      BY <3>1 DEF TypeOK
    <3>2. CASE /\ goal.status = "active" /\ spent[goal.id] < MaxSpent
               /\ spent' = [spent EXCEPT ![goal.id] = @ + 1]
      <4>1. goal.id \in 1..MaxGoals /\ spent[goal.id] \in 0..MaxSpent
        BY <3>2, RowFacts, StatusFacts DEF TypeOK
      <4>2. spent \in [1..MaxGoals -> 0..MaxSpent] /\ MaxSpent \in Nat
        BY GoalAssumption DEF GoalAssumption, TypeOK
      <4>3. spent[goal.id] + 1 \in 0..MaxSpent
        BY <3>2, <4>1, <4>2
      <4> QED BY <3>2, <4>1, <4>2, <4>3
    <3> QED BY <1>2, <3>1, <3>2 DEF ModelCall
  <2>4. faults' \in 0..MaxFaults
    BY <1>2 DEF TypeOK, ModelCall, Fault
  <2> QED BY <1>2, <2>1, <2>2, <2>3, <2>4 DEF TypeOK, ModelCall
<1>3. CASE Fold(t)
  <2>1. got[t] \in Rows /\ got[t] # NoGoal /\ got[t].used + 1 <= MaxSpent
    <3>1. got[t] \in Rows /\ got[t] # NoGoal /\ got[t].id \in 1..MaxGoals
      BY <1>3, RowFacts DEF TypeOK, HoldsRow, Writing, Fold
    <3>2. spent[got[t].id] \in 0..MaxSpent /\ got[t].used \in 0..MaxSpent
      BY <3>1, RowFacts DEF TypeOK
    <3> QED BY <1>3, <3>1, <3>2 DEF CopiesCovered, Fold
  <2>2. goal' \in Rows
    BY <1>3, <2>1, FoldFacts DEF TypeOK, Fold, UpdateGoal
  <2>3. bus' \in Seq(Kinds) /\ Len(bus') <= Capacity
    <3>1. Publish \/ UNCHANGED bus
      BY <1>3 DEF Fold
    <3> QED BY <3>1, PublishTyped DEF TypeOK
  <2>4. pc' \in [Threads -> ThreadPC] /\ got' \in [Threads -> Rows]
    BY <1>3, RowFacts DEF TypeOK, Fold, GoTo, Forget, ThreadPC
  <2>5. faults' \in 0..MaxFaults
    BY <1>3 DEF TypeOK, Fold, Fault
  <2> QED BY <1>3, <2>2, <2>3, <2>4, <2>5 DEF TypeOK, Fold, ghosts
<1>4. CASE ToolRound(t)
  <2>1. pc' \in [Threads -> ThreadPC] /\ rounds' \in [Threads -> 0..(MaxRounds - 1)]
    BY <1>4, <1>p, GoToTyped, NextRoundTyped DEF ToolRound, TypeOK
  <2>2. steer' \in Nat
    BY <1>4 DEF TypeOK, ToolRound
  <2> QED BY <1>4, <2>1, <2>2 DEF TypeOK, ToolRound, ghosts, bounds
<1>5. CASE UpdateGoalRead(t)
  <2>1. pc' \in [Threads -> ThreadPC] /\ rounds' \in [Threads -> 0..(MaxRounds - 1)]
    <3>1. "complete" \in ThreadPC
      BY DEF ThreadPC
    <3> QED BY <1>5, <3>1, GoToTyped, NextRoundTyped DEF UpdateGoalRead, TypeOK
  <2>2. got' \in [Threads -> Rows]
    BY <1>5 DEF TypeOK, UpdateGoalRead
  <2>3. steer' \in Nat /\ faults' \in 0..MaxFaults
    BY <1>5 DEF TypeOK, UpdateGoalRead, Fault
  <2> QED BY <1>5, <2>1, <2>2, <2>3 DEF TypeOK, UpdateGoalRead, ghosts
<1>6. CASE UpdateGoalWrite(t)
  <2>1. pc' \in [Threads -> ThreadPC] /\ rounds' \in [Threads -> 0..(MaxRounds - 1)]
    BY <1>6, NextRoundTyped DEF UpdateGoalWrite
  <2>2. goal' \in Rows
    BY <1>6, RowIsWritten, StatusFacts DEF TypeOK, HoldsRow, Writing, UpdateGoalWrite, UpdateGoal
  <2>3. got' \in [Threads -> Rows]
    BY <1>6, RowFacts DEF TypeOK, UpdateGoalWrite, Forget
  <2>4. steer' \in Nat /\ faults' \in 0..MaxFaults
    <3>1. steer' = 0 /\ (faults' = faults \/ Fault)
      BY <1>6 DEF UpdateGoalWrite, UpdateGoal
    <3>2. faults' \in 0..MaxFaults
      BY <3>1 DEF TypeOK, Fault
    <3> QED BY <3>1, <3>2
  <2>5. UNCHANGED <<bus, queue, job, ghosts, inputs>>
    BY <1>6 DEF UpdateGoalWrite
  <2> QED BY <2>1, <2>2, <2>3, <2>4, <2>5 DEF TypeOK, ghosts
<1>7. CASE Answer(t)
  <2>1. pc' \in [Threads -> ThreadPC] /\ rounds' \in [Threads -> 0..(MaxRounds - 1)]
    <3>1. "end" \in ThreadPC
      BY DEF ThreadPC
    <3> QED BY <1>7, <1>p, <3>1, GoToTyped, NextRoundTyped DEF Answer, TypeOK
  <2>2. steer' \in Nat /\ faults' \in 0..MaxFaults
    BY <1>7 DEF TypeOK, Answer, Fault
  <2> QED BY <1>7, <2>1, <2>2 DEF TypeOK, Answer, ghosts
<1>8. CASE EndTurn(t)
  <2>1. pc' \in [Threads -> ThreadPC]
    BY <1>8 DEF TypeOK, EndTurn, GoTo, ThreadPC
  <2> QED BY <1>8, <2>1 DEF TypeOK, EndTurn, ghosts, bounds
<1> QED BY <1>1, <1>2, <1>3, <1>4, <1>5, <1>6, <1>7, <1>8

\* Messages that come in.
Input ==
    \/ \E k \in Kinds \ {"goal"} : UserSends(k)
    \/ \E t \in Webs, k \in Commands \cup {"text"} : WebSends(t, k)
    \/ SteerWeb \/ Route \/ WorkerTakes

LEMMA NextCases == Next => Input \/ \E t \in Threads : Thread(t)
  BY DEF Next, Input

LEMMA InputTyped ==
    ASSUME IInv, Input
    PROVE  TypeOK'
<1> USE DEF IInv, Input
<1>1. ASSUME NEW k \in Kinds \ {"goal"}, UserSends(k) PROVE TypeOK'
  BY <1>1 DEF TypeOK, UserSends, Sent, threadVars, ghosts
<1>2. ASSUME NEW t \in Threads, NEW k \in Kinds, Start(t, k)
      PROVE  /\ pc' \in [Threads -> ThreadPC]
             /\ job' \in [Threads -> Kinds]
             /\ overlapped' \in BOOLEAN
  <2>1. pc' \in [Threads -> ThreadPC]
    BY <1>2 DEF TypeOK, Start, GoTo, ThreadPC
  <2>2. job' \in [Threads -> Kinds]
    BY <1>2 DEF TypeOK, Start
  <2>3. overlapped' \in BOOLEAN
    BY <1>2 DEF TypeOK, Start
  <2> QED BY <2>1, <2>2, <2>3
<1>3. ASSUME NEW t \in Webs, NEW k \in Commands \cup {"text"}, WebSends(t, k) PROVE TypeOK'
  <2>1. t \in Threads /\ k \in Kinds
    BY DEF Threads, Kinds
  <2>2. inputs' \in 0..MaxInputs
    BY <1>3 DEF TypeOK, WebSends, Sent
  <2> QED BY <1>2, <1>3, <2>1, <2>2 DEF TypeOK, WebSends
<1>4. CASE SteerWeb
  BY <1>4 DEF TypeOK, SteerWeb, Sent, threadVars, ghosts
<1>5. CASE Route
  <2>1. Head(bus) \in Kinds /\ Tail(bus) \in Seq(Kinds) /\ Len(Tail(bus)) <= Capacity
    BY <1>5 DEF TypeOK, Route
  <2>2. bus' \in Seq(Kinds) /\ Len(bus') <= Capacity /\ queue' \in Seq(Kinds) /\ steer' \in Nat
    <3>1. CASE TurnActive
      BY <1>5, <2>1, <3>1 DEF TypeOK, Route
    <3>2. CASE ~TurnActive
      <4>1. queue' = Append(queue, Head(bus)) /\ bus' = Tail(bus) /\ UNCHANGED steer
        BY <1>5, <3>2 DEF Route
      <4> QED BY <2>1, <4>1 DEF TypeOK
    <3> QED BY <3>1, <3>2
  <2> QED BY <1>5, <2>2 DEF TypeOK, Route, threadVars, ghosts, bounds
<1>6. CASE WorkerTakes
  <2>1. Worker \in Threads /\ Head(queue) \in Kinds /\ Tail(queue) \in Seq(Kinds)
    BY <1>6 DEF TypeOK, WorkerTakes, Threads
  <2> QED BY <1>2, <1>6, <2>1 DEF TypeOK, WorkerTakes, bounds
<1> QED BY <1>1, <1>3, <1>4, <1>5, <1>6

LEMMA TypedStep == IInv /\ [Next]_vars => TypeOK'
<1> SUFFICES ASSUME IInv, [Next]_vars PROVE TypeOK'
  OBVIOUS
<1>1. CASE UNCHANGED vars
  BY <1>1 DEF IInv, TypeOK, vars, threadVars, ghosts, bounds
<1>2. CASE Next
  BY <1>2, NextCases, CommandTyped, TurnTyped, InputTyped DEF Thread
<1> QED BY <1>1, <1>2

-----------------------------------------------------------------------------
\* What a step leaves alone: a thread moves only itself.
LEMMA NextRoundFrame ==
    ASSUME TypeOK, NEW t \in Threads, NextRound(t)
    PROVE  /\ \A u \in Threads \ {t} : pc'[u] = pc[u]
           /\ pc'[t] \in {"model", "post", "end"}
  BY DEF TypeOK, NextRound, GoTo, PostTurn

LEMMA ThreadFrame ==
    ASSUME TypeOK, NEW t \in Threads, Thread(t)
    PROVE  /\ UNCHANGED <<job, overlapped, inputs>>
           /\ pc[t] # "idle"
           /\ \A u \in Threads \ {t} : pc'[u] = pc[u] /\ got'[u] = got[u]
<1>1. CASE SlashCreate(t) \/ SlashRead(t) \/ SlashWrite(t)
  BY <1>1 DEF TypeOK, SlashCreate, SlashRead, SlashWrite, GoTo, Forget, ghosts
<1>2. CASE FireRead(t) \/ FirePublish(t) \/ BeginTurn(t) \/ EndTurn(t)
  BY <1>2 DEF TypeOK, FireRead, FirePublish, BeginTurn, EndTurn, GoTo, ghosts, bounds
<1>3. CASE ModelCall(t) \/ Fold(t)
  BY <1>3 DEF TypeOK, ModelCall, Fold, GoTo, Forget, ghosts
<1>4. CASE ToolRound(t) \/ Answer(t)
  BY <1>4, NextRoundFrame DEF TypeOK, ToolRound, Answer, GoTo, ghosts, bounds
<1>5. CASE UpdateGoalRead(t)
  BY <1>5, NextRoundFrame DEF TypeOK, UpdateGoalRead, GoTo, ghosts
<1>6. CASE UpdateGoalWrite(t)
  BY <1>6, NextRoundFrame DEF TypeOK, UpdateGoalWrite, Forget, ghosts
<1> QED BY <1>1, <1>2, <1>3, <1>4, <1>5, <1>6 DEF Thread

\* A message comes in: a thread that was idle may begin with it.
Outside ==
    /\ UNCHANGED <<goal, got, last, spent, faults>>
    /\ overlapped => overlapped'
    /\ \A u \in Threads :
           \/ pc'[u] = pc[u] /\ job'[u] = job[u]
           \/ /\ pc[u] = "idle" /\ pc'[u] \in {"slash", "begin"}
              /\ overlapped' = (overlapped \/ \E v \in Threads \ {u} : pc[v] # "idle")
              /\ \A v \in Threads \ {u} : pc'[v] = pc[v] /\ job'[v] = job[v]

LEMMA InputFrame ==
    ASSUME TypeOK, Input
    PROVE  Outside
<1> USE DEF Outside
<1>1. ASSUME NEW k \in Kinds \ {"goal"}, UserSends(k)
      PROVE  UNCHANGED <<goal, got, last, spent, faults, pc, job, overlapped>>
  BY <1>1 DEF UserSends, threadVars, ghosts
<1>2. CASE SteerWeb \/ Route
  BY <1>2 DEF SteerWeb, Route, threadVars, ghosts, bounds
<1>3. ASSUME NEW t \in Threads, NEW k, Start(t, k)
      PROVE  /\ pc[t] = "idle" /\ pc'[t] \in {"slash", "begin"}
             /\ overlapped' = (overlapped \/ \E v \in Threads \ {t} : pc[v] # "idle")
             /\ \A v \in Threads \ {t} : pc'[v] = pc[v] /\ job'[v] = job[v]
  BY <1>3 DEF TypeOK, Start, GoTo
<1>4. ASSUME NEW t \in Webs, NEW k \in Commands \cup {"text"}, WebSends(t, k)
      PROVE  /\ UNCHANGED <<goal, got, last, spent, faults>>
             /\ t \in Threads /\ Start(t, k)
  BY <1>4 DEF WebSends, Threads
<1>5. CASE WorkerTakes
  <2>1. UNCHANGED <<goal, got, last, spent, faults>> /\ Worker \in Threads
        /\ Start(Worker, Head(queue))
    BY <1>5 DEF WorkerTakes, Threads, bounds
  <2> QED BY <1>3, <2>1
<1> QED BY <1>1, <1>2, <1>3, <1>4, <1>5 DEF Input

-----------------------------------------------------------------------------
\* What a thread's step does to the row, its own copy and the account.
Quiet(t) ==
    /\ UNCHANGED <<goal, last, spent>>
    /\ pc'[t] \notin Writing
    /\ got'[t] \in {got[t], NoGoal}
    /\ pc[t] = "fold" => goal.id # got[t].id \/ faults' # 0

Creates(t) ==
    /\ goal = NoGoal /\ last < MaxGoals
    /\ goal' = ActiveGoal /\ last' = last + 1
    /\ UNCHANGED <<spent, got>>
    /\ pc[t] = "slash" /\ pc'[t] = "post"

Clears(t) ==
    /\ goal' = NoGoal /\ got'[t] = NoGoal
    /\ UNCHANGED <<last, spent>>
    /\ pc'[t] = "idle"

Copies(t) ==
    /\ UNCHANGED <<goal, last, spent>>
    /\ goal # NoGoal /\ got'[t] = goal
    /\ pc[t] \notin Writing
    /\ \/ pc'[t] = "complete" /\ goal.status = "active"
       \/ /\ pc'[t] = "flip" /\ job[t] \in {"pause", "resume", "clear"}
          /\ goal.status \in From(job[t])

Bills(t) ==
    /\ UNCHANGED <<goal, last>>
    /\ goal.status = "active" /\ got'[t] = goal
    /\ spent' = [spent EXCEPT ![goal.id] = @ + 1]
    /\ pc[t] = "model" /\ pc'[t] = "fold"

Flips(t) ==
    /\ goal.id = got[t].id /\ got'[t] = NoGoal
    /\ UNCHANGED <<last, spent>>
    /\ pc'[t] \notin Writing
    /\ \/ pc[t] = "complete" /\ goal' = [got[t] EXCEPT !.status = "complete"]
       \/ /\ pc[t] = "flip" /\ job[t] # "clear"
          /\ goal' = [got[t] EXCEPT !.status = To(job[t])]

Folds(t) ==
    /\ goal.id = got[t].id /\ got'[t] = NoGoal
    /\ goal' = FoldUsage(got[t])
    /\ UNCHANGED <<last, spent>>
    /\ pc[t] = "fold" /\ pc'[t] = "act"

LEMMA Effects ==
    ASSUME TypeOK, NEW t \in Threads, Thread(t)
    PROVE  /\ faults' = 0 => faults = 0
           /\ \/ Quiet(t) \/ Creates(t) \/ Clears(t) \/ Copies(t)
              \/ Bills(t) \/ Flips(t) \/ Folds(t)
<1> DEFINE Effect == \/ Quiet(t) \/ Creates(t) \/ Clears(t) \/ Copies(t)
                     \/ Bills(t) \/ Flips(t) \/ Folds(t)
<1>1. faults' = 0 => faults = 0
  <2>1. faults' = faults \/ Fault
    <3>1. CASE SlashCreate(t) \/ SlashRead(t) \/ SlashWrite(t) \/ FireRead(t) \/ FirePublish(t)
      BY <3>1 DEF SlashCreate, SlashRead, SlashWrite, FireRead, FirePublish, bounds
    <3>2. CASE BeginTurn(t) \/ ModelCall(t) \/ Fold(t) \/ ToolRound(t)
      BY <3>2 DEF BeginTurn, ModelCall, Fold, ToolRound, bounds
    <3>3. CASE UpdateGoalRead(t) \/ UpdateGoalWrite(t) \/ Answer(t) \/ EndTurn(t)
      BY <3>3 DEF UpdateGoalRead, UpdateGoalWrite, Answer, EndTurn, bounds
    <3> QED BY <3>1, <3>2, <3>3 DEF Thread
  <2> QED BY <2>1 DEF TypeOK, Fault
<1> SUFFICES Effect
  BY <1>1
<1>2. CASE SlashCreate(t)
  BY <1>2 DEF TypeOK, SlashCreate, GoTo, Quiet, Creates, Writing
<1>3. CASE SlashRead(t)
  <2>1. CASE pc'[t] = "flip"
    BY <1>3, <2>1, RowFacts, StatusFacts
    DEF TypeOK, SlashRead, GoTo, Copies, Writing, ghosts, Kinds, Commands
  <2>2. CASE pc'[t] # "flip"
    BY <1>3, <2>2 DEF TypeOK, SlashRead, GoTo, Quiet, Writing, ghosts
  <2> QED BY <2>1, <2>2
<1>4. CASE SlashWrite(t)
  BY <1>4 DEF TypeOK, SlashWrite, GoTo, Forget, UpdateGoal, Quiet, Clears, Flips, Writing, ghosts
<1>5. CASE FireRead(t) \/ FirePublish(t) \/ BeginTurn(t) \/ EndTurn(t)
  <2>1. CASE FireRead(t)
    BY <2>1 DEF TypeOK, FireRead, GoTo, Done, Quiet, Writing, ghosts
  <2>2. CASE FirePublish(t)
    BY <2>2 DEF TypeOK, FirePublish, GoTo, Done, Quiet, Writing, ghosts
  <2>3. CASE BeginTurn(t)
    BY <2>3 DEF TypeOK, BeginTurn, GoTo, Quiet, Writing, ghosts
  <2>4. CASE EndTurn(t)
    BY <2>4 DEF TypeOK, EndTurn, GoTo, Quiet, Writing, ghosts
  <2> QED BY <1>5, <2>1, <2>2, <2>3, <2>4
<1>6. CASE ModelCall(t)
  BY <1>6 DEF TypeOK, ModelCall, GoTo, Quiet, Bills, Writing
<1>7. CASE Fold(t)
  <2>1. FoldUsage(got[t]).id = got[t].id
    BY FoldKeepsId DEF TypeOK
  <2>2. /\ UNCHANGED <<last, spent>>
        /\ pc[t] = "fold" /\ pc'[t] = "act" /\ got'[t] = NoGoal
    BY <1>7 DEF TypeOK, Fold, GoTo, Forget, ghosts
  <2>3. \/ goal.id = got[t].id /\ goal' = FoldUsage(got[t])
        \/ goal.id # got[t].id /\ UNCHANGED goal
        \/ faults' # 0 /\ UNCHANGED goal
    BY <1>7, <2>1 DEF TypeOK, Fold, UpdateGoal, Fault
  <2> QED BY <2>2, <2>3 DEF Quiet, Folds, Writing
<1>8. CASE ToolRound(t) \/ Answer(t)
  BY <1>8, NextRoundFrame
  DEF TypeOK, ToolRound, Answer, GoTo, PostTurn, Quiet, Writing, ghosts, bounds
<1>9. CASE UpdateGoalRead(t)
  BY <1>9, NextRoundFrame, RowFacts, StatusFacts
  DEF TypeOK, UpdateGoalRead, GoTo, Quiet, Copies, Writing, ghosts
<1>10. CASE UpdateGoalWrite(t)
  <2>1. /\ UNCHANGED <<last, spent>>
        /\ pc[t] = "complete" /\ pc'[t] \notin Writing /\ got'[t] = NoGoal
    BY <1>10, NextRoundFrame DEF TypeOK, UpdateGoalWrite, Forget, Writing, ghosts
  <2>2. \/ goal.id = got[t].id /\ goal' = [got[t] EXCEPT !.status = "complete"]
        \/ UNCHANGED goal
    BY <1>10 DEF UpdateGoalWrite, UpdateGoal
  <2> QED BY <2>1, <2>2 DEF Quiet, Flips
<1> QED BY <1>1, <1>2, <1>3, <1>4, <1>5, <1>6, <1>7, <1>8, <1>9, <1>10 DEF Thread

-----------------------------------------------------------------------------
\* Every conjunct of the invariant is preserved.
LEMMA StepCases ==
    ASSUME IInv, [Next]_vars
    PROVE  Outside \/ \E t \in Threads : Thread(t)
<1>1. CASE UNCHANGED vars
  BY <1>1 DEF Outside, vars, threadVars, ghosts, bounds
<1>2. CASE Next
  BY <1>2, NextCases, InputFrame DEF IInv
<1> QED BY <1>1, <1>2

LEMMA FlipFacts ==
    ASSUME IInv, NEW t \in Threads, Flips(t)
    PROVE  goal'.id = got[t].id /\ goal'.used = got[t].used
<1>1. PICK s \in Status : goal' = [got[t] EXCEPT !.status = s]
  BY StatusFacts DEF Flips
<1>2. got[t] \in Rows /\ got[t] # NoGoal
  BY DEF IInv, TypeOK, HoldsRow, Flips, Writing
<1> QED BY <1>1, <1>2, RowIsWritten

LEMMA HoldsRowStep == IInv /\ [Next]_vars => HoldsRow'
<1> SUFFICES ASSUME IInv, [Next]_vars PROVE HoldsRow'
  OBVIOUS
<1>1. CASE Outside
  BY <1>1 DEF IInv, HoldsRow, Outside, Writing
<1>2. ASSUME NEW t \in Threads, Thread(t) PROVE HoldsRow'
  <2>1. \/ pc'[t] \notin Writing \/ Copies(t) \/ Bills(t)
    BY <1>2, Effects DEF IInv, Quiet, Creates, Clears, Flips, Folds, Writing
  <2>2. Bills(t) => goal # NoGoal
    BY RowFacts, StatusFacts DEF Bills
  <2> QED BY <1>2, <2>1, <2>2, ThreadFrame DEF IInv, HoldsRow, Copies, Bills, Writing
<1> QED BY <1>1, <1>2, StepCases

LEMMA SpentGrows ==
    ASSUME IInv, [Next]_vars
    PROVE  \A g \in 1..MaxGoals : spent[g] \in Nat /\ spent'[g] \in Nat /\ spent[g] <= spent'[g]
<1>1. \A g \in 1..MaxGoals : spent[g] \in Nat /\ spent'[g] \in Nat
  BY TypedStep DEF IInv, TypeOK
<1>2. UNCHANGED spent \/ \E t \in Threads : Bills(t)
  BY StepCases, Effects
  DEF IInv, Outside, Quiet, Creates, Clears, Copies, Flips, Folds
<1>3. ASSUME NEW t \in Threads, Bills(t), NEW g \in 1..MaxGoals PROVE spent[g] <= spent'[g]
  BY <1>1, <1>3 DEF IInv, TypeOK, Bills
<1>4. ASSUME UNCHANGED spent, NEW g \in 1..MaxGoals PROVE spent[g] <= spent'[g]
  BY <1>1, <1>4
<1> QED BY <1>1, <1>2, <1>3, <1>4

LEMMA CoveredStep ==
    IInv /\ [Next]_vars =>
        \A g \in Rows : Covered(g) /\ g # NoGoal => g.used <= spent'[g.id]
  BY SpentGrows, RowFacts DEF Covered

LEMMA CopiesCoveredStep == IInv /\ [Next]_vars => Covered(goal)' /\ CopiesCovered'
<1> SUFFICES ASSUME IInv, [Next]_vars PROVE Covered(goal)' /\ CopiesCovered'
  OBVIOUS
<1>0. /\ goal \in Rows /\ (goal # NoGoal => goal.used <= spent'[goal.id])
      /\ \A u \in Threads : /\ got[u] \in Rows
                            /\ got[u] # NoGoal => got[u].used <= spent'[got[u].id]
  BY CoveredStep DEF IInv, TypeOK, CopiesCovered
<1>f. \A u \in Threads :
          pc[u] = "fold" => /\ got[u] # NoGoal
                            /\ got[u].used + 1 <= spent[got[u].id]
                            /\ got[u].used + 1 <= spent'[got[u].id]
  BY SpentGrows, RowFacts, <1>0 DEF IInv, HoldsRow, CopiesCovered, Writing
<1>1. CASE Outside
  BY <1>0, <1>1, <1>f DEF Outside, Covered, CopiesCovered
<1>2. ASSUME NEW t \in Threads, Thread(t) PROVE Covered(goal)' /\ CopiesCovered'
  <2>1. \A u \in Threads \ {t} : Covered(got[u])' /\ (pc'[u] = "fold" =>
                                                        got'[u].used + 1 <= spent'[got'[u].id])
    BY <1>0, <1>2, <1>f, ThreadFrame DEF IInv, Covered
  <2>2. CASE Bills(t)
    <3>1. goal # NoGoal /\ goal.id \in 1..MaxGoals /\ goal.used \in Nat
      BY <1>0, <2>2, RowFacts, StatusFacts DEF Bills
    <3>2. goal.used + 1 <= spent'[goal.id]
      <4>1. spent'[goal.id] = spent[goal.id] + 1 /\ spent[goal.id] \in 0..MaxSpent
        BY <2>2, <3>1 DEF IInv, TypeOK, Bills
      <4> QED BY <3>1, <4>1 DEF IInv, Covered
    <3> QED BY <1>0, <2>1, <2>2, <3>2 DEF Bills, Covered, CopiesCovered
  <2>3. CASE Quiet(t) \/ Clears(t) \/ Copies(t)
    BY <1>0, <2>1, <2>3 DEF Quiet, Clears, Copies, Covered, CopiesCovered, Writing
  <2>4. CASE Creates(t)
    <3>1. ActiveGoal.used = 0 /\ ActiveGoal.id \in 1..MaxGoals
      BY <2>4 DEF Creates, ActiveGoal, IInv, TypeOK
    <3>2. Covered(goal)'
      BY <2>4, <3>1, SpentGrows DEF Creates, Covered
    <3>3. Covered(got[t])' /\ pc'[t] # "fold"
      BY <1>0, <2>4 DEF Creates, Covered
    <3> QED BY <2>1, <3>2, <3>3 DEF CopiesCovered
  <2>5. CASE Flips(t)
    <3>1. got[t] # NoGoal
      BY <2>5 DEF IInv, HoldsRow, Flips, Writing
    <3>2. goal'.id = got[t].id /\ goal'.used = got[t].used
      BY <2>5, FlipFacts
    <3>3. Covered(goal)'
      <4>1. got[t].used <= spent'[got[t].id]
        BY <1>0, <3>1
      <4> QED BY <3>2, <4>1 DEF Covered
    <3>4. Covered(got[t])' /\ pc'[t] # "fold"
      BY <2>5 DEF Flips, Covered, Writing
    <3> QED BY <2>1, <3>3, <3>4 DEF CopiesCovered
  <2>6. CASE Folds(t)
    <3>1. got[t] # NoGoal /\ got[t].used + 1 <= MaxSpent
      <4>1. got[t] # NoGoal /\ got[t].id \in 1..MaxGoals /\ got[t].used \in Nat
        BY <1>0, <1>f, <2>6, RowFacts DEF Folds
      <4>2. spent[got[t].id] \in 0..MaxSpent
        BY <4>1 DEF IInv, TypeOK
      <4> QED BY <1>f, <2>6, <4>1, <4>2 DEF Folds
    <3>2. goal'.id = got[t].id /\ goal'.used = got[t].used + 1
      BY <1>0, <2>6, <3>1, FoldFacts DEF Folds
    <3> QED BY <1>0, <1>f, <2>1, <2>6, <3>1, <3>2 DEF Folds, Covered, CopiesCovered
  <2> QED BY <1>2, <2>2, <2>3, <2>4, <2>5, <2>6, Effects DEF IInv
<1> QED BY <1>1, <1>2, StepCases

LEMMA OneAtWorkStep == IInv /\ [Next]_vars => OneAtWork'
<1> SUFFICES ASSUME IInv, [Next]_vars PROVE OneAtWork'
  OBVIOUS
<1>1. CASE Outside
  BY <1>1 DEF IInv, OneAtWork, Outside
<1>2. ASSUME NEW t \in Threads, Thread(t) PROVE OneAtWork'
  BY <1>2, ThreadFrame DEF IInv, OneAtWork
<1> QED BY <1>1, <1>2, StepCases

LEMMA CopyIsCurrentStep == IInv /\ [Next]_vars => CopyIsCurrent'
<1> SUFFICES ASSUME IInv, [Next]_vars PROVE CopyIsCurrent'
  OBVIOUS
<1>1. CASE Outside
  BY <1>1 DEF IInv, CopyIsCurrent, Outside, Writing
<1>2. ASSUME NEW t \in Threads, Thread(t), ~overlapped'
      PROVE  \A u \in Threads : pc'[u] \in Writing => got'[u] = goal'
  <2>1. ~overlapped /\ \A u \in Threads \ {t} : pc'[u] = "idle"
    BY <1>2, ThreadFrame DEF IInv, OneAtWork
  <2>2. pc'[t] \in Writing => got'[t] = goal'
    BY <1>2, Effects DEF IInv, Quiet, Creates, Clears, Copies, Bills, Flips, Folds, Writing
  <2> QED BY <2>1, <2>2 DEF Writing
<1> QED BY <1>1, <1>2, StepCases DEF CopyIsCurrent

LEMMA NumberedStep == IInv /\ [Next]_vars => Numbered' /\ FutureUnspent'
<1> SUFFICES ASSUME IInv, [Next]_vars PROVE Numbered' /\ FutureUnspent'
  OBVIOUS
<1>0. last \in Nat /\ goal \in Rows
  BY DEF IInv, TypeOK
<1>1. CASE Outside
  BY <1>1 DEF IInv, Numbered, FutureUnspent, Outside
<1>2. ASSUME NEW t \in Threads, Thread(t) PROVE Numbered' /\ FutureUnspent'
  <2>1. CASE Quiet(t) \/ Copies(t)
    BY <2>1 DEF IInv, Numbered, FutureUnspent, Quiet, Copies
  <2>2. CASE Creates(t)
    BY <1>0, <2>2 DEF IInv, Numbered, FutureUnspent, Creates, ActiveGoal
  <2>3. CASE Clears(t)
    BY <1>0, <2>3, RowFacts DEF IInv, Numbered, FutureUnspent, Clears
  <2>4. CASE Bills(t)
    <3>1. \A g \in 1..MaxGoals : g > last => spent'[g] = spent[g]
      BY <1>0, <2>4 DEF IInv, TypeOK, Numbered, Bills
    <3> QED BY <2>4, <3>1 DEF IInv, Numbered, FutureUnspent, Bills
  <2>5. CASE Flips(t) \/ Folds(t)
    <3>1. goal'.id = goal.id
      <4>1. got[t] \in Rows
        BY DEF IInv, TypeOK
      <4>2. CASE Folds(t)
        BY <4>1, <4>2, FoldKeepsId DEF Folds
      <4>3. CASE Flips(t)
        BY <4>3, FlipFacts DEF Flips
      <4> QED BY <2>5, <4>2, <4>3
    <3> QED BY <2>5, <3>1 DEF IInv, Numbered, FutureUnspent, Flips, Folds
  <2> QED BY <1>2, <2>1, <2>2, <2>3, <2>4, <2>5, Effects DEF IInv
<1> QED BY <1>1, <1>2, StepCases

LEMMA BalancedStep == IInv /\ [Next]_vars => Balanced'
<1> SUFFICES ASSUME IInv, [Next]_vars, ~overlapped', faults' = 0, goal' # NoGoal
             PROVE  /\ \A t \in Threads : pc'[t] = "fold" => goal'.used + 1 = spent'[goal'.id]
                    /\ (\A t \in Threads : pc'[t] # "fold") => goal'.used = spent'[goal'.id]
  BY DEF Balanced
<1> DEFINE B == /\ \A t \in Threads : pc'[t] = "fold" => goal'.used + 1 = spent'[goal'.id]
                /\ (\A t \in Threads : pc'[t] # "fold") => goal'.used = spent'[goal'.id]
<1>1. CASE Outside
  <2>1. ~overlapped /\ faults = 0 /\ goal # NoGoal
    BY <1>1 DEF Outside
  <2>2. \A t \in Threads : pc'[t] = "fold" <=> pc[t] = "fold"
    BY <1>1 DEF Outside
  <2> QED BY <1>1, <2>1, <2>2 DEF IInv, Balanced, Outside
<1>2. ASSUME NEW t \in Threads, Thread(t) PROVE B
  <2>1. /\ ~overlapped /\ faults = 0
        /\ \A u \in Threads \ {t} : pc[u] = "idle" /\ pc'[u] = "idle"
    BY <1>2, ThreadFrame, Effects DEF IInv, OneAtWork
  <2>2. /\ pc[t] = "fold" /\ goal # NoGoal => goal.used + 1 = spent[goal.id]
        /\ pc[t] # "fold" /\ goal # NoGoal => goal.used = spent[goal.id]
    BY <2>1 DEF IInv, Balanced
  <2>3. pc[t] \in Writing => got[t] = goal
    BY <2>1 DEF IInv, CopyIsCurrent
  <2> SUFFICES /\ pc'[t] = "fold" => goal'.used + 1 = spent'[goal'.id]
               /\ pc'[t] # "fold" => goal'.used = spent'[goal'.id]
    BY <2>1
  <2>4. CASE Quiet(t) \/ Copies(t)
    BY <2>2, <2>3, <2>4 DEF Quiet, Copies, Writing
  <2>5. CASE Creates(t)
    <3>1. last + 1 \in 1..MaxGoals /\ last + 1 > last
      BY <2>5 DEF IInv, TypeOK, Creates
    <3> QED BY <2>5, <3>1 DEF IInv, FutureUnspent, Creates, ActiveGoal
  <2>6. CASE Clears(t)
    BY <2>6 DEF Clears
  <2>7. CASE Bills(t)
    <3>1. goal # NoGoal /\ goal.id \in 1..MaxGoals
      BY <2>7, RowFacts, StatusFacts DEF IInv, TypeOK, Bills
    <3>2. spent'[goal.id] = spent[goal.id] + 1
      BY <2>7, <3>1 DEF IInv, TypeOK, Bills
    <3> QED BY <2>2, <2>7, <3>1, <3>2 DEF Bills
  <2>8. CASE Flips(t)
    <3>1. goal # NoGoal /\ goal'.id = goal.id /\ goal'.used = goal.used
      BY <2>3, <2>8, FlipFacts DEF IInv, HoldsRow, Flips, Writing
    <3> QED BY <2>2, <2>8, <3>1 DEF Flips, Writing
  <2>9. CASE Folds(t)
    <3>1. goal # NoGoal /\ goal = got[t] /\ goal \in Rows
      BY <2>3, <2>9 DEF IInv, TypeOK, HoldsRow, Folds, Writing
    <3>2. goal.used + 1 = spent[goal.id] /\ goal.used + 1 <= MaxSpent
      BY <2>2, <2>9, <3>1, RowFacts DEF IInv, TypeOK, Folds
    <3>3. goal'.id = goal.id /\ goal'.used = goal.used + 1
      BY <2>9, <3>1, <3>2, FoldFacts DEF Folds
    <3> QED BY <2>9, <3>2, <3>3 DEF Folds
  <2> QED BY <1>2, <2>4, <2>5, <2>6, <2>7, <2>8, <2>9, Effects DEF IInv
<1> QED BY <1>1, <1>2, StepCases

LEMMA Invariance == Spec => []IInv
<1>1. IInv /\ [Next]_vars => IInv'
  BY TypedStep, HoldsRowStep, CopiesCoveredStep, OneAtWorkStep, CopyIsCurrentStep,
     NumberedStep, BalancedStep DEF IInv
<1> QED BY <1>1, InitIInv, PTL DEF Spec

-----------------------------------------------------------------------------
\* Every variable keeps its type, for any threads and any bounds.
THEOREM TypeCorrect == Spec => []TypeOK
<1>1. IInv => TypeOK
  BY DEF IInv
<1> QED BY <1>1, Invariance, PTL

\* No goal pays for another one's calls, whatever web turns and commands run
\* beside the worker: UpdateGoal writes the row of the ID it was given.
THEOREM OverbilledTheorem == Spec => []NeverOverbilled
<1>1. IInv => NeverOverbilled
  BY DEF IInv, Covered, NeverOverbilled
<1> QED BY <1>1, Invariance, PTL

\* While messages are handled one at a time and nothing fails, a goal has paid
\* for all that was spent on it but the call whose bill is being written.
THEOREM ExactTheorem == Spec => []BilledExactly
<1>1. ASSUME IInv, ~overlapped, faults = 0, goal # NoGoal
      PROVE  goal.used + Cardinality({t \in Threads : Unfolded(t) = 1}) = spent[goal.id]
  <2> DEFINE S == {t \in Threads : Unfolded(t) = 1}
  <2>0. goal.used \in Int
    BY <1>1, RowFacts DEF IInv, TypeOK
  <2>1. CASE \A t \in Threads : pc[t] # "fold"
    <3>1. S = {}
      BY <2>1 DEF Unfolded
    <3> QED BY <1>1, <2>0, <2>1, <3>1, FS_EmptySet DEF IInv, Balanced
  <2>2. ASSUME NEW t \in Threads, pc[t] = "fold" PROVE goal.used + Cardinality(S) = spent[goal.id]
    <3>1. got[t] = goal /\ \A u \in Threads : pc[u] = "fold" => u = t
      BY <1>1, <2>2 DEF IInv, CopyIsCurrent, OneAtWork, Writing
    <3>2. S = {t}
      BY <2>2, <3>1 DEF Unfolded
    <3>3. Cardinality(S) = 1
      BY <3>2, FS_Singleton
    <3> QED BY <1>1, <2>0, <2>2, <3>3 DEF IInv, Balanced
  <2> QED BY <2>1, <2>2
<1>2. IInv => BilledExactly
  BY <1>1 DEF BilledExactly
<1> QED BY <1>2, Invariance, PTL

\* While messages are handled one at a time, a goal leaves the state it is in
\* only from active, or by a resume.
THEOREM OrderlyTheorem == Spec => StatusIsOrderly
<1> DEFINE Change == ~overlapped' /\ goal # NoGoal /\ goal'.id = goal.id /\ goal'.status # goal.status
           Allowed == \/ goal.status = "active"
                      \/ /\ goal.status = "paused" /\ goal'.status = "active"
                         /\ \E t \in Threads : pc[t] = "flip" /\ job[t] = "resume"
<1>1. ASSUME IInv, [Next]_vars, Change PROVE Allowed
  <2>1. CASE Outside
    BY <1>1, <2>1 DEF Outside
  <2>2. ASSUME NEW t \in Threads, Thread(t) PROVE Allowed
    <3>1. ~overlapped /\ (pc[t] \in Writing => got[t] = goal)
      BY <1>1, <2>2, ThreadFrame DEF IInv, CopyIsCurrent
    <3>2. goal \in Rows /\ goal.id # 0
      BY <1>1, RowFacts DEF IInv, TypeOK
    <3>3. CASE Quiet(t) \/ Creates(t) \/ Clears(t) \/ Copies(t) \/ Bills(t)
      BY <1>1, <3>2, <3>3, RowFacts DEF Quiet, Creates, Clears, Copies, Bills
    <3>4. CASE Folds(t)
      BY <1>1, <3>1, <3>4 DEF IInv, HoldsRow, Folds, Writing
    <3>5. CASE Flips(t) /\ pc[t] = "complete"
      BY <1>1, <3>1, <3>5 DEF IInv, HoldsRow, Flips, Writing
    <3>6. CASE Flips(t) /\ pc[t] = "flip" /\ job[t] = "pause"
      BY <1>1, <3>1, <3>6 DEF IInv, HoldsRow, Flips, From, Writing
    <3>7. CASE Flips(t) /\ pc[t] = "flip" /\ job[t] = "resume"
      <4>1. goal.status = "paused"
        BY <1>1, <3>1, <3>7 DEF IInv, HoldsRow, From, Writing
      <4>2. goal'.status = "active"
        BY <3>1, <3>2, <3>7 DEF Flips, To, Writing, Rows, NoGoal
      <4> QED BY <3>7, <4>1, <4>2
    <3>8. Flips(t) => \/ pc[t] = "complete"
                      \/ pc[t] = "flip" /\ job[t] \in {"pause", "resume"}
      BY <1>1 DEF IInv, HoldsRow, Flips
    <3> QED BY <1>1, <2>2, <3>3, <3>4, <3>5, <3>6, <3>7, <3>8, Effects DEF IInv
  <2> QED BY <1>1, <2>1, <2>2, StepCases
<1>2. IInv /\ [Next]_vars => [Change => Allowed]_vars
  BY <1>1
<1> QED BY <1>2, Invariance, PTL DEF Spec, StatusIsOrderly

-----------------------------------------------------------------------------
\* A thread that may yet publish a prompt: a command, or a turn of an active goal.
CanPrompt(t) ==
    \/ pc[t] \in {"slash", "flip", "publish"}
    \/ pc[t] \notin {"idle", "end"} /\ goal.status = "active"

\* A message that was sent is on the bus, in the queue, or in the hands of the one
\* thread at work, which leaves at most one message in exchange.
Load == IF \E t \in Threads : CanPrompt(t) THEN 1 ELSE 0
PromptsPaid == ~overlapped => Len(bus) + Len(queue) + Load <= inputs

\* A step that leaves goal and bus alone keeps what the thread may publish.
LEMMA NoPromptMade ==
    ASSUME NEW t \in Threads, pc[t] \notin {"idle", "end"}, UNCHANGED <<goal, bus, queue>>,
           pc'[t] \notin {"slash", "flip", "publish"}
    PROVE  /\ queue' = queue /\ bus' = bus
           /\ CanPrompt(t)' => CanPrompt(t)
  BY DEF CanPrompt

LEMMA BusLength == ASSUME TypeOK, Publish
                   PROVE  Len(bus') = Len(bus) \/ Len(bus') = Len(bus) + 1
<1>1. bus \in Seq(Kinds) /\ "goal" \in Kinds
  BY DEF TypeOK, Kinds
<1> QED BY <1>1 DEF Publish

\* With one thread at work each step makes one prompt at most, and the thread that
\* makes it will make no other.
LEMMA PromptEffects ==
    ASSUME IInv, ~overlapped, NEW t \in Threads, Thread(t)
    PROVE  /\ queue' = queue
           /\ CanPrompt(t)' => CanPrompt(t)
           /\ \/ bus' = bus
              \/ /\ Len(bus') = Len(bus) \/ Len(bus') = Len(bus) + 1
                 /\ CanPrompt(t) /\ ~(CanPrompt(t)')
<1> SUFFICES ASSUME TypeOK, HoldsRow, CopyIsCurrent
             PROVE  /\ queue' = queue
                    /\ CanPrompt(t)' => CanPrompt(t)
                    /\ \/ bus' = bus
                       \/ /\ Len(bus') = Len(bus) \/ Len(bus') = Len(bus) + 1
                          /\ CanPrompt(t) /\ ~(CanPrompt(t)')
  BY DEF IInv
<1>0. ASSUME NEW w, GoTo(t, w) PROVE pc'[t] = w
  BY <1>0 DEF TypeOK, GoTo
<1>1. CASE SlashCreate(t) \/ SlashRead(t) \/ SlashWrite(t)
  <2>1. /\ pc[t] \in {"slash", "flip"} /\ queue' = queue /\ bus' = bus
    BY <1>1 DEF SlashCreate, SlashRead, SlashWrite
  <2> QED BY <2>1 DEF CanPrompt
<1>2. CASE FireRead(t)
  <2>1. pc[t] = "post" /\ UNCHANGED <<goal, bus, queue>>
    BY <1>2 DEF FireRead
  <2>2. pc'[t] \in {"idle", "end"} \/ goal.status = "active"
    BY <1>0, <1>2 DEF FireRead, MayContinue, Done
  <2> QED BY <2>1, <2>2 DEF CanPrompt
<1>3. CASE FirePublish(t)
  <2>1. pc[t] = "publish" /\ Publish /\ queue' = queue /\ pc'[t] \in {"idle", "end"}
    BY <1>0, <1>3 DEF FirePublish, Done
  <2> QED BY <2>1, BusLength DEF CanPrompt
<1>4. CASE BeginTurn(t) \/ ModelCall(t) \/ EndTurn(t)
  <2>1. UNCHANGED <<goal, bus, queue>>
    BY <1>4 DEF BeginTurn, ModelCall, EndTurn
  <2>2. pc'[t] \in {"model", "idle", "fold", "act", "end"} /\ (pc[t] = "end" => pc'[t] = "idle")
    BY <1>0, <1>4 DEF BeginTurn, ModelCall, EndTurn
  <2>3. pc[t] \in {"begin", "model", "end"}
    BY <1>4 DEF BeginTurn, ModelCall, EndTurn
  <2> QED BY <2>1, <2>2, <2>3 DEF CanPrompt
<1>5. CASE ToolRound(t) \/ Answer(t) \/ UpdateGoalRead(t)
  <2>1. pc[t] = "act" /\ UNCHANGED <<goal, bus, queue>>
    BY <1>5 DEF ToolRound, Answer, UpdateGoalRead
  <2>2. pc'[t] \in {"model", "post", "end", "complete"}
    BY <1>0, <1>5, NextRoundFrame DEF ToolRound, Answer, UpdateGoalRead, PostTurn
  <2> QED BY <2>1, <2>2, NoPromptMade
<1>6. CASE UpdateGoalWrite(t)
  <2>1. pc[t] = "complete" /\ bus' = bus /\ queue' = queue
    BY <1>6 DEF UpdateGoalWrite
  <2>2. pc'[t] \in {"model", "post", "end"}
    BY <1>6, NextRoundFrame DEF UpdateGoalWrite
  <2>3. goal' = goal \/ goal' = [got[t] EXCEPT !.status = "complete"]
    BY <1>6 DEF UpdateGoalWrite, UpdateGoal
  <2>4. got[t] \in Rows /\ got[t] # NoGoal
    BY <2>1 DEF TypeOK, HoldsRow, Writing
  <2>5. [got[t] EXCEPT !.status = "complete"].status = "complete"
    BY <2>4 DEF Rows, NoGoal
  <2> QED BY <2>1, <2>2, <2>3, <2>5 DEF CanPrompt
<1>7. CASE Fold(t)
  <2>1. /\ pc[t] = "fold" /\ pc'[t] = "act" /\ queue' = queue
    BY <1>0, <1>7 DEF Fold
  <2>2. goal.status = "active"
    BY <2>1 DEF HoldsRow, CopyIsCurrent, Writing
  <2>3. \/ bus' = bus
        \/ Publish /\ goal'.status = "budget_limited"
    BY <1>7 DEF Fold, UpdateGoal
  <2> QED BY <2>1, <2>2, <2>3, BusLength DEF CanPrompt
<1> QED BY <1>1, <1>2, <1>3, <1>4, <1>5, <1>6, <1>7 DEF Thread

LEMMA LoadFacts ==
    /\ Load \in 0..1 /\ Load' \in 0..1
    /\ UNCHANGED <<pc, goal>> => Load' = Load
    /\ (\A t \in Threads : pc[t] = "idle") => Load = 0
<1>1. UNCHANGED <<pc, goal>> => \A t \in Threads : CanPrompt(t)' <=> CanPrompt(t)
  BY DEF CanPrompt
<1>2. (\A t \in Threads : pc[t] = "idle") => \A t \in Threads : ~CanPrompt(t)
  BY DEF CanPrompt
<1> QED BY <1>1, <1>2 DEF Load

LEMMA PromptsPaidStep == IInv /\ PromptsPaid /\ [Next]_vars => PromptsPaid'
<1> SUFFICES ASSUME IInv, PromptsPaid, [Next]_vars, ~overlapped' PROVE PromptsPaid'
  BY DEF PromptsPaid
<1>0. /\ bus \in Seq(Kinds) /\ queue \in Seq(Kinds) /\ inputs \in Nat
      /\ Len(bus) \in Nat /\ Len(queue) \in Nat
  <2>1. bus \in Seq(Kinds) /\ queue \in Seq(Kinds) /\ inputs \in Nat
    BY DEF IInv, TypeOK
  <2> QED BY <2>1
<1>1. ASSUME NEW k \in Kinds \ {"goal"}, UserSends(k) PROVE PromptsPaid'
  <2>1. /\ Len(bus') = Len(bus) + 1 /\ queue' = queue /\ inputs' = inputs + 1
        /\ UNCHANGED <<pc, goal, overlapped>>
    BY <1>0, <1>1 DEF UserSends, Sent, threadVars, ghosts
  <2> QED BY <1>0, <2>1, LoadFacts DEF PromptsPaid
<1>2. ASSUME NEW t \in Threads, NEW k, Start(t, k)
      PROVE  ~overlapped /\ Load = 0
  <2>1. ~overlapped /\ \A u \in Threads : pc[u] = "idle"
    BY <1>2 DEF Start
  <2> QED BY <2>1, LoadFacts
<1>3. ASSUME NEW t \in Webs, NEW k \in Commands \cup {"text"}, WebSends(t, k) PROVE PromptsPaid'
  <2>1. bus' = bus /\ queue' = queue /\ inputs' = inputs + 1 /\ Start(t, k) /\ t \in Threads
    BY <1>3 DEF WebSends, Sent, Threads
  <2> QED BY <1>0, <1>2, <2>1, LoadFacts DEF PromptsPaid
<1>4. CASE SteerWeb
  <2>1. bus' = bus /\ queue' = queue /\ inputs' = inputs + 1 /\ UNCHANGED <<pc, goal, overlapped>>
    BY <1>4 DEF SteerWeb, Sent, threadVars, ghosts
  <2> QED BY <1>0, <2>1, LoadFacts DEF PromptsPaid
<1>5. CASE Route
  <2>1. /\ bus # <<>> /\ bus' = Tail(bus)
        /\ queue' = queue \/ queue' = Append(queue, Head(bus))
        /\ UNCHANGED <<pc, goal, overlapped, inputs>>
    BY <1>5 DEF Route, threadVars, ghosts, bounds
  <2>2. Head(bus) \in Kinds /\ Len(Tail(bus)) = Len(bus) - 1
    BY <1>0, <2>1
  <2>3. Len(bus') + Len(queue') <= Len(bus) + Len(queue) /\ Len(bus') + Len(queue') \in Nat
    BY <1>0, <2>1, <2>2
  <2> QED BY <1>0, <2>1, <2>3, LoadFacts DEF PromptsPaid
<1>6. CASE WorkerTakes
  <2>1. /\ queue # <<>> /\ bus' = bus /\ queue' = Tail(queue) /\ inputs' = inputs
        /\ Start(Worker, Head(queue)) /\ Worker \in Threads
    BY <1>6 DEF WorkerTakes, bounds, Threads
  <2>2. Len(queue') = Len(queue) - 1
    BY <1>0, <2>1
  <2>3. ~overlapped /\ Load = 0
    BY <1>2, <2>1
  <2> QED BY <1>0, <2>1, <2>2, <2>3, LoadFacts DEF PromptsPaid
<1>7. ASSUME NEW t \in Threads, Thread(t) PROVE PromptsPaid'
  <2>1. ~overlapped /\ inputs' = inputs /\ pc[t] # "idle"
        /\ \A u \in Threads \ {t} : pc'[u] = pc[u]
    BY <1>7, ThreadFrame DEF IInv
  <2>2. \A u \in Threads \ {t} : ~CanPrompt(u) /\ ~(CanPrompt(u)')
    BY <2>1 DEF IInv, OneAtWork, CanPrompt
  <2>3. /\ queue' = queue
        /\ CanPrompt(t)' => CanPrompt(t)
        /\ \/ bus' = bus
           \/ /\ Len(bus') = Len(bus) \/ Len(bus') = Len(bus) + 1
              /\ CanPrompt(t) /\ ~(CanPrompt(t)')
    BY <1>7, <2>1, PromptEffects
  <2>4. /\ Load = IF CanPrompt(t) THEN 1 ELSE 0
        /\ Load' = IF CanPrompt(t)' THEN 1 ELSE 0
    BY <2>2 DEF Load
  <2>5. Len(bus') + Load' <= Len(bus) + Load /\ Len(bus') \in Nat
    BY <1>0, <2>3, <2>4
  <2> QED BY <1>0, <2>1, <2>3, <2>5, LoadFacts DEF PromptsPaid
<1>8. CASE UNCHANGED vars
  <2>1. UNCHANGED <<bus, queue, pc, goal, overlapped, inputs>>
    BY <1>8 DEF vars, threadVars, ghosts, bounds
  <2> QED BY <2>1, LoadFacts DEF PromptsPaid
<1> QED BY <1>1, <1>3, <1>4, <1>5, <1>6, <1>7, <1>8 DEF Next

\* A chat's prompts never outnumber its messages: as long as they are handled one
\* at a time, a turn ends with the continuation or the wrap-up, never both.
THEOREM PromptsTheorem == Spec => []PromptsAreAccounted
<1>1. Init => PromptsPaid
  <2> SUFFICES ASSUME Init PROVE PromptsPaid
    OBVIOUS
  <2>1. Load = 0
    BY LoadFacts DEF Init
  <2>2. Len(bus) = 0 /\ Len(queue) = 0 /\ inputs = 0
    BY DEF Init
  <2> QED BY <2>1, <2>2 DEF PromptsPaid
<1>2. IInv /\ PromptsPaid => PromptsAreAccounted
  <2> SUFFICES ASSUME IInv, PromptsPaid, ~overlapped PROVE Prompts <= inputs
    BY DEF PromptsAreAccounted
  <2> DEFINE Count(s) == Cardinality({n \in DOMAIN s : s[n] = "goal"})
             Handled == {t \in Threads :
                            \/ pc[t] = "publish"
                            \/ /\ pc[t] \notin {"idle", "end"}
                               /\ job[t] = "goal" /\ goal.status = "active"}
  <2>1. ASSUME NEW s \in Seq(Kinds) PROVE Count(s) \in Nat /\ Count(s) <= Len(s) /\ Len(s) \in Nat
    <3> DEFINE at == {n \in DOMAIN s : s[n] = "goal"}
    <3>1. Len(s) \in Nat /\ DOMAIN s = 1..Len(s)
      OBVIOUS
    <3>2. IsFiniteSet(1..Len(s)) /\ Cardinality(1..Len(s)) = Len(s)
      BY <3>1, FS_Interval
    <3>3. at \in SUBSET (1..Len(s))
      BY <3>1
    <3>4. IsFiniteSet(at) /\ Cardinality(at) <= Len(s)
      BY <3>2, <3>3, FS_Subset
    <3>5. Cardinality(at) \in Nat
      BY <3>4, FS_CardinalityType
    <3> QED BY <3>1, <3>4, <3>5
  <2>2. Cardinality(Handled) \in Nat /\ Cardinality(Handled) <= Load
    <3>1. CASE Handled = {}
      BY <3>1, FS_EmptySet, LoadFacts
    <3>2. ASSUME NEW t \in Handled PROVE Cardinality(Handled) = 1 /\ Load = 1
      <4>1. t \in Threads /\ CanPrompt(t) /\ pc[t] # "idle"
        BY <3>2 DEF CanPrompt
      <4>2. \A u \in Handled : u \in Threads /\ pc[u] # "idle"
        OBVIOUS
      <4>3. Handled = {t}
        BY <3>2, <4>1, <4>2 DEF IInv, OneAtWork
      <4>4. Cardinality(Handled) = 1
        BY <4>3, FS_Singleton
      <4> QED BY <4>1, <4>4 DEF Load
    <3> QED BY <3>1, <3>2, LoadFacts
  <2>3. Prompts = Count(bus) + Count(queue) + Cardinality(Handled)
    BY DEF Prompts
  <2>4. bus \in Seq(Kinds) /\ queue \in Seq(Kinds) /\ inputs \in Nat
    BY DEF IInv, TypeOK
  <2>5. Len(bus) + Len(queue) + Load <= inputs
    BY DEF PromptsPaid
  <2>6. /\ Count(bus) \in Nat /\ Count(bus) <= Len(bus) /\ Len(bus) \in Nat
        /\ Count(queue) \in Nat /\ Count(queue) <= Len(queue) /\ Len(queue) \in Nat
    BY <2>1, <2>4
  <2> HIDE DEF Count, Handled
  <2> QED BY <2>2, <2>3, <2>4, <2>5, <2>6, LoadFacts
<1>3. IInv /\ PromptsPaid /\ [Next]_vars => PromptsPaid'
  BY PromptsPaidStep
<1> QED BY <1>1, <1>2, <1>3, Invariance, PTL DEF Spec
=============================================================================
