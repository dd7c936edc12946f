------------------------ MODULE ChannelLease_proofs -------------------------
(***************************************************************************)
(* Proofs about the channel lease: with one runner per replica, and        *)
(* intervals that leave the timing margin, the lease of a running adapter  *)
(* is fresh, and at most one adapter takes what the upstream sends.  For   *)
(* any number of replicas, either store, and every value of the intervals, *)
(* the time a stopped adapter's last poll stays open among them.           *)
(***************************************************************************)
EXTENDS ChannelLease, TLAPS

\* What a runner waits for does not come late.
WaitsBounded ==
    \A r \in Runners :
        /\ pc[r] = "acquire" => timer[r] <= MaxLatency
        /\ pc[r] = "retry" => timer[r] <= RetryInterval
        /\ pc[r] = "stopping" => timer[r] <= MaxStop
        /\ renew[r] = "wait" => sinceTick[r] <= RenewInterval
        /\ renew[r] = "call" => sinceTick[r] <= MaxLatency

\* The adapter runs, and its renewal with it, in the states that say so.
AdapterStates ==
    \A r \in Runners :
        /\ adapter[r] <=> pc[r] \in {"held", "stopping"}
        /\ renew[r] # "off" <=> pc[r] = "held"

\* The least time a fresh lease has left, and what a poller's must have.
LeastLeft == IF Redis THEN 1 ELSE 0

Need(r) ==
    IF pc[r] = "stopping"
    THEN LeastLeft + MaxStop - timer[r]
    ELSE TTL - MaxLatency - sinceTick[r] - RenewInterval * fails[r]
             - (IF renew[r] = "call" THEN RenewInterval ELSE 0)

\* The lease of a poller lasts until its next renewals have failed as often
\* as they may and the adapter has stopped.
LeaseCovers ==
    \A r \in Runners :
        pc[r] \in {"held", "stopping"} => holder = ProcOf(r) /\ left >= Need(r)

IInv == TypeOK /\ WaitsBounded /\ AdapterStates /\ LeaseCovers

-----------------------------------------------------------------------------
(* Type correctness, with the bounds on the waits it needs.                *)

\* Init is well typed: nobody holds the lease and nothing runs.
LEMMA InitTyped == Init => TypeOK /\ WaitsBounded
  BY LeaseAssumption DEF LeaseAssumption, Init, TypeOK, WaitsBounded, Floor, Phases,
     RunnerPC, Branches

\* A runner that moves on begins its next wait at 0.
LEMMA GoToTyped ==
  ASSUME TypeOK, WaitsBounded, NEW r \in Runners, NEW where \in RunnerPC,
         GoTo(r, where), renew' = renew, sinceTick' = sinceTick
  PROVE  /\ pc' \in [Runners -> RunnerPC]
         /\ timer' \in [Runners -> 0..RetryInterval \cup 0..MaxLatency \cup 0..MaxStop]
         /\ WaitsBounded'
  BY LeaseAssumption DEF LeaseAssumption, TypeOK, WaitsBounded, GoTo

\* What a call writes is within the type of left.
LEMMA WriteTyped ==
  ASSUME TypeOK, NEW p \in Procs, NEW age \in 0..MaxLatency, Write(p, age)
  PROVE  holder' \in Procs \cup {Nobody} /\ left' \in Floor..TTL
  BY LeaseAssumption DEF LeaseAssumption, TypeOK, Write, Lifetimes, Floor

\* Runners are named by their replica and a number.
LEMMA ProcOfRunner == \A r \in Runners : ProcOf(r) \in Procs
  BY DEF Runners, ProcOf

\* Every step of a runner, a replica or the clock keeps the types.
LEMMA NextTyped == TypeOK /\ WaitsBounded /\ [Next]_vars => TypeOK' /\ WaitsBounded'
  <1> SUFFICES ASSUME TypeOK, WaitsBounded, [Next]_vars
               PROVE  TypeOK' /\ WaitsBounded'
    OBVIOUS
  <1> USE DEF leaseVars
  <1>0. /\ {"off", "acquire", "retry", "held", "stopping", "release", "over"} = RunnerPC
        /\ {"done", "ctx", "renewExit"} = Branches
    BY DEF RunnerPC, Branches
  <1>1. ASSUME NEW r \in Runners, Launch(r) PROVE TypeOK' /\ WaitsBounded'
    <2>1. /\ pc' \in [Runners -> RunnerPC] /\ WaitsBounded'
          /\ timer' \in [Runners -> 0..RetryInterval \cup 0..MaxLatency \cup 0..MaxStop]
      BY <1>1, GoToTyped DEF Launch, RunnerPC
    <2> QED
      BY <1>1, <2>1 DEF TypeOK, Launch
  <1>2. ASSUME NEW r \in Runners, AcquireGranted(r) PROVE TypeOK' /\ WaitsBounded'
    <2>1. timer[r] \in 0..MaxLatency
      BY <1>2, LeaseAssumption DEF LeaseAssumption, TypeOK, WaitsBounded, AcquireGranted
    <2>2. holder' \in Procs \cup {Nobody} /\ left' \in Floor..TTL
      BY <1>2, <2>1, ProcOfRunner, WriteTyped DEF AcquireGranted
    <2>3. PICK w \in {"stopping", "held"} : GoTo(r, w)
      BY <1>2 DEF AcquireGranted
    <2>4. branch' \in [Runners -> Branches] /\ renew' \in [Runners -> {"off", "wait", "call"}]
      BY <1>2, <1>0 DEF AcquireGranted, TypeOK, Branches
    <2>5. /\ sinceTick' \in [Runners -> 0..RenewInterval]
          /\ fails' \in [Runners -> 0..MaxFailures]
          /\ adapter' \in [Runners -> BOOLEAN]
      BY <1>2, LeaseAssumption DEF LeaseAssumption, AcquireGranted, TypeOK
    <2>6. /\ pc' \in [Runners -> RunnerPC]
          /\ timer' \in [Runners -> 0..RetryInterval \cup 0..MaxLatency \cup 0..MaxStop]
      BY <2>3, LeaseAssumption DEF LeaseAssumption, GoTo, TypeOK, RunnerPC
    <2>7. WaitsBounded'
      BY <1>2, <2>3, LeaseAssumption
      DEF LeaseAssumption, AcquireGranted, GoTo, WaitsBounded, TypeOK
    <2> QED
      BY <1>2, <2>2, <2>4, <2>5, <2>6, <2>7 DEF TypeOK, AcquireGranted
  <1>3. ASSUME NEW r \in Runners, AcquireRefused(r) \/ WakeUp(r) \/ GiveUp(r) \/ Release(r)
        PROVE TypeOK' /\ WaitsBounded'
    <2>1. PICK w \in RunnerPC : GoTo(r, w)
      BY <1>3 DEF AcquireRefused, WakeUp, GiveUp, Release, RunnerPC
    <2>2. renew' = renew /\ sinceTick' = sinceTick
      BY <1>3 DEF AcquireRefused, WakeUp, GiveUp, Release
    <2>3. /\ pc' \in [Runners -> RunnerPC] /\ WaitsBounded'
          /\ timer' \in [Runners -> 0..RetryInterval \cup 0..MaxLatency \cup 0..MaxStop]
      BY <2>1, <2>2, GoToTyped
    <2>4. fails' \in [Runners -> 0..MaxFailures]
      BY <1>3, LeaseAssumption
      DEF LeaseAssumption, AcquireRefused, WakeUp, GiveUp, Release, TypeOK
    <2>5. holder' \in Procs \cup {Nobody} /\ left' = left
      BY <1>3 DEF AcquireRefused, WakeUp, GiveUp, Release, Delete, TypeOK
    <2>6. phase' = phase /\ branch' = branch /\ adapter' = adapter /\ tail' = tail
      BY <1>3 DEF AcquireRefused, WakeUp, GiveUp, Release
    <2> QED
      BY <2>2, <2>3, <2>4, <2>5, <2>6 DEF TypeOK
  <1>4. ASSUME NEW r \in Runners, AcquireError(r) PROVE TypeOK' /\ WaitsBounded'
    <2>1. timer[r] \in 0..MaxLatency
      BY <1>4, LeaseAssumption DEF LeaseAssumption, TypeOK, WaitsBounded, AcquireError
    <2>2. holder' \in Procs \cup {Nobody} /\ left' \in Floor..TTL
      BY <1>4, <2>1, ProcOfRunner, WriteTyped DEF AcquireError, TypeOK
    <2>3. /\ pc' \in [Runners -> RunnerPC] /\ WaitsBounded'
          /\ timer' \in [Runners -> 0..RetryInterval \cup 0..MaxLatency \cup 0..MaxStop]
      BY <1>4, GoToTyped DEF AcquireError, RunnerPC
    <2>4. fails' \in [Runners -> 0..MaxFailures]
      BY <1>4, LeaseAssumption DEF LeaseAssumption, AcquireError, TypeOK
    <2> QED
      BY <1>4, <2>2, <2>3, <2>4 DEF TypeOK, AcquireError
  <1>5. ASSUME NEW r \in Runners, Shutdown(r) \/ AdapterExit(r) \/ LeaseLost(r)
        PROVE TypeOK' /\ WaitsBounded'
    <2>1. PICK w \in {"stopping", "release"} : GoTo(r, w)
      BY <1>5 DEF Shutdown, AdapterExit, LeaseLost
    <2>2. /\ renew' = [renew EXCEPT ![r] = "off"]
          /\ sinceTick' = [sinceTick EXCEPT ![r] = 0]
      BY <1>5 DEF Shutdown, AdapterExit, LeaseLost
    <2>3. /\ pc' \in [Runners -> RunnerPC]
          /\ timer' \in [Runners -> 0..RetryInterval \cup 0..MaxLatency \cup 0..MaxStop]
      BY <2>1, LeaseAssumption DEF LeaseAssumption, GoTo, TypeOK, RunnerPC
    <2>4. WaitsBounded'
      BY <2>1, <2>2, LeaseAssumption DEF LeaseAssumption, GoTo, WaitsBounded, TypeOK
    <2>5. /\ branch' \in [Runners -> Branches]
          /\ adapter' \in [Runners -> BOOLEAN]
      BY <1>5, <1>0 DEF Shutdown, AdapterExit, LeaseLost, TypeOK
    <2>6. fails' \in [Runners -> 0..MaxFailures]
      BY <1>5, LeaseAssumption
      DEF LeaseAssumption, Shutdown, AdapterExit, LeaseLost, TypeOK
    <2>7. /\ renew' \in [Runners -> {"off", "wait", "call"}]
          /\ sinceTick' \in [Runners -> 0..RenewInterval]
      BY <2>2, LeaseAssumption DEF LeaseAssumption, TypeOK
    <2>8. holder' = holder /\ left' = left /\ phase' = phase /\ tail' = tail
      BY <1>5 DEF Shutdown, AdapterExit, LeaseLost
    <2> QED
      BY <2>3, <2>4, <2>5, <2>6, <2>7, <2>8 DEF TypeOK
  <1>6. ASSUME NEW r \in Runners, Stopped(r) PROVE TypeOK' /\ WaitsBounded'
    <2>1. PICK w \in RunnerPC : GoTo(r, w)
      BY <1>6 DEF Stopped, RunnerPC
    <2>2. /\ pc' \in [Runners -> RunnerPC] /\ WaitsBounded'
          /\ timer' \in [Runners -> 0..RetryInterval \cup 0..MaxLatency \cup 0..MaxStop]
      BY <1>6, <2>1, GoToTyped DEF Stopped
    <2>3. tail' \in [Runners -> 0..MaxPoll]
      BY <1>6, LeaseAssumption DEF LeaseAssumption, TypeOK, Stopped
    <2> QED
      BY <1>6, <2>2, <2>3 DEF TypeOK, Stopped
  <1>7. ASSUME NEW r \in Runners, TickerFired(r) PROVE TypeOK' /\ WaitsBounded'
    <2>1. WaitsBounded'
      BY <1>7, LeaseAssumption DEF LeaseAssumption, TickerFired, WaitsBounded, TypeOK
    <2> QED
      BY <1>7, <2>1, LeaseAssumption DEF LeaseAssumption, TypeOK, TickerFired
  <1>8. ASSUME NEW r \in Runners, Renewed(r) \/ RenewError(r) PROVE TypeOK' /\ WaitsBounded'
    <2>1. sinceTick[r] \in 0..MaxLatency
      BY <1>8, LeaseAssumption
      DEF LeaseAssumption, TypeOK, WaitsBounded, Renewed, RenewError
    <2>2. holder' \in Procs \cup {Nobody} /\ left' \in Floor..TTL
      BY <1>8, <2>1, ProcOfRunner, WriteTyped DEF Renewed, RenewError, TypeOK
    <2>3. /\ renew' = [renew EXCEPT ![r] = "wait"]
          /\ UNCHANGED <<phase, pc, timer, branch, adapter, tail, sinceTick>>
      BY <1>8 DEF Renewed, RenewError
    <2>4. fails' \in [Runners -> 0..MaxFailures]
      BY <1>8, LeaseAssumption DEF LeaseAssumption, Renewed, RenewError, TypeOK
    <2>5. WaitsBounded'
      BY <2>1, <2>3, LeaseAssumption DEF LeaseAssumption, WaitsBounded, TypeOK
    <2> QED
      BY <2>2, <2>3, <2>4, <2>5 DEF TypeOK
  <1>9. ASSUME NEW p \in Procs, Cancel(p) PROVE TypeOK' /\ WaitsBounded'
    BY <1>9 DEF TypeOK, WaitsBounded, Cancel, Phases
  <1>10. ASSUME NEW p \in Procs, Crash(p) PROVE TypeOK' /\ WaitsBounded'
    <2>1. phase' \in [Procs -> Phases] /\ pc' \in [Runners -> RunnerPC]
      BY <1>10 DEF TypeOK, Crash, Phases, RunnerPC
    <2>2. /\ adapter' \in [Runners -> BOOLEAN]
          /\ renew' \in [Runners -> {"off", "wait", "call"}]
          /\ sinceTick' \in [Runners -> 0..RenewInterval]
          /\ tail' \in [Runners -> 0..MaxPoll]
      BY <1>10, LeaseAssumption DEF LeaseAssumption, TypeOK, Crash
    <2>3. WaitsBounded'
      BY <1>10 DEF TypeOK, WaitsBounded, Crash
    <2> QED
      BY <1>10, <2>1, <2>2, <2>3 DEF TypeOK, Crash
  <1>11. CASE Tick
    <2>1. left' \in Floor..TTL
      BY <1>11, LeaseAssumption DEF LeaseAssumption, TypeOK, Tick, Floor
    <2>2. timer' \in [Runners -> 0..RetryInterval \cup 0..MaxLatency \cup 0..MaxStop]
      BY <1>11, LeaseAssumption DEF LeaseAssumption, TypeOK, Tick, Due, RetryDue, WaitsBounded
    <2>3. sinceTick' \in [Runners -> 0..RenewInterval]
      BY <1>11, LeaseAssumption DEF LeaseAssumption, TypeOK, Tick, Due
    <2>4. WaitsBounded'
      BY <1>11, LeaseAssumption DEF LeaseAssumption, TypeOK, Tick, Due, RetryDue, WaitsBounded
    <2>5. tail' \in [Runners -> 0..MaxPoll]
      BY <1>11, LeaseAssumption DEF LeaseAssumption, TypeOK, Tick
    <2> QED
      BY <1>11, <2>1, <2>2, <2>3, <2>4, <2>5 DEF TypeOK, Tick
  <1>12. CASE UNCHANGED vars
    BY <1>12 DEF TypeOK, WaitsBounded, vars
  <1>13. ASSUME NEW r \in Runners, PollReturns(r) PROVE TypeOK' /\ WaitsBounded'
    <2>1. tail' \in [Runners -> 0..MaxPoll]
      BY <1>13, LeaseAssumption DEF LeaseAssumption, TypeOK, PollReturns
    <2> QED
      BY <1>13, <2>1 DEF TypeOK, WaitsBounded, PollReturns
  <1> QED
    BY <1>1, <1>2, <1>3, <1>4, <1>5, <1>6, <1>7, <1>8, <1>9, <1>10, <1>11, <1>12, <1>13
    DEF Next, Runner

\* Every variable keeps its type, whatever the intervals are.
THEOREM TypeCorrect == Spec => []TypeOK
  <1>1. Init => TypeOK /\ WaitsBounded
    BY InitTyped
  <1>2. TypeOK /\ WaitsBounded /\ [Next]_vars => TypeOK' /\ WaitsBounded'
    BY NextTyped
  <1> QED
    BY <1>1, <1>2, PTL DEF Spec

-----------------------------------------------------------------------------
(* One poller, under a fresh lease.                                        *)

\* Nobody re-registered the bot in a running replica.
OneRunnerEach == PerProcess = 1

\* A replica's runner is then known by its replica.
LEMMA OneRunner ==
  ASSUME OneRunnerEach, NEW r \in Runners, NEW s \in Runners, ProcOf(r) = ProcOf(s)
  PROVE  r = s
  BY DEF OneRunnerEach, Runners, ProcOf

\* The multiples of the renewal interval that the margin speaks of.
LEMMA Multiples ==
  /\ RenewInterval * 0 = 0
  /\ \A n \in 0..MaxFailures :
        /\ RenewInterval * n \in Nat
        /\ RenewInterval * n <= RenewInterval * MaxFailures
        /\ RenewInterval * (n + 1) = RenewInterval * n + RenewInterval
  /\ (MaxFailures + 1) * RenewInterval = RenewInterval * MaxFailures + RenewInterval
  BY LeaseAssumption DEF LeaseAssumption

\* The margin, in those multiples.
LEMMA MarginInMultiples ==
  ASSUME TimingMargin
  PROVE  LeastLeft + MaxStop + 2 * MaxLatency + RenewInterval
           + RenewInterval * MaxFailures <= TTL
  <1> DEFINE p == RenewInterval * MaxFailures
  <1>1. p \in Int
    BY LeaseAssumption DEF LeaseAssumption
  <1>2. (MaxFailures + 1) * RenewInterval = p + RenewInterval
    BY Multiples
  <1>3. p + RenewInterval + 2 * MaxLatency + MaxStop <= (IF Redis THEN TTL - 1 ELSE TTL)
    BY <1>2 DEF TimingMargin
  <1> HIDE DEF p
  <1>4. LeastLeft + MaxStop + 2 * MaxLatency + RenewInterval + p <= TTL
    BY <1>1, <1>3, LeaseAssumption DEF LeaseAssumption, LeastLeft
  <1> QED
    BY <1>4 DEF p

\* Stopping takes the time the margin keeps for it.
LEMMA NeedIsFresh ==
  ASSUME TimingMargin, TypeOK, WaitsBounded, NEW r \in Runners,
         pc[r] \in {"held", "stopping"}, left >= Need(r),
         renew[r] # "off" <=> pc[r] = "held"
  PROVE  /\ Need(r) \in Int
         /\ left >= LeastLeft
         /\ pc[r] = "held" => left >= LeastLeft + MaxStop
  <1>1. RenewInterval * fails[r] \in Nat
        /\ RenewInterval * fails[r] <= RenewInterval * MaxFailures
    BY Multiples DEF TypeOK
  <1>2. LeastLeft + MaxStop + 2 * MaxLatency + RenewInterval
           + RenewInterval * MaxFailures <= TTL
    BY MarginInMultiples
  <1>3. CASE pc[r] = "stopping"
    BY <1>3, LeaseAssumption DEF LeaseAssumption, TypeOK, WaitsBounded, Need, LeastLeft
  <1>4. CASE pc[r] = "held"
    <2>1. renew[r] \in {"wait", "call"} /\ sinceTick[r] \in Nat
      BY <1>4 DEF TypeOK
    <2>2. RenewInterval * MaxFailures \in Nat
      BY Multiples, LeaseAssumption DEF LeaseAssumption
    <2>3. CASE renew[r] = "wait"
      BY <1>1, <1>2, <1>4, <2>1, <2>2, <2>3, LeaseAssumption
      DEF LeaseAssumption, TypeOK, WaitsBounded, Need, LeastLeft
    <2>4. CASE renew[r] = "call"
      BY <1>1, <1>2, <1>4, <2>1, <2>2, <2>4, LeaseAssumption
      DEF LeaseAssumption, TypeOK, WaitsBounded, Need, LeastLeft
    <2> QED
      BY <2>1, <2>3, <2>4
  <1> QED
    BY <1>3, <1>4

\* The invariant says what the two properties say.
LEMMA InvImpliesFresh ==
  ASSUME TimingMargin, IInv
  PROVE  ReceiverHoldsFreshLease
  <1> SUFFICES ASSUME NEW r \in Runners, adapter[r]
               PROVE  holder = ProcOf(r) /\ Fresh
    BY DEF ReceiverHoldsFreshLease
  <1>1. pc[r] \in {"held", "stopping"} /\ holder = ProcOf(r) /\ left >= Need(r)
    BY DEF IInv, AdapterStates, LeaseCovers
  <1>2. left >= LeastLeft
    BY <1>1, NeedIsFresh DEF IInv, AdapterStates
  <1> QED
    BY <1>1, <1>2 DEF Fresh, LeastLeft, IInv, TypeOK, Floor

LEMMA InvImpliesOne ==
  ASSUME OneRunnerEach, IInv
  PROVE  OneReceiver
  BY OneRunner DEF IInv, AdapterStates, LeaseCovers, OneReceiver

\* The states that poll and renew are kept apart from the others.
LEMMA AdapterStatesStep ==
  TypeOK /\ AdapterStates /\ [Next]_vars => AdapterStates'
  <1> SUFFICES ASSUME TypeOK, AdapterStates, [Next]_vars
               PROVE  AdapterStates'
    OBVIOUS
  <1> USE DEF AdapterStates, TypeOK, leaseVars, GoTo
  <1>1. ASSUME NEW r \in Runners, Launch(r) PROVE AdapterStates'
    BY <1>1 DEF Launch
  <1>2. ASSUME NEW r \in Runners, AcquireGranted(r) PROVE AdapterStates'
    <2>1. CASE Cancelled(r)
      BY <1>2, <2>1 DEF AcquireGranted
    <2>2. CASE ~Cancelled(r)
      BY <1>2, <2>2 DEF AcquireGranted
    <2> QED
      BY <2>1, <2>2
  <1>3. ASSUME NEW r \in Runners, AcquireRefused(r) \/ AcquireError(r) \/ WakeUp(r) \/ GiveUp(r)
        PROVE AdapterStates'
    BY <1>3 DEF AcquireRefused, AcquireError, WakeUp, GiveUp
  <1>4. ASSUME NEW r \in Runners, Shutdown(r) \/ AdapterExit(r) \/ LeaseLost(r)
        PROVE AdapterStates'
    BY <1>4 DEF Shutdown, AdapterExit, LeaseLost
  <1>5. ASSUME NEW r \in Runners, Stopped(r) PROVE AdapterStates'
    BY <1>5 DEF Stopped
  <1>6. ASSUME NEW r \in Runners, Release(r) PROVE AdapterStates'
    BY <1>6 DEF Release
  <1>7. ASSUME NEW r \in Runners, TickerFired(r) \/ Renewed(r) \/ RenewError(r)
        PROVE AdapterStates'
    BY <1>7 DEF TickerFired, Renewed, RenewError
  <1>8. ASSUME NEW p \in Procs, Cancel(p) PROVE AdapterStates'
    BY <1>8 DEF Cancel
  <1>9. ASSUME NEW p \in Procs, Crash(p) PROVE AdapterStates'
    BY <1>9 DEF Crash
  <1>10. CASE Tick
    BY <1>10 DEF Tick
  <1>11. CASE UNCHANGED vars
    BY <1>11 DEF vars
  <1>12. ASSUME NEW r \in Runners, PollReturns(r) PROVE AdapterStates'
    BY <1>12 DEF PollReturns
  <1> QED
    BY <1>1, <1>2, <1>3, <1>4, <1>5, <1>6, <1>7, <1>8, <1>9, <1>10, <1>11, <1>12
    DEF Next, Runner

\* While an adapter polls, the stores refuse the other replicas.
LEMMA OthersRefused ==
  ASSUME TimingMargin, OneRunnerEach, IInv, NEW r \in Runners, NEW s \in Runners,
         s # r, pc[s] \in {"held", "stopping"}, NEW age \in Nat
  PROVE  ~MayAcquire(ProcOf(r), age) /\ holder # ProcOf(r)
  <1>1. holder = ProcOf(s) /\ left >= LeastLeft
    BY NeedIsFresh DEF IInv, AdapterStates, LeaseCovers
  <1>2. holder # ProcOf(r) /\ holder # Nobody
    BY <1>1, OneRunner, ProcOfRunner, LeaseAssumption DEF LeaseAssumption
  <1>3. ~Expired(age)
    BY <1>1 DEF Expired, LeastLeft, IInv, TypeOK, Floor
  <1> QED
    BY <1>2, <1>3 DEF MayAcquire

\* What a call writes covers the runner that made it, and any wait after it.
LEMMA WriteCovers ==
  ASSUME TypeOK, NEW p \in Procs, NEW age \in 0..MaxLatency, Write(p, age)
  PROVE  holder' = p /\ left' \in Int /\ left' >= TTL - age
  BY LeaseAssumption DEF LeaseAssumption, TypeOK, Write, Lifetimes

\* The lease of the other runners' adapters is none of r's business.
LEMMA OthersCovered ==
  ASSUME IInv, NEW r \in Runners, UNCHANGED leaseVars,
         \A s \in Runners \ {r} :
            /\ pc'[s] = pc[s] /\ timer'[s] = timer[s] /\ renew'[s] = renew[s]
            /\ sinceTick'[s] = sinceTick[s] /\ fails'[s] = fails[s],
         pc'[r] \in {"held", "stopping"} => holder = ProcOf(r) /\ left >= Need(r)'
  PROVE  LeaseCovers'
  BY DEF IInv, LeaseCovers, Need, leaseVars

\* A polling runner is the only one, and its renewal finds the lease its own.
LEMMA OnlyPoller ==
  ASSUME TimingMargin, OneRunnerEach, IInv, NEW r \in Runners,
         pc[r] \in {"held", "stopping"}
  PROVE  /\ holder = ProcOf(r) /\ left >= Need(r) /\ left >= LeastLeft
         /\ \A s \in Runners \ {r} : pc[s] \notin {"held", "stopping"}
         /\ MayRenew(ProcOf(r))
  <1>1. holder = ProcOf(r) /\ left >= Need(r) /\ left >= LeastLeft
    BY NeedIsFresh DEF IInv, AdapterStates, LeaseCovers
  <1>2. MayRenew(ProcOf(r))
    BY <1>1 DEF MayRenew, LeastLeft, IInv, TypeOK, Floor
  <1>3. \A s \in Runners \ {r} : pc[s] \notin {"held", "stopping"}
    BY <1>1, OneRunner DEF IInv, LeaseCovers
  <1> QED
    BY <1>1, <1>2, <1>3

\* Every step leaves a poller enough time.
LEMMA LeaseCoversStep ==
  ASSUME TimingMargin, OneRunnerEach, IInv, [Next]_vars
  PROVE  LeaseCovers'
  <1> USE DEF leaseVars
  <1>0. TypeOK /\ WaitsBounded /\ AdapterStates /\ LeaseCovers
    BY DEF IInv
  <1>1. ASSUME NEW r \in Runners,
               Launch(r) \/ AcquireRefused(r) \/ WakeUp(r) \/ GiveUp(r)
                 \/ AdapterExit(r) \/ Stopped(r)
        PROVE LeaseCovers'
    <2>1. PICK w \in {"acquire", "retry", "over", "release"} : GoTo(r, w)
      BY <1>1 DEF Launch, AcquireRefused, WakeUp, GiveUp, AdapterExit, Stopped
    <2>2. /\ UNCHANGED leaseVars
          /\ \A s \in Runners \ {r} : /\ renew'[s] = renew[s]
                                      /\ sinceTick'[s] = sinceTick[s]
                                      /\ fails'[s] = fails[s]
      BY <1>1, <1>0
      DEF Launch, AcquireRefused, WakeUp, GiveUp, AdapterExit, Stopped, TypeOK
    <2>3. /\ pc'[r] \notin {"held", "stopping"}
          /\ \A s \in Runners \ {r} : pc'[s] = pc[s] /\ timer'[s] = timer[s]
      BY <2>1, <1>0 DEF GoTo, TypeOK
    <2> QED
      BY <2>2, <2>3, OthersCovered
  <1>2. ASSUME NEW r \in Runners, AcquireGranted(r) PROVE LeaseCovers'
    <2>1. timer[r] \in 0..MaxLatency
      BY <1>2, <1>0, LeaseAssumption
      DEF LeaseAssumption, TypeOK, WaitsBounded, AcquireGranted
    <2>2. \A s \in Runners \ {r} : pc[s] \notin {"held", "stopping"}
      BY <1>2, <2>1, OthersRefused DEF AcquireGranted
    <2>3. holder' = ProcOf(r) /\ left' \in Int /\ left' >= TTL - MaxLatency
      BY <1>2, <1>0, <2>1, ProcOfRunner, WriteCovers, LeaseAssumption
      DEF AcquireGranted, LeaseAssumption
    <2>4. pc'[r] \in {"held", "stopping"} /\ timer'[r] = 0
          /\ \A s \in Runners \ {r} : pc'[s] = pc[s]
      BY <1>2, <1>0 DEF AcquireGranted, GoTo, TypeOK
    <2>5. fails'[r] = 0 /\ sinceTick'[r] = 0
      BY <1>2, <1>0 DEF AcquireGranted, TypeOK
    <2>6. CASE pc'[r] = "held"
      <3>1. renew'[r] = "wait"
        BY <1>2, <1>0, <2>6 DEF AcquireGranted, TypeOK, GoTo
      <3>2. Need(r)' = TTL - MaxLatency
        BY <2>5, <2>6, <3>1, Multiples, LeaseAssumption DEF LeaseAssumption, Need
      <3> QED
        BY <2>2, <2>3, <2>4, <3>2 DEF LeaseCovers
    <2>7. CASE pc'[r] = "stopping"
      <3>1. Need(r)' = LeastLeft + MaxStop
        BY <2>4, <2>7, LeaseAssumption DEF LeaseAssumption, Need, LeastLeft
      <3>2. LeastLeft + MaxStop <= TTL - MaxLatency
        <4>1. RenewInterval * MaxFailures \in Nat
          BY LeaseAssumption DEF LeaseAssumption
        <4> QED
          BY <4>1, MarginInMultiples, LeaseAssumption DEF LeaseAssumption, LeastLeft
      <3>3. LeastLeft + MaxStop \in Int /\ TTL - MaxLatency \in Int
        BY LeaseAssumption DEF LeaseAssumption, LeastLeft
      <3>4. left' >= Need(r)'
        BY <2>3, <3>1, <3>2, <3>3
      <3> QED
        BY <2>2, <2>3, <2>4, <3>4 DEF LeaseCovers
    <2> QED
      BY <2>4, <2>6, <2>7
  <1>3. ASSUME NEW r \in Runners, AcquireError(r) PROVE LeaseCovers'
    <2>1. timer[r] \in Nat
      BY <1>3, <1>0, LeaseAssumption DEF LeaseAssumption, TypeOK
    <2>2. /\ pc'[r] \notin {"held", "stopping"}
          /\ \A s \in Runners \ {r} : /\ pc'[s] = pc[s] /\ timer'[s] = timer[s]
                                      /\ renew'[s] = renew[s] /\ fails'[s] = fails[s]
                                      /\ sinceTick'[s] = sinceTick[s]
      BY <1>3, <1>0 DEF AcquireError, GoTo, TypeOK
    <2>3. CASE UNCHANGED leaseVars
      BY <2>2, <2>3, OthersCovered
    <2>4. CASE MayAcquire(ProcOf(r), timer[r])
      <3>1. \A s \in Runners \ {r} : pc[s] \notin {"held", "stopping"}
        BY <2>1, <2>4, OthersRefused
      <3> QED
        BY <2>2, <3>1 DEF LeaseCovers
    <2> QED
      BY <1>3, <2>3, <2>4 DEF AcquireError
  <1>4. ASSUME NEW r \in Runners, Shutdown(r) PROVE LeaseCovers'
    <2>1. holder = ProcOf(r) /\ left >= LeastLeft + MaxStop
      BY <1>4, <1>0, NeedIsFresh DEF Shutdown, LeaseCovers, AdapterStates
    <2>2. pc'[r] = "stopping" /\ timer'[r] = 0
      BY <1>4, <1>0 DEF Shutdown, GoTo, TypeOK
    <2>3. Need(r)' = LeastLeft + MaxStop
      BY <2>2, LeaseAssumption DEF LeaseAssumption, Need, LeastLeft
    <2>4. \A s \in Runners \ {r} : /\ pc'[s] = pc[s] /\ timer'[s] = timer[s]
                                   /\ renew'[s] = renew[s] /\ fails'[s] = fails[s]
                                   /\ sinceTick'[s] = sinceTick[s]
      BY <1>4, <1>0 DEF Shutdown, GoTo, TypeOK
    <2> QED
      BY <1>4, <2>1, <2>3, <2>4, OthersCovered DEF Shutdown
  <1>5. ASSUME NEW r \in Runners, Release(r) PROVE LeaseCovers'
    <2>1. /\ pc'[r] \notin {"held", "stopping"}
          /\ \A s \in Runners \ {r} : /\ pc'[s] = pc[s] /\ timer'[s] = timer[s]
                                      /\ renew'[s] = renew[s] /\ fails'[s] = fails[s]
                                      /\ sinceTick'[s] = sinceTick[s]
      BY <1>5, <1>0 DEF Release, GoTo, TypeOK
    <2>2. CASE \A s \in Runners \ {r} : pc[s] \notin {"held", "stopping"}
      BY <2>1, <2>2 DEF LeaseCovers
    <2>3. ASSUME NEW s \in Runners \ {r}, pc[s] \in {"held", "stopping"}
          PROVE LeaseCovers'
      <3>1. holder # ProcOf(r)
        BY <2>3, OthersRefused
      <3>2. UNCHANGED leaseVars
        BY <1>5, <3>1 DEF Release, Delete
      <3> QED
        BY <2>1, <3>2, OthersCovered
    <2> QED
      BY <2>2, <2>3
  <1>6. ASSUME NEW r \in Runners, LeaseLost(r) PROVE LeaseCovers'
    <2>1. pc[r] = "held"
      BY <1>6, <1>0 DEF LeaseLost, AdapterStates
    <2> QED
      BY <1>6, <2>1, OnlyPoller DEF LeaseLost
  <1>7. ASSUME NEW r \in Runners, TickerFired(r) PROVE LeaseCovers'
    <2>1. pc[r] = "held" /\ holder = ProcOf(r) /\ left >= Need(r)
      BY <1>7, <1>0 DEF TickerFired, AdapterStates, LeaseCovers
    <2>2. sinceTick[r] = RenewInterval
      BY <1>7, <1>0, LeaseAssumption
      DEF LeaseAssumption, TickerFired, WaitsBounded, TypeOK
    <2>3. RenewInterval * fails[r] \in Nat
      BY <1>0, Multiples DEF TypeOK
    <2>4. /\ renew'[r] = "call" /\ sinceTick'[r] = 0 /\ fails'[r] = fails[r]
          /\ pc'[r] = "held"
      BY <1>7, <1>0, <2>1 DEF TickerFired, TypeOK
    <2>5. Need(r)' = Need(r)
      BY <1>7, <2>1, <2>2, <2>3, <2>4, LeaseAssumption
      DEF LeaseAssumption, Need, TickerFired
    <2>6. \A s \in Runners \ {r} : /\ pc'[s] = pc[s] /\ timer'[s] = timer[s]
                                   /\ renew'[s] = renew[s] /\ fails'[s] = fails[s]
                                   /\ sinceTick'[s] = sinceTick[s]
      BY <1>7, <1>0 DEF TickerFired, TypeOK
    <2> QED
      BY <1>7, <2>1, <2>5, <2>6, OthersCovered DEF TickerFired
  <1>8. ASSUME NEW r \in Runners, Renewed(r) \/ RenewError(r) PROVE LeaseCovers'
    <2>1. pc[r] = "held" /\ renew[r] = "call"
      BY <1>8, <1>0 DEF Renewed, RenewError, AdapterStates
    <2>2. /\ holder = ProcOf(r) /\ left >= Need(r)
          /\ \A s \in Runners \ {r} : pc[s] \notin {"held", "stopping"}
      BY <2>1, OnlyPoller
    <2>3. /\ pc' = pc /\ renew'[r] = "wait" /\ sinceTick' = sinceTick
          /\ fails'[r] = 0 \/ fails'[r] = fails[r] + 1
      BY <1>8, <1>0 DEF Renewed, RenewError, TypeOK
    <2>4. sinceTick[r] \in 0..MaxLatency /\ fails'[r] \in 0..MaxFailures
      BY <1>8, <1>0, LeaseAssumption
      DEF LeaseAssumption, Renewed, RenewError, WaitsBounded, TypeOK
    <2>5. RenewInterval * fails'[r] \in Nat
      BY <2>4, Multiples
    <2>6. Need(r)' = TTL - MaxLatency - sinceTick[r] - RenewInterval * fails'[r]
      <3>1. pc'[r] = "held" /\ renew'[r] = "wait" /\ sinceTick'[r] = sinceTick[r]
        BY <2>1, <2>3
      <3>2. Need(r)' = TTL - MaxLatency - sinceTick[r] - RenewInterval * fails'[r] - 0
        BY <3>1 DEF Need
      <3>3. TTL - MaxLatency - sinceTick[r] - RenewInterval * fails'[r] \in Int
        BY <2>4, <2>5, LeaseAssumption DEF LeaseAssumption
      <3> QED
        BY <3>2, <3>3
    <2>7. CASE Write(ProcOf(r), sinceTick[r])
      <3>1. holder' = ProcOf(r) /\ left' \in Int /\ left' >= TTL - sinceTick[r]
        BY <1>0, <2>4, <2>7, ProcOfRunner, WriteCovers
      <3>2. left' >= Need(r)'
        BY <2>4, <2>5, <2>6, <3>1, LeaseAssumption DEF LeaseAssumption
      <3> QED
        BY <2>2, <2>3, <3>1, <3>2 DEF LeaseCovers
    <2>8. CASE RenewError(r) /\ UNCHANGED leaseVars
      <3>1. fails'[r] = fails[r] + 1 /\ fails[r] \in 0..MaxFailures
        BY <1>0, <2>8 DEF RenewError, TypeOK
      <3>2. RenewInterval * fails'[r] = RenewInterval * fails[r] + RenewInterval
        BY <3>1, Multiples
      <3>3. RenewInterval * fails[r] \in Nat
        BY <3>1, Multiples
      <3>4. Need(r) = TTL - MaxLatency - sinceTick[r] - RenewInterval * fails[r]
                          - RenewInterval
        BY <2>1 DEF Need
      <3>5. Need(r)' = Need(r)
        BY <2>4, <2>6, <3>2, <3>3, <3>4, LeaseAssumption DEF LeaseAssumption
      <3> QED
        BY <2>2, <2>3, <2>8, <3>5 DEF LeaseCovers
    <2> QED
      BY <1>8, <2>7, <2>8 DEF Renewed, RenewError
  <1>9. ASSUME NEW p \in Procs, Cancel(p) PROVE LeaseCovers'
    BY <1>9, <1>0 DEF Cancel, LeaseCovers, Need
  <1>10. ASSUME NEW p \in Procs, Crash(p) PROVE LeaseCovers'
    BY <1>10, <1>0 DEF Crash, LeaseCovers, Need, TypeOK
  <1>11. CASE Tick
    <2> SUFFICES ASSUME NEW r \in Runners, pc'[r] \in {"held", "stopping"}
                 PROVE  holder' = ProcOf(r) /\ left' >= Need(r)'
      BY DEF LeaseCovers
    <2>1. pc[r] \in {"held", "stopping"} /\ pc' = pc /\ renew' = renew /\ fails' = fails
          /\ holder' = holder
      BY <1>11 DEF Tick
    <2>2. holder = ProcOf(r) /\ left >= Need(r) /\ left >= LeastLeft
      BY <2>1, OnlyPoller
    <2>3. holder # Nobody /\ left > Floor /\ left \in Int
      BY <1>0, <2>2, ProcOfRunner, LeaseAssumption
      DEF LeaseAssumption, TypeOK, LeastLeft, Floor
    <2>4. left' = left - 1
      BY <1>11, <2>3 DEF Tick
    <2>5. CASE pc[r] = "stopping"
      <3>1. timer'[r] = timer[r] + 1 /\ timer[r] \in Nat
        BY <1>11, <1>0, <2>5, LeaseAssumption DEF LeaseAssumption, Tick, TypeOK
      <3> QED
        BY <2>1, <2>2, <2>3, <2>4, <2>5, <3>1, LeaseAssumption
        DEF LeaseAssumption, Need, LeastLeft
    <2>6. CASE pc[r] = "held"
      <3>1. sinceTick'[r] = sinceTick[r] + 1 /\ sinceTick[r] \in Nat
        BY <1>11, <1>0, <2>6, LeaseAssumption
        DEF LeaseAssumption, Tick, TypeOK, AdapterStates
      <3>2. RenewInterval * fails[r] \in Nat
        BY <1>0, Multiples DEF TypeOK
      <3> QED
        BY <2>1, <2>2, <2>3, <2>4, <2>6, <3>1, <3>2, LeaseAssumption
        DEF LeaseAssumption, Need
    <2> QED
      BY <2>1, <2>5, <2>6
  <1>12. CASE UNCHANGED vars
    BY <1>12, <1>0 DEF vars, LeaseCovers, Need
  <1>13. ASSUME NEW r \in Runners, PollReturns(r) PROVE LeaseCovers'
    BY <1>13, <1>0 DEF PollReturns, LeaseCovers, Need
  <1> QED
    BY <1>1, <1>2, <1>3, <1>4, <1>5, <1>6, <1>7, <1>8, <1>9, <1>10, <1>11, <1>12, <1>13
    DEF Next, Runner

\* The inductive invariant.
LEMMA Invariance ==
  ASSUME TimingMargin, OneRunnerEach
  PROVE  /\ Init => IInv
         /\ IInv /\ [Next]_vars => IInv'
  <1>1. Init => IInv
    BY InitTyped DEF Init, IInv, AdapterStates, LeaseCovers
  <1>2. IInv /\ [Next]_vars => IInv'
    BY NextTyped, AdapterStatesStep, LeaseCoversStep DEF IInv
  <1> QED
    BY <1>1, <1>2

\* An adapter takes messages only under a fresh lease of its replica.
THEOREM FreshTheorem ==
  ASSUME TimingMargin, OneRunnerEach
  PROVE  Spec => []ReceiverHoldsFreshLease
  <1>1. Init => IInv
    BY Invariance
  <1>2. IInv /\ [Next]_vars => IInv'
    BY Invariance
  <1>3. IInv => ReceiverHoldsFreshLease
    BY InvImpliesFresh
  <1> QED
    BY <1>1, <1>2, <1>3, PTL DEF Spec

\* At most one adapter takes what the upstream sends.
THEOREM OneReceiverTheorem ==
  ASSUME TimingMargin, OneRunnerEach
  PROVE  Spec => []OneReceiver
  <1>1. Init => IInv
    BY Invariance
  <1>2. IInv /\ [Next]_vars => IInv'
    BY Invariance
  <1>3. IInv => OneReceiver
    BY InvImpliesOne
  <1> QED
    BY <1>1, <1>2, <1>3, PTL DEF Spec
=============================================================================
