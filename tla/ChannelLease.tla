----------------------------- MODULE ChannelLease ---------------------------
(***************************************************************************)
(* internal/channels/lease.go with the two lease stores behind it          *)
(* (internal/store/database.go, internal/rediscoord/lease.go): replicas of *)
(* the gateway that share a bot token take turns at polling the upstream.  *)
(* The lease is the one row (or key) of a (channel, accountID).            *)
(*                                                                         *)
(* A runner is one goroutine in runWithLease.  A replica normally has one  *)
(* runner for a bot; saving the bot's settings again starts another, with  *)
(* the same holder ID, because Unregister leaves the first one running.    *)
(*                                                                         *)
(* Time.  One unit for all the intervals; the lease keeps the time it has  *)
(* left.  A Tick waits for the steps that are due, a call to the store is  *)
(* answered within MaxLatency, an adapter told to stop has stopped within  *)
(* MaxStop, and clocks do not drift.  A call's effect comes with its reply *)
(* and the expiry it writes was computed when it was made; Redis computes  *)
(* it when the command arrives.  An error reply may follow an effect.      *)
(*                                                                         *)
(* The upstream.  While Channel.Start runs, what its polls bring goes to   *)
(* the bus.  Start may return before its last poll does: Telegram's leaves *)
(* when its context ends, with a getUpdates of up to 60 s (MaxPoll here)   *)
(* in flight, and the lease is released meanwhile.  Nobody reads what that *)
(* poll brings.  An adapter that polls with its context (WeChat) has       *)
(* MaxPoll = 0.                                                            *)
(***************************************************************************)
EXTENDS Integers

CONSTANTS
    Procs,           \* replicas; a holder ID is the replica's name
    Nobody,          \* the holder when there is no row
    PerProcess,      \* runners a replica may start for the bot
    Redis,           \* TRUE: the Redis leaser; FALSE: the database
    TTL,             \* leaseTTL
    RenewInterval,   \* leaseRenewInterval
    RetryInterval,   \* leaseRetryInterval
    MaxFailures,     \* bound on consecutive failed calls of a runner
    MaxLatency,      \* bound on the time a call takes
    MaxStop,         \* bound on the time an adapter takes to stop
    MaxPoll          \* bound on the time its last poll outlives it

ASSUME LeaseAssumption ==
    /\ Nobody \notin Procs
    /\ PerProcess \in Nat
    /\ Redis \in BOOLEAN
    /\ TTL \in Nat \ {0}
    /\ RenewInterval \in Nat \ {0}
    /\ RetryInterval \in Nat \ {0}
    /\ MaxFailures \in Nat
    /\ MaxLatency \in Nat /\ MaxLatency < RenewInterval
    /\ MaxStop \in Nat
    /\ MaxPoll \in Nat

Runners == Procs \X (1..PerProcess)
ProcOf(r) == r[1]

VARIABLES
    holder,     \* holder_id of the row, Nobody when there is no row
    left,       \* expires_at - now, down to what a call can tell apart
    phase,      \* of a replica: running, its root context cancelled, or gone
    pc,         \* where a runner is in runWithLease
    timer,      \* time since the runner began what it waits for
    branch,     \* which case of the select the runner took
    adapter,    \* Channel.Start is running: what its polls bring is taken
    tail,       \* time left to the last poll of an adapter that was stopped
    renew,      \* the renewUntilLost goroutine: waiting for a tick or calling
    sinceTick,  \* time since its ticker fired
    fails       \* consecutive failed calls

leaseVars == <<holder, left>>
vars == <<leaseVars, phase, pc, timer, branch, adapter, tail, renew, sinceTick, fails>>

Phases == {"up", "cancelled", "down"}
RunnerPC == {"off", "acquire", "retry", "held", "stopping", "release", "over"}
Branches == {"done", "ctx", "renewExit"}

Cancelled(r) == phase[ProcOf(r)] # "up"

Init ==
    /\ holder = Nobody
    /\ left = 0
    /\ phase = [p \in Procs |-> "up"]
    /\ pc = [r \in Runners |-> "off"]
    /\ timer = [r \in Runners |-> 0]
    /\ branch = [r \in Runners |-> "done"]
    /\ adapter = [r \in Runners |-> FALSE]
    /\ tail = [r \in Runners |-> 0]
    /\ renew = [r \in Runners |-> "off"]
    /\ sinceTick = [r \in Runners |-> 0]
    /\ fails = [r \in Runners |-> 0]

-----------------------------------------------------------------------------
(***************************************************************************)
(* The lease stores.  The database compares expires_at with the time the   *)
(* call was made (age units ago); in Redis an expired key is gone.         *)
(***************************************************************************)
Floor == -(MaxLatency + 1)

NeverExpires(age) == FALSE          \* (mutant: the lease written without its TTL)
Expired(age) == IF Redis THEN left <= 0 ELSE left < -age

Fresh == IF Redis THEN left > 0 ELSE left >= 0

AnyoneMay(p, age) == TRUE           \* (mutant: the upsert without its WHERE)
MayAcquire(p, age) == holder \in {Nobody, p} \/ Expired(age)

\* Redis renews only a key that is there; the UPDATE revives an expired row.
MayRenew(p) == holder = p /\ (Redis => left > 0)

Lifetimes(age) == IF Redis THEN {TTL - d : d \in 0..age} ELSE {TTL - age}

KeepExpiry(p, age) ==               \* (mutant: a renewal leaves expires_at)
    /\ holder' = p
    /\ left' \in IF holder = p THEN {left} ELSE Lifetimes(age)

Write(p, age) ==
    /\ holder' = p
    /\ left' \in Lifetimes(age)

\* Release is bounded by the holder ID.
Delete(p) == holder' = IF holder = p THEN Nobody ELSE holder

-----------------------------------------------------------------------------
(***************************************************************************)
(* runWithLease.                                                           *)
(***************************************************************************)
GoTo(r, where) ==
    /\ pc' = [pc EXCEPT ![r] = where]
    /\ timer' = [timer EXCEPT ![r] = 0]

\* Start or registerAndStart: the goroutine begins with Acquire.
Launch(r) ==
    /\ pc[r] = "off" /\ phase[ProcOf(r)] = "up"
    /\ GoTo(r, "acquire")
    /\ UNCHANGED <<leaseVars, phase, branch, adapter, tail, renew, sinceTick, fails>>

\* A granted Acquire starts the adapter and the renewal; the select that
\* follows may find the context cancelled meanwhile, and then both ctx.Done
\* and renewExit are ready.
AcquireGranted(r) ==
    /\ pc[r] = "acquire"
    /\ MayAcquire(ProcOf(r), timer[r])
    /\ Write(ProcOf(r), timer[r])
    /\ adapter' = [adapter EXCEPT ![r] = TRUE]
    /\ fails' = [fails EXCEPT ![r] = 0]
    /\ sinceTick' = [sinceTick EXCEPT ![r] = 0]
    /\ IF Cancelled(r)
       THEN /\ GoTo(r, "stopping")
            /\ \E b \in {"ctx", "renewExit"} : branch' = [branch EXCEPT ![r] = b]
            /\ UNCHANGED renew
       ELSE /\ GoTo(r, "held")
            /\ renew' = [renew EXCEPT ![r] = "wait"]
            /\ UNCHANGED branch
    /\ UNCHANGED <<phase, tail>>

AcquireRefused(r) ==
    /\ pc[r] = "acquire"
    /\ ~MayAcquire(ProcOf(r), timer[r])
    /\ fails' = [fails EXCEPT ![r] = 0]
    /\ GoTo(r, "retry")
    /\ UNCHANGED <<leaseVars, phase, branch, adapter, tail, renew, sinceTick>>

\* An error; the upsert may have been committed before it.
AcquireError(r) ==
    /\ pc[r] = "acquire"
    /\ fails[r] < MaxFailures
    /\ \/ UNCHANGED leaseVars
       \/ MayAcquire(ProcOf(r), timer[r]) /\ Write(ProcOf(r), timer[r])
    /\ fails' = [fails EXCEPT ![r] = @ + 1]
    /\ GoTo(r, "retry")
    /\ UNCHANGED <<phase, branch, adapter, tail, renew, sinceTick>>

\* sleepOrDone.
WakeUp(r) ==
    /\ pc[r] = "retry" /\ ~Cancelled(r)
    /\ timer[r] >= RetryInterval
    /\ GoTo(r, "acquire")
    /\ UNCHANGED <<leaseVars, phase, branch, adapter, tail, renew, sinceTick, fails>>

GiveUp(r) ==
    /\ pc[r] = "retry" /\ Cancelled(r)
    /\ GoTo(r, "over")
    /\ UNCHANGED <<leaseVars, phase, branch, adapter, tail, renew, sinceTick, fails>>

\* The branch ctx.Done: childCancel, which ends the renewal, then "<-done".
Shutdown(r) ==
    /\ pc[r] = "held" /\ Cancelled(r)
    /\ GoTo(r, "stopping")
    /\ branch' = [branch EXCEPT ![r] = "ctx"]
    /\ renew' = [renew EXCEPT ![r] = "off"]
    /\ sinceTick' = [sinceTick EXCEPT ![r] = 0]
    /\ UNCHANGED <<leaseVars, phase, adapter, tail, fails>>

\* The branch done: the adapter returned on its own.
AdapterExit(r) ==
    /\ pc[r] = "held"
    /\ adapter' = [adapter EXCEPT ![r] = FALSE]
    /\ GoTo(r, "release")
    /\ branch' = [branch EXCEPT ![r] = "done"]
    /\ renew' = [renew EXCEPT ![r] = "off"]
    /\ sinceTick' = [sinceTick EXCEPT ![r] = 0]
    /\ UNCHANGED <<leaseVars, phase, tail, fails>>

\* "<-done" after childCancel: Start has returned, its last poll may not have.
\* The branch renewExit does not Release.
Stopped(r) ==
    /\ pc[r] = "stopping"
    /\ adapter' = [adapter EXCEPT ![r] = FALSE]
    /\ tail' = [tail EXCEPT ![r] = MaxPoll]
    /\ GoTo(r, IF branch[r] = "renewExit" THEN "retry" ELSE "release")
    /\ UNCHANGED <<leaseVars, phase, branch, renew, sinceTick, fails>>

\* Release, whose error is only logged.
Release(r) ==
    /\ pc[r] = "release"
    /\ UNCHANGED holder \/ Delete(ProcOf(r))
    /\ GoTo(r, IF branch[r] = "ctx" THEN "over" ELSE "retry")
    /\ UNCHANGED <<left, phase, branch, adapter, tail, renew, sinceTick, fails>>

\* The last poll comes back, on its own or because another one began.
PollReturns(r) ==
    /\ tail[r] > 0
    /\ tail' = [tail EXCEPT ![r] = 0]
    /\ UNCHANGED <<leaseVars, phase, pc, timer, branch, adapter, renew, sinceTick, fails>>

-----------------------------------------------------------------------------
(***************************************************************************)
(* renewUntilLost: the goroutine beside a running adapter.                 *)
(***************************************************************************)
TickerFired(r) ==
    /\ renew[r] = "wait"
    /\ sinceTick[r] >= RenewInterval
    /\ renew' = [renew EXCEPT ![r] = "call"]
    /\ sinceTick' = [sinceTick EXCEPT ![r] = 0]
    /\ UNCHANGED <<leaseVars, phase, pc, timer, branch, adapter, tail, fails>>

Renewed(r) ==
    /\ renew[r] = "call"
    /\ MayRenew(ProcOf(r))
    /\ Write(ProcOf(r), sinceTick[r])
    /\ renew' = [renew EXCEPT ![r] = "wait"]
    /\ fails' = [fails EXCEPT ![r] = 0]
    /\ UNCHANGED <<phase, pc, timer, branch, adapter, tail, sinceTick>>

\* "log and keep trying": the adapter goes on.
RenewError(r) ==
    /\ renew[r] = "call"
    /\ fails[r] < MaxFailures
    /\ \/ UNCHANGED leaseVars
       \/ MayRenew(ProcOf(r)) /\ Write(ProcOf(r), sinceTick[r])
    /\ renew' = [renew EXCEPT ![r] = "wait"]
    /\ fails' = [fails EXCEPT ![r] = @ + 1]
    /\ UNCHANGED <<phase, pc, timer, branch, adapter, tail, sinceTick>>

\* The row is another holder's, or gone: the branch renewExit.
LossIgnored(r) ==                   \* (mutant: ok = false treated as an error)
    /\ renew[r] = "call"
    /\ ~MayRenew(ProcOf(r))
    /\ renew' = [renew EXCEPT ![r] = "wait"]
    /\ UNCHANGED <<leaseVars, phase, pc, timer, branch, adapter, tail, sinceTick, fails>>

LeaseLost(r) ==
    /\ renew[r] = "call"
    /\ ~MayRenew(ProcOf(r))
    /\ renew' = [renew EXCEPT ![r] = "off"]
    /\ sinceTick' = [sinceTick EXCEPT ![r] = 0]
    /\ fails' = [fails EXCEPT ![r] = 0]
    /\ GoTo(r, "stopping")
    /\ branch' = [branch EXCEPT ![r] = "renewExit"]
    /\ UNCHANGED <<leaseVars, phase, adapter, tail>>

-----------------------------------------------------------------------------
(***************************************************************************)
(* Replicas and time.                                                      *)
(***************************************************************************)
\* The root context is cancelled: a graceful shutdown begins.
Cancel(p) ==
    /\ phase[p] = "up"
    /\ phase' = [phase EXCEPT ![p] = "cancelled"]
    /\ UNCHANGED <<leaseVars, pc, timer, branch, adapter, tail, renew, sinceTick, fails>>

\* The replica dies: its goroutines are gone, the row stays.
Crash(p) ==
    /\ phase[p] # "down"
    /\ phase' = [phase EXCEPT ![p] = "down"]
    /\ pc' = [r \in Runners |-> IF ProcOf(r) = p THEN "over" ELSE pc[r]]
    /\ adapter' = [r \in Runners |-> adapter[r] /\ ProcOf(r) # p]
    /\ tail' = [r \in Runners |-> IF ProcOf(r) = p THEN 0 ELSE tail[r]]
    /\ renew' = [r \in Runners |-> IF ProcOf(r) = p THEN "off" ELSE renew[r]]
    /\ sinceTick' = [r \in Runners |-> IF ProcOf(r) = p THEN 0 ELSE sinceTick[r]]
    /\ UNCHANGED <<leaseVars, timer, branch, fails>>

SleepsOn(r) == FALSE                \* (mutant: the retry timer never fires)
RetryDue(r) == pc[r] = "retry" /\ (Cancelled(r) \/ timer[r] >= RetryInterval)

\* A step of the runner is due now.
Due(r) ==
    \/ pc[r] = "acquire" /\ timer[r] >= MaxLatency
    \/ RetryDue(r)
    \/ pc[r] = "held" /\ Cancelled(r)
    \/ pc[r] = "stopping" /\ timer[r] >= MaxStop
    \/ pc[r] = "release"
    \/ renew[r] = "wait" /\ sinceTick[r] >= RenewInterval
    \/ renew[r] = "call" /\ sinceTick[r] >= MaxLatency

Tick ==
    /\ \A r \in Runners : ~Due(r)
    /\ left' = IF holder # Nobody /\ left > Floor THEN left - 1 ELSE left
    /\ timer' = [r \in Runners |-> IF pc[r] \in {"acquire", "retry", "stopping"}
                                   THEN timer[r] + 1 ELSE timer[r]]
    /\ sinceTick' = [r \in Runners |-> IF renew[r] # "off"
                                       THEN sinceTick[r] + 1 ELSE sinceTick[r]]
    /\ tail' = [r \in Runners |-> IF tail[r] > 0 THEN tail[r] - 1 ELSE 0]
    /\ UNCHANGED <<holder, phase, pc, branch, adapter, renew, fails>>

Runner(r) ==
    \/ AcquireGranted(r) \/ AcquireRefused(r) \/ AcquireError(r)
    \/ WakeUp(r) \/ GiveUp(r)
    \/ Shutdown(r) \/ Stopped(r) \/ Release(r)
    \/ TickerFired(r) \/ Renewed(r) \/ RenewError(r) \/ LeaseLost(r)

Next ==
    \/ \E r \in Runners : Launch(r) \/ AdapterExit(r) \/ PollReturns(r) \/ Runner(r)
    \/ \E p \in Procs : Cancel(p) \/ Crash(p)
    \/ Tick

Spec == Init /\ [][Next]_vars

\* Goroutines run and time passes.  Nothing obliges a replica to start, to
\* stop or to crash, or an adapter to exit.
FairSpec == Spec /\ WF_vars(Tick) /\ \A r \in Runners : WF_vars(Runner(r))

-----------------------------------------------------------------------------
\* The type invariant.
TypeOK ==
    /\ holder \in Procs \cup {Nobody}
    /\ left \in Floor..TTL
    /\ phase \in [Procs -> Phases]
    /\ pc \in [Runners -> RunnerPC]
    /\ timer \in [Runners -> 0..RetryInterval \cup 0..MaxLatency \cup 0..MaxStop]
    /\ branch \in [Runners -> Branches]
    /\ adapter \in [Runners -> BOOLEAN]
    /\ tail \in [Runners -> 0..MaxPoll]
    /\ renew \in [Runners -> {"off", "wait", "call"}]
    /\ sinceTick \in [Runners -> 0..RenewInterval]
    /\ fails \in [Runners -> 0..MaxFailures]

\* What the intervals must satisfy: the last renewal a runner may count on,
\* with its latency and that of the write before it, and the time an adapter
\* takes to stop, fit in the TTL.
TimingMargin ==
    (MaxFailures + 1) * RenewInterval + 2 * MaxLatency + MaxStop
        <= IF Redis THEN TTL - 1 ELSE TTL

\* At any time at most one adapter takes what the upstream sends (lease.go:11,
\* "the user would receive every reply twice").  The last poll of the adapter
\* before it may be open beside its own, for MaxPoll, with nobody to read it.
OneReceiver == \A r, s \in Runners : adapter[r] /\ adapter[s] => r = s

\* An adapter takes messages only under a lease of its replica that has not
\* expired, through failed renewals, shutdown and the lost lease's own teardown.
ReceiverHoldsFreshLease ==
    \A r \in Runners : adapter[r] => holder = ProcOf(r) /\ Fresh

\* The upstream is being polled by the runner, read or not.
Polls(r) == adapter[r] \/ tail[r] > 0

\* However long the store was out of reach, a runner that polls on after the
\* lease went to another replica ends its last poll, or gets the lease back.
EvictedStops ==
    \A r \in Runners :
        Polls(r) /\ holder # ProcOf(r) ~> ~Polls(r) \/ holder = ProcOf(r)

\* A standby is served: while it waits an adapter runs sooner or later, unless
\* its own replica goes away.  A crash of the holder, or a Release that fails,
\* delays that by the TTL at most.
Takeover ==
    \A r \in Runners :
        pc[r] \in {"acquire", "retry"} ~>
            (\E s \in Runners : adapter[s]) \/ Cancelled(r)
=============================================================================
