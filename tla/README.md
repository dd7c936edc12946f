# A verification of FastClaw

FastClaw is a multi-agent gateway in Go. Messages arrive from IM services, the
web dashboard, an HTTP API and a cron scheduler; a router hands them to per-chat
queues; an agent runs a ReAct loop of model calls and tools for each of them and
the answer goes back where the message came from. Several replicas of the gateway
may run over one database (PostgreSQL or SQLite) and optionally one Redis.

This directory holds TLA+ models of the parts of that program whose correctness
depends on order: queues, leases, locks, timers and rows that are read, changed
and written back. Each module is translated from the source it names in its
header; `PROJECT.json` maps every definition to the lines it stands for, lists the
runs of TLC, the theorems TLAPS proves, the hazards found in the code and the
disagreements between code and documentation.

To reproduce, with TLC, TLAPS and the community modules on the path:

    tlc -config TaskQueue_core.cfg TaskQueue     # any row of the table of runs
    tlapm TaskQueue_proofs.tla

## 1. Inventory

### Parts that are modelled

| Part | Source (under `internal/`) | State | Operations | Modules |
|---|---|---|---|---|
| Task queue | `taskqueue/queue.go` | task table, one buffered channel and worker per chat, a semaphore, last-used times | Submit, the worker loop, executeTask, idle janitor, RecentTasks and pruning, Stop | TaskQueue, ChatExecutor |
| Channel lease | `channels/lease.go`, `rediscoord/lease.go`, the lease queries of `store/database.go` | one row or key per bot; per runner the adapter, the renewal goroutine and its ticker | Acquire, Renew, Release, retry, shutdown, crash | ChannelLease |
| Cron scheduler | `cron/scheduler.go`, cron queries of `database.go`, `setup/handlers_cron.go`, `agent/tools/cron.go` | table `cron_jobs`; per replica the due list, the job in hand, the timer and a notify token | poll, lock, channel check, fire, reschedule, miss, drop, sleep, create, delete, toggle | CronScheduler |
| Goal loop | `agent/goal`, `goal_hook.go`, `slash_goal.go`, `tools/goal.go`, the turn in `loop.go` | row of `agent_goals`, the bus, the chat's queue, steering buffer, the threads that handle messages | `/goal` commands, routing, steering, a turn's rounds, accounting, completion, continuation | GoalLoop |
| Session manager | `session/manager.go` | row of `sessions`; per Session object its messages, turn depth and steering buffer | Get with its reload, Append, ReplaceMessages, BeginTurn, EndTurn, PushSteerIfActive, DrainSteer, a manager made anew | SessionStore |
| Agent turn | `agent/loop.go`, `agent/compaction.go` | per turn its Session object, its copy of the history, calls without results | rounds, results, steers, detected loops, failed calls, padding, compaction, streamed answers, group messages, crashes | AgentTurn |
| Requests of the providers | `provider/openai.go`, `provider/anthropic.go` | none | which messages and calls of a history a request keeps | WireFormat |
| Event hub and log | `agent/events.go`, `agent/event_hub.go`, `setup/handlers.go` | `session_events`, subscribers and their channels, the two HTTP handlers that read them | emit, store, publish, subscribe, replay, forward, drain, leave | EventStream |
| Message bus | `bus/bus.go` | per replica a source and a consumer channel; the Redis stream, the group's cursor and pending entries | send, publish, read, hand on, acknowledge, receive, crash | MessageBus |
| Channel registry | `channels/manager.go`, `gateway/channels.go`, `gateway/routing.go`, `gateway/dedup.go`, `setup/handlers_agent_channels.go` | a bot's row, its route, claimed tokens, adapters and their lease loops, the dedup map | connect, disconnect, update, restart, receive, route, forget, an expired token | ChannelRegistry |
| Sandbox pools | `sandbox/*.go`, `agent/tools/file.go` | a file in the store, on the host and in each sandbox; pool, last-used and hydrated maps | exec, hydrate, copy back, evict, release, file tools, expiry, restart | SandboxPool |
| User spaces | `gateway/userspace.go`, `gateway/reload.go` | settings, the registry of spaces, what each space holds, the sandbox pool | get, getOrLoad, EnsureAgent, invalidate, evictIdle, InvalidateAgent, ReloadSandbox | UserSpaces |

How they interact. Adapters that hold a channel lease put messages on
`bus.Inbound`; so do the cron scheduler and the goal loop. With Redis the bus
spreads what is not bound to a process over the replicas. One router goroutine
per process takes messages off, drops those it has seen, finds the user's space
and agent, steers the message into a running turn of the same chat if there is
one, and otherwise submits a task. The queue's worker calls
`Agent.HandleMessage`, which reads and writes the session, calls the model with
what the provider's client makes of the history, runs tools (in the chat's
sandbox, or on the workspace store) and, after each model call and at the end of
the turn, writes the goal's row. Its events go through the hub to the browser, its
answer over `bus.Outbound` to the adapter that has the route. Web requests call
`HandleMessage` or `HandleMessageStream` from their own goroutine, beside the
queue. Everything that replicas share is in the database (or, for leases and the
bus, in Redis).

The models meet at narrow interfaces. AgentTurn is composed with SessionStore and
WireFormat: one module extends the next. GoalLoop takes from TaskQueue that a
chat's messages are handled one by one in order (the `queue` and `Worker` of
GoalLoop); AgentTurn has the same worker, and web turns beside it. CronScheduler's
bus is a counter whose only effect is that it fills; ChannelLease says which
replica's adapter feeds the bus, ChannelRegistry what a process does with the
adapters it has. UserSpaces says when an agent is rebuilt under its turns
(`Rebuild` of AgentTurn) and when the sandbox pool is replaced (`RestartPool` of
SandboxPool). ChatExecutor is what the rest of the gateway expects from the task
queue, and TaskQueue is checked against it. `Replica` puts the parts of one
process under one specification for TLC; they share no variable, so a behaviour
follows one of them.

What is not modelled is listed in section 6.

## 2. The modules

Conventions. Names are the source's where TLA+ allows it. One action is one
critical section, query or channel operation of the code together with what
follows up to the next one. A comment `(mutant: ...)` marks an operator that
alters the one after it the way a slip in the code would; it is used by no
specification, and `PROJECT.json` says which property notices it. Time is never a
clock: the models keep ages and times to go, and a `Tick` advances all of them. A
`Tick` waits for steps that are due, which says that a goroutine that can run
does so before minutes (queue, cron) or the store's latency (lease) have passed.

### TaskQueue and ChatExecutor

`ChatExecutor` says in 30 lines of actions what a caller may rely on: one running
task per chat, started in order of submission, at most MaxConcurrent in all, every
submitted task served until shutdown.

`TaskQueue` has the code's objects. A `chatQueue` and its worker are named by the
task whose Submit created them, so that the old worker of a removed queue and the
new one of its chat can be told apart. Submit is two actions, because the code
unlocks before it sends. Receiving from a full channel with Submit blocked on it
moves the blocked task into the buffer in the same step, as Go's runtime does, and
the semaphore serves its waiters first come, first served. Taking a slot and marking
the task running are two steps: `executeTask` takes `q.mu` only once it has the slot, so
that of two workers that hold slots either may be first. The janitor, the
pruning goroutine that `RecentTasks` starts, and Stop may come at any moment the
code allows: Submit's only caller, the router, has returned before `Gateway.Run`
calls Stop.

### ChannelLease

One bot, any number of replicas, `PerProcess` runners in each. The constant Redis
selects the store: the database compares `expires_at` with the time the call was
made and may revive an expired row; in Redis an expired key is gone. The several
commands of a Redis Acquire are one step. A call takes effect with its reply;
an error may come after the effect. A Renew cut short by cancellation has no
effect. An adapter told to stop returns from Start within MaxStop, and the
lease is released then; its last long poll may stay open beside that (`tail`), up to
MaxPoll, until it times out or the next holder's `getUpdates` ends it (PollReturns).
Nobody reads what it brings, so the properties speak of the adapters that receive. A
restarted process is another member of Procs. A process that
sleeps for longer than MaxLatency between two steps of its own is excluded: no
lease without fencing tokens survives that.

### CronScheduler

Every replica runs `pollStore`: list the due jobs, then lock, check, fire and reschedule
each of them, then sleep until the next is due. Occurrences of a job are numbered, so that
firing the same one again can be told from firing the next. The order of the due list is
left open. The agent's tool creates and deletes jobs and notifies the scheduler of its own
process; the dashboard edits a job by reading the row, setting `enabled` to what the
request says, which may be what it was, and upserting the whole row, which inserts it
again if it has been deleted between; or the save fails. Crashes, a failing query at each
place, a channel that is absent and a bus that is full happen within the bounds. Jobs of a
scheduler without a store (`runInterval`, `runExact`, `runCronExpr`) and
`NextOccurrenceIn` are not in the model: it has once and interval jobs.

### GoalLoop

The chat's worker and any number of web handlers are threads that walk through
`HandleMessage`; messages are kinds. A row is read and written in separate steps,
as in the code, so that a command, an accounting hook and the `update_goal` tool
may interleave. The router's check for a running turn decides between steering
and the queue. `/new` and `/reset` delete the goal as `clear` does. A failed store
query, a failed or empty model answer and a refused turn are faults; each ends the
turn the way the code ends it, without `PostTurn` where the code returns before
it. A budget is a constant: `/goal` leaves `token_budget` null today
(TokenBudget = 0), and the code after it (`Exhausted`) is checked with a budget of
two calls.

### WireFormat, SessionStore and AgentTurn

A history is a sequence of messages that have a role, the calls they make and the
call they answer. `WireFormat` gives, for each provider, the positions of a
history that a request keeps, and says what the APIs demand of them: each call has
its result in the run of tool messages after it, each result a call, one result
per call. `findOrphanToolCalls` makes up for histories with holes while a request
is built; the history itself stays as it is.

`SessionStore` is one row and the Session objects that write it as a whole. A save may
fail: its error is dropped, memory has the messages and the row has them with the
next save that succeeds, or never, if a Get comes before it.
`Get` is two steps, because it queries the row before it takes the object's lock:
between them another thread may append. A query that fails leaves a cached object
alone and starts a new one empty. The manager belongs to an agent object; when
the agent is rebuilt, running turns keep the old Session, and the next `Get` makes
a second one for the same row.

`AgentTurn` is `HandleMessage` between these two: the chat's worker runs one turn after
the other, web turns run beside it (each as `HandleMessage`, or as `HandleMessageStream`,
which marks no turn, takes no steers, and leaves its text to a goroutine that outlives
it), and other threads steer or inject what another bot said in a group. Each turn extends
its own copy `ctx` of the history; the model is asked with that copy. The calls of a reply
have new identifiers (Named), or, when they were recovered from its text, those that every
such reply uses (Recovered). A turn ends with text, out of rounds, with a detected loop,
with a failed call, or with the process; `padOrphanToolResults` runs in all but the last.
Several Appends without a lock in between that could be taken by another thread's read are
one step; so are Append and the `GetMessages` after it.

Some things that happen are not survived by the history. The variable `marks`
remembers them, no action reads it, and each property names the marks it holds
without:

| Mark | What happened |
|---|---|
| stale | a Get assigned an answer older than the row |
| unloaded | a Get could not load the row and started empty |
| twoObjects | the manager was replaced while threads held the old object |
| undone | a Get took back, from a turn at work, messages that had not been saved |
| forgotten | messages that had not been saved were taken back between turns, or died with the process or the old manager |
| uncut | the save of a compaction failed |
| lateCut | a compaction replaced messages it had not seen |
| cut | a compaction summarised messages |
| reissued | a reply's calls had identifiers that the history knew already |
| looped | a detected loop left calls without results |
| injected | a group message came between a call and its result |
| overlapped | a turn began beside another one |
| crashed | the process died in a turn |

What each property holds without: HistoryGrows stale, unloaded, twoObjects and uncut,
and lateCut for what a compaction keeps; OneResultPerCall the four of `Tangled`, stale,
overlapped, twoObjects and undone; OpenAIAccepts those and the four of `Displaced`,
looped, injected, crashed and forgotten; AnthropicAccepts those of Tangled, and Displaced
together with cut or reissued. Each exception was taken out alone, and TLC found a
counterexample (some need a third turn), but for stale in the three last properties and
twoObjects in OneResultPerCall: a stale Get that took something from a turn was always
undone or forgotten too. These two are kept because the proof uses them.

### EventStream

Any number of emitters (the turn a POST started, continuations, cron turns, turns
of other tabs) store an event, copy the list of subscribers, and send to each of
them outside the lock; a full channel is skipped, a closed one panics, which ends
the behaviour (`dead`). The POST's handler returns when a `done` passes, when its
turn is over and the channel drained, or when its client leaves; the page's
handler subscribes, replays what was stored after the event it resumes from, and
skips what it was already sent. Numbers start at 1 here and 0 stands for an event
that was not stored; the code starts at 0 and uses -1.

### MessageBus

One direction of the bus, with Redis. A message stays in its process (web, API) or goes
through the stream. A stream entry is trimmed, read by one consumer of the group, handed
on when the consumer's channel has room, and acknowledged. XADD may fail, or be done and
sent again because its answer was lost (`go-redis` retries by default): a copy of the
message, which `origin` tells from other messages, is then in the stream as well. A read's
answer may be lost, an acknowledgement may fail, a process may die; the next process has a
new consumer name, so that what was pending at the old name is read by nobody. What a
fault takes is collected in `lost`.

### ChannelRegistry

One bot account of a platform (Telegram, WeChat and the rest differ in how tokens
are claimed and whether a lease runs the adapter), the dashboard's requests as
sequences of steps (write the row, read it back, register), the adapters, and
the messages they receive. Unregistering takes the route away and cannot stop an
adapter that polls, so that several adapters may receive a message; the dedup map
lets one of them through and forgets after 60 seconds. The database statements are
those the code calls, including one that cannot find anything (see section 5).
Registering, also at the start of a process, may fail to read the row or to make the
adapter (`NewTelegram` asks Telegram for the bot, after the token was claimed); the
request succeeds all the same. `mishaps` collects crossing requests, a route that does
not fit the row because an adapter was not made (unbuilt) or because its token had been
claimed before in this process (reclaimed), and an expired token; the next adapter that
is made clears all but the first.

### SandboxPool

One chat, one file, three deployments: Docker over a local store (one copy),
Docker over S3 (a host directory beside the store), and remote sandboxes (a disk
each). A content is the number of the write that made it and its size, because the
copy back skips a file whose size is that of the stored one. Steps are those
between the pool's lock: `getInner` marks the chat as hydrated before it hydrates;
eviction clears the maps, flushes and releases in separate steps, whether or not
calls run. `harm` is for the sandbox what `marks` are for the history:

| Harm | What happened |
|---|---|
| aside | a file tool wrote to the store beside a copy in use |
| sameSize | a copy back skipped a new content of the stored size |
| inUse | an eviction, an expiry or a restart overlapped a call |
| raced | a call wrote while another hydrated or carried a snapshot, failed to hydrate beside another, or both recreated an expired sandbox |
| failed | a copy to the store failed |
| unflushed | a directory was left that the store does not have |

Each of the six was shown to be necessary by a run without it.

### UserSpaces

One agent, its owner and other users who chat with it. A space caches the agent's
settings, as a version, and the sandbox pool; finding a space and stamping it, loading,
attaching a shared agent and the walk of `InvalidateAgent` over the spaces are steps of
their own. A turn keeps the space it was given, also after the space was dropped, and
remembers the pool of the moment it asked. `laggard` remembers the one race that leaves
a registered space behind: an attach that had read the old settings and finished after
the walk had passed its space.

### Replica

The union of AgentTurn, EventStream, MessageBus, ChannelRegistry, SandboxPool and
UserSpaces. Its actions are the parts' next-state relations, each leaving the
other parts alone.

## 3. The runs

| Run | Bounds | Properties |
|---|---|---|
| taskqueue_core | 2 chats, 3 tasks, 2 slots, buffer 1, handlers up to twice the idle timeout | TypeOK, SlotsAccounted, NoTaskLost, NoSendOnClosed, UnfinishedListed, NoOvertaking, EveryTaskFinishes |
| taskqueue_serial | 2 chats, 4 tasks, a slot for each chat, handlers no slower than the idle timeout | SerialPerChat, ImplementsExecutor |
| taskqueue_overlap | 3 chats share 2 slots | SerialPerChat is violated |
| lease_redis | 2 replicas, TTL 8, intervals 2, latency 1, stop 1, last poll 2, one failed call in a row | TypeOK, OneReceiver, ReceiverHoldsFreshLease, Takeover |
| lease_outage | database, TTL 6 = 3 renewal intervals, three failed calls in a row | EvictedStops |
| lease_partition | as lease_outage | OneReceiver is violated |
| cron_single | 1 scheduler, a once and an interval job, bus of 1, one each of crash, failed query, edit, outage | TypeOK, OncePerOccurrence, SleepsPrecisely |
| cron_replicas | 2 schedulers, an interval job run twice, one crash, one failed query | LockExcludes, DueJobFires |
| cron_duplicate | 2 schedulers, nothing fails | OncePerOccurrence is violated |
| goal_shared | worker and one web handler, bus of 1, budget 2, 2 rounds a turn, 3 inputs, 2 goals, one fault | TypeOK, NeverOverbilled, BilledExactly, PromptsAreAccounted, StatusIsOrderly, LoopEnds |
| goal_stalls | worker alone, one input, nothing fails | LoopGoesOn is violated |
| replica_parts | see below | TypeOK, NoSteerStranded, AnthropicAccepts, OpenAIAccepts, OneResultPerCall, HistoryGrows, ReplayJoinsLive, PostHearsTheEnd, TakenOnceInOrder, NothingVanishes, ConnectedIsRoutable, RoutedOnce, WorkSurvives, SpacesAreCurrent |

The bounds of replica_parts, part by part. Conversation: the worker, one web turn, one
thread that steers; 2 turns, 1 round and a final call each, 2 calls a reply (new ones, or
recovered ones with the same identifiers), 2 events (web turn, steer, group message,
compaction, failed query, failed save, rebuild, crash), 3 Session objects, a tail of 3
messages kept by a compaction. Events: the turn and one other emitter, 2 events in all,
channels of 1. Bus: 2 replicas, 3 messages, channels of 1, a stream of 2, reads of 2, 1
fault (a copy counts as a message). Channels: each of 3 platforms, 2 owners, 2 tokens, 3
requests of which 2 at a time, 3 adapters, 1 message, 1 restart or expired token. Sandbox:
3 deployments, 2 calls at a time, 2 sizes, 3 writes, 3 sandboxes, 2 mishaps. Spaces: 2
users, 2 turns and 1 admin at a time, 2 spaces, 2 versions of the settings, 2 pools. The
constraint `StillPromised` leaves a sandbox behind once it has come to harm, and a
conversation once turns are Tangled and messages were lost as well: past that only
NoSteerStranded asks for anything. A tangled conversation makes at most one new call in
the run, which HistoryGrows can do without, and failed saves count among the events. The
theorems need none of this.

### What they show

*Task queue.* Whatever the janitor removes, no task is lost or handed out twice,
the semaphore is exact, no task of a chat starts over an older one that still waits for
a slot, even while two workers serve it (two that hold slots race for `q.mu`), and
Submit's send outside the lock never meets a closed channel. The
last one rests on the buffer: a send that blocks keeps the buffer non-empty, and
the janitor leaves such a queue alone; a send that does not block follows the
renewal of `lastUsed` at once. Where each chat has a slot and handlers are no
slower than the idle timeout, the queue implements `ChatExecutor`, liveness
included. Where they are not (taskqueue_overlap), a chat is served twice at a
time: the janitor sees an old `lastUsed` and an empty buffer and not the task in
the worker's hands. The code's defaults make this possible for a task that waits
for a slot and runs for longer than the idle timeout in all.

*Channel lease.* With the timing margin

    (MaxFailures + 1) * RenewInterval + 2 * MaxLatency + MaxStop <= TTL  (TTL - 1 for Redis)

one adapter takes messages, under a lease that is fresh, through failures, shutdown and
teardown, however long the last poll of the one before stays open; and after a crash or a
failed Release a standby takes over. lease_redis uses the least TTL that has the margin.
The code's own numbers, a TTL of three renewal intervals, have room for one failed renewal
and not for a third attempt that comes at the very expiry (the comment at lease.go:26
counts it in). lease_partition leaves the margin: renewals that fail are logged and the
adapter takes messages after its row has expired and gone to another replica. lease_outage
shows what remains true then: the evicted adapter is stopped in the end, and its last poll
with it.

*Cron.* One scheduler fires an occurrence once, and once more at most for each
crash, failed write and overlapping edit, whether the edit disables the job, enables it
or leaves it as it was; it sleeps no longer than to the
`next_run` of every enabled job while its queries succeed, but for jobs the dashboard
has saved enabled, which may be due earlier than it knows; two keep a job
in one hand at a time, and a due job fires whoever died with its lock. But two
healthy replicas fire an occurrence twice (cron_duplicate): the lock does not look
at `next_run` again, so a replica that works off an older due list locks a job the
first has already fired, rescheduled and unlocked.

*Goal loop.* A goal never pays for calls made for another one, even after it was
cleared and set anew in the middle of a turn, because UpdateGoal writes by ID. While
messages are handled one at a time and the store works, every call is billed
exactly once and the status only moves forward or by command. Prompts do not
multiply, with the bus full or not, and once a goal is not active its prompts run
out. The loop may however stop by itself (goal_stalls): the continuation is on
the bus before the turn that published it has ended, and if the router is quick it
steers the continuation into that very turn, which parks it in the history and
starts nothing.

*Conversation.* Whatever a turn's fate, and whichever saves fail, the Anthropic client
never sends a call without its result, nor a result without its call, unless turns
overlapped, went on in a Session that had been replaced, or lost to a Get what they had
appended. Only where a result stands apart from its call may a compaction cut between the
two, or a recovered identifier that repeats make the client's sweep take the results of
an earlier call as well. The OpenAI client promises the same only
while no result is separated from its call: it does not look beyond the messages
right after the call, and results for interrupted calls are appended at the end of
the history, behind whatever was said since (Displaced names the four ways).
The row only grows, but for a failed load, a reload that was overtaken, two Session
objects, and a compaction that was not saved; a compaction rewrites it and keeps what
was said last, unless it was overtaken. A call
is answered once, also when a later turn pads what an earlier one left open, and also
when its identifier is used again: then the history makes the call again before it is
answered again. A steer that was accepted is never stranded.

*Events.* The page gets every stored event once and in order, and a hole is an event
still on its way, or one kept from it by a full channel, a failed replay or a second
emitter whose later event was published first. The POST, whichever of its two
channels it hears first, does not miss the last word of its turn.

*Bus.* No entry is received twice although acknowledgements fail and consumers die, and a
message is received twice only if its XADD was repeated; each replica receives its share
in order, and nothing is dropped for lack of room; what is lost is lost to a named fault.

*Channels.* A bot with a row has a route that speaks with the row's token from each
adapter that is made for it until one cannot be made, a token is skipped or expires, or
requests cross; a registration that fails takes no route away that fits. A message
received by several adapters is routed once per time the process has forgotten it.

*Sandbox.* Through evictions, expiries and restarts between calls, and through calls
that share a sandbox, the next call finds what was written last, in each
deployment, unless one of the six harms came to pass.

*User spaces.* Once a change is announced, the space a lookup finds has it, but for the
one race of an attach. The registered space has the current pool, and what a user is
handed has the pool of the moment he asked or a later one; it may be closed by the time he
has it, because `get` lets go of the registry before it stamps the space. Two turns that
miss a space at once share the one that is loaded.

### Why the bounds are enough

The smallest instance in which each hazard occurs was taken, and one more of
whatever is cheap. Overlap and removal in the queue need one chat whose queue is
created twice and a task beside it: three tasks, buffer 1 (with capacity 1 a
second send blocks). Fairness of the semaphore needs as many waiters as there are
chats. The lease is symmetric in its replicas and a third is a second standby; the
theorems cover any number. The parts of replica_parts were also run alone at
other bounds, without errors: the conversation with 4 objects, and, with one event
and one failed save, with 3 turns (1.5 million states) or 2 rounds (1.1 million); events
with 3 emissions and channels of 2 (18 million); the bus with 4 messages and 2 faults
(5.4 million); the sandbox without the constraint
(7.9 million) and with one more write, box and mishap; spaces with 3 space objects
(1.4 million). A once and an interval job are the two kinds of
reschedule; two occurrences are needed to see an old due list meet a new one. Two
goals with a web handler are needed for a write that comes after a clear and a
create; two rounds for a turn that goes on and ends by limit; a bus of one for a
dropped prompt. No symmetry reduction is used, because most runs check liveness
or step properties. Deadlock is not an error in these runs: replicas may all be
down, jobs all done and users silent. Liveness is checked where it is a promise.

### Fairness

* Queue: the router's send and each worker's steps are weakly fair: goroutines
  that can run do. A handler returns because its context has a deadline. Nothing
  obliges time to pass, messages to arrive or Stop to come. `ChatExecutor` asks for
  strong fairness of starting a chat's turn; the queue provides it, since the
  semaphore's waiters are served in order.
* Lease: runners and time. No replica has to start, stop or crash, no adapter has
  to exit. Errors are bounded in a row (MaxFailures), not in all.
* Cron: schedulers (a crashed replica is restarted by its supervisor), the router,
  a handler between read and save, and time. Nobody has to create jobs.
* Goals: the router, the worker and every thread's next step; model calls and
  tools return or time out. Nobody has to send anything.
* replica_parts is about safety only and assumes no fairness.

## 4. What is proved

TLAPS checks every proof to its last leaf. All constants are arbitrary, within the
modules' assumptions.

*TaskQueue_proofs.* `TypeCorrect`: Spec => []TypeOK. `SlotsTheorem`: the semaphore
counts exactly the workers between acquire and release and never exceeds
maxConcurrent. `SendTheorem`: Submit never sends on a closed channel. None of
these is inductive alone. The invariant `IInv` adds to TypeOK

* NamesFresh: a queue name above `seq` is untouched and nothing
  refers to it, so a new queue starts open;
* RegisteredOpen: the queue a chat is registered with is not closed;
* BuffersBounded: no buffer exceeds its capacity;
* SenderProtected: while Submit is between its unlock and its send, the buffer it
  sends to is full or `lastUsed` of its queue is recent,
  which is why the janitor passes it over;
* the slots' equation itself.

The proof has a lemma for each conjunct and, under it, a case for each action that
can disturb it. It uses that a Tick waits for a send that can go ahead; without
that (a router descheduled for the idle timeout of five minutes) the theorem is
false.

`NoTaskLostTheorem` and `UnfinishedListedTheorem` have an invariant of their own on top
of it, PlaceInv: a task is in one place (Once), its status says which (Stated), whatever
holds a task has a worker that has not left (Manned), and an unfinished task is
somewhere until Stop (Somewhere). Stated is what makes RecentTasks' pruning harmless,
and Manned what the janitor's removal could break.

The third invariant, SerialInv, is about whose turn it is: a queue holds its own chat's
tasks (Keyed), is registered until it is closed and is empty when closed (Retired), the
semaphore's line is exactly the workers that wait (InLine), of one chat the older task
first (ByTurns), a running task is in a worker's hands (InHand), and what a chat has
buffered is younger than what its workers hold (ByAge). From it `OrderTheorem` follows
without further assumption: a task that starts while an older one of its chat is pending
finds that one with a slot too, never still in the line. (That two workers of one chat
hold slots at once does not happen in the bounds of taskqueue_core before one has marked
its task; the theorem covers it.) The other two assume what the deployment must provide,
`RoomForAll`: no more chats than slots, and TaskTimeout =< IdleTimeout. Then a worker that
waits finds a slot free (SlotIsFree counts: the slots' holders are workers of the other
chats, one each), so no time passes while it waits, and `lastUsed` is never staler than
the handler's call is long (Punctual, the last conjunct, stated as an implication from
RoomForAll); hence the janitor closes only queues whose worker has nothing to do, and a
chat has one worker with work. `SerialTheorem` is SerialPerChat, and `ExecutorTheorem`
says that the queue starts as ChatExecutor does and that each of its steps is one of
ChatExecutor or a stutter. Shutdown needs care in both: workers give up their places in
the line, and what they held may start no more.

*ChannelLease_proofs.* `TypeCorrect` for every value of the intervals with
MaxLatency < RenewInterval. `FreshTheorem` and `OneReceiverTheorem`, for any number
of replicas and either store, under TimingMargin and OneRunnerEach (one runner per
replica and bot). `IInv` is TypeOK with WaitsBounded (no wait outlasts its bound,
by the urgency of Tick), AdapterStates (in which states of its runner an adapter
runs) and LeaseCovers: a runner whose adapter runs has a lease of its replica with
at least the time left that its remaining attempts to renew, their latency and
its stop may take. That last one is a sum that shrinks by one with each Tick and
by a renewal interval with each failure; the products in it are hidden behind the
lemmas Multiples and MarginInMultiples, since the solver does linear arithmetic.
No assumption bounds the last poll: MaxPoll is not part of TimingMargin, because what
the margin protects ends when Start returns.

*GoalLoop_proofs.* `TypeCorrect`; `OverbilledTheorem`, for any interleaving of web
turns, commands and the worker's turns; `ExactTheorem` and the step property
`OrderlyTheorem`, while messages are handled one at a time. `IInv` says of a
thread's copy of the row that what it bills was spent on the goal of its ID
(CopiesCovered, which survives staleness because what was spent never shrinks),
that a thread about to write holds a row in the status its command asked for
(HoldsRow), that with one thread at work the copy is the row (OneAtWork,
CopyIsCurrent) and the account balanced (Balanced), and that nothing was spent on
a goal not yet set (Numbered, FutureUnspent). The lemma Effects first reduces the
twelve actions of a thread to seven effects on the row, the copy and the account;
every conjunct is then shown to be preserved effect by effect. `PromptsTheorem` has an
account of its own, PromptsPaid: what is on the bus and in the queue, and one more while
the thread at work may still publish (CanPrompt), is no more than what was sent. A
continuation is published by a thread's last step, and a wrap-up by the step that ends
the goal's activity, so neither leaves the thread another one (PromptEffects).

*AgentTurn_proofs.* `CallsAnsweredTheorem` is about every history, whatever turns made
it: what the OpenAI client leaves in a request has each call answered right after the
message that makes it. It rests on RunsDisjoint: a tool message is in the run of one
assistant message only, so what is dropped with an orphan was not the answer to
another's call. (The reverse, that each result left in has its call, is false: see
OpenAIAccepts.) The theorems about turns hold for any number of threads, objects, turns
and crashes; each has the invariant of the one before it under its own:

* SteerInv, for `NoSteerStrandedTheorem`. A buffer that is filled only during a turn is
  not inductive by itself; the invariant needs that `turnDepth` counts exactly the turns
  between BeginTurn and EndTurn on that object (Counted, with the library's facts about
  cardinalities), that a thread keeps its object from its Get to its end (Held), also
  when the manager is replaced, and that only turns get as far as BeginTurn (SidesWait).
* FlowInv, for `TurnTypeTheorem`: histories hold messages, and where a thread is says
  which of its variables may be set.
* LossInv, for `HistoryGrowsTheorem`: until the manager is replaced under a thread, all
  threads hold the object of its map (OneObject), and until something is lost that
  object holds the row and perhaps more (RowHeld: the row is a prefix of its messages,
  since a save may have failed), so what is saved over the row continues it.
* CalmInv, for `OneResultPerCallTheorem`. Where the row is behind, the text of the
  conversation (Text) is what the cached object has. While turns take turns and go on
  from what they read (not Tangled), one thread works (OneTurn) on an object that has
  its message at least (HasText), and the row, the text and each turn's copy are Regular:
  between two results of one identifier there is a message that makes the call, and
  what a turn still has to answer has no result after the last such message. Until an
  identifier is reissued, each call is also made only once, before its result
  (DistinctCopies).
* PairInv, for `OpenAITheorem`. While moreover nothing comes between a call and its
  results (not Displaced), each result is in the run of its call and each call but the
  pending ones has one (Paired), and a turn that stores results finds the message that
  made the calls followed by results only (Open).
* DeclInv, for `AnthropicTheorem`: each result has a call somewhere before it (Declared),
  unless a history whose results were displaced was cut by a compaction or made a call
  again (Estranged). That is enough,
  because the client's sweep takes calls without results out first.

No induction over a history is needed. A step joins messages to a history (Joined) or
cuts it to a tail with a summary in front (Cut); lemmas say what either leaves of
Regular, Paired, Declared, Open and Announced, and OpenAIFits and AnthropicFits what a
history of that kind makes of a request.

*Pools_proofs.* Three registries. For channels, `RoutedOnceTheorem`: the handled count
of a message is the number of times it was forgotten, and one more while it is
remembered (Tallied). `ConnectedIsRoutableTheorem`: as long as nothing of `mishaps` has
happened, at most one request is under way (Uncrossed), and it finds the row as it left it
(Settled), so the route fits the row except between a request's two writes. A
registration that makes no adapter changes no route, so that it either finds one that
fits or is a mishap, and one that makes an adapter is the last word on the row. The
number of adapters is unbounded; a new one gets a number not in use.
`RegistryTypeTheorem` is the type of these variables.

For user spaces, `SpacesAreCurrentTheorem`, for any number of users, turns, admins, spaces
and pools. The invariant says why a stale load cannot be registered after the
announcement: a turn that loads holds the lock that every announcement needs (Loading), so
what it read is current or an announcement is still to come; and each registered space
that has older settings is on the list of a walk under way (SoonCurrent), unless the
laggard attached them. Owned says that a registered space belongs to its user and has the
current pool; Shared, that a turn's space is its user's registered one or was dropped;
PoolAsked, that the space a turn has was made with the pool of the moment it asked or a
later one. `SpacesTypeTheorem` needs that what is registered, dropped, listed or held was
made, and that who attaches has read (RangeInv).

For sandboxes, `WorkSurvivesTheorem`, for any number of callers, writes and sandboxes.
WorkInv says what holds without a harm, deployment by deployment: no eviction runs
beside a call and none of the calls outlives its executor (Undisturbed); over a local
store the sandbox is alive and nothing is copied (Local, Mounted); over S3 the host
directory is empty or up to date, and so is the store whenever the directory may be
filled from it (Docker); a remote sandbox that is alive is up to date, and the store is,
unless a call still carries the work there (Remote). `SandboxTypeTheorem` needs that an
executor past getInner was made, also if its sandbox is gone.

*CronScheduler_proofs.* `OnceTheorem` and `SleepTheorem` assume OneScheduler: run
cron_duplicate shows that the first needs it, and a job created in one replica notifies no
other. OncePerOccurrence counts what went wrong (Total) against what was fired. The
invariant Paid says how the account stays balanced: an occurrence that may yet be fired,
because the row, the list or the hand still has it (Pending) or because the dashboard
holds an old copy of the row (Edited), is paid for before it is fired. So a Fire turns a
pending occurrence into a fired one, a crash or a failed reschedule leaves it pending and
pays for that itself, and a save that brings an old row back spends what its toggle paid.
ListedOnce (the only scheduler has a job once in its list or its hand) and HandedOut (no
occurrence is listed before the row had it) support it. For SleepsPrecisely,
GetNextDueTime's minimum is taken from the library's well-founded order (LeastExists); a
job that the dashboard saves enabled may be due before the timer, and is in `saved` from
then on. `CronTypeTheorem` is for any finite number of replicas and needs FewMisses: a
third miss leaves its scheduler at the drop, having given the lock back, so that others
may count a miss as well; a job is missed at most twice, and once more for each scheduler
about to drop it, each crash and each failed call. `LockTheorem` is for any number of
replicas; it assumes that the bus has room whenever a job is fired, so that no time passes
with a job in hand, and MaxToggles = 0, because a save may insert the row of a job that
was deleted meanwhile, unlocked.

*Delivery_proofs.* For the message bus, `NothingVanishesTheorem`, for any number of
replicas, messages and faults and any sizes: every message is in the source or consumer
channel of a replica, in its batch, taken, in the part of the stream not yet read, or in
`lost`. What has to be added is that the trimmed part of the stream that was never read is
in `lost` (TrimmedLost), since a read skips it. MaxLen > 0, or XADD would trim what it
adds. `TakenTheorem` is TakenOnceInOrder. OrderInv puts what a replica has taken, its
consumer channel and the rest of its batch on one line (OneLine): a message is on the line
of one replica, once, and in the order of the stream (LineInTurn), where it stands once
too (StreamOnce). A copy of an entry has a number of its own and is of a message that goes
to the stream (CopiesShared), so a message taken twice has two entries. What still has to
be sent is not in the stream (SourceFirst). `BusTypeTheorem` bounds every channel and
batch (SizeInv).

For the event stream, `PostHearsTheEndTheorem`, for any number of emitters and events.
Forward in time the argument is: the POST is subscribed before its turn begins and until
it returns (Subscribed); once the last word of the turn has passed the POST in the
emitter's list, it is in the POST's channel or has been seen (HearsWord), unless that
channel was full; the same holds for the first event (HearsFirst), which decides between
"no response" and a drained end. Over says that an emitter that has ended has nothing
under way. `ReplayTheorem` is ReplayJoinsLive. PageInv follows an event from the moment it
is stored: it is shown, waits in the page's channel, is in `missed`, or is still being
emitted (NoHole). An emitter that is past the page in its list has delivered, which holds
only because the page is attached before it replays (PageAttached, Delivered), and what a
channel holds out of order is in `missed` before the page's comparison with `since` skips
it (LateIsMissed). `StreamTypeTheorem` bounds the channels (RoomInv).

*Replica_proofs.* `PartsTheorem`: a behaviour of Replica is one of each of its parts, since
a step of one leaves the others alone. With it what was proved of the parts holds of
the process: `ReplicaTypeTheorem` is TypeOK, `ReplicaConversation` and `ReplicaDelivery`
are the other thirteen properties of replica_parts, for every value of the constants
and without the constraint StillPromised, which only bounds TLC's run.

So each invariant and each step property that a passing run checks is also a theorem;
some under the assumptions named above, which the runs' constants meet.

*Model-checked only.* Liveness (EveryTaskFinishes, Takeover, EvictedStops,
DueJobFires, LoopEnds) and the fairness of the refinement ImplementsExecutor, which
needs ENABLED (its safety part is proved).

## 5. Disagreements between code and documentation

Four runs are expected to find a violation; PROJECT.json quotes the lines. Further
ones that were met while modelling and have no run:

* A bot saved again while it runs gets a second runner beside the first with the
  same holder ID (`channels/manager.go:139`): both poll, and the Release of one
  removes the row the other relies on. FreshTheorem and OneReceiverTheorem assume
  OneRunnerEach.
* Telegram's Start returns while its last long poll of up to 60 seconds is open
  (`channels/telegram.go:73-81`), and the lease is released then. `claimBot` of the next
  holder ends that poll (`telegram.go:226`); until somebody starts, the bot is polled
  without a lease, with nobody to read what comes.
* Two tasks of one chat whose workers both hold a slot are marked and handled in
  whichever order they get `q.mu` (`taskqueue/queue.go:165`, `:173`).
* The branch `renewExit` of runWithLease never calls Release, against the comment
  at `channels/lease.go:57`. The row is another holder's there, except after a
  cancellation, when a standby has to wait for the TTL.
* Three misses in a row delete a job. The comment at `cron/scheduler.go:65` counts
  them in minutes; a due row that cannot fire keeps the scheduler from sleeping, so
  three misses take no time.
* A scheduler blocked on a full bus outlasts its lock; another replica takes the
  job, and the first one's UpdateCronJobRun clears the other's lock.
* The third miss of a job clears its lock before the row is deleted
  (`cron/scheduler.go:250`, `:260`). A replica whose own manager has the channel may lock
  and fire the job in between; LockExcludes therefore leaves out the deletion.
* The dashboard's upsert brings back a once job that fired, or a job that was
  deleted, between its read and its save (`setup/handlers_cron.go:72`). Enabling a
  job notifies no scheduler.
* A cron expression without a match in 48 hours is put off by one hour and then
  fires, at a time it does not name.
* goal_hook.go:28 says that after a failed write "the next call will see the same
  delta and retry"; the tokens of that call are lost. The final synthesis that
  ends a turn out of rounds runs no accounting hook.
* `/goal pause`, sent while a turn runs, over an IM channel, is steered into the
  turn as text. With a web turn beside the worker, a command and an accounting
  hook overwrite each other's row: a pause is lost, or a complete goal is active
  again. StatusIsOrderly and BilledExactly therefore speak of messages handled one
  at a time (`~overlapped`).
* A failed, empty or refused turn and a full bus end the goal's loop though the
  goal stays active; the comment at `agent/goal/continue.go:23` relies on the next
  PostTurn, which nothing brings about.
* session/manager.go:523 says "Callers redispatch the leftovers as a fresh turn";
  flushLeftoverSteer parks them in the history.
* Steering reorders: a message that arrives after a turn has begun is handled in
  it, before messages already in the queue.
* Conversation. The error of SaveSession is dropped (`session/manager.go:472`, `:591`);
  the next Get takes the older row for the truth, in the middle of a turn also, and what
  was said since is forgotten without a trace. The pad for an interrupted call goes to the
  end of the history, so that after a detected loop, a crash or an injected group message
  the OpenAI client sends a result whose call it has dropped; compaction.go:108 says of an
  assistant message at the cut that "its tool replies (if any) come AFTER it in the tail",
  which a displaced result is not. HandleMessageStream marks no turn, so that a steer
  finds no turn and a second message overlaps it; its text is stored by a goroutine,
  possibly after the next message, and not at all if the client has left. Undo truncates
  the file and not the row, and the next Get takes the row back. The IDs of recovered
  calls (`recovered_%d`, tool_recovery.go:138) are used again in later rounds; where one
  of them lost its result, the Anthropic client's sweep drops the call and takes the
  results of the earlier ones of that ID for orphans, or leaves them without a call.
* Events. handlers.go:1328 says that an event is seen by replay or live, "never both,
  never lost"; with a second emitter, or a full channel, an event stored before the one
  published is lost to the page. A send to a subscriber that has just left panics
  (event_hub.go:73 copies the list, and no one recovers). The comment at
  handlers.go:1121 says the 15-minute cap is the only thing that can end the turn;
  `defer cancel()` ends it with the request. The comment at handlers.go:1314 prefers
  the Last-Event-ID header; `?since` overrides it. handleChatHistory reads the history
  before the number it tells the page to resume from.
* Bus. Entries pending at a dead consumer are read by nobody. An XADD whose answer was
  lost is sent again, and the message may be handled by two replicas, each with a dedup
  map of its own. Inbound messages of a chat
  may go to different replicas, so that the queue's order per chat is one per process.
  isDuplicate remembers a message before it is known whether it can be routed.
* Channels. LookupChannelByCredential (database.go:3477) answers ErrNotFound in every
  case, so the check that a bot belongs to one owner never refuses. The purge of an
  expired WeChat account looks in another table than the one that has the row; the row
  stays, and the lease loop starts the dead adapter again. Disconnecting and connecting a
  Telegram bot with the same token in one process leaves it without a route until a
  restart, and so does a `getMe` that fails after the token was claimed (telegram.go:34),
  though the request that connected the bot succeeds. Updating a bot writes back the row
  it read, which brings back one that was deleted meanwhile. WeChat's cursor is saved
  before the messages are dispatched.
* Sandbox. write_file and edit_file on a relative path write to the store; a sandbox
  with a copy does not see it, and may carry its old copy back over it.
  mirrorCodingWriteToSandbox is meant to mend this, but asks the executor for an
  interface that lazyExecutor does not have. A change that keeps a file's size is never
  copied back. Eviction does not count calls in use; Release and CloseAll copy nothing
  back; CloseAll waits forever if Start was never called.
* User spaces. reload.go:24 says that after InvalidateAgent the next turn has the new
  settings; a space that was being attached while the walk passed keeps the old ones. A
  user whose lookup found a space before ReloadSandbox dropped it is handed the space with
  its pool closed (userspace.go:996-1003).

## 6. Not modelled

* *Pure functions and lookups*: cron expressions and the quota window are calendar
  arithmetic inside a library or an SQL statement, policy and privacy are patterns,
  routing by binding or mention, scopes and credentials are lookups of rows. They have
  no state of their own and no steps to interleave; tables of examples test them better
  than a model would.
* *What happens outside*: adapters' and providers' I/O, tools, MCP servers and plugins,
  containers, dev servers of projects, object storage. In the models a call of theirs
  ends, late, with a result or an error. Streaming parsers and wire formats other than
  the pairing of calls and results are left out.
* *Turns*: slash commands other than `/goal`, `/new` and `/reset`, hooks, plan mode,
  sub-agents, heartbeat, memory and skills. They are prompts, files, and turns like the
  ones modelled. The per-turn fields that `bindSession` writes into a registry shared by
  concurrent chats are listed as a hazard: each field is a data race of its own.
* *Servers*: users, authentication and the API are handlers over the store without state
  beyond the request; those that start turns, connect bots, edit cron jobs or change
  settings are actions of the modules. The statements of the store that matter are
  operators of the modules that call them; the rest of `database.go` is CRUD.
* *The rest of modelled parts*: jobs of a scheduler without a store; several files in a
  sandbox and chats of a project that share one; session titles, deletion and the web
  history; the Go memory model (a lock is a lock).
* *User interface, CLI, configuration, deployment*: read for how the server is driven.
