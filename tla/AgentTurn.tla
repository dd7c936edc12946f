------------------------------ MODULE AgentTurn -----------------------------
(***************************************************************************)
(* The ReAct loop of internal/agent/loop.go on one conversation:           *)
(* HandleMessage and the goroutines that touch the session beside it (a    *)
(* steer from a chat channel or the web, a group message of another bot).  *)
(* Each turn works on a copy of the history, ctx, that it extends itself;  *)
(* what others append reaches it only through the steers it drains.        *)
(*                                                                         *)
(* HandleMessageStream is the twin for clients of the HTTP API that want   *)
(* the text as it comes: it marks no turn and takes no steers, and a       *)
(* goroutine that outlives it stores the text.                             *)
(*                                                                         *)
(* A step is one critical section of the session, or one model call.       *)
(* Outside the model: quotas, slash commands, plan mode and hooks (they    *)
(* return before the session is touched or only observe), the prompt       *)
(* messages put before the history, and the contents of tool results.      *)
(***************************************************************************)
EXTENDS SessionStore

CONSTANTS
    Worker,        \* the chat's worker, which runs one turn after the other
    Webs,          \* web and API requests, which run a turn beside it
    Sides,         \* threads that steer or inject
    MaxTurns,      \* bound on the turns of a behaviour
    MaxRounds,     \* maxToolIterations
    RoundCalls,    \* bound on the calls of one reply
    KeptTail,      \* messages a compaction keeps (PruneTurnAge)
    MaxEvents      \* bound on all that is not the worker's: web turns,
                   \* steers, group messages, compactions and faults

Turners == {Worker} \cup Webs

ASSUME TurnAssumption ==
    /\ Turners \cup Sides = Threads
    /\ Turners \cap Sides = {}
    /\ Worker \notin Webs
    /\ IsFiniteSet(Threads)
    /\ Calls \subseteq Nat
    /\ MaxEvents < MaxObjects
    /\ {MaxTurns, MaxEvents, MaxRounds, RoundCalls, KeptTail} \subseteq Nat

VARIABLES
    at,        \* where each thread is
    obj,       \* the Session object it holds, or 0
    ctx,       \* its copy of the conversation, for the model
    reply,     \* how the turn's text leaves: "whole", "streamed", or streamed
               \* and still "unsaid" in the history
    todo,      \* calls whose results it has still to append, oldest first
    rounds,    \* iterations of the loop it has done
    turns,     \* turns begun
    nextCall,  \* calls the model has made that the provider named
    events     \* what came between so far

turnVars == <<at, obj, ctx, reply, todo, rounds, turns, nextCall, events>>
convVars == <<sessionVars, turnVars>>

Places == {"idle", "query", "got", "begun", "cutting", "model", "said",
           "called", "results", "drain", "final", "ending", "closing"}

TurnType ==
    /\ SessionType
    /\ at \in [Threads -> Places]
    /\ obj \in [Threads -> Objects \cup {0}]
    /\ ctx \in [Threads -> Histories]
    /\ reply \in [Threads -> {"whole", "streamed", "unsaid"}]
    /\ todo \in [Threads -> Seq(Calls)]
    /\ rounds \in [Threads -> 0..MaxRounds]
    /\ turns \in 0..MaxTurns
    /\ nextCall \in Nat
    /\ events \in 0..MaxEvents

TurnInit ==
    /\ SessionInit
    /\ at = [t \in Threads |-> "idle"]
    /\ obj = [t \in Threads |-> 0]
    /\ ctx = [t \in Threads |-> <<>>]
    /\ reply = [t \in Threads |-> "whole"]
    /\ todo = [t \in Threads |-> <<>>]
    /\ rounds = [t \in Threads |-> 0]
    /\ turns = 0 /\ nextCall = 0 /\ events = 0

Working(t) == at[t] \notin {"idle", "query", "got"} /\ t \in Turners
User == Said("user")

Go(t, place) == at' = [at EXCEPT ![t] = place]

\* What only Get and BeginTurn change.
Unmoved == UNCHANGED <<current, made, holder, fetched, queryOK>>
Quiet   == UNCHANGED <<depth, steerBuf>>
Unsaid  == UNCHANGED <<row, mem, unsaves>>
Still   == Unsaid /\ UNCHANGED marks

Event == events < MaxEvents /\ events' = events + 1

\* Append messages to the session of t, and to its copy.
Add(t, msgs) ==
    /\ AppendTo(obj[t], msgs)
    /\ ctx' = [ctx EXCEPT ![t] = @ \o msgs]

\* Another thread's turn is at work.
Breaks(t) == \E u \in Threads \ {t} : Working(u) /\ obj[u] # 0
Overlap(t) == IF Breaks(t) THEN {"overlapped"} ELSE {}
-----------------------------------------------------------------------------
\* A message starts a turn, or a steer or a group message arrives: sessions.Get.
Arrive(t, ok) ==
    /\ at[t] = "idle"
    /\ IF t \in Turners THEN turns < MaxTurns /\ turns' = turns + 1 ELSE UNCHANGED turns
    /\ IF t = Worker /\ ok THEN UNCHANGED events ELSE Event
    /\ GetQuery(t, ok)
    /\ Go(t, "query")
    /\ reply' \in {reply} \cup {[reply EXCEPT ![w] = "streamed"] : w \in Webs \cap {t}}
    /\ UNCHANGED <<obj, ctx, todo, rounds, nextCall>>

Got(t) ==
    /\ at[t] = "query"
    /\ GetAssign(t, Breaks(t))
    /\ obj' = [obj EXCEPT ![t] = Returned]
    /\ Go(t, "got")
    /\ UNCHANGED <<ctx, reply, todo, rounds, turns, nextCall, events>>

\* HandleMessage marks the turn, so that steers are buffered from here on.
Begin(t) ==
    /\ at[t] = "got" /\ t \in Turners
    /\ IF reply[t] = "whole" THEN BeginTurn(obj[t]) ELSE Quiet
    /\ marks' = marks \cup Overlap(t)
    /\ Go(t, "begun")
    /\ Unmoved
    /\ Unsaid
    /\ UNCHANGED <<obj, ctx, reply, todo, rounds, turns, nextCall, events>>

\* ... stores the user's message and takes a copy of the conversation, which
\* fits, or does not and is compacted: the summary is a model call.
Accept(t) ==
    /\ at[t] = "begun"
    /\ AppendTo(obj[t], <<User>>)
    /\ ctx' = [ctx EXCEPT ![t] = mem'[obj[t]]]
    /\ \/ Go(t, "model") /\ UNCHANGED events
       \/ Go(t, "cutting") /\ Event
    /\ Unmoved /\ Quiet
    /\ UNCHANGED <<marks, obj, reply, todo, rounds, turns, nextCall>>

\* safeCompactionCutoff: the tail never starts with a tool message.
\* (mutant: it starts anywhere)
CutoffAnywhere(h) == Len(h) - KeptTail
Cutoff(h) ==
    CHOOSE n \in 0..Len(h) :
        /\ n >= Len(h) - KeptTail
        /\ n = Len(h) \/ h[n + 1].role # "tool"
        /\ \A m \in 0..n - 1 : m >= Len(h) - KeptTail => h[m + 1].role = "tool"

\* compressOlderMessages: a summary of what comes before the tail.
Compressed(h) ==
    IF Len(h) <= KeptTail THEN h
    ELSE <<User>> \o SubSeq(h, Cutoff(h) + 1, Len(h))

\* CompactMessages prunes contents only, or also compresses; either way the
\* result replaces the session's messages, those that came meanwhile too.
Compact(t) ==
    /\ at[t] = "cutting"
    /\ \E new \in {ctx[t], Compressed(ctx[t])}, ok \in BOOLEAN :
          /\ Replace(obj[t], new, ok)
          /\ ctx' = [ctx EXCEPT ![t] = new]
          /\ marks' = marks
               \cup (IF mem[obj[t]] # ctx[t] THEN {"lateCut"} ELSE {})
               \cup (IF new # ctx[t] THEN {"cut"} ELSE {})
               \cup (IF ok THEN {} ELSE {"uncut"})
    /\ Go(t, "model")
    /\ Unmoved /\ Quiet
    /\ UNCHANGED <<obj, reply, todo, rounds, turns, nextCall, events>>
-----------------------------------------------------------------------------
\* An iteration of the loop is left.  (mutant: there always is)
AsksAlways(t) == at[t] = "model"
AsksModel(t) == at[t] = "model" /\ rounds[t] < MaxRounds

\* The model fails, or answers with nothing: the turn ends.
ModelFails(t) ==
    /\ AsksModel(t)
    /\ Go(t, "ending")
    /\ Unmoved /\ Quiet /\ Still
    /\ UNCHANGED <<obj, ctx, reply, todo, rounds, turns, nextCall, events>>

\* It answers with text.  The copy gets the text only if the turn goes on.
\* HandleMessageStream stores it here when it cannot be streamed.
ModelAnswers(t) ==
    /\ AsksModel(t)
    /\ AppendTo(obj[t], <<Said("assistant")>>)
    /\ Go(t, IF reply[t] = "whole" THEN "said" ELSE "ending")
    /\ Unmoved /\ Quiet
    /\ UNCHANGED <<marks, obj, ctx, reply, todo, rounds, turns, nextCall, events>>

\* Steers that came before the turn was declared done keep it going.
AfterAnswer(t) ==
    /\ at[t] = "said"
    /\ DrainSteer(obj[t])
    /\ IF steerBuf[obj[t]] = <<>>
       THEN Go(t, "ending") /\ Unsaid /\ UNCHANGED <<ctx, rounds>>
       ELSE /\ AppendTo(obj[t], steerBuf[obj[t]])
            /\ ctx' = [ctx EXCEPT ![t] = @ \o <<Said("assistant")>> \o steerBuf[obj[t]]]
            /\ rounds' = [rounds EXCEPT ![t] = @ + 1]
            /\ Go(t, "model")
    /\ Unmoved
    /\ UNCHANGED <<marks, obj, reply, todo, turns, nextCall, events>>

\* The identifiers of the first n calls of a reply: the provider's, new in each
\* reply, or recovered_0, recovered_1, ... of calls found in its text, which
\* are the same in each.
Named(n)     == [i \in 1..n |-> RoundCalls + nextCall + i]
Recovered(n) == [i \in 1..n |-> i]

\* The calls that a history speaks of.
Known(h) == UNION {h[i].calls \cup {h[i].answers} : i \in DOMAIN h}

\* It calls tools.
ModelCalls(t) ==
    /\ AsksModel(t)
    /\ \E n \in 1..RoundCalls : \E cs \in {Named(n), Recovered(n)} :
          /\ ToSet(cs) \subseteq Calls
          /\ Add(t, <<Calling(ToSet(cs))>>)
          /\ todo' = [todo EXCEPT ![t] = cs]
          /\ nextCall' = IF cs = Named(n) THEN nextCall + n ELSE nextCall
          /\ marks' = marks \cup
               (IF ToSet(cs) \cap (Known(mem[obj[t]]) \cup Known(ctx[t])) = {}
                THEN {} ELSE {"reissued"})
    /\ Go(t, "called")
    /\ Unmoved /\ Quiet
    /\ UNCHANGED <<obj, reply, rounds, turns, events>>

\* The same call for the third time (three in one reply are enough): a
\* warning is stored, no tool runs, and the loop is left for the last call.
LoopDetected(t) ==
    /\ at[t] = "called"
    /\ Add(t, <<Said("system")>>)
    /\ todo' = [todo EXCEPT ![t] = <<>>]
    /\ marks' = marks \cup {"looped"}
    /\ Go(t, "final")
    /\ Unmoved /\ Quiet
    /\ UNCHANGED <<obj, reply, rounds, turns, nextCall, events>>

\* The tools have run: every call has a result, an error, or a note that it was
\* deferred beyond the parallel cap, stored one by one in the calls' order.
StoreResult(t) ==
    /\ at[t] \in {"called", "results"}
    /\ Add(t, <<Result(Head(todo[t]))>>)
    /\ todo' = [todo EXCEPT ![t] = Tail(@)]
    /\ Go(t, IF Len(todo[t]) = 1 THEN "drain" ELSE "results")
    /\ Unmoved /\ Quiet
    /\ UNCHANGED <<marks, obj, reply, rounds, turns, nextCall, events>>

\* Between rounds the steers of the meantime join the conversation.
NextRound(t) ==
    /\ at[t] = "drain"
    /\ IF reply[t] # "whole" \/ steerBuf[obj[t]] = <<>>
       THEN Quiet /\ Unsaid /\ UNCHANGED ctx
       ELSE DrainSteer(obj[t]) /\ Add(t, steerBuf[obj[t]])
    /\ rounds' = [rounds EXCEPT ![t] = @ + 1]
    /\ Go(t, "model")
    /\ Unmoved
    /\ UNCHANGED <<marks, obj, reply, todo, turns, nextCall, events>>

\* The iterations are used up (or a loop was detected): one more call without
\* tools, whose text, or a canned line, is stored.
FinalAnswer(t) ==
    /\ at[t] = "final" \/ (at[t] = "model" /\ rounds[t] = MaxRounds)
    /\ AppendTo(obj[t], <<Said("assistant")>>)
    /\ Go(t, "ending")
    /\ Unmoved /\ Quiet
    /\ UNCHANGED <<marks, obj, ctx, reply, todo, rounds, turns, nextCall, events>>

\* HandleMessageStream asks once more, for a stream, and returns it,
StreamsAnswer(t) ==
    /\ at[t] \in {"model", "final"} /\ reply[t] = "streamed"
    /\ reply' = [reply EXCEPT ![t] = "unsaid"]
    /\ Go(t, "ending")
    /\ Unmoved /\ Quiet /\ Still
    /\ UNCHANGED <<obj, ctx, todo, rounds, turns, nextCall, events>>

\* whose text is stored when it is over, unless the client has left.
StreamEnds(t) ==
    /\ reply[t] = "unsaid"
    /\ reply' = [reply EXCEPT ![t] = "streamed"]
    /\ AppendTo(obj[t], <<Said("assistant")>>) \/ Unsaid
    /\ Unmoved /\ Quiet
    /\ UNCHANGED <<marks, at, obj, ctx, todo, rounds, turns, nextCall, events>>
-----------------------------------------------------------------------------
\* The calls of the latest assistant message that has some which no later
\* message answers.  (mutant: all of its calls)
AllCalls(h) ==
    LET callers == {i \in DOMAIN h : Declares(h, i)}
    IN UNION {h[i].calls : i \in {j \in callers : \A k \in callers : k <= j}}
Unanswered(h) ==
    LET callers == {i \in DOMAIN h : Declares(h, i)}
        last    == CHOOSE i \in callers : \A j \in callers : j <= i
    IN IF callers = {} THEN {}
       ELSE h[last].calls \ {h[k].answers : k \in last + 1 .. Len(h)}

\* The calls S of a reply, in the order it makes them.
InOrder(S) == {s \in UNION {[1..n -> S] : n \in 0..RoundCalls} :
                  ToSet(s) = S /\ \A i, j \in DOMAIN s : i < j => s[i] < s[j]}

\* padOrphanToolResults, deferred first: one result for each of them, appended
\* after all that was said since.
Pad(t) ==
    /\ at[t] = "ending"
    /\ \E calls \in InOrder(Unanswered(mem[obj[t]])) :
          AppendTo(obj[t], [i \in DOMAIN calls |-> Result(calls[i])])
    /\ Go(t, "closing")
    /\ Unmoved /\ Quiet
    /\ UNCHANGED <<marks, obj, ctx, reply, todo, rounds, turns, nextCall, events>>

\* flushLeftoverSteer: the turn ends; steers nobody drained are parked.
Finish(t) ==
    /\ at[t] = "closing" /\ reply[t] # "unsaid"
    /\ IF reply[t] = "whole" THEN EndTurn(obj[t]) ELSE Quiet
    /\ IF reply[t] # "whole" \/ Leftovers(obj[t]) = <<>>
       THEN Unsaid
       ELSE AppendTo(obj[t], Leftovers(obj[t]))
    /\ reply' = [reply EXCEPT ![t] = "whole"]
    /\ Go(t, "idle")
    /\ obj' = [obj EXCEPT ![t] = 0]
    /\ ctx' = [ctx EXCEPT ![t] = <<>>]
    /\ rounds' = [rounds EXCEPT ![t] = 0]
    /\ Unmoved
    /\ UNCHANGED <<marks, todo, turns, nextCall, events>>
-----------------------------------------------------------------------------
\* SteerInbound and SteerWeb: buffered if a turn runs; the caller submits it
\* as a message of its own otherwise.
Steer(t) ==
    /\ at[t] = "got" /\ t \in Sides
    /\ PushSteer(obj[t], User) \/ (depth[obj[t]] = 0 /\ Quiet)
    /\ Go(t, "idle")
    /\ obj' = [obj EXCEPT ![t] = 0]
    /\ Unmoved /\ Still
    /\ UNCHANGED <<ctx, reply, todo, rounds, turns, nextCall, events>>

\* InjectGroupMessage: what another bot said is stored at once.
Inject(t) ==
    /\ at[t] = "got" /\ t \in Sides
    /\ AppendTo(obj[t], <<User>>)
    /\ marks' = marks \cup (IF Breaks(t) THEN {"injected"} ELSE {})
    /\ Go(t, "idle")
    /\ obj' = [obj EXCEPT ![t] = 0]
    /\ Unmoved /\ Quiet
    /\ UNCHANGED <<ctx, reply, todo, rounds, turns, nextCall, events>>

\* The agent is rebuilt under the running turns.
Rebuild ==
    /\ Event
    /\ NewManager
    /\ marks' = marks \cup
         (IF \E t \in Threads : at[t] # "idle" THEN {"twoObjects"}
          ELSE IF Unsaved(row) THEN {"forgotten"} ELSE {})
    /\ UNCHANGED <<at, obj, ctx, reply, todo, rounds, turns, nextCall>>

\* The process dies; the row stays as it is.
Crash ==
    /\ Event
    /\ \E t \in Threads : at[t] # "idle"
    /\ DropObjects
    /\ marks' = marks \cup {"crashed"}
    /\ at' = [t \in Threads |-> "idle"]
    /\ obj' = [t \in Threads |-> 0]
    /\ ctx' = [t \in Threads |-> <<>>]
    /\ reply' = [t \in Threads |-> "whole"]
    /\ todo' = [t \in Threads |-> <<>>]
    /\ rounds' = [t \in Threads |-> 0]
    /\ UNCHANGED <<row, mem, unsaves, made, turns, nextCall>>

\* The steps a thread takes once it has begun.
Proceed(t) ==
    \/ Got(t) \/ Begin(t) \/ Accept(t) \/ Compact(t)
    \/ ModelFails(t) \/ ModelAnswers(t) \/ AfterAnswer(t) \/ ModelCalls(t)
    \/ LoopDetected(t) \/ StoreResult(t) \/ NextRound(t)
    \/ StreamsAnswer(t) \/ StreamEnds(t) \/ FinalAnswer(t) \/ Pad(t) \/ Finish(t)
    \/ Steer(t) \/ Inject(t)

TurnNext ==
    \/ \E t \in Threads : (\E ok \in BOOLEAN : Arrive(t, ok)) \/ Proceed(t)
    \/ Rebuild
    \/ Crash

TurnSpec == TurnInit /\ [][TurnNext]_convVars
-----------------------------------------------------------------------------
(***************************************************************************)
(* Properties.                                                             *)
(***************************************************************************)

\* What may lose messages that were stored, see SessionStore.
Losses == {"stale", "unloaded", "twoObjects", "uncut"}

\* The stored history only grows, whoever appends to it and however many turns,
\* reloads, crashes and saves that fail interleave (Session.Append saves the
\* whole array from memory, Get replaces the memory), but for one of Losses.
\* Only a compaction rewrites it, and that keeps what was said last, whether it
\* had been saved or not, unless the compaction was overtaken.
HistoryGrows ==
    [][marks' \cap Losses = {}
         => \/ IsPrefix(row, row')
            \/ \E t \in Threads :
                  /\ Compact(t)
                  /\ "lateCut" \in marks' \/ Last(row') = Last(mem[obj[t]])]_convVars

AtModel(t) == at[t] \in {"model", "final"}

\* Two saved over each other, or a Get took back what a turn goes on from, so
\* that a call may be answered twice or lost, or a result stands apart from its
\* call.
Tangled   == marks \cap {"stale", "overlapped", "twoObjects", "undone"} # {}
Displaced == marks \cap {"looped", "injected", "crashed", "forgotten"} # {}

\* Every request built for Anthropic pairs calls with results, whatever a
\* detected loop, a group message, a crash or a save that failed did to the
\* history (anthropic.go:61-69), and wherever a compaction cut it.  But turns
\* that overlap or go on in a Session object that was replaced, and a Get that
\* takes back what was appended meanwhile or never saved, may answer a call
\* twice; a compaction may cut between a call and a displaced result; and the
\* sweep for the results of a call that lost one takes those of an earlier call
\* with the same recovered identifier too.
AnthropicAccepts ==
    ~Tangled /\ ~(Displaced /\ marks \cap {"cut", "reissued"} # {})
        => \A t \in Turners :
              AtModel(t) => WellFormed(ctx[t], KeptByAnthropic(ctx[t]))

\* So does every request built for OpenAI (openai.go:92-101), as long as no
\* result was separated from its call: padOrphanToolResults appends at the end
\* of the history, and the scan looks at the messages right after the call.
OpenAIAccepts ==
    ~Tangled /\ ~Displaced
        => \A t \in Turners :
              AtModel(t) => WellFormed(ctx[t], KeptByOpenAI(ctx[t]))

\* A steer that was accepted waits for a turn that will still drain it or park
\* it (PushSteerIfActive against EndTurn, manager.go:487-548): turns that
\* overlap, a rebuilt agent or a failed load do not strand it in its buffer.
NoSteerStranded ==
    \A o \in Objects : steerBuf[o] # <<>>
        => \E t \in Turners : /\ obj[t] = o /\ reply[t] = "whole"
                            /\ at[t] \notin {"idle", "query", "got"}

\* A call that has a result keeps just one while turns do not overlap, also
\* when the turn that made it was cut off and a later one pads it, and when the
\* results were saved late: two results of one identifier have a message
\* between them that makes the call again.
OneResultPerCall ==
    ~Tangled
        => \A k, l \in DOMAIN row :
              /\ row[k].role = "tool" /\ row[l].role = "tool"
              /\ row[k].answers = row[l].answers /\ k < l
              => \E i \in DOMAIN row : k < i /\ i < l /\ row[l].answers \in row[i].calls
=============================================================================
