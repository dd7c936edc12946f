----------------------------- MODULE WireFormat -----------------------------
(***************************************************************************)
(* The history of a chat as the providers send it.  A model that calls     *)
(* tools is answered by one "tool" message per call; an API rejects a      *)
(* request in which a call has no result in the messages that follow it,   *)
(* or a result no call.  Histories with holes exist (a turn that was cut   *)
(* off, a loop that was detected, a message that came in between), so both *)
(* providers strip calls without results while they build a request:       *)
(* internal/provider/openai.go (findOrphanToolCalls, toAPIMessages) and    *)
(* internal/provider/anthropic.go (toAnthropicMessages).                   *)
(*                                                                         *)
(* A request is given by the positions of the history it keeps and the     *)
(* calls it leaves at each.  Contents, names and the provider's cached raw *)
(* JSON are left out; "text" says that a message has content of its own.   *)
(***************************************************************************)
EXTENDS Integers, Sequences

CONSTANT Calls        \* identifiers of tool calls
NoCall == 0
ASSUME CallAssumption == NoCall \notin Calls

\* ToolCalls of an assistant, ToolCallID of a tool message.
Message == {m \in [role    : {"user", "assistant", "tool", "system"},
                   calls   : SUBSET Calls,
                   answers : Calls \cup {NoCall},
                   text    : BOOLEAN] : m.calls # {} => m.role = "assistant"}

Histories == Seq(Message)

Said(who)    == [role |-> who, calls |-> {}, answers |-> NoCall, text |-> TRUE]
Calling(C)   == [role |-> "assistant", calls |-> C, answers |-> NoCall, text |-> FALSE]
Result(c)    == [role |-> "tool", calls |-> {}, answers |-> c, text |-> TRUE]

\* The tool messages right after position i of h.
Run(h, i) == {k \in DOMAIN h : k > i /\ \A j \in DOMAIN h :
                                  i < j /\ j <= k => h[j].role = "tool"}

Declares(h, i) == h[i].role = "assistant" /\ h[i].calls # {}

\* An assistant message whose calls are not all answered by its run.
Orphan(h, i) ==
    /\ Declares(h, i)
    /\ \E c \in h[i].calls : \A k \in Run(h, i) : h[k].answers # c

\* A tool message in the run of an orphan, for one of its calls.
OrphanTool(h, k) ==
    \E i \in DOMAIN h : Orphan(h, i) /\ k \in Run(h, i) /\ h[k].answers \in h[i].calls

\* The calls a request leaves at position i.
Left(h, i) == IF Orphan(h, i) THEN {} ELSE h[i].calls

KeptByOpenAI(h) == {k \in DOMAIN h : ~OrphanTool(h, k)}

\* Anthropic takes its system prompt apart, drops an orphan that has nothing
\* else to say, and sweeps the whole list for results of the orphans' calls.
\* (mutant: it does not sweep)
NotSwept(h, k) == FALSE
Swept(h, k) ==
    h[k].role = "tool" /\ \E i \in DOMAIN h : Orphan(h, i) /\ h[k].answers \in h[i].calls

KeptByAnthropic(h) ==
    {k \in DOMAIN h : /\ h[k].role # "system"
                      /\ ~OrphanTool(h, k)
                      /\ ~Swept(h, k)
                      /\ ~(Orphan(h, k) /\ ~h[k].text)}
-----------------------------------------------------------------------------
\* What the APIs demand of a request that keeps the positions K of h.

WireRun(h, K, i) == {k \in K : k > i /\ \A j \in K : i < j /\ j <= k => h[j].role = "tool"}

CallsAnswered(h, K) ==
    \A i \in K : \A c \in Left(h, i) : \E k \in WireRun(h, K, i) : h[k].answers = c

ResultsCalled(h, K) ==
    \A k \in K : h[k].role = "tool"
        => \E i \in K : k \in WireRun(h, K, i) /\ h[k].answers \in Left(h, i)

AnsweredOnce(h, K) ==
    \A i \in K : \A k, l \in WireRun(h, K, i) : h[k].answers = h[l].answers => k = l

WellFormed(h, K) == CallsAnswered(h, K) /\ ResultsCalled(h, K) /\ AnsweredOnce(h, K)
=============================================================================
