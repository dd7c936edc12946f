----------------------------- MODULE EventStream ----------------------------
(***************************************************************************)
(* The events of one chat on their way to the browser.  A turn emits each  *)
(* event by storing it in session_events, which numbers it, and then by    *)
(* publishing it to the subscribers of the chat (emitEvent in              *)
(* internal/agent/events.go, internal/agent/event_hub.go).  Two HTTP       *)
(* handlers of internal/setup/handlers.go subscribe: the POST that started *)
(* the turn (handleChatStream), which decides when its response is over,   *)
(* and the page's event source (handleChatSubscribe), which first replays  *)
(* what was stored.  Other emitters of the chat, a continuation, a cron    *)
(* turn or a turn of another tab, publish to the same subscribers.         *)
(*                                                                         *)
(* An envelope is its number (0 for one that was not stored) and its kind; *)
(* what an event carries is left out.                                      *)
(***************************************************************************)
EXTENDS Integers, Sequences, FiniteSets, SequencesExt, Functions

CONSTANTS
    Turn,         \* the emitter that the POST started
    Others,       \* other emitters of the chat
    Post, Page,   \* the two subscribers
    BufferSize,   \* of a subscriber's channel (32)
    MaxEmits      \* bound on the events all of them emit

Emitters == {Turn} \cup Others
Readers  == {Post, Page}
Kinds    == {"content", "delta", "turn_pending", "done"}
LastWords == {"turn_pending", "done"}   \* of a turn that is over
Unstored == 0

ASSUME StreamAssumption ==
    /\ Turn \notin Others
    /\ Post # Page
    /\ {BufferSize, MaxEmits} \subseteq Nat \ {0}

VARIABLES
    eventLog,    \* session_events: the kinds, by number
    listening,   \* the subscribers in the hub's list
    closedChans, \* those whose channel was closed
    chan,        \* the channel of each subscriber
    emitting,    \* where each emitter is in emitEvent, and with what
    emits,       \* how many events each has begun
    ended,       \* how each emitter ended, or "no"
    cut,         \* agentCtx was cancelled
    post,        \* handleChatStream
    page,        \* handleChatSubscribe
    shown,       \* numbers the page was sent, in order
    missed,      \* numbers the page did not get: its channel was full, a
                 \* later one was published first, or its replay failed
    overflowed,  \* subscribers whose channel was full when an event came
    dead         \* a send on a closed channel has panicked

streamVars == <<eventLog, listening, closedChans, chan, emitting, emits, ended,
                cut, post, page, shown, missed, overflowed, dead>>

Envelope == [seq : Nat, kind : Kinds]
NoEvent  == [at |-> "idle", seq |-> Unstored, kind |-> "done", to |-> {}]

StreamType ==
    /\ eventLog \in Seq(Kinds)
    /\ listening \subseteq Readers
    /\ closedChans \subseteq Readers \ listening
    /\ \A r \in Readers : chan[r] \in Seq(Envelope) /\ Len(chan[r]) <= BufferSize
    /\ emitting \in [Emitters -> [at : {"idle", "stored", "sending"}, seq : Nat,
                                  kind : Kinds, to : SUBSET Readers]]
    /\ emits \in [Emitters -> Nat]
    /\ ended \in [Emitters -> {"no", "silent"} \cup LastWords]
    /\ cut \in BOOLEAN
    /\ post \in [at : {"loop", "drain", "returned"}, turnPending : BOOLEAN,
                 waitsForTurn : BOOLEAN, forwardedAny : BOOLEAN,
                 why : {"", "done", "agentDone", "noResponse", "gone"}]
    /\ page \in [at : {"off", "subscribed", "live", "left"}, from : Nat, since : Nat]
    /\ shown \in Seq(Nat)
    /\ missed \subseteq Nat
    /\ overflowed \subseteq Readers
    /\ dead \in BOOLEAN

\* The POST subscribes before it starts the turn.
StreamInit ==
    /\ eventLog = <<>>
    /\ listening = {Post}
    /\ closedChans = {}
    /\ chan = [r \in Readers |-> <<>>]
    /\ emitting = [e \in Emitters |-> NoEvent]
    /\ emits = [e \in Emitters |-> 0]
    /\ ended = [e \in Emitters |-> "no"]
    /\ cut = FALSE
    /\ post = [at |-> "loop", turnPending |-> FALSE, waitsForTurn |-> TRUE,
               forwardedAny |-> FALSE, why |-> ""]
    /\ page = [at |-> "off", from |-> 0, since |-> 0]
    /\ shown = <<>>
    /\ missed = {}
    /\ overflowed = {}
    /\ dead = FALSE

ReadersUnchanged == UNCHANGED <<listening, closedChans, cut, post, page, shown>>
EmittersUnchanged == UNCHANGED <<eventLog, emitting, emits, ended, overflowed, dead>>
-----------------------------------------------------------------------------
\* emitEvent stores the event, which fails under a cancelled context and may
\* fail otherwise; a delta is never stored.
Emit(e, kind) ==
    /\ emitting[e].at = "idle" /\ ended[e] = "no"
    /\ FoldFunction(+, 0, emits) < MaxEmits
    /\ emits' = [emits EXCEPT ![e] = @ + 1]
    /\ \E stored \in BOOLEAN :
          /\ stored => kind # "delta" /\ ~(e = Turn /\ cut)
          /\ eventLog' = IF stored THEN Append(eventLog, kind) ELSE eventLog
          /\ emitting' = [emitting EXCEPT ![e] =
                 [at |-> "stored", kind |-> kind, to |-> {},
                  seq |-> IF stored THEN Len(eventLog) + 1 ELSE Unstored]]
    /\ ReadersUnchanged
    /\ UNCHANGED <<chan, ended, missed, overflowed, dead>>

\* Publish copies the list of subscribers under the hub's lock,
Copy(e) ==
    /\ emitting[e].at = "stored"
    /\ emitting' = [emitting EXCEPT ![e].at = "sending", ![e].to = listening]
    /\ ReadersUnchanged
    /\ UNCHANGED <<eventLog, chan, emits, ended, missed, overflowed, dead>>

\* Numbers the page has been given so far.
Given == ToSet(shown) \cup {env.seq : env \in ToSet(chan[Page])}

\* and sends to each of them outside the lock: a full channel is skipped, a
\* closed one panics.
Send(e, r) ==
    /\ emitting[e].at = "sending" /\ r \in emitting[e].to
    /\ emitting' = [emitting EXCEPT ![e].to = @ \ {r}]
    /\ LET seq  == emitting[e].seq
           full == r \notin closedChans /\ Len(chan[r]) = BufferSize
           late == r = Page /\ seq # Unstored /\ \E n \in Given : n > seq
       IN /\ chan' = IF full \/ r \in closedChans THEN chan
                     ELSE [chan EXCEPT ![r] =
                              Append(@, [seq |-> seq, kind |-> emitting[e].kind])]
          /\ overflowed' = IF full THEN overflowed \cup {r} ELSE overflowed
          /\ missed' = IF late \/ (full /\ r = Page) THEN missed \cup {seq} ELSE missed
    /\ dead' = (r \in closedChans)
    /\ ReadersUnchanged
    /\ UNCHANGED <<eventLog, emits, ended>>

\* The emitter goes on, or has said its last word.
Sent(e) ==
    /\ emitting[e].at = "sending" /\ emitting[e].to = {}
    /\ emitting' = [emitting EXCEPT ![e] = NoEvent]
    /\ ended' = IF emitting[e].kind \in LastWords
                THEN [ended EXCEPT ![e] = emitting[e].kind] ELSE ended
    /\ ReadersUnchanged
    /\ UNCHANGED <<eventLog, chan, emits, missed, overflowed, dead>>

\* A turn may also end without a word, or be cut off by its context.
EndSilently(e) ==
    /\ emitting[e].at = "idle" /\ ended[e] = "no"
    /\ ended' = [ended EXCEPT ![e] = "silent"]
    /\ ReadersUnchanged
    /\ UNCHANGED <<eventLog, chan, emitting, emits, missed, overflowed, dead>>
-----------------------------------------------------------------------------
\* The POST returns: its deferred calls cancel the turn's context and remove
\* and close its channel.
PostReturns(why) ==
    /\ post' = [at |-> "returned", turnPending |-> FALSE, waitsForTurn |-> FALSE,
                forwardedAny |-> FALSE, why |-> why]
    /\ listening' = listening \ {Post}
    /\ closedChans' = closedChans \cup {Post}
    /\ chan' = [chan EXCEPT ![Post] = <<>>]
    /\ cut' = TRUE

PostStays(new) == post' = new /\ UNCHANGED <<listening, closedChans, cut>>

PostTakes == chan' = [chan EXCEPT ![Post] = Tail(@)]

\* It forwards what it receives until a "done" passes, its own turn's or
\* another's; turn_pending is kept for itself.
PostReceives ==
    /\ post.at \in {"loop", "drain"} /\ chan[Post] # <<>>
    /\ LET kind == Head(chan[Post]).kind
       IN \/ /\ kind = "turn_pending"
             /\ PostStays([post EXCEPT !.turnPending = TRUE]) /\ PostTakes
          \/ /\ kind = "done"
             /\ PostReturns("done")
          \/ /\ kind \notin LastWords
             /\ PostStays([post EXCEPT !.forwardedAny = TRUE]) /\ PostTakes
    /\ EmittersUnchanged
    /\ UNCHANGED <<page, shown, missed>>

\* agentDone is closed: the select may see it before what is in the channel,
\* (mutant: and returns)
PostLeavesAtOnce ==
    /\ post.at = "loop" /\ post.waitsForTurn /\ ended[Turn] # "no"
    /\ PostReturns("agentDone")
    /\ EmittersUnchanged
    /\ UNCHANGED <<page, shown, missed>>
PostSeesTurnEnd ==
    /\ post.at = "loop" /\ post.waitsForTurn /\ ended[Turn] # "no"
    /\ PostStays([post EXCEPT !.at = "drain"])
    /\ EmittersUnchanged
    /\ UNCHANGED <<chan, page, shown, missed>>

\* so it drains the channel first, and then waits for the continuation or
\* returns, with an error of its own when nothing was said.
PostDecides ==
    /\ post.at = "drain" /\ chan[Post] = <<>>
    /\ \/ /\ post.turnPending
          /\ PostStays([post EXCEPT !.at = "loop", !.waitsForTurn = FALSE])
          /\ UNCHANGED chan
       \/ /\ ~post.turnPending
          /\ PostReturns(IF post.forwardedAny THEN "agentDone" ELSE "noResponse")
    /\ EmittersUnchanged
    /\ UNCHANGED <<page, shown, missed>>

\* The browser leaves, or the 15 minutes are over.
PostGivesUp ==
    /\ post.at = "loop"
    /\ PostReturns("gone")
    /\ EmittersUnchanged
    /\ UNCHANGED <<page, shown, missed>>
-----------------------------------------------------------------------------
\* The page subscribes, to resume after an event it has seen,
PageSubscribes(from) ==
    /\ page.at = "off"
    /\ page' = [at |-> "subscribed", from |-> from, since |-> from]
    /\ listening' = listening \cup {Page}
    /\ EmittersUnchanged
    /\ UNCHANGED <<closedChans, chan, cut, post, shown, missed>>

\* is sent the stored events after it (unless the query fails),
PageReplays ==
    /\ page.at = "subscribed"
    /\ \/ /\ shown' = [i \in 1..Len(eventLog) - page.from |-> page.from + i]
          /\ page' = [page EXCEPT !.at = "live", !.since = Len(eventLog)]
          /\ UNCHANGED missed
       \/ /\ UNCHANGED shown
          /\ page' = [page EXCEPT !.at = "live"]
          /\ missed' = missed \cup DOMAIN eventLog
    /\ EmittersUnchanged
    /\ UNCHANGED <<listening, closedChans, chan, cut, post>>

\* What it was already sent is skipped; what has no number is not compared, and
\* leaves no trace here.  (mutant: the last it was sent is not skipped)
NewOrLast(env) == env.seq # Unstored /\ env.seq >= page.since
IsNew(env) == env.seq # Unstored /\ env.seq > page.since

\* and then what is published, less deltas and what it was already sent.
PageReceives ==
    /\ page.at = "live" /\ chan[Page] # <<>>
    /\ LET env == Head(chan[Page])
       IN IF env.kind # "delta" /\ IsNew(env)
          THEN /\ shown' = Append(shown, env.seq)
               /\ page' = [page EXCEPT !.since = env.seq]
          ELSE UNCHANGED <<shown, page>>
    /\ chan' = [chan EXCEPT ![Page] = Tail(@)]
    /\ EmittersUnchanged
    /\ UNCHANGED <<listening, closedChans, cut, post, missed>>

PageLeaves ==
    /\ page.at \in {"subscribed", "live"}
    /\ page' = [at |-> "left", from |-> 0, since |-> 0]
    /\ listening' = listening \ {Page}
    /\ closedChans' = closedChans \cup {Page}
    /\ chan' = [chan EXCEPT ![Page] = <<>>]
    /\ shown' = <<>>
    /\ missed' = {}
    /\ EmittersUnchanged
    /\ UNCHANGED <<cut, post>>

StreamNext ==
    /\ ~dead
    /\ \/ \E e \in Emitters :
             \/ \E kind \in Kinds : Emit(e, kind)
             \/ Copy(e)
             \/ \E r \in Readers : Send(e, r)
             \/ Sent(e)
             \/ EndSilently(e)
       \/ PostReceives \/ PostSeesTurnEnd \/ PostDecides
       \/ PostGivesUp
       \/ \E from \in 0..Len(eventLog) : PageSubscribes(from)
       \/ PageReplays \/ PageReceives \/ PageLeaves

StreamSpec == StreamInit /\ [][StreamNext]_streamVars
-----------------------------------------------------------------------------
\* The page is sent every stored event between the one it resumed after and
\* the last it was sent, each once and in order (handlers.go:1328-1331): a hole
\* is an event that is still on its way, or was kept from it by a full channel,
\* a failed replay, or another emitter's later event that was published first.
ReplayJoinsLive ==
    /\ \A i, j \in DOMAIN shown : i < j => shown[i] < shown[j]
    /\ page.from + 1 .. page.since \subseteq
          ToSet(shown) \cup missed \cup {emitting[e].seq : e \in Emitters}

\* A POST that returns because its turn is over has not missed the turn's last
\* word, whichever of agentDone and the channel its select saw first
\* (handlers.go:1175-1180), and it reports "no response" only of a turn that
\* said nothing, unless its channel was full.
PostHearsTheEnd ==
    Post \notin overflowed
        => /\ post.why \in {"agentDone", "noResponse"} => ended[Turn] = "silent"
           /\ post.why = "noResponse" => emits[Turn] = 0
=============================================================================
