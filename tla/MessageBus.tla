------------------------------ MODULE MessageBus ----------------------------
(***************************************************************************)
(* internal/bus/bus.go with Redis: one direction of the message bus among  *)
(* the replicas of a deployment (Inbound and Outbound are two copies of    *)
(* it).  Producers write to the source channel of their own process; the   *)
(* bridge hands a web or api message to the consumer of the same process   *)
(* and adds any other to a Redis stream, from which the replicas read as   *)
(* one consumer group.  The consumer name is made anew by every process,   *)
(* and a consumer asks for new entries only (">").                         *)
(*                                                                         *)
(* A message is its number in the order of sending.  The copy that a       *)
(* repeated XADD leaves in the stream has a number of its own, and names   *)
(* the message it is a copy of.  Payloads, and the entries without a       *)
(* payload that are acked unread, are left out.                            *)
(***************************************************************************)
EXTENDS Integers, Sequences, FiniteSets, SequencesExt

CONSTANTS
    Replicas,
    ChanSize,      \* of the Go channels (100)
    MaxLen,        \* of the stream (10000, approximate)
    BatchSize,     \* entries of one read (10)
    MaxSent,       \* bound on the messages sent and their copies
    MaxFaults      \* bound on faults

ASSUME BusAssumption ==
    /\ {ChanSize, MaxLen, BatchSize, MaxSent, MaxFaults} \subseteq Nat
    /\ MaxLen > 0

Messages == 1..MaxSent

VARIABLES
    origin,     \* of each number: its replica, whether it stays there, the message
    source,     \* Inbound of each replica
    stream,     \* the entries of the stream, those trimmed included
    trimmed,    \* how many of them were trimmed
    cursor,     \* the group's last delivered entry
    unacked,    \* the group's pending entries, of each replica's consumers
    batch,      \* entries the consume loop has still to hand on
    local,      \* inboundConsume of each replica
    taken,      \* what each replica's router received, in order
    lost,       \* messages that a fault took away
    busFaults

busVars == <<origin, source, stream, trimmed, cursor, unacked, batch, local,
             taken, lost, busFaults>>

BusType ==
    /\ origin \in Seq([replica : Replicas, localOnly : BOOLEAN, message : Messages])
    /\ \A r \in Replicas :
          /\ source[r] \in Seq(Messages) /\ Len(source[r]) <= ChanSize
          /\ local[r] \in Seq(Messages) /\ Len(local[r]) <= ChanSize
          /\ batch[r] \in Seq(Messages) /\ Len(batch[r]) <= BatchSize
          /\ unacked[r] \subseteq Messages
          /\ taken[r] \in Seq(Messages)
    /\ stream \in Seq(Messages)
    /\ trimmed \in 0..Len(stream) /\ cursor \in 0..Len(stream)
    /\ lost \subseteq Messages
    /\ busFaults \in 0..MaxFaults

BusInit ==
    /\ origin = <<>>
    /\ source = [r \in Replicas |-> <<>>]
    /\ stream = <<>> /\ trimmed = 0 /\ cursor = 0
    /\ unacked = [r \in Replicas |-> {}]
    /\ batch = [r \in Replicas |-> <<>>]
    /\ local = [r \in Replicas |-> <<>>]
    /\ taken = [r \in Replicas |-> <<>>]
    /\ lost = {}
    /\ busFaults = 0

Fault == busFaults < MaxFaults /\ busFaults' = busFaults + 1
StreamUnchanged == UNCHANGED <<stream, trimmed, cursor, unacked>>
-----------------------------------------------------------------------------
\* A producer blocks while the channel is full.
BusSend(r, localOnly) ==
    /\ Len(origin) < MaxSent /\ Len(source[r]) < ChanSize
    /\ origin' = Append(origin, [replica |-> r, localOnly |-> localOnly,
                                 message |-> Len(origin) + 1])
    /\ source' = [source EXCEPT ![r] = Append(@, Len(origin) + 1)]
    /\ StreamUnchanged
    /\ UNCHANGED <<batch, local, taken, lost, busFaults>>

\* publishInbound: what stays in the process waits for room at its consumer,
\* and all that follows waits with it.  (mutant: it is dropped instead)
PublishOrDrop(r) ==
    /\ source[r] # <<>> /\ origin[Head(source[r])].localOnly
    /\ source' = [source EXCEPT ![r] = Tail(@)]
    /\ local' = IF Len(local[r]) < ChanSize
                THEN [local EXCEPT ![r] = Append(@, Head(source[r]))] ELSE local
    /\ StreamUnchanged
    /\ UNCHANGED <<origin, batch, taken, lost, busFaults>>
PublishLocal(r) ==
    /\ source[r] # <<>> /\ origin[Head(source[r])].localOnly
    /\ Len(local[r]) < ChanSize
    /\ source' = [source EXCEPT ![r] = Tail(@)]
    /\ local' = [local EXCEPT ![r] = Append(@, Head(source[r]))]
    /\ StreamUnchanged
    /\ UNCHANGED <<origin, batch, taken, lost, busFaults>>

\* XADD, with approximate trimming.
Added(m) ==
    /\ stream' = Append(stream, m)
    /\ trimmed' \in trimmed .. (IF Len(stream) + 1 - MaxLen > trimmed
                                THEN Len(stream) + 1 - MaxLen ELSE trimmed)
    /\ lost' = lost \cup {stream[i] : i \in cursor + 1 .. trimmed'}

\* What does not is added to the stream, which may be trimmed to MaxLen, or is
\* dropped with a log line when Redis fails.
PublishShared(r, ok) ==
    /\ source[r] # <<>> /\ ~origin[Head(source[r])].localOnly
    /\ source' = [source EXCEPT ![r] = Tail(@)]
    /\ \/ ok /\ Added(Head(source[r])) /\ UNCHANGED busFaults
       \/ /\ ~ok /\ Fault
          /\ lost' = lost \cup {Head(source[r])}
          /\ UNCHANGED <<stream, trimmed>>
    /\ UNCHANGED <<origin, cursor, unacked, batch, local, taken>>

\* The XADD was done, but its answer is lost on the way: the client, which has
\* the default retries of go-redis, will send the command again.
AddedUnheard(r) ==
    /\ source[r] # <<>> /\ ~origin[Head(source[r])].localOnly
    /\ Len(origin) < MaxSent /\ Fault
    /\ origin' = Append(origin, origin[Head(source[r])])
    /\ Added(Len(origin) + 1)
    /\ UNCHANGED <<source, cursor, unacked, batch, local, taken>>

\* What a read returns: the entries nobody was given.
\* (mutant: first what is pending at this replica)
PendingFirst(r, first, last) ==
    IF unacked[r] # {} THEN SetToSortSeq(unacked[r], <) ELSE SubSeq(stream, first, last)
Entries(r, first, last) == SubSeq(stream, first, last)

\* XREADGROUP ">": the next entries of the group, pending from now on.  The
\* answer may be lost on the way back.
ReadBatch(r, answered) ==
    /\ batch[r] = <<>>
    /\ LET first == (IF trimmed > cursor THEN trimmed ELSE cursor) + 1
           last  == IF first + BatchSize - 1 < Len(stream)
                    THEN first + BatchSize - 1 ELSE Len(stream)
           read  == Entries(r, first, last)
       IN /\ first <= last
          /\ cursor' = last
          /\ unacked' = [unacked EXCEPT ![r] = @ \cup ToSet(read)]
          /\ \/ answered /\ batch' = [batch EXCEPT ![r] = read]
                         /\ UNCHANGED <<lost, busFaults>>
             \/ ~answered /\ Fault /\ lost' = lost \cup ToSet(read)
                          /\ UNCHANGED batch
    /\ UNCHANGED <<origin, source, stream, trimmed, local, taken>>

\* The entry is handed on when the consumer has room, and acknowledged after
\* that; nobody looks at the answer.
HandOn(r) ==
    /\ batch[r] # <<>> /\ Len(local[r]) < ChanSize
    /\ local' = [local EXCEPT ![r] = Append(@, Head(batch[r]))]
    /\ batch' = [batch EXCEPT ![r] = Tail(@)]
    /\ \/ unacked' = [unacked EXCEPT ![r] = @ \ {Head(batch[r])}] /\ UNCHANGED busFaults
       \/ Fault /\ UNCHANGED unacked
    /\ UNCHANGED <<origin, source, stream, trimmed, cursor, taken, lost>>

\* processInbound, or routeOutbound, receives.
TakeMessage(r) ==
    /\ local[r] # <<>>
    /\ taken' = [taken EXCEPT ![r] = Append(@, Head(local[r]))]
    /\ local' = [local EXCEPT ![r] = Tail(@)]
    /\ StreamUnchanged
    /\ UNCHANGED <<origin, source, batch, lost, busFaults>>

\* A process dies and another takes its place under a new consumer name: its
\* channels are empty, and nobody reads what was pending at the old name.
CrashReplica(r) ==
    /\ Fault
    /\ source[r] # <<>> \/ batch[r] # <<>> \/ local[r] # <<>>
    /\ lost' = lost \cup ToSet(source[r]) \cup ToSet(batch[r]) \cup ToSet(local[r])
    /\ source' = [source EXCEPT ![r] = <<>>]
    /\ batch' = [batch EXCEPT ![r] = <<>>]
    /\ local' = [local EXCEPT ![r] = <<>>]
    /\ StreamUnchanged
    /\ UNCHANGED <<origin, taken>>

BusNext ==
    \E r \in Replicas :
        \/ \E localOnly \in BOOLEAN : BusSend(r, localOnly)
        \/ PublishLocal(r)
        \/ \E ok \in BOOLEAN : PublishShared(r, ok)
        \/ AddedUnheard(r)
        \/ \E answered \in BOOLEAN : ReadBatch(r, answered)
        \/ HandOn(r) \/ TakeMessage(r)
        \/ CrashReplica(r)

BusSpec == BusInit /\ [][BusNext]_busVars
-----------------------------------------------------------------------------
SentMessages == DOMAIN origin

\* No entry of the stream is received twice, by whichever replicas, although
\* acknowledgements fail and processes die (the consumer never asks for what
\* is pending, bus.go:336-341), and each replica receives its share in the
\* stream's order.  A message that is received twice, which happens when its
\* XADD was repeated (bus.go:307), was two entries.  What web and api clients
\* wait for stays in their process and is received once.
TakenOnceInOrder ==
    \A r \in Replicas : \A i \in DOMAIN taken[r] :
        LET m == taken[r][i]
        IN /\ origin[m].localOnly => origin[m].replica = r
           /\ \A s \in Replicas : \A j \in DOMAIN taken[s] :
                 LET n == taken[s][j]
                 IN /\ n = m => s = r /\ j = i
                    /\ origin[n].message = origin[m].message /\ n # m
                          => {m, n} \subseteq ToSet(stream)
           /\ \A j \in DOMAIN taken[r] : \A k, l \in DOMAIN stream :
                 i < j /\ stream[k] = m /\ stream[l] = taken[r][j] => k < l

\* A message that was sent is still on its way or was received, unless a fault
\* took it: a bridge or a consumer that finds a channel full waits, it never
\* drops.  A full stream does drop: entries trimmed before anyone read them.
NothingVanishes ==
    \A m \in SentMessages :
        \/ m \in lost
        \/ \E r \in Replicas : \E q \in {source[r], batch[r], local[r], taken[r]} :
              m \in ToSet(q)
        \/ \E i \in cursor + 1 .. Len(stream) : stream[i] = m
=============================================================================
