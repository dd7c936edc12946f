-------------------------- MODULE Delivery_proofs --------------------------
(***************************************************************************)
(* Proofs about what is delivered: by the message bus between replicas,    *)
(* and by the event stream to a page and to the POST of a turn.            *)
(*                                                                         *)
(* MessageBus, for any number of replicas, messages and faults, and any    *)
(* sizes of channels, batches and the stream: the bridge loses nothing by  *)
(* itself (NothingVanishes), and an entry is received once and in order    *)
(* (TakenOnceInOrder).  The first needs to know of the entries between     *)
(* the group's cursor and the trimmed end that they are accounted for,     *)
(* because the next read jumps over them; the second, that all a replica   *)
(* has is one line in the order of the stream.                             *)
(*                                                                         *)
(* EventStream, for any number of other emitters, any buffer and any       *)
(* number of events: the POST hears the end of its turn                    *)
(* (PostHearsTheEnd).  That a turn's last word was heard when the POST     *)
(* decides needs to be known from the moment the word was sent, while the  *)
(* turn has still to end; the same goes for the first event and the error  *)
(* "no response".  The page's replay and what it is sent live leave no     *)
(* hole (ReplayJoinsLive): PageInv follows every stored event until it is  *)
(* shown, or is in missed.                                                 *)
(***************************************************************************)
EXTENDS MessageBus, EventStream, SequenceTheorems, TLAPS

Origins == [replica : Replicas, localOnly : BOOLEAN, message : Messages]

\* What the steps need of the types.
ChannelTypes ==
    /\ origin \in Seq(Origins) /\ Len(origin) <= MaxSent
    /\ source \in [Replicas -> Seq(Messages)]
    /\ batch \in [Replicas -> Seq(Messages)]
    /\ local \in [Replicas -> Seq(Messages)]
    /\ taken \in [Replicas -> Seq(Messages)]

StreamTypes ==
    /\ stream \in Seq(Messages)
    /\ trimmed \in Nat /\ trimmed <= Len(stream)
    /\ cursor \in Nat /\ cursor <= Len(stream)

\* What was trimmed before anybody read it was counted as lost.
TrimmedLost == \A i \in cursor + 1 .. trimmed : stream[i] \in lost

Has(q, m) == \E i \in DOMAIN q : q[i] = m

With(r, m) == Has(source[r], m) \/ Has(batch[r], m) \/ Has(local[r], m) \/ Has(taken[r], m)
InStream(m) == \E i \in cursor + 1 .. Len(stream) : stream[i] = m
Safe(m) == m \in lost \/ InStream(m) \/ \E r \in Replicas : With(r, m)

BusInv ==
    /\ ChannelTypes /\ StreamTypes /\ TrimmedLost
    /\ \A m \in DOMAIN origin : Safe(m)

\* Only what was sent waits at a source, so that there is something to copy.
SourceSent == \A r \in Replicas : \A m : Has(source[r], m) => m \in DOMAIN origin
-----------------------------------------------------------------------------
LEMMA HasRest ==
  ASSUME NEW S, NEW q \in Seq(S), q # <<>>, NEW m, Has(q, m)
  PROVE  m = Head(q) \/ Has(Tail(q), m)
  <1>1. PICK i \in DOMAIN q : q[i] = m
    BY DEF Has
  <1>2. /\ Len(q) \in Nat /\ DOMAIN q = 1..Len(q) /\ Head(q) = q[1] /\ Tail(q) \in Seq(S)
        /\ Len(Tail(q)) = Len(q) - 1 /\ \A j \in 1..Len(Tail(q)) : Tail(q)[j] = q[j + 1]
    BY HeadTailProperties, LenProperties
  <1>3. CASE i = 1
    BY <1>1, <1>2, <1>3
  <1>4. CASE i # 1
    <2>1. i - 1 \in 1..Len(Tail(q))
      BY <1>1, <1>2, <1>4
    <2>2. Tail(q)[i - 1] = q[(i - 1) + 1] /\ (i - 1) + 1 = i
      BY <1>1, <1>2, <2>1
    <2>3. DOMAIN Tail(q) = 1..Len(Tail(q))
      BY <1>2, LenProperties
    <2> QED
      BY <1>1, <2>1, <2>2, <2>3 DEF Has
  <1> QED
    BY <1>3, <1>4

LEMMA HasMore ==
  ASSUME NEW S, NEW q \in Seq(S), NEW x \in S
  PROVE  Has(Append(q, x), x) /\ \A m : Has(q, m) => Has(Append(q, x), m)
  <1>1. /\ Len(q) \in Nat /\ DOMAIN q = 1..Len(q) /\ Append(q, x) \in Seq(S)
        /\ Len(Append(q, x)) = Len(q) + 1 /\ Append(q, x)[Len(q) + 1] = x
        /\ \A j \in 1..Len(q) : Append(q, x)[j] = q[j]
    BY AppendProperties, LenProperties
  <1>2. DOMAIN Append(q, x) = 1..Len(q) + 1
    BY <1>1, LenProperties
  <1> QED
    BY <1>1, <1>2 DEF Has

LEMMA HeadIsIn ==
  ASSUME NEW S, NEW q \in Seq(S), q # <<>>
  PROVE  Head(q) \in S /\ Tail(q) \in Seq(S) /\ 1 \in DOMAIN q
  BY HeadTailProperties, LenProperties

LEMMA AppendFacts ==
  ASSUME NEW S, NEW q \in Seq(S), NEW x \in S
  PROVE  /\ Append(q, x) \in Seq(S) /\ Len(q) \in Nat /\ DOMAIN q = 1..Len(q)
         /\ DOMAIN Append(q, x) = 1..Len(q) + 1 /\ Append(q, x)[Len(q) + 1] = x
         /\ \A i \in 1..Len(q) : Append(q, x)[i] = q[i]
         /\ \A m : Has(Append(q, x), m) <=> m = x \/ Has(q, m)
  <1>1. /\ Append(q, x) \in Seq(S) /\ Len(q) \in Nat /\ DOMAIN q = 1..Len(q)
        /\ Len(Append(q, x)) = Len(q) + 1 /\ Append(q, x)[Len(q) + 1] = x
        /\ \A i \in 1..Len(q) : Append(q, x)[i] = q[i]
    BY AppendProperties, LenProperties
  <1>2. DOMAIN Append(q, x) = 1..Len(q) + 1
    BY <1>1, LenProperties
  <1>3. ASSUME NEW m, Has(Append(q, x), m) PROVE m = x \/ Has(q, m)
    BY <1>1, <1>2, <1>3 DEF Has
  <1> QED
    BY <1>1, <1>2, <1>3, HasMore

LEMMA RestFacts ==
  ASSUME NEW S, NEW q \in Seq(S), q # <<>>
  PROVE  /\ Tail(q) \in Seq(S) /\ Len(q) \in Nat \ {0} /\ DOMAIN q = 1..Len(q)
         /\ DOMAIN Tail(q) = 1..Len(q) - 1 /\ Head(q) = q[1] /\ Head(q) \in S
         /\ \A i \in 1..Len(q) - 1 : Tail(q)[i] = q[i + 1]
         /\ \A m : Has(q, m) <=> m = Head(q) \/ Has(Tail(q), m)
  <1>1. /\ Len(q) \in Nat \ {0} /\ DOMAIN q = 1..Len(q) /\ Head(q) = q[1] /\ Tail(q) \in Seq(S)
        /\ Len(Tail(q)) = Len(q) - 1 /\ \A j \in 1..Len(Tail(q)) : Tail(q)[j] = q[j + 1]
        /\ Head(q) \in S
    BY HeadTailProperties, LenProperties, EmptySeq
  <1>2. DOMAIN Tail(q) = 1..Len(q) - 1
    BY <1>1, LenProperties
  <1>3. ASSUME NEW m, Has(Tail(q), m) PROVE Has(q, m)
    <2>1. PICK i \in 1..Len(q) - 1 : Tail(q)[i] = m
      BY <1>2, <1>3 DEF Has
    <2>2. i + 1 \in 1..Len(q) /\ q[i + 1] = m
      BY <1>1, <2>1
    <2> QED
      BY <1>1, <2>2 DEF Has
  <1>4. Has(q, Head(q))
    BY <1>1 DEF Has
  <1> QED
    BY <1>1, <1>2, <1>3, <1>4, HasRest

\* NewMessageBus: empty channels and an empty stream.
LEMMA BusInitial ==
  ASSUME BusInit
  PROVE  BusInv /\ SourceSent
  <1>1. ChannelTypes /\ StreamTypes
    BY BusAssumption DEF BusInit, BusAssumption, ChannelTypes, StreamTypes
  <1>2. TrimmedLost /\ \A m \in DOMAIN origin : Safe(m)
    BY DEF BusInit, TrimmedLost
  <1>3. SourceSent
    BY DEF BusInit, SourceSent, Has
  <1> QED
    BY <1>1, <1>2, <1>3 DEF BusInv

\* There is a number for what is sent while the bound allows it.
LEMMA NumberIsFree ==
  ASSUME BusInv, Len(origin) < MaxSent
  PROVE  Len(origin) + 1 \in Messages
  BY LenProperties, BusAssumption DEF BusInv, ChannelTypes, BusAssumption, Messages

LEMMA BusSends ==
  ASSUME BusInv, NEW r \in Replicas, NEW l \in BOOLEAN, BusSend(r, l)
  PROVE  BusInv'
  <1> DEFINE m == Len(origin) + 1
             new == [replica |-> r, localOnly |-> l, message |-> m]
  <1>0. m \in Messages
    BY NumberIsFree DEF BusSend
  <1>1. /\ Len(origin) < MaxSent /\ origin' = Append(origin, new) /\ new \in Origins
        /\ source' = [source EXCEPT ![r] = Append(@, m)]
        /\ UNCHANGED <<batch, local, taken, lost, stream, trimmed, cursor>>
    BY <1>0 DEF BusSend, StreamUnchanged, Origins
  <1> HIDE DEF new
  <1>2. /\ origin' \in Seq(Origins) /\ Len(origin') = m /\ m \in Messages
        /\ DOMAIN origin' = 1..m /\ DOMAIN origin = 1..Len(origin) /\ Len(origin) \in Nat
    BY <1>1, AppendProperties, LenProperties, BusAssumption
       DEF BusInv, ChannelTypes, BusAssumption, Messages
  <1>3. source[r] \in Seq(Messages) /\ Append(source[r], m) \in Seq(Messages)
    BY <1>2, AppendProperties DEF BusInv, ChannelTypes
  <1> HIDE DEF m
  <1>4. ChannelTypes'
    BY <1>1, <1>2, <1>3, BusAssumption DEF BusInv, ChannelTypes, BusAssumption, m
  <1>5. StreamTypes' /\ TrimmedLost'
    BY <1>1 DEF BusInv, StreamTypes, TrimmedLost
  <1>6. /\ source'[r] = Append(source[r], m) /\ \A s \in Replicas : s # r => source'[s] = source[s]
    BY <1>1 DEF BusInv, ChannelTypes
  <1>7. Has(source'[r], m) /\ \A n : Has(source[r], n) => Has(source'[r], n)
    BY <1>2, <1>3, <1>6, HasMore
  <1>8. ASSUME NEW n \in DOMAIN origin' PROVE Safe(n)'
    <2>1. n = m \/ n \in DOMAIN origin
      BY <1>2 DEF m
    <2> QED
      BY <1>1, <1>6, <1>7, <2>1 DEF BusInv, Safe, InStream, With
  <1> QED
    BY <1>4, <1>5, <1>8 DEF BusInv

\* What leaves one channel arrives in another of the process.
LEMMA BusPublishesLocal ==
  ASSUME BusInv, NEW r \in Replicas, PublishLocal(r)
  PROVE  BusInv'
  <1> DEFINE h == Head(source[r])
  <1>1. /\ source[r] # <<>> /\ source' = [source EXCEPT ![r] = Tail(@)]
        /\ local' = [local EXCEPT ![r] = Append(@, h)]
        /\ UNCHANGED <<origin, batch, taken, lost, stream, trimmed, cursor>>
    BY DEF PublishLocal, StreamUnchanged
  <1>2. /\ source[r] \in Seq(Messages) /\ local[r] \in Seq(Messages) /\ h \in Messages
        /\ Tail(source[r]) \in Seq(Messages) /\ Append(local[r], h) \in Seq(Messages)
    BY <1>1, HeadIsIn, AppendProperties DEF BusInv, ChannelTypes
  <1> HIDE DEF h
  <1>3. /\ source'[r] = Tail(source[r]) /\ local'[r] = Append(local[r], h)
        /\ \A s \in Replicas : s # r => source'[s] = source[s] /\ local'[s] = local[s]
    BY <1>1 DEF BusInv, ChannelTypes
  <1>4. /\ \A n : Has(source[r], n) => n = h \/ Has(source'[r], n)
        /\ Has(local'[r], h) /\ \A n : Has(local[r], n) => Has(local'[r], n)
    BY <1>1, <1>2, <1>3, HasRest, HasMore DEF h
  <1>5. ChannelTypes'
    BY <1>1, <1>2 DEF BusInv, ChannelTypes
  <1>6. StreamTypes' /\ TrimmedLost'
    BY <1>1 DEF BusInv, StreamTypes, TrimmedLost
  <1>7. \A n : \A s \in Replicas : With(s, n) => With(s, n)' \/ With(r, n)'
    BY <1>1, <1>3, <1>4 DEF With
  <1>8. \A n \in DOMAIN origin' : Safe(n)'
    BY <1>1, <1>7 DEF BusInv, Safe, InStream
  <1> QED
    BY <1>5, <1>6, <1>8 DEF BusInv

LEMMA BusTakes ==
  ASSUME BusInv, NEW r \in Replicas, TakeMessage(r)
  PROVE  BusInv'
  <1> DEFINE h == Head(local[r])
  <1>1. /\ local[r] # <<>> /\ local' = [local EXCEPT ![r] = Tail(@)]
        /\ taken' = [taken EXCEPT ![r] = Append(@, h)]
        /\ UNCHANGED <<origin, source, batch, lost, stream, trimmed, cursor>>
    BY DEF TakeMessage, StreamUnchanged
  <1>2. /\ local[r] \in Seq(Messages) /\ taken[r] \in Seq(Messages) /\ h \in Messages
        /\ Tail(local[r]) \in Seq(Messages) /\ Append(taken[r], h) \in Seq(Messages)
    BY <1>1, HeadIsIn, AppendProperties DEF BusInv, ChannelTypes
  <1> HIDE DEF h
  <1>3. /\ local'[r] = Tail(local[r]) /\ taken'[r] = Append(taken[r], h)
        /\ \A s \in Replicas : s # r => local'[s] = local[s] /\ taken'[s] = taken[s]
    BY <1>1 DEF BusInv, ChannelTypes
  <1>4. /\ \A n : Has(local[r], n) => n = h \/ Has(local'[r], n)
        /\ Has(taken'[r], h) /\ \A n : Has(taken[r], n) => Has(taken'[r], n)
    BY <1>1, <1>2, <1>3, HasRest, HasMore DEF h
  <1>5. ChannelTypes'
    BY <1>1, <1>2 DEF BusInv, ChannelTypes
  <1>6. StreamTypes' /\ TrimmedLost'
    BY <1>1 DEF BusInv, StreamTypes, TrimmedLost
  <1>7. \A n : \A s \in Replicas : With(s, n) => With(s, n)' \/ With(r, n)'
    BY <1>1, <1>3, <1>4 DEF With
  <1>8. \A n \in DOMAIN origin' : Safe(n)'
    BY <1>1, <1>7 DEF BusInv, Safe, InStream
  <1> QED
    BY <1>5, <1>6, <1>8 DEF BusInv

LEMMA BusHandsOn ==
  ASSUME BusInv, NEW r \in Replicas, HandOn(r)
  PROVE  BusInv'
  <1> DEFINE h == Head(batch[r])
  <1>1. /\ batch[r] # <<>> /\ batch' = [batch EXCEPT ![r] = Tail(@)]
        /\ local' = [local EXCEPT ![r] = Append(@, h)]
        /\ UNCHANGED <<origin, source, taken, lost, stream, trimmed, cursor>>
    BY DEF HandOn
  <1>2. /\ batch[r] \in Seq(Messages) /\ local[r] \in Seq(Messages) /\ h \in Messages
        /\ Tail(batch[r]) \in Seq(Messages) /\ Append(local[r], h) \in Seq(Messages)
    BY <1>1, HeadIsIn, AppendProperties DEF BusInv, ChannelTypes
  <1> HIDE DEF h
  <1>3. /\ batch'[r] = Tail(batch[r]) /\ local'[r] = Append(local[r], h)
        /\ \A s \in Replicas : s # r => batch'[s] = batch[s] /\ local'[s] = local[s]
    BY <1>1 DEF BusInv, ChannelTypes
  <1>4. /\ \A n : Has(batch[r], n) => n = h \/ Has(batch'[r], n)
        /\ Has(local'[r], h) /\ \A n : Has(local[r], n) => Has(local'[r], n)
    BY <1>1, <1>2, <1>3, HasRest, HasMore DEF h
  <1>5. ChannelTypes'
    BY <1>1, <1>2 DEF BusInv, ChannelTypes
  <1>6. StreamTypes' /\ TrimmedLost'
    BY <1>1 DEF BusInv, StreamTypes, TrimmedLost
  <1>7. \A n : \A s \in Replicas : With(s, n) => With(s, n)' \/ With(r, n)'
    BY <1>1, <1>3, <1>4 DEF With
  <1>8. \A n \in DOMAIN origin' : Safe(n)'
    BY <1>1, <1>7 DEF BusInv, Safe, InStream
  <1> QED
    BY <1>5, <1>6, <1>8 DEF BusInv

\* What goes to the stream is its last entry then, and the trimming at the other
\* end takes entries that are counted, or were read.
LEMMA BusPublishesShared ==
  ASSUME BusInv, NEW r \in Replicas, NEW ok \in BOOLEAN, PublishShared(r, ok)
  PROVE  BusInv'
  <1> DEFINE h == Head(source[r])
             n == Len(stream)
             limit == IF n + 1 - MaxLen > trimmed THEN n + 1 - MaxLen ELSE trimmed
  <1>1. /\ source[r] # <<>> /\ source' = [source EXCEPT ![r] = Tail(@)]
        /\ \/ /\ stream' = Append(stream, h) /\ trimmed' \in trimmed .. limit
              /\ lost' = lost \cup {stream[i] : i \in cursor + 1 .. trimmed'}
           \/ lost' = lost \cup {h} /\ UNCHANGED <<stream, trimmed>>
        /\ UNCHANGED <<origin, cursor, batch, local, taken>>
    BY DEF PublishShared, Added
  <1>2. /\ source[r] \in Seq(Messages) /\ h \in Messages /\ Tail(source[r]) \in Seq(Messages)
        /\ stream \in Seq(Messages) /\ n \in Nat /\ DOMAIN stream = 1..n
    BY <1>1, HeadIsIn, LenProperties DEF BusInv, ChannelTypes, StreamTypes
  <1> HIDE DEF h
  <1>3. /\ source'[r] = Tail(source[r])
        /\ \A s \in Replicas : s # r => source'[s] = source[s]
        /\ \A m : Has(source[r], m) => m = h \/ Has(source'[r], m)
    <2>1. /\ source'[r] = Tail(source[r])
          /\ \A s \in Replicas : s # r => source'[s] = source[s]
      BY <1>1 DEF BusInv, ChannelTypes
    <2> QED
      BY <1>1, <1>2, <2>1, HasRest DEF h
  <1>4. \A m : \A s \in Replicas : With(s, m) => m = h \/ With(s, m)'
    BY <1>1, <1>3 DEF With
  <1>5. ChannelTypes'
    BY <1>1, <1>2 DEF BusInv, ChannelTypes
  <1>6. CASE lost' = lost \cup {h} /\ UNCHANGED <<stream, trimmed>>
    <2>1. StreamTypes' /\ TrimmedLost'
      BY <1>1, <1>6 DEF BusInv, StreamTypes, TrimmedLost
    <2>2. \A m \in DOMAIN origin' : Safe(m)'
      BY <1>1, <1>4, <1>6 DEF BusInv, Safe, InStream
    <2> QED
      BY <1>5, <2>1, <2>2 DEF BusInv
  <1>7. CASE /\ stream' = Append(stream, h) /\ trimmed' \in trimmed .. limit
             /\ lost' = lost \cup {stream[i] : i \in cursor + 1 .. trimmed'}
    <2>1. /\ stream' \in Seq(Messages) /\ Len(stream') = n + 1 /\ stream'[n + 1] = h
          /\ \A i \in 1..n : stream'[i] = stream[i]
      BY <1>2, <1>7, AppendProperties
    <2>2. trimmed' \in Nat /\ trimmed' <= n /\ cursor \in Nat /\ cursor <= n /\ cursor' = cursor
      <3>1. /\ trimmed \in Nat /\ cursor \in Nat /\ trimmed <= n /\ cursor <= n
            /\ cursor' = cursor /\ MaxLen \in Nat /\ MaxLen > 0
        BY <1>1, BusAssumption DEF BusInv, StreamTypes, BusAssumption
      <3>2. trimmed' \in trimmed .. limit
        BY <1>7
      <3> HIDE DEF n
      <3>3. limit \in Int /\ limit <= n
        BY <1>2, <3>1
      <3> QED
        BY <1>2, <3>1, <3>2, <3>3
    <2> HIDE DEF n, limit
    <2>3. StreamTypes'
      BY <1>2, <2>1, <2>2 DEF StreamTypes
    <2>4. \E i \in cursor' + 1 .. Len(stream') : stream'[i] = h
      <3>1. n + 1 \in cursor' + 1 .. Len(stream')
        BY <1>2, <2>1, <2>2
      <3> QED
        BY <2>1, <3>1
    <2>5. ASSUME NEW m, InStream(m) PROVE InStream(m)'
      <3>1. PICK i \in cursor + 1 .. Len(stream) : stream[i] = m
        BY <2>5 DEF InStream
      <3>2. i \in cursor' + 1 .. Len(stream') /\ stream'[i] = m
        BY <1>2, <2>1, <2>2, <3>1 DEF n
      <3> QED
        BY <3>2 DEF InStream
    <2>6. TrimmedLost'
      <3> SUFFICES ASSUME NEW i \in cursor + 1 .. trimmed' PROVE stream'[i] \in lost'
        BY <2>2 DEF TrimmedLost
      <3>1. i \in 1..n /\ stream'[i] = stream[i]
        BY <1>2, <2>1, <2>2
      <3> QED
        BY <1>7, <3>1
    <2>7. ASSUME NEW m \in DOMAIN origin' PROVE Safe(m)'
      <3>1. m \in lost \/ InStream(m) \/ \E s \in Replicas : With(s, m)
        BY <1>1, <2>7 DEF BusInv, Safe
      <3>2. m \in lost => m \in lost'
        BY <1>7
      <3>3. CASE m = h
        BY <2>4, <3>3 DEF Safe, InStream
      <3>4. CASE m # h
        BY <1>4, <2>5, <3>1, <3>2, <3>4 DEF Safe
      <3> QED
        BY <3>3, <3>4
    <2> QED
      BY <1>5, <2>3, <2>6, <2>7 DEF BusInv
  <1> QED
    BY <1>1, <1>6, <1>7

\* The copy is the last entry of the stream; its message waits where it was.
LEMMA BusResends ==
  ASSUME BusInv, SourceSent, NEW r \in Replicas, AddedUnheard(r)
  PROVE  BusInv'
  <1> DEFINE m == Len(origin) + 1
             h == Head(source[r])
             n == Len(stream)
             limit == IF n + 1 - MaxLen > trimmed THEN n + 1 - MaxLen ELSE trimmed
  <1>1. /\ source[r] # <<>> /\ Len(origin) < MaxSent /\ origin' = Append(origin, origin[h])
        /\ stream' = Append(stream, m) /\ trimmed' \in trimmed .. limit
        /\ lost' = lost \cup {stream[i] : i \in cursor + 1 .. trimmed'}
        /\ UNCHANGED <<source, cursor, batch, local, taken>>
    BY DEF AddedUnheard, Added
  <1>2. /\ stream \in Seq(Messages) /\ n \in Nat /\ DOMAIN stream = 1..n /\ m \in Messages
    BY <1>1, LenProperties, NumberIsFree DEF BusInv, StreamTypes
  <1>3. /\ origin' \in Seq(Origins) /\ Len(origin') = m /\ m <= MaxSent
        /\ DOMAIN origin' = 1..m /\ DOMAIN origin = 1..m - 1 /\ m - 1 \in Nat
    <2>1. source[r] \in Seq(Messages) /\ h \in Messages /\ Has(source[r], h)
      BY <1>1, HeadIsIn, HeadTailProperties DEF BusInv, ChannelTypes, Has
    <2>2. origin \in Seq(Origins) /\ Len(origin) \in Nat /\ DOMAIN origin = 1..Len(origin)
      BY LenProperties DEF BusInv, ChannelTypes
    <2>3. origin[h] \in Origins
      BY <2>1, <2>2, ElementOfSeq DEF SourceSent
    <2> QED
      BY <1>1, <2>2, <2>3, AppendProperties, LenProperties, BusAssumption DEF BusAssumption
  <1> HIDE DEF m, h
  <1>5. ChannelTypes'
    BY <1>1, <1>3 DEF BusInv, ChannelTypes
  <1>6. /\ stream' \in Seq(Messages) /\ Len(stream') = n + 1 /\ stream'[n + 1] = m
        /\ \A i \in 1..n : stream'[i] = stream[i]
    BY <1>1, <1>2, AppendProperties
  <1>7. trimmed' \in Nat /\ trimmed' <= n /\ cursor \in Nat /\ cursor <= n /\ cursor' = cursor
    <2>1. /\ trimmed \in Nat /\ cursor \in Nat /\ trimmed <= n /\ cursor <= n
          /\ cursor' = cursor /\ MaxLen \in Nat /\ MaxLen > 0
      BY <1>1, BusAssumption DEF BusInv, StreamTypes, BusAssumption
    <2> HIDE DEF n
    <2>2. limit \in Int /\ limit <= n
      BY <1>2, <2>1
    <2> QED
      BY <1>1, <1>2, <2>1, <2>2
  <1> HIDE DEF n, limit
  <1>8. StreamTypes'
    BY <1>2, <1>6, <1>7 DEF StreamTypes
  <1>9. TrimmedLost'
    <2> SUFFICES ASSUME NEW i \in cursor + 1 .. trimmed' PROVE stream'[i] \in lost'
      BY <1>7 DEF TrimmedLost
    <2>1. i \in 1..n /\ stream'[i] = stream[i]
      BY <1>2, <1>6, <1>7
    <2> QED
      BY <1>1, <2>1
  <1>10. \A k : \A s \in Replicas : With(s, k) => With(s, k)'
    BY <1>1 DEF With
  <1>11. ASSUME NEW k, InStream(k) PROVE InStream(k)'
    <2>1. PICK i \in cursor + 1 .. Len(stream) : stream[i] = k
      BY <1>11 DEF InStream
    <2>2. i \in cursor' + 1 .. Len(stream') /\ stream'[i] = k
      BY <1>2, <1>6, <1>7, <2>1 DEF n
    <2> QED
      BY <2>2 DEF InStream
  <1>12. \E i \in cursor' + 1 .. Len(stream') : stream'[i] = m
    <2>1. n + 1 \in cursor' + 1 .. Len(stream')
      BY <1>2, <1>6, <1>7
    <2> QED
      BY <1>6, <2>1
  <1>13. ASSUME NEW k \in DOMAIN origin' PROVE Safe(k)'
    <2>1. k = m \/ k \in DOMAIN origin
      BY <1>3, <1>13
    <2>2. CASE k = m
      BY <1>12, <2>2 DEF Safe, InStream
    <2>3. CASE k \in DOMAIN origin
      BY <1>1, <1>10, <1>11, <2>3 DEF BusInv, Safe
    <2> QED
      BY <2>1, <2>2, <2>3
  <1> QED
    BY <1>5, <1>8, <1>9, <1>13 DEF BusInv

\* A read starts after the cursor and after what was trimmed, whichever is
\* further, and takes all it passes over from there on.
LEMMA BusReads ==
  ASSUME BusInv, NEW r \in Replicas, NEW ok \in BOOLEAN, ReadBatch(r, ok)
  PROVE  BusInv'
  <1> DEFINE n == Len(stream)
             first == (IF trimmed > cursor THEN trimmed ELSE cursor) + 1
             last == IF first + BatchSize - 1 < n THEN first + BatchSize - 1 ELSE n
             read == SubSeq(stream, first, last)
  <1>1. /\ batch[r] = <<>> /\ first <= last /\ cursor' = last
        /\ \/ batch' = [batch EXCEPT ![r] = read] /\ lost' = lost
           \/ lost' = lost \cup ToSet(read) /\ batch' = batch
        /\ UNCHANGED <<origin, source, stream, trimmed, local, taken>>
    BY DEF ReadBatch, Entries
  <1>2. /\ stream \in Seq(Messages) /\ n \in Nat /\ DOMAIN stream = 1..n
        /\ trimmed \in Nat /\ cursor \in Nat /\ trimmed <= n /\ cursor <= n
        /\ first \in 1..n /\ last \in first..n /\ cursor < first /\ trimmed < first
        /\ \A i \in cursor + 1 .. n : i \in cursor + 1 .. trimmed \/ i \in first..n
    <2>1. /\ stream \in Seq(Messages) /\ n \in Nat /\ DOMAIN stream = 1..n
          /\ trimmed \in Nat /\ cursor \in Nat /\ trimmed <= n /\ cursor <= n
          /\ BatchSize \in Nat
      <3>1. StreamTypes
        BY DEF BusInv
      <3>2. BatchSize \in Nat
        BY BusAssumption DEF BusAssumption
      <3>3. /\ stream \in Seq(Messages) /\ trimmed \in Nat /\ trimmed <= Len(stream)
            /\ cursor \in Nat /\ cursor <= Len(stream)
        BY <3>1 DEF StreamTypes
      <3>4. Len(stream) \in Nat /\ DOMAIN stream = 1..Len(stream)
        BY <3>3, LenProperties
      <3> QED
        BY <3>2, <3>3, <3>4
    <2> HIDE DEF n
    <2>2. /\ first \in Nat /\ cursor < first /\ trimmed < first
          /\ first = trimmed + 1 \/ first = cursor + 1
      <3>1. CASE trimmed > cursor
        BY <2>1, <3>1
      <3>2. CASE ~(trimmed > cursor)
        BY <2>1, <3>2
      <3> QED
        BY <3>1, <3>2
    <2> HIDE DEF first
    <2>3. last <= n /\ last \in Int
      BY <2>1, <2>2
    <2> HIDE DEF last
    <2> QED
      BY <1>1, <2>1, <2>2, <2>3
  <1> HIDE DEF first, last, n
  <1>3. /\ read \in Seq(Messages) /\ Len(read) = last - first + 1
        /\ \A i \in 1..last - first + 1 : read[i] = stream[first + i - 1]
    <2>1. \A i \in first..last : stream[i] \in Messages
      BY <1>2, ElementOfSeq
    <2>2. last - first + 1 \in Nat
      BY <1>2
    <2>3. read = [i \in 1..last - first + 1 |-> stream[first + i - 1]]
      BY <1>2
    <2>4. \A i \in 1..last - first + 1 : first + i - 1 \in first..last
      BY <1>2
    <2> QED
      BY <2>1, <2>2, <2>3, <2>4, SeqDef
  <1>4. \A i \in first..last : Has(read, stream[i]) /\ stream[i] \in ToSet(read)
    <2> SUFFICES ASSUME NEW i \in first..last
                 PROVE  Has(read, stream[i]) /\ stream[i] \in ToSet(read)
      OBVIOUS
    <2>1. i - first + 1 \in 1..last - first + 1 /\ first + (i - first + 1) - 1 = i
      BY <1>2
    <2>2. DOMAIN read = 1..last - first + 1
      BY <1>3, LenProperties
    <2>3. read[i - first + 1] = stream[i]
      BY <1>3, <2>1
    <2> HIDE DEF read
    <2> QED
      BY <2>1, <2>2, <2>3 DEF Has, ToSet
  <1> HIDE DEF read
  <1>5. ChannelTypes'
    BY <1>1, <1>3 DEF BusInv, ChannelTypes
  <1>6. StreamTypes' /\ TrimmedLost'
    BY <1>1, <1>2 DEF BusInv, StreamTypes, TrimmedLost, n
  <1>7. /\ ~Has(batch[r], 0) /\ \A m : ~Has(batch[r], m)
        /\ \A s \in Replicas : s # r => batch'[s] = batch[s]
        /\ batch'[r] = read \/ lost' = lost \cup ToSet(read)
    BY <1>1 DEF Has, BusInv, ChannelTypes
  <1>8. \A m : \A s \in Replicas : With(s, m) => With(s, m)'
    BY <1>1, <1>7 DEF With
  <1>9. ASSUME NEW m, InStream(m) PROVE Safe(m)'
    <2>1. PICK i \in cursor + 1 .. n : stream[i] = m
      BY <1>9 DEF InStream, n
    <2>2. CASE i \in cursor + 1 .. trimmed
      BY <1>1, <2>1, <2>2 DEF BusInv, TrimmedLost, Safe
    <2>3. CASE i \in first..last
      BY <1>1, <1>4, <1>7, <2>1, <2>3 DEF Safe, With
    <2>4. CASE i > last
      <3>1. i \in cursor' + 1 .. Len(stream') /\ stream'[i] = m
        BY <1>1, <1>2, <2>1, <2>4 DEF n
      <3> QED
        BY <3>1 DEF Safe, InStream
    <2>5. i \in cursor + 1 .. trimmed \/ i \in first..n
      BY <1>2, <2>1
    <2> QED
      BY <1>2, <2>2, <2>3, <2>4, <2>5
  <1>10. \A m \in DOMAIN origin' : Safe(m)'
    BY <1>1, <1>8, <1>9 DEF BusInv, Safe
  <1> QED
    BY <1>5, <1>6, <1>10 DEF BusInv

\* A crash takes what is in the channels of the process, and that is counted.
LEMMA BusCrashes ==
  ASSUME BusInv, NEW r \in Replicas, CrashReplica(r)
  PROVE  BusInv'
  <1>1. /\ lost' = lost \cup ToSet(source[r]) \cup ToSet(batch[r]) \cup ToSet(local[r])
        /\ source' = [source EXCEPT ![r] = <<>>] /\ batch' = [batch EXCEPT ![r] = <<>>]
        /\ local' = [local EXCEPT ![r] = <<>>]
        /\ UNCHANGED <<origin, taken, stream, trimmed, cursor>>
    BY DEF CrashReplica, StreamUnchanged
  <1>2. ChannelTypes'
    BY <1>1, EmptySeq DEF BusInv, ChannelTypes
  <1>3. StreamTypes' /\ TrimmedLost'
    BY <1>1 DEF BusInv, StreamTypes, TrimmedLost
  <1>4. \A s \in Replicas : s # r => /\ source'[s] = source[s] /\ batch'[s] = batch[s]
                                     /\ local'[s] = local[s]
    BY <1>1 DEF BusInv, ChannelTypes
  <1>5. \A m : Has(source[r], m) \/ Has(batch[r], m) \/ Has(local[r], m) => m \in lost'
    BY <1>1 DEF Has, ToSet
  <1>6. \A m : \A s \in Replicas : With(s, m) => m \in lost' \/ With(s, m)'
    BY <1>1, <1>4, <1>5 DEF With
  <1>7. \A m \in DOMAIN origin' : Safe(m)'
    BY <1>1, <1>6 DEF BusInv, Safe, InStream
  <1> QED
    BY <1>2, <1>3, <1>7 DEF BusInv

\* A source gets what is sent, and loses its head.
LEMMA SentStays ==
  ASSUME BusInv, SourceSent, [BusNext]_busVars
  PROVE  SourceSent'
  <1>1. ASSUME NEW r \in Replicas, NEW l \in BOOLEAN, BusSend(r, l) PROVE SourceSent'
    <2> DEFINE m == Len(origin) + 1
               new == [replica |-> r, localOnly |-> l, message |-> m]
    <2>1. /\ origin' = Append(origin, new) /\ new \in Origins /\ m \in Messages
          /\ source' = [source EXCEPT ![r] = Append(@, m)]
      BY <1>1, NumberIsFree DEF BusSend, Origins
    <2>2. /\ origin \in Seq(Origins) /\ source[r] \in Seq(Messages)
          /\ source'[r] = Append(source[r], m)
          /\ \A s \in Replicas : s # r => source'[s] = source[s]
      BY <2>1 DEF BusInv, ChannelTypes
    <2> HIDE DEF new
    <2>3. DOMAIN origin = 1..Len(origin) /\ DOMAIN origin' = 1..m /\ Len(origin) \in Nat
      BY <2>1, <2>2, AppendProperties, LenProperties
    <2>4. m \in DOMAIN origin' /\ \A n \in DOMAIN origin : n \in DOMAIN origin'
      BY <2>3
    <2> HIDE DEF m
    <2>5. \A n : Has(source'[r], n) => n = m \/ Has(source[r], n)
      BY <2>1, <2>2, AppendFacts
    <2> QED
      BY <2>2, <2>4, <2>5 DEF SourceSent
  <1>2. ASSUME NEW r \in Replicas, source[r] # <<>>, source' = [source EXCEPT ![r] = Tail(@)],
               origin' = origin
        PROVE  SourceSent'
    <2>1. /\ source[r] \in Seq(Messages) /\ source'[r] = Tail(source[r])
          /\ \A s \in Replicas : s # r => source'[s] = source[s]
      BY <1>2 DEF BusInv, ChannelTypes
    <2>2. \A n : Has(source'[r], n) => Has(source[r], n)
      BY <1>2, <2>1, RestFacts
    <2> QED
      BY <1>2, <2>1, <2>2 DEF SourceSent
  <1>3. ASSUME NEW r \in Replicas, AddedUnheard(r) PROVE SourceSent'
    <2>1. /\ source[r] # <<>> /\ origin' = Append(origin, origin[Head(source[r])])
          /\ source' = source
      BY <1>3 DEF AddedUnheard
    <2>2. source[r] \in Seq(Messages) /\ Has(source[r], Head(source[r]))
      BY <2>1, HeadTailProperties, LenProperties, RestFacts DEF BusInv, ChannelTypes
    <2>3. origin \in Seq(Origins) /\ origin[Head(source[r])] \in Origins
      BY <2>2, LenProperties, ElementOfSeq DEF SourceSent, BusInv, ChannelTypes
    <2>4. /\ DOMAIN origin = 1..Len(origin) /\ Len(origin) \in Nat
          /\ DOMAIN origin' = 1..Len(origin) + 1
      BY <2>1, <2>3, AppendFacts
    <2>5. \A n \in DOMAIN origin : n \in DOMAIN origin'
      BY <2>4
    <2> QED
      BY <2>1, <2>5 DEF SourceSent
  <1>4. ASSUME NEW r \in Replicas, CrashReplica(r) PROVE SourceSent'
    <2>1. origin' = origin /\ \A s \in Replicas : source'[s] \in {source[s], <<>>}
      BY <1>4 DEF CrashReplica, BusInv, ChannelTypes
    <2> QED
      BY <2>1 DEF SourceSent, Has
  <1>5. ASSUME origin' = origin, source' = source PROVE SourceSent'
    BY <1>5 DEF SourceSent
  <1>6. ASSUME NEW r \in Replicas,
               \/ PublishLocal(r) \/ \E ok \in BOOLEAN : PublishShared(r, ok)
               \/ \E ok \in BOOLEAN : ReadBatch(r, ok)
               \/ HandOn(r) \/ TakeMessage(r)
        PROVE  SourceSent'
    BY <1>2, <1>5, <1>6 DEF PublishLocal, PublishShared, ReadBatch, HandOn, TakeMessage
  <1>7. UNCHANGED busVars => SourceSent'
    BY <1>5 DEF busVars
  <1> QED
    BY <1>1, <1>3, <1>4, <1>6, <1>7 DEF BusNext

LEMMA BusStep ==
  ASSUME BusInv, SourceSent, [BusNext]_busVars
  PROVE  BusInv' /\ SourceSent'
  <1>1. ASSUME BusNext PROVE BusInv'
    BY <1>1, BusSends, BusPublishesLocal, BusPublishesShared, BusResends, BusReads, BusHandsOn,
       BusTakes, BusCrashes DEF BusNext
  <1>2. ASSUME UNCHANGED busVars PROVE BusInv'
    BY <1>2 DEF busVars, BusInv, ChannelTypes, StreamTypes, TrimmedLost, Safe, InStream, With
  <1> QED
    BY <1>1, <1>2, SentStays

\* publishInbound, the consume loop and the consumers wait for room and never
\* drop: what was sent is in a channel, in the unread stream, or received, or
\* one of the counted faults took it (a crash, a lost answer, a failed XADD,
\* or the trimming of entries nobody had read).
THEOREM NothingVanishesTheorem == BusSpec => []NothingVanishes
  <1>1. BusInv => NothingVanishes
    <2> SUFFICES ASSUME BusInv, NEW m \in DOMAIN origin
                 PROVE  \/ m \in lost
                        \/ \E r \in Replicas :
                             \E q \in {source[r], batch[r], local[r], taken[r]} : m \in ToSet(q)
                        \/ \E i \in cursor + 1 .. Len(stream) : stream[i] = m
      BY DEF NothingVanishes, SentMessages
    <2>1. \A q : Has(q, m) => m \in ToSet(q)
      BY DEF Has, ToSet
    <2>2. \A r \in Replicas : With(r, m)
             => \E q \in {source[r], batch[r], local[r], taken[r]} : m \in ToSet(q)
      BY <2>1 DEF With
    <2> QED
      BY <2>2 DEF BusInv, Safe, InStream
  <1>2. BusInit => BusInv /\ SourceSent
    BY BusInitial
  <1>3. BusInv /\ SourceSent /\ [BusNext]_busVars => BusInv' /\ SourceSent'
    BY BusStep
  <1> QED
    BY <1>1, <1>2, <1>3, PTL DEF BusSpec
-----------------------------------------------------------------------------
(* Sizes: no channel holds more than it has room for.                      *)

SizeInv ==
    /\ \A r \in Replicas : Len(source[r]) <= ChanSize /\ Len(local[r]) <= ChanSize
                           /\ Len(batch[r]) <= BatchSize
    /\ unacked \in [Replicas -> SUBSET Messages]
    /\ lost \subseteq Messages
    /\ busFaults \in 0..MaxFaults

\* A queue that loses its head, or gets an element.
LEMMA QueueLengths ==
  ASSUME NEW q \in Seq(Messages)
  PROVE  /\ Len(q) \in Nat
         /\ q # <<>> => Len(Tail(q)) = Len(q) - 1
         /\ \A m \in Messages : Len(Append(q, m)) = Len(q) + 1
         /\ ToSet(q) \subseteq Messages
  <1>1. Len(q) \in Nat /\ (q # <<>> => Len(Tail(q)) = Len(q) - 1)
    BY HeadTailProperties, LenProperties
  <1>2. \A m \in Messages : Len(Append(q, m)) = Len(q) + 1
    BY AppendProperties
  <1>3. ToSet(q) \subseteq Messages
    BY ElementOfSeq, LenProperties DEF ToSet
  <1> QED
    BY <1>1, <1>2, <1>3

\* What the group is given has at most BatchSize entries.
LEMMA ReadLength ==
  ASSUME BusInv, NEW first \in Nat, NEW last \in Nat, 0 < first, first <= last,
         last <= Len(stream), last <= first + BatchSize - 1
  PROVE  /\ SubSeq(stream, first, last) \in Seq(Messages)
         /\ Len(SubSeq(stream, first, last)) <= BatchSize
         /\ ToSet(SubSeq(stream, first, last)) \subseteq Messages
  <1>0. stream \in Seq(Messages) /\ Len(stream) \in Nat /\ BatchSize \in Nat
    BY LenProperties, BusAssumption DEF BusInv, StreamTypes, BusAssumption
  <1>1. /\ SubSeq(stream, first, last) \in Seq(Messages)
        /\ Len(SubSeq(stream, first, last)) = last - first + 1
    BY <1>0, SubSeqProperties
  <1>2. ToSet(SubSeq(stream, first, last)) \subseteq Messages
    BY <1>1, QueueLengths
  <1>3. last - first + 1 <= BatchSize
    BY <1>0
  <1> QED
    BY <1>1, <1>2, <1>3

LEMMA SizeInitial ==
  ASSUME BusInit
  PROVE  SizeInv
  <1>1. {ChanSize, BatchSize, MaxFaults} \subseteq Nat /\ Len(<<>>) = 0
    BY BusAssumption DEF BusAssumption
  <1>2. \A r \in Replicas : source[r] = <<>> /\ local[r] = <<>> /\ batch[r] = <<>>
    BY DEF BusInit
  <1>3. /\ unacked \in [Replicas -> SUBSET Messages] /\ lost \subseteq Messages
        /\ busFaults \in 0..MaxFaults
    BY <1>1 DEF BusInit
  <1> QED
    BY <1>1, <1>2, <1>3 DEF SizeInv

LEMMA FaultCounted ==
  ASSUME SizeInv, Fault \/ busFaults' = busFaults
  PROVE  busFaults' \in 0..MaxFaults
  BY BusAssumption DEF SizeInv, Fault, BusAssumption

LEMMA SizeSends ==
  ASSUME BusInv, SizeInv, NEW r \in Replicas, NEW localOnly \in BOOLEAN, BusSend(r, localOnly)
  PROVE  SizeInv'
  <1>1. /\ source \in [Replicas -> Seq(Messages)]
        /\ source' = [source EXCEPT ![r] = Append(@, Len(origin) + 1)]
        /\ Len(source[r]) < ChanSize /\ Len(origin) < MaxSent
        /\ UNCHANGED <<local, batch, unacked, lost, busFaults>>
    BY DEF BusSend, StreamUnchanged, BusInv, ChannelTypes
  <1>2. Len(origin) + 1 \in Messages
    BY <1>1, LenProperties, BusAssumption DEF BusInv, ChannelTypes, BusAssumption, Messages
  <1>3. Len(source'[r]) = Len(source[r]) + 1 /\ Len(source[r]) \in Nat
    BY <1>1, <1>2, QueueLengths
  <1>4. ChanSize \in Nat
    BY BusAssumption DEF BusAssumption
  <1>5. \A s \in Replicas : s # r => source'[s] = source[s]
    BY <1>1
  <1>6. \A s \in Replicas : Len(source'[s]) <= ChanSize
    BY <1>1, <1>3, <1>4, <1>5 DEF SizeInv
  <1> QED
    BY <1>1, <1>6 DEF SizeInv

LEMMA SizePublishesLocal ==
  ASSUME BusInv, SizeInv, NEW r \in Replicas, PublishLocal(r)
  PROVE  SizeInv'
  <1>1. /\ source \in [Replicas -> Seq(Messages)] /\ local \in [Replicas -> Seq(Messages)]
        /\ source' = [source EXCEPT ![r] = Tail(@)] /\ source[r] # <<>>
        /\ local' = [local EXCEPT ![r] = Append(@, Head(source[r]))]
        /\ Len(local[r]) < ChanSize
        /\ UNCHANGED <<batch, unacked, lost, busFaults>>
    BY DEF PublishLocal, StreamUnchanged, BusInv, ChannelTypes
  <1>2. Head(source[r]) \in Messages
    BY <1>1, HeadIsIn
  <1>3. /\ source'[r] = Tail(source[r]) /\ local'[r] = Append(local[r], Head(source[r]))
        /\ \A s \in Replicas : s # r => source'[s] = source[s] /\ local'[s] = local[s]
    BY <1>1
  <1>4. /\ Len(source'[r]) = Len(source[r]) - 1 /\ Len(source[r]) \in Nat
        /\ Len(local'[r]) = Len(local[r]) + 1 /\ Len(local[r]) \in Nat
    BY <1>1, <1>2, <1>3, QueueLengths
  <1>5. ChanSize \in Nat
    BY BusAssumption DEF BusAssumption
  <1>6. \A s \in Replicas : Len(source'[s]) <= ChanSize /\ Len(local'[s]) <= ChanSize
    BY <1>1, <1>3, <1>4, <1>5 DEF SizeInv
  <1> QED
    BY <1>1, <1>6 DEF SizeInv

LEMMA SizePublishesShared ==
  ASSUME BusInv, SizeInv, NEW r \in Replicas, NEW ok \in BOOLEAN, PublishShared(r, ok)
  PROVE  SizeInv'
  <1> DEFINE n == Len(stream)
             limit == IF n + 1 - MaxLen > trimmed THEN n + 1 - MaxLen ELSE trimmed
  <1>1. /\ source \in [Replicas -> Seq(Messages)]
        /\ source' = [source EXCEPT ![r] = Tail(@)] /\ source[r] # <<>>
        /\ \/ trimmed' \in trimmed .. limit
              /\ lost' = lost \cup {stream[i] : i \in cursor + 1 .. trimmed'}
           \/ lost' = lost \cup {Head(source[r])}
        /\ Fault \/ busFaults' = busFaults
        /\ UNCHANGED <<local, batch, unacked>>
    BY DEF PublishShared, Added, BusInv, ChannelTypes
  <1>2. Head(source[r]) \in Messages
    BY <1>1, HeadIsIn
  <1>3. source'[r] = Tail(source[r]) /\ \A s \in Replicas : s # r => source'[s] = source[s]
    BY <1>1
  <1>4. Len(source'[r]) = Len(source[r]) - 1 /\ Len(source[r]) \in Nat
    BY <1>1, <1>3, QueueLengths
  <1>5. ChanSize \in Nat /\ MaxLen \in Nat /\ MaxLen > 0
    BY BusAssumption DEF BusAssumption
  <1>6. \A s \in Replicas : Len(source'[s]) <= ChanSize
    <2>1. Len(source'[r]) <= ChanSize
      BY <1>4, <1>5 DEF SizeInv
    <2> QED
      BY <1>3, <2>1 DEF SizeInv
  <1>7. lost' \subseteq Messages
    <2>1. CASE lost' = lost \cup {Head(source[r])}
      BY <1>2, <2>1 DEF SizeInv
    <2>2. CASE /\ trimmed' \in trimmed .. limit
               /\ lost' = lost \cup {stream[i] : i \in cursor + 1 .. trimmed'}
      <3>1. /\ stream \in Seq(Messages) /\ n \in Nat /\ trimmed \in Nat /\ trimmed <= n
            /\ cursor \in Nat
        BY LenProperties DEF BusInv, StreamTypes
      <3>2. trimmed' \in Nat /\ trimmed' <= n
        <4> HIDE DEF n
        <4> QED
          BY <1>5, <2>2, <3>1
      <3>3. \A i \in cursor + 1 .. trimmed' : i \in 1..n
        BY <3>1, <3>2
      <3>4. \A i \in 1..n : stream[i] \in Messages
        BY <3>1, ElementOfSeq
      <3> QED
        BY <2>2, <3>3, <3>4 DEF SizeInv
    <2> QED
      BY <1>1, <2>1, <2>2
  <1>8. busFaults' \in 0..MaxFaults
    BY <1>1, FaultCounted
  <1> QED
    BY <1>1, <1>6, <1>7, <1>8 DEF SizeInv

LEMMA SizeResends ==
  ASSUME BusInv, SizeInv, NEW r \in Replicas, AddedUnheard(r)
  PROVE  SizeInv'
  <1>1. /\ lost' = lost \cup {stream[i] : i \in cursor + 1 .. trimmed'}
        /\ trimmed' \in trimmed .. (IF Len(stream) + 1 - MaxLen > trimmed
                                    THEN Len(stream) + 1 - MaxLen ELSE trimmed)
        /\ Fault /\ UNCHANGED <<source, local, batch, unacked>>
    BY DEF AddedUnheard, Added
  <1>2. /\ stream \in Seq(Messages) /\ Len(stream) \in Nat /\ cursor \in Nat
        /\ trimmed \in Nat /\ trimmed <= Len(stream) /\ MaxLen \in Nat /\ MaxLen > 0
    BY LenProperties, BusAssumption DEF BusInv, StreamTypes, BusAssumption
  <1>3. trimmed' \in Int /\ trimmed' <= Len(stream)
    BY <1>1, <1>2
  <1>4. \A i \in cursor + 1 .. trimmed' : stream[i] \in Messages
    BY <1>2, <1>3, ElementOfSeq
  <1>5. lost' \subseteq Messages
    BY <1>1, <1>4 DEF SizeInv
  <1>6. busFaults' \in 0..MaxFaults
    BY <1>1, FaultCounted
  <1> QED
    BY <1>1, <1>5, <1>6 DEF SizeInv

LEMMA SizeReads ==
  ASSUME BusInv, SizeInv, NEW r \in Replicas, NEW answered \in BOOLEAN, ReadBatch(r, answered)
  PROVE  SizeInv'
  <1> DEFINE n == Len(stream)
             first == (IF trimmed > cursor THEN trimmed ELSE cursor) + 1
             last == IF first + BatchSize - 1 < n THEN first + BatchSize - 1 ELSE n
             read == SubSeq(stream, first, last)
  <1>1. /\ first <= last
        /\ unacked' = [unacked EXCEPT ![r] = @ \cup ToSet(read)]
        /\ \/ batch' = [batch EXCEPT ![r] = read] /\ lost' = lost
           \/ batch' = batch /\ lost' = lost \cup ToSet(read)
        /\ Fault \/ busFaults' = busFaults
        /\ UNCHANGED <<source, local>>
    BY DEF ReadBatch, Entries
  <1>2. /\ n \in Nat /\ BatchSize \in Nat /\ cursor \in Nat /\ trimmed \in Nat
    BY LenProperties, BusAssumption DEF BusInv, StreamTypes, BusAssumption
  <1>3. first \in Nat /\ 0 < first
    BY <1>2
  <1> HIDE DEF first
  <1>4. last \in Int /\ last <= n /\ last <= first + BatchSize - 1
    BY <1>2, <1>3
  <1>5. last \in Nat
    BY <1>1, <1>3, <1>4
  <1> HIDE DEF last
  <1>6. Len(read) <= BatchSize /\ ToSet(read) \subseteq Messages
    BY <1>1, <1>3, <1>4, <1>5, ReadLength
  <1> HIDE DEF read
  <1>7. \A s \in Replicas : Len(batch'[s]) <= BatchSize
    BY <1>1, <1>6 DEF SizeInv, BusInv, ChannelTypes
  <1>8. unacked' \in [Replicas -> SUBSET Messages] /\ lost' \subseteq Messages
    BY <1>1, <1>6 DEF SizeInv
  <1>9. busFaults' \in 0..MaxFaults
    BY <1>1, FaultCounted
  <1> QED
    BY <1>1, <1>7, <1>8, <1>9 DEF SizeInv

LEMMA SizeHandsOn ==
  ASSUME BusInv, SizeInv, NEW r \in Replicas, HandOn(r)
  PROVE  SizeInv'
  <1>1. /\ batch \in [Replicas -> Seq(Messages)] /\ local \in [Replicas -> Seq(Messages)]
        /\ batch' = [batch EXCEPT ![r] = Tail(@)] /\ batch[r] # <<>>
        /\ local' = [local EXCEPT ![r] = Append(@, Head(batch[r]))]
        /\ Len(local[r]) < ChanSize
        /\ unacked' = unacked \/ unacked' = [unacked EXCEPT ![r] = @ \ {Head(batch[r])}]
        /\ Fault \/ busFaults' = busFaults
        /\ UNCHANGED <<source, lost>>
    BY DEF HandOn, BusInv, ChannelTypes
  <1>2. Head(batch[r]) \in Messages
    BY <1>1, HeadIsIn
  <1>3. /\ batch'[r] = Tail(batch[r]) /\ local'[r] = Append(local[r], Head(batch[r]))
        /\ \A s \in Replicas : s # r => batch'[s] = batch[s] /\ local'[s] = local[s]
    BY <1>1
  <1>4. /\ Len(batch'[r]) = Len(batch[r]) - 1 /\ Len(batch[r]) \in Nat
        /\ Len(local'[r]) = Len(local[r]) + 1 /\ Len(local[r]) \in Nat
    BY <1>1, <1>2, <1>3, QueueLengths
  <1>5. ChanSize \in Nat /\ BatchSize \in Nat
    BY BusAssumption DEF BusAssumption
  <1>6. \A s \in Replicas : Len(batch'[s]) <= BatchSize /\ Len(local'[s]) <= ChanSize
    BY <1>1, <1>3, <1>4, <1>5 DEF SizeInv
  <1>7. unacked' \in [Replicas -> SUBSET Messages]
    BY <1>1 DEF SizeInv
  <1>8. busFaults' \in 0..MaxFaults
    BY <1>1, FaultCounted
  <1> QED
    BY <1>1, <1>6, <1>7, <1>8 DEF SizeInv

LEMMA SizeTakes ==
  ASSUME BusInv, SizeInv, NEW r \in Replicas, TakeMessage(r)
  PROVE  SizeInv'
  <1>1. /\ local \in [Replicas -> Seq(Messages)]
        /\ local' = [local EXCEPT ![r] = Tail(@)] /\ local[r] # <<>>
        /\ UNCHANGED <<source, batch, unacked, lost, busFaults>>
    BY DEF TakeMessage, StreamUnchanged, BusInv, ChannelTypes
  <1>2. local'[r] = Tail(local[r]) /\ \A s \in Replicas : s # r => local'[s] = local[s]
    BY <1>1
  <1>3. Len(local'[r]) = Len(local[r]) - 1 /\ Len(local[r]) \in Nat
    BY <1>1, <1>2, QueueLengths
  <1>4. ChanSize \in Nat
    BY BusAssumption DEF BusAssumption
  <1>5. \A s \in Replicas : Len(local'[s]) <= ChanSize
    <2>1. Len(local'[r]) <= ChanSize
      BY <1>3, <1>4 DEF SizeInv
    <2> QED
      BY <1>2, <2>1 DEF SizeInv
  <1> QED
    BY <1>1, <1>5 DEF SizeInv

LEMMA SizeCrashes ==
  ASSUME BusInv, SizeInv, NEW r \in Replicas, CrashReplica(r)
  PROVE  SizeInv'
  <1>1. /\ source' = [source EXCEPT ![r] = <<>>] /\ batch' = [batch EXCEPT ![r] = <<>>]
        /\ local' = [local EXCEPT ![r] = <<>>]
        /\ lost' = lost \cup ToSet(source[r]) \cup ToSet(batch[r]) \cup ToSet(local[r])
        /\ Fault /\ UNCHANGED unacked
    BY DEF CrashReplica, StreamUnchanged
  <1>2. {ChanSize, BatchSize} \subseteq Nat /\ Len(<<>>) = 0
    BY BusAssumption DEF BusAssumption
  <1>3. \A s \in Replicas : /\ source'[s] \in {source[s], <<>>} /\ batch'[s] \in {batch[s], <<>>}
                            /\ local'[s] \in {local[s], <<>>}
    BY <1>1 DEF BusInv, ChannelTypes
  <1>4. \A s \in Replicas : Len(source'[s]) <= ChanSize /\ Len(local'[s]) <= ChanSize
                            /\ Len(batch'[s]) <= BatchSize
    BY <1>2, <1>3 DEF SizeInv
  <1>5. lost' \subseteq Messages
    BY <1>1, QueueLengths DEF SizeInv, BusInv, ChannelTypes
  <1>6. busFaults' \in 0..MaxFaults
    BY <1>1, FaultCounted
  <1> QED
    BY <1>1, <1>4, <1>5, <1>6 DEF SizeInv

LEMMA SizeStep ==
  ASSUME BusInv, SizeInv, [BusNext]_busVars
  PROVE  SizeInv'
  <1>1. ASSUME BusNext PROVE SizeInv'
    BY <1>1, SizeSends, SizePublishesLocal, SizePublishesShared, SizeResends, SizeReads, SizeHandsOn,
       SizeTakes, SizeCrashes DEF BusNext
  <1>2. CASE UNCHANGED busVars
    BY <1>2 DEF busVars, SizeInv
  <1> QED
    BY <1>1, <1>2

\* The variables of the bus keep their types: no channel and no batch grows
\* beyond its size, since every writer waits for room (bus.go).
THEOREM BusTypeTheorem == BusSpec => []BusType
  <1>1. BusInit => BusInv /\ SourceSent /\ SizeInv
    BY BusInitial, SizeInitial
  <1>2. BusInv /\ SourceSent /\ SizeInv /\ [BusNext]_busVars
           => BusInv' /\ SourceSent' /\ SizeInv'
    BY BusStep, SizeStep
  <1>3. BusInv /\ SizeInv => BusType
    <2> SUFFICES ASSUME BusInv, SizeInv PROVE BusType
      OBVIOUS
    <2>1. \A r \in Replicas :
             /\ source[r] \in Seq(Messages) /\ local[r] \in Seq(Messages)
             /\ batch[r] \in Seq(Messages) /\ taken[r] \in Seq(Messages)
      BY DEF BusInv, ChannelTypes
    <2>2. \A r \in Replicas : /\ Len(source[r]) <= ChanSize /\ Len(local[r]) <= ChanSize
                              /\ Len(batch[r]) <= BatchSize /\ unacked[r] \subseteq Messages
      BY DEF SizeInv
    <2>3. trimmed \in 0..Len(stream) /\ cursor \in 0..Len(stream) /\ stream \in Seq(Messages)
      BY LenProperties DEF BusInv, StreamTypes
    <2>4. origin \in Seq([replica : Replicas, localOnly : BOOLEAN, message : Messages])
      BY DEF BusInv, ChannelTypes, Origins
    <2>5. lost \subseteq Messages /\ busFaults \in 0..MaxFaults
      BY DEF SizeInv
    <2> QED
      BY <2>1, <2>2, <2>3, <2>4, <2>5 DEF BusType
  <1> QED
    BY <1>1, <1>2, <1>3, PTL DEF BusSpec
-----------------------------------------------------------------------------
(* Order.  What a replica has received, and what waits in its process to be   *)
(* received, is one line: taken, then local, then batch.  The line follows    *)
(* the stream, and no message stands in two lines.                            *)

\* m is before n wherever both are in the stream.
Ahead(st, m, n) == m # n /\ \A k, l \in DOMAIN st : st[k] = m /\ st[l] = n => k < l
Sequenced(st, q) == \A i, j \in DOMAIN q : i < j => Ahead(st, q[i], q[j])
Follows(st, p, q) == \A m, n \in Messages : Has(p, m) /\ Has(q, n) => Ahead(st, m, n)

LineOf(r, m) == Has(taken[r], m) \/ Has(local[r], m) \/ Has(batch[r], m)
WasRead(m) == \E k \in 1..cursor : stream[k] = m
Distinct(q) == \A i, j \in DOMAIN q : q[i] = q[j] => i = j

\* The stream holds what leaves its process, each message once.
StreamOnce ==
    /\ Distinct(stream)
    /\ \A m \in Messages : Has(stream, m) => m \in DOMAIN origin /\ ~origin[m].localOnly

\* What waits at a source is nowhere else.
SourceFirst ==
    \A r \in Replicas :
        /\ Distinct(source[r])
        /\ \A m \in Messages : Has(source[r], m) =>
              /\ m \in DOMAIN origin /\ origin[m].replica = r
              /\ ~Has(stream, m) /\ \A s \in Replicas : ~LineOf(s, m)

\* What a replica has is its own, or was read from the stream by nobody else.
OneLine ==
    /\ \A r \in Replicas : \A m \in Messages : LineOf(r, m) =>
          /\ m \in DOMAIN origin
          /\ IF origin[m].localOnly THEN origin[m].replica = r ELSE WasRead(m)
    /\ \A r, s \in Replicas : \A m \in Messages : LineOf(r, m) /\ LineOf(s, m) => r = s

LineInTurn(r) ==
    /\ Sequenced(stream, taken[r]) /\ Sequenced(stream, local[r]) /\ Sequenced(stream, batch[r])
    /\ Follows(stream, taken[r], local[r]) /\ Follows(stream, taken[r], batch[r])
    /\ Follows(stream, local[r], batch[r])

\* A copy is of a message that goes to the stream.
CopiesShared ==
    /\ \A m \in DOMAIN origin : origin[m].message \in DOMAIN origin
    /\ \A m, n \in DOMAIN origin :
          m # n /\ origin[m].message = origin[n].message => ~origin[m].localOnly

OrderInv == StreamOnce /\ SourceFirst /\ OneLine /\ \A r \in Replicas : LineInTurn(r)

-----------------------------------------------------------------------------
\* A line that is in turn stays so when one joins at its end or leaves its head.
LEMMA InTurnJoined ==
  ASSUME NEW st, NEW q \in Seq(Messages), NEW x \in Messages, Sequenced(st, q),
         \A m \in Messages : Has(q, m) => Ahead(st, m, x)
  PROVE  Sequenced(st, Append(q, x))
  <1> DEFINE p == Append(q, x)
             n == Len(q)
  <1>1. /\ n \in Nat /\ DOMAIN q = 1..n /\ DOMAIN p = 1..n + 1
        /\ p[n + 1] = x /\ \A i \in 1..n : p[i] = q[i]
    BY AppendFacts
  <1>2. \A i \in 1..n : q[i] \in Messages /\ Has(q, q[i])
    BY <1>1, ElementOfSeq DEF Has
  <1> HIDE DEF p, n
  <1>3. ASSUME NEW i \in DOMAIN p, NEW j \in DOMAIN p, i < j PROVE Ahead(st, p[i], p[j])
    <2>1. i \in 1..n
      BY <1>1, <1>3
    <2>2. CASE j = n + 1
      BY <1>1, <1>2, <2>1, <2>2
    <2>3. CASE j # n + 1
      <3>1. j \in 1..n
        BY <1>1, <2>3
      <3>2. p[i] = q[i] /\ p[j] = q[j] /\ i \in DOMAIN q /\ j \in DOMAIN q
        BY <1>1, <2>1, <3>1
      <3> QED
        BY <1>3, <3>2 DEF Sequenced
    <2> QED
      BY <2>2, <2>3
  <1> QED
    BY <1>3 DEF Sequenced, p

LEMMA InTurnLeft ==
  ASSUME NEW st, NEW q \in Seq(Messages), q # <<>>, Sequenced(st, q)
  PROVE  /\ Sequenced(st, Tail(q))
         /\ \A m : Has(Tail(q), m) => Ahead(st, Head(q), m)
  <1> DEFINE p == Tail(q)
             n == Len(q)
  <1>1. /\ n \in Nat \ {0} /\ DOMAIN q = 1..n /\ DOMAIN p = 1..n - 1 /\ Head(q) = q[1]
        /\ \A i \in 1..n - 1 : p[i] = q[i + 1]
    BY RestFacts
  <1> HIDE DEF p, n
  <1>2. \A i \in DOMAIN p : i + 1 \in DOMAIN q /\ 1 \in DOMAIN q /\ 1 < i + 1 /\ p[i] = q[i + 1]
    BY <1>1
  <1>3. ASSUME NEW i \in DOMAIN p, NEW j \in DOMAIN p, i < j PROVE Ahead(st, p[i], p[j])
    <2>1. i + 1 < j + 1
      BY <1>1, <1>3
    <2> QED
      BY <1>2, <2>1 DEF Sequenced
  <1>4. ASSUME NEW m, Has(p, m) PROVE Ahead(st, Head(q), m)
    <2>1. PICK i \in DOMAIN p : p[i] = m
      BY <1>4 DEF Has
    <2> QED
      BY <1>1, <1>2, <2>1 DEF Sequenced
  <1> QED
    BY <1>3, <1>4 DEF Sequenced, p

LEMMA DistinctJoined ==
  ASSUME NEW S, NEW q \in Seq(S), NEW x \in S, Distinct(q), ~Has(q, x)
  PROVE  Distinct(Append(q, x))
  <1> DEFINE p == Append(q, x)
             n == Len(q)
  <1>1. /\ n \in Nat /\ DOMAIN q = 1..n /\ DOMAIN p = 1..n + 1
        /\ p[n + 1] = x /\ \A i \in 1..n : p[i] = q[i]
    BY AppendFacts
  <1>2. \A i \in 1..n : q[i] # x
    BY <1>1 DEF Has
  <1> HIDE DEF p, n
  <1>3. ASSUME NEW i \in 1..n + 1, NEW j \in 1..n + 1, p[i] = p[j] PROVE i = j
    <2>1. CASE i = n + 1
      BY <1>1, <1>2, <1>3, <2>1
    <2>2. CASE j = n + 1
      BY <1>1, <1>2, <1>3, <2>2
    <2>3. CASE i \in 1..n /\ j \in 1..n
      BY <1>1, <1>3, <2>3 DEF Distinct
    <2> QED
      BY <1>1, <2>1, <2>2, <2>3
  <1> QED
    BY <1>1, <1>3 DEF Distinct, p

LEMMA DistinctLeft ==
  ASSUME NEW S, NEW q \in Seq(S), q # <<>>, Distinct(q)
  PROVE  Distinct(Tail(q)) /\ ~Has(Tail(q), Head(q))
  <1> DEFINE p == Tail(q)
             n == Len(q)
  <1>1. /\ n \in Nat \ {0} /\ DOMAIN q = 1..n /\ DOMAIN p = 1..n - 1 /\ Head(q) = q[1]
        /\ \A i \in 1..n - 1 : p[i] = q[i + 1]
    BY RestFacts
  <1> HIDE DEF p, n
  <1>2. \A i \in DOMAIN p : i + 1 \in DOMAIN q /\ 1 \in DOMAIN q /\ 1 # i + 1 /\ p[i] = q[i + 1]
    BY <1>1
  <1>3. \A i, j \in DOMAIN p : i + 1 = j + 1 => i = j
    BY <1>1
  <1>4. \A i, j \in DOMAIN p : p[i] = p[j] => i = j
    BY <1>2, <1>3 DEF Distinct
  <1>5. \A i \in DOMAIN p : p[i] # Head(q)
    BY <1>1, <1>2 DEF Distinct
  <1> QED
    BY <1>4, <1>5 DEF Distinct, Has, p

\* A new entry changes the order of no two others.
LEMMA AheadStays ==
  ASSUME NEW st \in Seq(Messages), NEW x \in Messages, NEW m, NEW n, m # x, n # x,
         Ahead(st, m, n)
  PROVE  Ahead(Append(st, x), m, n)
  <1> DEFINE p == Append(st, x)
             z == Len(st)
  <1>1. /\ z \in Nat /\ DOMAIN st = 1..z /\ DOMAIN p = 1..z + 1
        /\ p[z + 1] = x /\ \A i \in 1..z : p[i] = st[i]
    BY AppendFacts
  <1> HIDE DEF p, z
  <1>2. \A k \in DOMAIN p : p[k] # x => k \in DOMAIN st /\ st[k] = p[k]
    BY <1>1
  <1> QED
    BY <1>2 DEF Ahead, p

-----------------------------------------------------------------------------
\* NewMessageBus starts with nothing in line.
LEMMA OrderInitial ==
  ASSUME BusInit
  PROVE  OrderInv
  <1>1. \A m : ~Has(stream, m) /\ \A r \in Replicas : ~Has(source[r], m) /\ ~LineOf(r, m)
    BY DEF BusInit, Has, LineOf
  <1>2. Distinct(stream) /\ \A r \in Replicas : Distinct(source[r])
    BY DEF BusInit, Distinct
  <1>3. \A r \in Replicas : LineInTurn(r)
    BY <1>1 DEF BusInit, LineInTurn, Sequenced, Follows, LineOf
  <1> QED
    BY <1>1, <1>2, <1>3 DEF OrderInv, StreamOnce, SourceFirst, OneLine

\* A message gets the next number, which stands nowhere.
LEMMA OrderSends ==
  ASSUME BusInv, OrderInv, NEW r \in Replicas, NEW l \in BOOLEAN, BusSend(r, l)
  PROVE  OrderInv'
  <1> DEFINE m == Len(origin) + 1
             new == [replica |-> r, localOnly |-> l, message |-> m]
  <1>1. /\ Len(origin) < MaxSent /\ origin' = Append(origin, new) /\ new \in Origins
        /\ new.replica = r
        /\ source' = [source EXCEPT ![r] = Append(@, m)]
        /\ UNCHANGED <<batch, local, taken, stream, cursor>>
    BY NumberIsFree DEF BusSend, StreamUnchanged, Origins
  <1> HIDE DEF new
  <1>2. /\ m \in Messages /\ m \notin DOMAIN origin /\ m \in DOMAIN origin' /\ origin'[m] = new
        /\ \A n \in DOMAIN origin : n \in DOMAIN origin' /\ origin'[n] = origin[n]
    <2>1. /\ Len(origin) \in Nat /\ DOMAIN origin = 1..Len(origin)
          /\ DOMAIN origin' = 1..Len(origin) + 1 /\ origin'[Len(origin) + 1] = new
          /\ \A i \in 1..Len(origin) : origin'[i] = origin[i]
      BY <1>1, AppendFacts DEF BusInv, ChannelTypes
    <2> QED
      BY <1>1, <2>1, BusAssumption DEF BusAssumption, Messages
  <1> HIDE DEF m
  <1>3. /\ source[r] \in Seq(Messages) /\ source'[r] = Append(source[r], m)
        /\ \A s \in Replicas : s # r => source'[s] = source[s]
    BY <1>1 DEF BusInv, ChannelTypes
  <1>4. ~Has(stream, m) /\ \A s \in Replicas : ~Has(source[s], m) /\ ~LineOf(s, m)
    BY <1>2 DEF OrderInv, StreamOnce, SourceFirst, OneLine
  <1>5. Distinct(source'[r]) /\ \A n : Has(source'[r], n) <=> n = m \/ Has(source[r], n)
    BY <1>2, <1>3, <1>4, DistinctJoined, AppendFacts DEF OrderInv, SourceFirst
  <1>6. \A s \in Replicas : \A n : LineOf(s, n)' <=> LineOf(s, n)
    BY <1>1 DEF LineOf
  <1>7. StreamOnce'
    BY <1>1, <1>2 DEF OrderInv, StreamOnce
  <1>8. SourceFirst'
    <2> SUFFICES ASSUME NEW s \in Replicas
                 PROVE  /\ Distinct(source'[s])
                        /\ \A n \in Messages : Has(source'[s], n) =>
                              /\ n \in DOMAIN origin' /\ origin'[n].replica = s
                              /\ ~Has(stream, n) /\ \A u \in Replicas : ~LineOf(u, n)
      BY <1>1, <1>6 DEF SourceFirst
    <2>1. CASE s = r
      BY <1>1, <1>2, <1>4, <1>5, <2>1 DEF OrderInv, SourceFirst
    <2>2. CASE s # r
      BY <1>2, <1>3, <2>2 DEF OrderInv, SourceFirst
    <2> QED
      BY <2>1, <2>2
  <1>9. OneLine'
    <2>1. \A n : WasRead(n)' <=> WasRead(n)
      BY <1>1 DEF WasRead
    <2> QED
      BY <1>2, <1>6, <2>1 DEF OrderInv, OneLine
  <1>10. \A s \in Replicas : LineInTurn(s)'
    BY <1>1 DEF OrderInv, LineInTurn
  <1> QED
    BY <1>7, <1>8, <1>9, <1>10 DEF OrderInv

\* A message that stays in the process is not in the stream: whatever stands
\* before it in the line is ahead of it.
LEMMA OrderPublishesLocal ==
  ASSUME BusInv, OrderInv, NEW r \in Replicas, PublishLocal(r)
  PROVE  OrderInv'
  <1> DEFINE h == Head(source[r])
  <1>1. /\ source[r] # <<>> /\ source' = [source EXCEPT ![r] = Tail(@)] /\ origin[h].localOnly
        /\ local' = [local EXCEPT ![r] = Append(@, h)]
        /\ UNCHANGED <<origin, batch, taken, stream, cursor>>
    BY DEF PublishLocal, StreamUnchanged
  <1>2. source[r] \in Seq(Messages) /\ local[r] \in Seq(Messages) /\ h \in Messages
    BY <1>1, HeadIsIn DEF BusInv, ChannelTypes
  <1>3. /\ source'[r] = Tail(source[r]) /\ local'[r] = Append(local[r], h)
        /\ \A s \in Replicas : s # r => source'[s] = source[s] /\ local'[s] = local[s]
    BY <1>1 DEF BusInv, ChannelTypes
  <1>4. Has(source[r], h) /\ Distinct(source'[r]) /\ ~Has(source'[r], h)
        /\ \A n : Has(source'[r], n) => Has(source[r], n)
    BY <1>1, <1>2, <1>3, RestFacts, DistinctLeft DEF OrderInv, SourceFirst
  <1>5. \A n : Has(local'[r], n) <=> n = h \/ Has(local[r], n)
    BY <1>2, <1>3, AppendFacts
  <1> HIDE DEF h
  <1>6. /\ h \in DOMAIN origin /\ origin[h].replica = r /\ ~Has(stream, h)
        /\ \A s \in Replicas : ~LineOf(s, h) /\ (s # r => ~Has(source[s], h))
    BY <1>2, <1>4 DEF OrderInv, SourceFirst
  <1>7. \A s \in Replicas : \A n : LineOf(s, n)' <=> LineOf(s, n) \/ (s = r /\ n = h)
    BY <1>1, <1>3, <1>5 DEF LineOf
  <1>8. StreamOnce'
    BY <1>1 DEF OrderInv, StreamOnce
  <1>9. SourceFirst'
    <2> SUFFICES ASSUME NEW s \in Replicas
                 PROVE  /\ Distinct(source'[s])
                        /\ \A n \in Messages : Has(source'[s], n) =>
                              /\ n \in DOMAIN origin /\ origin[n].replica = s
                              /\ ~Has(stream, n) /\ \A u \in Replicas : ~LineOf(u, n)'
      BY <1>1 DEF SourceFirst
    <2>1. \A n : Has(source'[s], n) => Has(source[s], n) /\ n # h
      BY <1>3, <1>4, <1>6
    <2>2. Distinct(source'[s])
      BY <1>3, <1>4 DEF OrderInv, SourceFirst
    <2> QED
      BY <1>7, <2>1, <2>2 DEF OrderInv, SourceFirst
  <1>10. OneLine'
    <2>1. \A n : WasRead(n)' <=> WasRead(n)
      BY <1>1 DEF WasRead
    <2> QED
      BY <1>1, <1>6, <1>7, <2>1 DEF OrderInv, OneLine
  <1>11. \A s \in Replicas : LineInTurn(s)'
    <2> SUFFICES ASSUME NEW s \in Replicas, s = r PROVE LineInTurn(s)'
      BY <1>1, <1>3 DEF OrderInv, LineInTurn
    <2>1. \A n : LineOf(r, n) => Ahead(stream, n, h) /\ Ahead(stream, h, n)
      BY <1>6 DEF Ahead, Has
    <2>2. Sequenced(stream, local'[r])
      BY <1>2, <1>3, <2>1, InTurnJoined DEF OrderInv, LineInTurn, LineOf
    <2>3. Follows(stream, taken[r], local'[r]) /\ Follows(stream, local'[r], batch[r])
      BY <1>5, <2>1 DEF OrderInv, LineInTurn, Follows, LineOf
    <2> QED
      BY <1>1, <2>2, <2>3 DEF OrderInv, LineInTurn
  <1> QED
    BY <1>8, <1>9, <1>10, <1>11 DEF OrderInv

\* What the router receives moves up in its line.
LEMMA OrderTakes ==
  ASSUME BusInv, OrderInv, NEW r \in Replicas, TakeMessage(r)
  PROVE  OrderInv'
  <1> DEFINE h == Head(local[r])
  <1>1. /\ local[r] # <<>> /\ local' = [local EXCEPT ![r] = Tail(@)]
        /\ taken' = [taken EXCEPT ![r] = Append(@, h)]
        /\ UNCHANGED <<origin, source, batch, stream, cursor>>
    BY DEF TakeMessage, StreamUnchanged
  <1>2. local[r] \in Seq(Messages) /\ taken[r] \in Seq(Messages) /\ h \in Messages
    BY <1>1, HeadIsIn DEF BusInv, ChannelTypes
  <1>3. /\ local'[r] = Tail(local[r]) /\ taken'[r] = Append(taken[r], h)
        /\ \A s \in Replicas : s # r => local'[s] = local[s] /\ taken'[s] = taken[s]
    BY <1>1 DEF BusInv, ChannelTypes
  <1>4. \A n : Has(local[r], n) <=> n = h \/ Has(local'[r], n)
    BY <1>1, <1>2, <1>3, RestFacts
  <1>5. \A n : Has(taken'[r], n) <=> n = h \/ Has(taken[r], n)
    BY <1>2, <1>3, AppendFacts
  <1>6. Sequenced(stream, local'[r]) /\ \A n : Has(local'[r], n) => Ahead(stream, h, n)
    BY <1>1, <1>2, <1>3, InTurnLeft DEF OrderInv, LineInTurn
  <1> HIDE DEF h
  <1>7. \A s \in Replicas : \A n : LineOf(s, n)' <=> LineOf(s, n)
    BY <1>1, <1>3, <1>4, <1>5 DEF LineOf
  <1>8. StreamOnce' /\ SourceFirst'
    BY <1>1, <1>7 DEF OrderInv, StreamOnce, SourceFirst
  <1>9. OneLine'
    <2>1. \A n : WasRead(n)' <=> WasRead(n)
      BY <1>1 DEF WasRead
    <2> QED
      BY <1>1, <1>7, <2>1 DEF OrderInv, OneLine
  <1>10. \A s \in Replicas : LineInTurn(s)'
    <2> SUFFICES ASSUME NEW s \in Replicas, s = r PROVE LineInTurn(s)'
      BY <1>1, <1>3 DEF OrderInv, LineInTurn
    <2>1. Sequenced(stream, taken'[r])
      BY <1>2, <1>3, <1>4, InTurnJoined DEF OrderInv, LineInTurn, Follows
    <2>2. Follows(stream, taken'[r], local'[r])
      BY <1>4, <1>5, <1>6 DEF OrderInv, LineInTurn, Follows
    <2>3. Follows(stream, taken'[r], batch[r]) /\ Follows(stream, local'[r], batch[r])
      BY <1>2, <1>4, <1>5 DEF OrderInv, LineInTurn, Follows
    <2> QED
      BY <1>1, <1>6, <2>1, <2>2, <2>3 DEF OrderInv, LineInTurn
  <1> QED
    BY <1>8, <1>9, <1>10 DEF OrderInv

\* An entry that is handed on keeps its place in the line.
LEMMA OrderHandsOn ==
  ASSUME BusInv, OrderInv, NEW r \in Replicas, HandOn(r)
  PROVE  OrderInv'
  <1> DEFINE h == Head(batch[r])
  <1>1. /\ batch[r] # <<>> /\ batch' = [batch EXCEPT ![r] = Tail(@)]
        /\ local' = [local EXCEPT ![r] = Append(@, h)]
        /\ UNCHANGED <<origin, source, taken, stream, cursor>>
    BY DEF HandOn
  <1>2. batch[r] \in Seq(Messages) /\ local[r] \in Seq(Messages) /\ h \in Messages
    BY <1>1, HeadIsIn DEF BusInv, ChannelTypes
  <1>3. /\ batch'[r] = Tail(batch[r]) /\ local'[r] = Append(local[r], h)
        /\ \A s \in Replicas : s # r => batch'[s] = batch[s] /\ local'[s] = local[s]
    BY <1>1 DEF BusInv, ChannelTypes
  <1>4. \A n : Has(batch[r], n) <=> n = h \/ Has(batch'[r], n)
    BY <1>1, <1>2, <1>3, RestFacts
  <1>5. \A n : Has(local'[r], n) <=> n = h \/ Has(local[r], n)
    BY <1>2, <1>3, AppendFacts
  <1>6. Sequenced(stream, batch'[r]) /\ \A n : Has(batch'[r], n) => Ahead(stream, h, n)
    BY <1>1, <1>2, <1>3, InTurnLeft DEF OrderInv, LineInTurn
  <1> HIDE DEF h
  <1>7. \A s \in Replicas : \A n : LineOf(s, n)' <=> LineOf(s, n)
    BY <1>1, <1>3, <1>4, <1>5 DEF LineOf
  <1>8. StreamOnce' /\ SourceFirst'
    BY <1>1, <1>7 DEF OrderInv, StreamOnce, SourceFirst
  <1>9. OneLine'
    <2>1. \A n : WasRead(n)' <=> WasRead(n)
      BY <1>1 DEF WasRead
    <2> QED
      BY <1>1, <1>7, <2>1 DEF OrderInv, OneLine
  <1>10. \A s \in Replicas : LineInTurn(s)'
    <2> SUFFICES ASSUME NEW s \in Replicas, s = r PROVE LineInTurn(s)'
      BY <1>1, <1>3 DEF OrderInv, LineInTurn
    <2>1. Sequenced(stream, local'[r])
      BY <1>2, <1>3, <1>4, InTurnJoined DEF OrderInv, LineInTurn, Follows
    <2>2. Follows(stream, local'[r], batch'[r])
      BY <1>4, <1>5, <1>6 DEF OrderInv, LineInTurn, Follows
    <2>3. Follows(stream, taken[r], local'[r]) /\ Follows(stream, taken[r], batch'[r])
      BY <1>2, <1>4, <1>5 DEF OrderInv, LineInTurn, Follows
    <2> QED
      BY <1>1, <1>6, <2>1, <2>2, <2>3 DEF OrderInv, LineInTurn
  <1> QED
    BY <1>8, <1>9, <1>10 DEF OrderInv

\* A new entry of the stream comes after all that was read.
LEMMA OrderPublishesShared ==
  ASSUME BusInv, OrderInv, NEW r \in Replicas, NEW ok \in BOOLEAN, PublishShared(r, ok)
  PROVE  OrderInv'
  <1> DEFINE h == Head(source[r])
  <1>1. /\ source[r] # <<>> /\ source' = [source EXCEPT ![r] = Tail(@)] /\ ~origin[h].localOnly
        /\ stream' = Append(stream, h) \/ stream' = stream
        /\ UNCHANGED <<origin, batch, local, taken, cursor>>
    BY DEF PublishShared, Added
  <1>2. source[r] \in Seq(Messages) /\ h \in Messages /\ stream \in Seq(Messages)
    BY <1>1, HeadIsIn DEF BusInv, ChannelTypes, StreamTypes
  <1>3. /\ source'[r] = Tail(source[r])
        /\ \A s \in Replicas : s # r => source'[s] = source[s]
    BY <1>1 DEF BusInv, ChannelTypes
  <1>4. Has(source[r], h) /\ Distinct(source'[r]) /\ ~Has(source'[r], h)
        /\ \A n : Has(source'[r], n) => Has(source[r], n)
    BY <1>1, <1>2, <1>3, RestFacts, DistinctLeft DEF OrderInv, SourceFirst
  <1>5. /\ \A n : Has(stream', n) => n = h \/ Has(stream, n)
        /\ \A k \in 1..cursor : stream'[k] = stream[k]
    <2>1. CASE stream' = stream
      BY <2>1
    <2>2. CASE stream' = Append(stream, h)
      <3>1. /\ Len(stream) \in Nat /\ \A i \in 1..Len(stream) : stream'[i] = stream[i]
            /\ \A n : Has(stream', n) => n = h \/ Has(stream, n)
        BY <1>2, <2>2, AppendFacts
      <3> QED
        BY <3>1 DEF BusInv, StreamTypes
    <2> QED
      BY <1>1, <2>1, <2>2
  <1> HIDE DEF h
  <1>6. /\ h \in DOMAIN origin /\ origin[h].replica = r /\ ~Has(stream, h)
        /\ \A s \in Replicas : ~LineOf(s, h) /\ (s # r => ~Has(source[s], h))
    BY <1>2, <1>4 DEF OrderInv, SourceFirst
  <1>7. \A s \in Replicas : \A n : LineOf(s, n)' <=> LineOf(s, n)
    BY <1>1 DEF LineOf
  <1>8. StreamOnce'
    <2>1. Distinct(stream')
      BY <1>1, <1>2, <1>6, DistinctJoined DEF OrderInv, StreamOnce
    <2> QED
      BY <1>1, <1>5, <1>6, <2>1 DEF OrderInv, StreamOnce
  <1>9. SourceFirst'
    <2> SUFFICES ASSUME NEW s \in Replicas
                 PROVE  /\ Distinct(source'[s])
                        /\ \A n \in Messages : Has(source'[s], n) =>
                              /\ n \in DOMAIN origin /\ origin[n].replica = s
                              /\ ~Has(stream', n) /\ \A u \in Replicas : ~LineOf(u, n)'
      BY <1>1 DEF SourceFirst
    <2>1. \A n : Has(source'[s], n) => Has(source[s], n) /\ n # h
      BY <1>3, <1>4, <1>6
    <2>2. Distinct(source'[s])
      BY <1>3, <1>4 DEF OrderInv, SourceFirst
    <2> QED
      BY <1>5, <1>7, <2>1, <2>2 DEF OrderInv, SourceFirst
  <1>10. OneLine'
    <2>1. \A n : WasRead(n)' <=> WasRead(n)
      BY <1>1, <1>5 DEF WasRead
    <2> QED
      BY <1>1, <1>7, <2>1 DEF OrderInv, OneLine
  <1>11. ASSUME NEW m, NEW n, m # h, n # h, Ahead(stream, m, n)
         PROVE  Ahead(stream', m, n)
    BY <1>1, <1>2, <1>11, AheadStays
  <1>12. \A s \in Replicas : LineInTurn(s)'
    <2> SUFFICES ASSUME NEW s \in Replicas PROVE LineInTurn(s)'
      OBVIOUS
    <2>1. /\ \A i \in DOMAIN taken[s] : taken[s][i] # h
          /\ \A i \in DOMAIN local[s] : local[s][i] # h
          /\ \A i \in DOMAIN batch[s] : batch[s][i] # h
      BY <1>6 DEF LineOf, Has
    <2>2. Sequenced(stream', taken[s]) /\ Sequenced(stream', local[s]) /\ Sequenced(stream', batch[s])
      BY <1>11, <2>1 DEF OrderInv, LineInTurn, Sequenced
    <2>3. \A n : LineOf(s, n) => n # h
      BY <1>6
    <2>4. /\ Follows(stream', taken[s], local[s]) /\ Follows(stream', taken[s], batch[s])
          /\ Follows(stream', local[s], batch[s])
      BY <1>11, <2>3 DEF OrderInv, LineInTurn, Follows, LineOf
    <2> QED
      BY <1>1, <2>2, <2>4 DEF LineInTurn
  <1> QED
    BY <1>8, <1>9, <1>10, <1>12 DEF OrderInv

\* The copy has a new number, and comes after all that was read.
LEMMA OrderResends ==
  ASSUME BusInv, OrderInv, NEW r \in Replicas, AddedUnheard(r)
  PROVE  OrderInv'
  <1> DEFINE m == Len(origin) + 1
             h == Head(source[r])
             new == origin[h]
  <1>1. /\ source[r] # <<>> /\ Len(origin) < MaxSent /\ origin' = Append(origin, new)
        /\ ~new.localOnly /\ stream' = Append(stream, m)
        /\ UNCHANGED <<source, batch, local, taken, cursor>>
    BY DEF AddedUnheard, Added
  <1>2. new \in Origins
    <2>1. source[r] \in Seq(Messages) /\ h \in Messages /\ Has(source[r], h)
      BY <1>1, RestFacts DEF BusInv, ChannelTypes
    <2>2. h \in DOMAIN origin
      BY <2>1 DEF OrderInv, SourceFirst
    <2> QED
      BY <2>2, LenProperties, ElementOfSeq DEF BusInv, ChannelTypes
  <1> HIDE DEF new, h
  <1>3. /\ m \in Messages /\ m \notin DOMAIN origin /\ m \in DOMAIN origin' /\ origin'[m] = new
        /\ \A n \in DOMAIN origin : n \in DOMAIN origin' /\ origin'[n] = origin[n]
    <2>1. /\ Len(origin) \in Nat /\ DOMAIN origin = 1..Len(origin)
          /\ DOMAIN origin' = 1..Len(origin) + 1 /\ origin'[Len(origin) + 1] = new
          /\ \A i \in 1..Len(origin) : origin'[i] = origin[i]
      BY <1>1, <1>2, AppendFacts DEF BusInv, ChannelTypes
    <2> QED
      BY <1>1, <2>1, BusAssumption DEF BusAssumption, Messages
  <1> HIDE DEF m
  <1>4. stream \in Seq(Messages)
    BY DEF BusInv, StreamTypes
  <1>5. /\ \A n : Has(stream', n) <=> n = m \/ Has(stream, n)
        /\ \A k \in 1..cursor : stream'[k] = stream[k]
    <2>1. /\ Len(stream) \in Nat /\ \A i \in 1..Len(stream) : stream'[i] = stream[i]
          /\ \A n : Has(stream', n) <=> n = m \/ Has(stream, n)
      BY <1>1, <1>3, <1>4, AppendFacts
    <2> QED
      BY <2>1 DEF BusInv, StreamTypes
  <1>6. ~Has(stream, m) /\ \A s \in Replicas : ~Has(source[s], m) /\ ~LineOf(s, m)
    BY <1>3 DEF OrderInv, StreamOnce, SourceFirst, OneLine
  <1>7. /\ \A s \in Replicas : \A n : LineOf(s, n)' <=> LineOf(s, n)
        /\ \A n : WasRead(n)' <=> WasRead(n)
    BY <1>1, <1>5 DEF LineOf, WasRead
  <1>8. StreamOnce'
    <2>1. Distinct(stream')
      BY <1>1, <1>3, <1>4, <1>6, DistinctJoined DEF OrderInv, StreamOnce
    <2> QED
      BY <1>1, <1>3, <1>5, <2>1 DEF OrderInv, StreamOnce
  <1>9. SourceFirst'
    BY <1>1, <1>3, <1>5, <1>6, <1>7 DEF OrderInv, SourceFirst
  <1>10. OneLine'
    BY <1>1, <1>3, <1>7 DEF OrderInv, OneLine
  <1>11. ASSUME NEW x, NEW y, x # m, y # m, Ahead(stream, x, y)
         PROVE  Ahead(stream', x, y)
    BY <1>1, <1>3, <1>4, <1>11, AheadStays
  <1>12. ASSUME NEW s \in Replicas PROVE LineInTurn(s)'
    <2>1. /\ \A i \in DOMAIN taken[s] : taken[s][i] # m
          /\ \A i \in DOMAIN local[s] : local[s][i] # m
          /\ \A i \in DOMAIN batch[s] : batch[s][i] # m
      BY <1>6 DEF LineOf, Has
    <2>2. Sequenced(stream', taken[s]) /\ Sequenced(stream', local[s]) /\ Sequenced(stream', batch[s])
      BY <1>11, <2>1 DEF OrderInv, LineInTurn, Sequenced
    <2>3. \A n : LineOf(s, n) => n # m
      BY <1>6
    <2>4. /\ Follows(stream', taken[s], local[s]) /\ Follows(stream', taken[s], batch[s])
          /\ Follows(stream', local[s], batch[s])
      BY <1>11, <2>3 DEF OrderInv, LineInTurn, Follows, LineOf
    <2> QED
      BY <1>1, <2>2, <2>4 DEF LineInTurn
  <1> QED
    BY <1>8, <1>9, <1>10, <1>12 DEF OrderInv

\* A read takes entries behind the cursor, which nobody has.
LEMMA OrderReads ==
  ASSUME BusInv, OrderInv, NEW r \in Replicas, NEW ok \in BOOLEAN, ReadBatch(r, ok)
  PROVE  OrderInv'
  <1> DEFINE n == Len(stream)
             first == (IF trimmed > cursor THEN trimmed ELSE cursor) + 1
             last == IF first + BatchSize - 1 < n THEN first + BatchSize - 1 ELSE n
             read == SubSeq(stream, first, last)
  <1>1. /\ batch[r] = <<>> /\ first <= last /\ cursor' = last
        /\ batch' = [batch EXCEPT ![r] = read] \/ batch' = batch
        /\ UNCHANGED <<origin, source, stream, local, taken>>
    BY DEF ReadBatch, Entries
  <1>2. /\ stream \in Seq(Messages) /\ n \in Nat /\ DOMAIN stream = 1..n
        /\ cursor \in Nat /\ cursor <= n
        /\ first \in 1..n /\ last \in first..n /\ cursor < first
    <2>1. /\ stream \in Seq(Messages) /\ n \in Nat /\ DOMAIN stream = 1..n
          /\ trimmed \in Nat /\ cursor \in Nat /\ cursor <= n /\ BatchSize \in Nat
      <3>1. StreamTypes
        BY DEF BusInv
      <3>2. BatchSize \in Nat
        BY BusAssumption DEF BusAssumption
      <3>3. /\ stream \in Seq(Messages) /\ trimmed \in Nat /\ trimmed <= Len(stream)
            /\ cursor \in Nat /\ cursor <= Len(stream)
        BY <3>1 DEF StreamTypes
      <3>4. Len(stream) \in Nat /\ DOMAIN stream = 1..Len(stream)
        BY <3>3, LenProperties
      <3> QED
        BY <3>2, <3>3, <3>4
    <2> HIDE DEF n
    <2>2. first \in Nat /\ cursor < first
      <3>1. CASE trimmed > cursor
        BY <2>1, <3>1
      <3>2. CASE ~(trimmed > cursor)
        BY <2>1, <3>2
      <3> QED
        BY <3>1, <3>2
    <2> HIDE DEF first
    <2>3. last <= n /\ last \in Int
      BY <2>1, <2>2
    <2> HIDE DEF last
    <2> QED
      BY <1>1, <2>1, <2>2, <2>3
  <1> HIDE DEF first, last, n
  <1>3. \A i \in first..last : stream[i] \in Messages
    BY <1>2, ElementOfSeq
  <1>4. read = [i \in 1..last - first + 1 |-> stream[first + i - 1]]
    BY <1>2
  <1>5. /\ DOMAIN read = 1..last - first + 1
        /\ \A i \in 1..last - first + 1 : /\ read[i] = stream[first + i - 1]
                                          /\ first + i - 1 \in first..last
    BY <1>2, <1>4
  <1>6. \A m : Has(read, m) => \E k \in first..last : stream[k] = m
    BY <1>5 DEF Has
  <1>7. Sequenced(stream, read)
    <2> SUFFICES ASSUME NEW i \in 1..last - first + 1, NEW j \in 1..last - first + 1, i < j
                 PROVE  Ahead(stream, read[i], read[j])
      BY <1>5 DEF Sequenced
    <2>1. /\ read[i] = stream[first + i - 1] /\ first + i - 1 \in DOMAIN stream
          /\ read[j] = stream[first + j - 1] /\ first + j - 1 \in DOMAIN stream
          /\ first + i - 1 < first + j - 1 /\ first + i - 1 # first + j - 1
      BY <1>2, <1>5
    <2> QED
      BY <2>1 DEF OrderInv, StreamOnce, Distinct, Ahead
  <1> HIDE DEF read
  <1>8. ASSUME NEW m, Has(read, m)
        PROVE  /\ m \in Messages /\ m \in DOMAIN origin /\ ~origin[m].localOnly
               /\ ~WasRead(m) /\ WasRead(m)' /\ \A s \in Replicas : ~LineOf(s, m)
               /\ ~\E s \in Replicas : Has(source[s], m)
    <2>1. PICK k \in first..last : stream[k] = m
      BY <1>6, <1>8
    <2>2. k \in DOMAIN stream /\ m \in Messages /\ Has(stream, m)
      BY <1>2, <1>3, <2>1 DEF Has
    <2>3. m \in DOMAIN origin /\ ~origin[m].localOnly
      BY <2>2 DEF OrderInv, StreamOnce
    <2>4. ~WasRead(m)
      <3> SUFFICES ASSUME NEW i \in 1..cursor, stream[i] = m PROVE FALSE
        BY DEF WasRead
      <3>1. i \in DOMAIN stream /\ i # k
        BY <1>2, <2>1
      <3> QED
        BY <2>1, <2>2, <3>1 DEF OrderInv, StreamOnce, Distinct
    <2>5. WasRead(m)'
      <3>1. k \in 1..cursor' /\ stream'[k] = m
        BY <1>1, <1>2, <2>1
      <3> QED
        BY <3>1 DEF WasRead
    <2> QED
      BY <2>2, <2>3, <2>4, <2>5 DEF OrderInv, OneLine, SourceFirst
  <1>9. \A m : WasRead(m) => WasRead(m)'
    BY <1>1, <1>2 DEF WasRead
  <1>10. /\ \A s \in Replicas : s # r => batch'[s] = batch[s]
         /\ batch'[r] = read \/ batch'[r] = <<>>
         /\ \A m : ~Has(batch[r], m) /\ ~Has(<<>>, m)
    BY <1>1 DEF Has, BusInv, ChannelTypes
  <1>11. /\ \A s \in Replicas : \A m : LineOf(s, m)' => LineOf(s, m) \/ (s = r /\ Has(read, m))
    BY <1>1, <1>10 DEF LineOf
  <1>12. StreamOnce'
    BY <1>1 DEF OrderInv, StreamOnce
  <1>13. SourceFirst'
    BY <1>1, <1>8, <1>11 DEF OrderInv, SourceFirst
  <1>14. OneLine'
    BY <1>1, <1>8, <1>9, <1>11 DEF OrderInv, OneLine
  <1>15. \A s \in Replicas : LineInTurn(s)'
    <2> SUFFICES ASSUME NEW s \in Replicas, s = r PROVE LineInTurn(s)'
      BY <1>1, <1>10 DEF OrderInv, LineInTurn
    <2>1. CASE batch'[r] = <<>>
      BY <1>1, <1>10, <2>1 DEF OrderInv, LineInTurn, Sequenced, Follows
    <2>2. CASE batch'[r] = read
      <3>1. ASSUME NEW m \in Messages, NEW k \in Messages, LineOf(r, m), Has(read, k)
            PROVE  Ahead(stream, m, k)
        <4>1. m # k /\ m \in DOMAIN origin
          BY <1>8, <3>1 DEF OrderInv, OneLine
        <4> SUFFICES ASSUME NEW i \in DOMAIN stream, NEW j \in DOMAIN stream,
                            stream[i] = m, stream[j] = k
                     PROVE  i < j
          BY <4>1 DEF Ahead
        <4>2. ~origin[m].localOnly
          BY DEF OrderInv, StreamOnce, Has
        <4>3. PICK a \in 1..cursor : stream[a] = m
          BY <3>1, <4>2 DEF OrderInv, OneLine, WasRead
        <4>4. PICK b \in first..last : stream[b] = k
          BY <1>6, <3>1
        <4>5. a \in DOMAIN stream /\ b \in DOMAIN stream /\ a < b
          BY <1>2
        <4> QED
          BY <4>3, <4>4, <4>5 DEF OrderInv, StreamOnce, Distinct
      <3>2. Follows(stream, taken[r], read) /\ Follows(stream, local[r], read)
        BY <3>1 DEF Follows, LineOf
      <3> QED
        BY <1>1, <1>7, <2>2, <3>2 DEF OrderInv, LineInTurn
    <2> QED
      BY <1>10, <2>1, <2>2
  <1> QED
    BY <1>12, <1>13, <1>14, <1>15 DEF OrderInv

\* A crash cuts the line off behind what was received.
LEMMA OrderCrashes ==
  ASSUME BusInv, OrderInv, NEW r \in Replicas, CrashReplica(r)
  PROVE  OrderInv'
  <1>1. /\ source' = [source EXCEPT ![r] = <<>>] /\ batch' = [batch EXCEPT ![r] = <<>>]
        /\ local' = [local EXCEPT ![r] = <<>>]
        /\ UNCHANGED <<origin, taken, stream, cursor>>
    BY DEF CrashReplica, StreamUnchanged
  <1>2. /\ \A s \in Replicas : s # r => /\ source'[s] = source[s] /\ batch'[s] = batch[s]
                                        /\ local'[s] = local[s]
        /\ source'[r] = <<>> /\ batch'[r] = <<>> /\ local'[r] = <<>>
        /\ \A m : ~Has(<<>>, m)
    BY <1>1 DEF BusInv, ChannelTypes, Has
  <1>3. /\ \A s \in Replicas : \A m : LineOf(s, m)' => LineOf(s, m)
        /\ \A m : WasRead(m)' <=> WasRead(m)
    BY <1>1, <1>2 DEF LineOf, WasRead
  <1>4. StreamOnce'
    BY <1>1 DEF OrderInv, StreamOnce
  <1>5. SourceFirst'
    <2>1. \A s \in Replicas : Distinct(source'[s]) /\ \A m : Has(source'[s], m) => Has(source[s], m)
      BY <1>2 DEF OrderInv, SourceFirst, Distinct
    <2> QED
      BY <1>1, <1>3, <2>1 DEF OrderInv, SourceFirst
  <1>6. OneLine'
    BY <1>1, <1>3 DEF OrderInv, OneLine
  <1>7. \A s \in Replicas : LineInTurn(s)'
    <2> SUFFICES ASSUME NEW s \in Replicas, s = r PROVE LineInTurn(s)'
      BY <1>1, <1>2 DEF OrderInv, LineInTurn
    <2> QED
      BY <1>1, <1>2 DEF OrderInv, LineInTurn, Sequenced, Follows
  <1> QED
    BY <1>4, <1>5, <1>6, <1>7 DEF OrderInv

LEMMA OrderStep ==
  ASSUME BusInv, OrderInv, [BusNext]_busVars
  PROVE  OrderInv'
  <1>1. ASSUME BusNext PROVE OrderInv'
    BY <1>1, OrderSends, OrderPublishesLocal, OrderPublishesShared, OrderResends,
       OrderReads, OrderHandsOn, OrderTakes, OrderCrashes DEF BusNext
  <1>2. CASE UNCHANGED busVars
    BY <1>2 DEF busVars, OrderInv, StreamOnce, SourceFirst, OneLine, LineInTurn, LineOf, WasRead
  <1> QED
    BY <1>1, <1>2

\* A new message has its own number, and a copy the message of what is copied.
LEMMA CopiesStay ==
  ASSUME BusInv, OrderInv, CopiesShared, [BusNext]_busVars
  PROVE  CopiesShared'
  <1>1. ASSUME NEW r \in Replicas, NEW l \in BOOLEAN, BusSend(r, l) PROVE CopiesShared'
    <2> DEFINE m == Len(origin) + 1
               new == [replica |-> r, localOnly |-> l, message |-> m]
    <2>1. origin' = Append(origin, new) /\ new \in Origins /\ new.message = m
      BY <1>1, NumberIsFree DEF BusSend, Origins
    <2> HIDE DEF new
    <2>2. /\ Len(origin) \in Nat /\ DOMAIN origin = 1..Len(origin)
          /\ DOMAIN origin' = 1..Len(origin) + 1 /\ origin'[Len(origin) + 1] = new
          /\ \A i \in 1..Len(origin) : origin'[i] = origin[i]
      BY <2>1, AppendFacts DEF BusInv, ChannelTypes
    <2>3. /\ m \notin DOMAIN origin /\ m \in DOMAIN origin' /\ origin'[m] = new
          /\ \A n \in DOMAIN origin : n \in DOMAIN origin' /\ origin'[n] = origin[n]
          /\ \A n \in DOMAIN origin' : n = m \/ n \in DOMAIN origin
      BY <2>2
    <2> HIDE DEF m
    <2> QED
      BY <2>1, <2>3 DEF CopiesShared
  <1>2. ASSUME NEW r \in Replicas, AddedUnheard(r) PROVE CopiesShared'
    <2> DEFINE m == Len(origin) + 1
               h == Head(source[r])
               new == origin[h]
    <2>1. source[r] # <<>> /\ origin' = Append(origin, new) /\ ~new.localOnly
      BY <1>2 DEF AddedUnheard
    <2>2. h \in DOMAIN origin /\ new \in Origins
      <3>1. source[r] \in Seq(Messages) /\ h \in Messages /\ Has(source[r], h)
        BY <2>1, RestFacts DEF BusInv, ChannelTypes
      <3>2. h \in DOMAIN origin
        BY <3>1 DEF OrderInv, SourceFirst
      <3> QED
        BY <3>2, LenProperties, ElementOfSeq DEF BusInv, ChannelTypes
    <2>3. /\ Len(origin) \in Nat /\ DOMAIN origin = 1..Len(origin)
          /\ DOMAIN origin' = 1..Len(origin) + 1 /\ origin'[Len(origin) + 1] = new
          /\ \A i \in 1..Len(origin) : origin'[i] = origin[i]
      BY <2>1, <2>2, AppendFacts DEF BusInv, ChannelTypes
    <2>4. /\ m \notin DOMAIN origin /\ m \in DOMAIN origin' /\ origin'[m] = origin[h]
          /\ \A n \in DOMAIN origin : n \in DOMAIN origin' /\ origin'[n] = origin[n]
          /\ \A n \in DOMAIN origin' : n = m \/ n \in DOMAIN origin
      BY <2>3
    <2>5. ~origin[h].localOnly
      BY <2>1
    <2> HIDE DEF m, h, new
    <2>6. ASSUME NEW n \in DOMAIN origin' PROVE origin'[n].message \in DOMAIN origin'
      BY <2>2, <2>4 DEF CopiesShared
    <2>7. ASSUME NEW n \in DOMAIN origin', NEW k \in DOMAIN origin', n # k,
                 origin'[n].message = origin'[k].message
          PROVE  ~origin'[n].localOnly
      <3>1. CASE n = m
        BY <2>4, <2>5, <3>1
      <3>2. CASE n \in DOMAIN origin /\ k \in DOMAIN origin
        BY <2>4, <2>7, <3>2 DEF CopiesShared
      <3>3. CASE n \in DOMAIN origin /\ k = m
        <4>1. n = h \/ ~origin[n].localOnly
          BY <2>2, <2>4, <2>7, <3>3 DEF CopiesShared
        <4> QED
          BY <2>4, <2>5, <3>3, <4>1
      <3> QED
        BY <2>4, <3>1, <3>2, <3>3
    <2> QED
      BY <2>6, <2>7 DEF CopiesShared
  <1>3. origin' = origin => CopiesShared'
    BY DEF CopiesShared
  <1>4. ASSUME NEW r \in Replicas,
               \/ PublishLocal(r) \/ \E ok \in BOOLEAN : PublishShared(r, ok)
               \/ \E ok \in BOOLEAN : ReadBatch(r, ok)
               \/ HandOn(r) \/ TakeMessage(r) \/ CrashReplica(r)
        PROVE  CopiesShared'
    BY <1>3, <1>4
       DEF PublishLocal, PublishShared, ReadBatch, HandOn, TakeMessage, CrashReplica
  <1>5. UNCHANGED busVars => CopiesShared'
    BY <1>3 DEF busVars
  <1> QED
    BY <1>1, <1>2, <1>4, <1>5 DEF BusNext

\* However acknowledgements, answers and processes fail, the replicas' share of
\* the stream is received once, by one of them, in the stream's order, and what
\* is published for this process only stays in it.  A message is received twice
\* only as two entries, which a repeated XADD makes of it.
THEOREM TakenTheorem == BusSpec => []TakenOnceInOrder
  <1>1. BusInv /\ OrderInv /\ CopiesShared => TakenOnceInOrder
    <2> SUFFICES ASSUME BusInv, OrderInv, CopiesShared,
                        NEW r \in Replicas, NEW i \in DOMAIN taken[r]
                 PROVE  /\ origin[taken[r][i]].localOnly => origin[taken[r][i]].replica = r
                        /\ \A s \in Replicas : \A j \in DOMAIN taken[s] :
                              /\ taken[s][j] = taken[r][i] => s = r /\ j = i
                              /\ origin[taken[s][j]].message = origin[taken[r][i]].message
                                 /\ taken[s][j] # taken[r][i]
                                    => {taken[r][i], taken[s][j]} \subseteq ToSet(stream)
                        /\ \A j \in DOMAIN taken[r] : \A k, l \in DOMAIN stream :
                              i < j /\ stream[k] = taken[r][i] /\ stream[l] = taken[r][j]
                              => k < l
      BY DEF TakenOnceInOrder
    <2>1. \A s \in Replicas : /\ taken[s] \in Seq(Messages) /\ DOMAIN taken[s] \subseteq Nat
                              /\ \A j \in DOMAIN taken[s] : taken[s][j] \in Messages
      BY LenProperties, ElementOfSeq DEF BusInv, ChannelTypes
    <2>2. \A s \in Replicas : \A j \in DOMAIN taken[s] : LineOf(s, taken[s][j])
      BY DEF LineOf, Has
    <2>3. origin[taken[r][i]].localOnly => origin[taken[r][i]].replica = r
      BY <2>1, <2>2 DEF OrderInv, OneLine
    <2>4. ASSUME NEW s \in Replicas, NEW j \in DOMAIN taken[s], taken[s][j] = taken[r][i]
          PROVE  s = r /\ j = i
      <3>1. s = r
        BY <2>1, <2>2, <2>4 DEF OrderInv, OneLine
      <3>2. ~(i < j) /\ ~(j < i)
        BY <2>4, <3>1 DEF OrderInv, LineInTurn, Sequenced, Ahead
      <3>3. i \in Nat /\ j \in Nat
        BY <2>1
      <3> QED
        BY <3>1, <3>2, <3>3
    <2>5. \A j \in DOMAIN taken[r] : i < j => Ahead(stream, taken[r][i], taken[r][j])
      BY DEF OrderInv, LineInTurn, Sequenced
    <2>6. ASSUME NEW s \in Replicas, NEW j \in DOMAIN taken[s],
                 origin[taken[s][j]].message = origin[taken[r][i]].message,
                 taken[s][j] # taken[r][i]
          PROVE  {taken[r][i], taken[s][j]} \subseteq ToSet(stream)
      <3>1. /\ taken[r][i] \in DOMAIN origin /\ taken[s][j] \in DOMAIN origin
            /\ taken[r][i] \in Messages /\ taken[s][j] \in Messages
        BY <2>1, <2>2 DEF OrderInv, OneLine
      <3>2. ~origin[taken[r][i]].localOnly /\ ~origin[taken[s][j]].localOnly
        BY <2>6, <3>1 DEF CopiesShared
      <3>3. WasRead(taken[r][i]) /\ WasRead(taken[s][j])
        BY <2>2, <3>1, <3>2 DEF OrderInv, OneLine
      <3>4. \A m : WasRead(m) => m \in ToSet(stream)
        BY LenProperties DEF WasRead, ToSet, BusInv, StreamTypes
      <3> QED
        BY <3>3, <3>4
    <2> QED
      BY <2>3, <2>4, <2>5, <2>6 DEF Ahead
  <1>2. BusInit => BusInv /\ SourceSent /\ OrderInv /\ CopiesShared
    <2>1. BusInit => CopiesShared
      BY DEF BusInit, CopiesShared
    <2> QED
      BY <2>1, BusInitial, OrderInitial
  <1>3. BusInv /\ SourceSent /\ OrderInv /\ CopiesShared /\ [BusNext]_busVars
           => BusInv' /\ SourceSent' /\ OrderInv' /\ CopiesShared'
    BY BusStep, OrderStep, CopiesStay
  <1> QED
    BY <1>1, <1>2, <1>3, PTL DEF BusSpec

-----------------------------------------------------------------------------
PostRecord == [at : {"loop", "drain", "returned"}, turnPending : BOOLEAN,
               waitsForTurn : BOOLEAN, forwardedAny : BOOLEAN,
               why : {"", "done", "agentDone", "noResponse", "gone"}]
Emission == [at : {"idle", "stored", "sending"}, seq : Nat, kind : Kinds, to : SUBSET Readers]

\* What the steps need of the types.
WireTypes ==
    /\ eventLog \in Seq(Kinds)
    /\ listening \subseteq Readers
    /\ chan \in [Readers -> Seq(Envelope)]
    /\ emitting \in [Emitters -> Emission]
    /\ emits \in [Emitters -> Nat]
    /\ ended \in [Emitters -> {"no", "silent"} \cup LastWords]
    /\ post \in PostRecord

\* The POST is subscribed until it returns.
Subscribed == post.at # "returned" => Post \in listening /\ Post \notin closedChans

\* An emitter that has ended emits nothing, and only then does the POST drain.
Over ==
    /\ \A e \in Emitters : ended[e] # "no" => emitting[e].at = "idle"
    /\ post.at = "drain" => ended[Turn] # "no"
    /\ post.at # "returned" => post.why = ""

\* The turn has said nothing more that is still on its way to the POST's channel.
SentToPost ==
    emitting[Turn].at = "idle" \/ (emitting[Turn].at = "sending" /\ Post \notin emitting[Turn].to)

\* The POST knows, or will find in its channel, that a turn is over.
Heard == post.turnPending \/ \E i \in DOMAIN chan[Post] : chan[Post][i].kind \in LastWords

\* The last word of the turn: as the event that is being sent, or as its end.
LastWord ==
    \/ ended[Turn] \in LastWords
    \/ emitting[Turn].at = "sending" /\ Post \notin emitting[Turn].to
       /\ emitting[Turn].kind \in LastWords

Listening == post.at # "returned" /\ Post \notin overflowed

HearsWord  == Listening /\ LastWord => Heard
HearsFirst == Listening /\ SentToPost /\ emits[Turn] # 0
                 => post.forwardedAny \/ post.turnPending \/ chan[Post] # <<>>

StreamInv ==
    /\ WireTypes /\ Subscribed /\ Over /\ HearsWord /\ HearsFirst
    /\ PostHearsTheEnd
-----------------------------------------------------------------------------
LEMMA StreamInitial ==
  ASSUME StreamInit
  PROVE  StreamInv
  <1>1. WireTypes
    <2>1. eventLog \in Seq(Kinds) /\ chan \in [Readers -> Seq(Envelope)]
      BY EmptySeq DEF StreamInit
    <2>2. NoEvent \in Emission
      BY DEF NoEvent, Emission, Kinds, Unstored
    <2> QED
      BY <2>1, <2>2 DEF StreamInit, WireTypes, PostRecord, Readers
  <1>2. Subscribed /\ Over /\ HearsWord /\ HearsFirst
    BY StreamAssumption DEF StreamInit, StreamAssumption, Subscribed, Over, HearsWord,
       HearsFirst, LastWord, NoEvent, Emitters, LastWords
  <1>3. PostHearsTheEnd
    BY DEF StreamInit, PostHearsTheEnd
  <1> QED
    BY <1>1, <1>2, <1>3 DEF StreamInv

\* A turn that begins an event has not sent it yet.
LEMMA StreamEmit ==
  ASSUME StreamInv, NEW e \in Emitters, NEW kind \in Kinds, Emit(e, kind)
  PROVE  StreamInv'
  <1>1. /\ emitting[e].at = "idle" /\ ended[e] = "no"
        /\ emits' = [emits EXCEPT ![e] = @ + 1]
        /\ UNCHANGED <<listening, closedChans, chan, ended, overflowed, post>>
    BY DEF Emit, ReadersUnchanged
  <1>2. \E n \in Nat : emitting' = [emitting EXCEPT ![e] =
                          [at |-> "stored", kind |-> kind, to |-> {}, seq |-> n]]
    <2>1. Len(eventLog) + 1 \in Nat /\ Unstored \in Nat
      BY LenProperties DEF StreamInv, WireTypes, Unstored
    <2> QED
      BY <2>1 DEF Emit
  <1>3. eventLog' \in Seq(Kinds)
    <2>1. eventLog' = eventLog \/ eventLog' = Append(eventLog, kind)
      BY DEF Emit
    <2>2. Append(eventLog, kind) \in Seq(Kinds)
      BY AppendProperties DEF StreamInv, WireTypes
    <2> QED
      BY <2>1, <2>2 DEF StreamInv, WireTypes
  <1>4. /\ emitting' \in [Emitters -> Emission] /\ emitting'[e].at = "stored"
        /\ \A f \in Emitters : f # e => emitting'[f] = emitting[f]
    BY <1>2 DEF StreamInv, WireTypes, Emission
  <1>5. WireTypes'
    <2>1. emits' \in [Emitters -> Nat]
      BY <1>1 DEF StreamInv, WireTypes
    <2> QED
      BY <1>1, <1>3, <1>4, <2>1 DEF StreamInv, WireTypes
  <1>6. Subscribed' /\ Over'
    BY <1>1, <1>4 DEF StreamInv, Subscribed, Over
  <1>7. e # Turn => emits'[Turn] = emits[Turn] /\ emitting'[Turn] = emitting[Turn]
    BY <1>1, <1>4 DEF StreamInv, WireTypes, Emitters
  <1>8. HearsWord' /\ HearsFirst'
    BY <1>1, <1>4, <1>7
       DEF StreamInv, HearsWord, HearsFirst, LastWord, SentToPost, Heard, Listening, LastWords
  <1>9. PostHearsTheEnd'
    BY <1>1, <1>7 DEF StreamInv, PostHearsTheEnd
  <1> QED
    BY <1>5, <1>6, <1>8, <1>9 DEF StreamInv

\* Publish's copy of the list has the POST in it.
LEMMA StreamCopy ==
  ASSUME StreamInv, NEW e \in Emitters, Copy(e)
  PROVE  StreamInv'
  <1>1. /\ emitting[e].at = "stored"
        /\ emitting' = [emitting EXCEPT ![e].at = "sending", ![e].to = listening]
        /\ UNCHANGED <<eventLog, listening, closedChans, chan, emits, ended, overflowed, post>>
    BY DEF Copy, ReadersUnchanged
  <1>2. /\ emitting' \in [Emitters -> Emission]
        /\ emitting'[e].at = "sending" /\ emitting'[e].to = listening
        /\ \A f \in Emitters : f # e => emitting'[f] = emitting[f]
    BY <1>1 DEF StreamInv, WireTypes, Emission
  <1>3. WireTypes' /\ Subscribed' /\ Over'
    BY <1>1, <1>2 DEF StreamInv, WireTypes, Subscribed, Over
  <1>4. e # Turn => emitting'[Turn] = emitting[Turn]
    BY <1>2 DEF Emitters
  <1>5. Listening' => Post \in listening
    BY <1>1 DEF StreamInv, Subscribed, Listening
  <1>6. HearsWord' /\ HearsFirst'
    BY <1>1, <1>2, <1>4, <1>5
       DEF StreamInv, HearsWord, HearsFirst, LastWord, SentToPost, Heard, Listening, LastWords
  <1>7. PostHearsTheEnd'
    BY <1>1 DEF StreamInv, PostHearsTheEnd
  <1> QED
    BY <1>3, <1>6, <1>7 DEF StreamInv

\* What is sent to the POST is in its channel then, or the channel was full.
LEMMA StreamSend ==
  ASSUME StreamInv, NEW e \in Emitters, NEW r \in Readers, Send(e, r)
  PROVE  StreamInv'
  <1> DEFINE env == [seq |-> emitting[e].seq, kind |-> emitting[e].kind]
             full == r \notin closedChans /\ Len(chan[r]) = BufferSize
  <1>1. /\ emitting[e].at = "sending" /\ r \in emitting[e].to
        /\ emitting' = [emitting EXCEPT ![e].to = @ \ {r}]
        /\ \/ chan' = chan /\ (r = Post => Post \in closedChans \/ Post \in overflowed')
           \/ chan' = [chan EXCEPT ![r] = Append(@, env)]
        /\ overflowed \subseteq overflowed'
        /\ UNCHANGED <<eventLog, listening, closedChans, emits, ended, post>>
    BY DEF Send, ReadersUnchanged
  <1>2. /\ env \in Envelope /\ env.kind = emitting[e].kind
        /\ emitting' \in [Emitters -> Emission] /\ emitting'[e].at = "sending"
        /\ emitting'[e].kind = emitting[e].kind /\ emitting'[e].to = emitting[e].to \ {r}
        /\ \A f \in Emitters : f # e => emitting'[f] = emitting[f]
    BY <1>1 DEF StreamInv, WireTypes, Emission, Envelope
  <1> HIDE DEF env
  <1>3. chan' \in [Readers -> Seq(Envelope)]
    <2>1. chan[r] \in Seq(Envelope) /\ Append(chan[r], env) \in Seq(Envelope)
      BY <1>2, AppendProperties DEF StreamInv, WireTypes
    <2> QED
      BY <1>1, <2>1 DEF StreamInv, WireTypes
  <1>4. WireTypes' /\ Subscribed' /\ Over'
    BY <1>1, <1>2, <1>3 DEF StreamInv, WireTypes, Subscribed, Over
  <1>5. /\ Heard => Heard'
        /\ chan[Post] # <<>> => chan'[Post] # <<>>
        /\ Listening' /\ r = Post => chan'[Post] # <<>> /\ (env.kind \in LastWords => Heard')
    <2>1. Post \in Readers /\ chan[Post] \in Seq(Envelope)
      BY DEF StreamInv, WireTypes, Readers
    <2>2. CASE chan' = chan /\ (r = Post => Post \in closedChans \/ Post \in overflowed')
      BY <1>1, <2>2 DEF Heard, Listening, StreamInv, Subscribed
    <2>3. CASE chan' = [chan EXCEPT ![r] = Append(@, env)] /\ r # Post
      <3>1. chan'[Post] = chan[Post]
        BY <2>1, <2>3 DEF StreamInv, WireTypes
      <3>2. post' = post
        BY <1>1
      <3> QED
        BY <2>3, <3>1, <3>2 DEF Heard
    <2>4. CASE chan' = [chan EXCEPT ![r] = Append(@, env)] /\ r = Post
      <3>1. /\ chan'[Post] = Append(chan[Post], env) /\ Len(chan[Post]) \in Nat
            /\ DOMAIN chan[Post] = 1..Len(chan[Post])
            /\ DOMAIN chan'[Post] = 1..Len(chan[Post]) + 1
            /\ chan'[Post][Len(chan[Post]) + 1] = env
            /\ \A i \in 1..Len(chan[Post]) : chan'[Post][i] = chan[Post][i]
        BY <1>2, <2>1, <2>4, AppendProperties, LenProperties DEF StreamInv, WireTypes
      <3>2. Len(chan[Post]) + 1 \in DOMAIN chan'[Post]
        BY <3>1
      <3>3. chan'[Post] # <<>>
        BY <3>2
      <3> QED
        BY <1>1, <3>1, <3>2, <3>3 DEF Heard
    <2> QED
      BY <1>1, <2>2, <2>3, <2>4
  <1>6. e # Turn => emitting'[Turn] = emitting[Turn]
    BY <1>2 DEF Emitters
  <1>7. Listening' => Listening
    BY <1>1 DEF Listening
  <1>8. HearsWord' /\ HearsFirst'
    <2>1. CASE e # Turn
      BY <1>1, <1>5, <1>6, <1>7, <2>1
         DEF StreamInv, HearsWord, HearsFirst, LastWord, SentToPost
    <2>2. CASE e = Turn /\ r # Post
      BY <1>1, <1>2, <1>5, <1>7, <2>2
         DEF StreamInv, HearsWord, HearsFirst, LastWord, SentToPost
    <2>3. CASE e = Turn /\ r = Post
      <3>1. ended[Turn] = "no"
        BY <1>1, <2>3 DEF StreamInv, Over, Emitters
      <3> QED
        BY <1>1, <1>2, <1>5, <2>3, <3>1 DEF HearsWord, HearsFirst, LastWord, LastWords
    <2> QED
      BY <2>1, <2>2, <2>3
  <1>9. PostHearsTheEnd'
    BY <1>1 DEF StreamInv, PostHearsTheEnd
  <1> QED
    BY <1>4, <1>8, <1>9 DEF StreamInv

LEMMA StreamSentOrEnds ==
  ASSUME StreamInv, NEW e \in Emitters, Sent(e) \/ EndSilently(e)
  PROVE  StreamInv'
  <1>1. /\ ended[e] = "no"
        /\ \/ /\ emitting[e].at = "sending" /\ emitting[e].to = {}
              /\ emitting' = [emitting EXCEPT ![e] = NoEvent]
              /\ ended' = IF emitting[e].kind \in LastWords
                          THEN [ended EXCEPT ![e] = emitting[e].kind] ELSE ended
           \/ /\ emitting[e].at = "idle" /\ emitting' = emitting
              /\ ended' = [ended EXCEPT ![e] = "silent"]
        /\ UNCHANGED <<eventLog, listening, closedChans, chan, emits, overflowed, post>>
    BY DEF Sent, EndSilently, ReadersUnchanged, StreamInv, Over
  <1>2. NoEvent \in Emission /\ NoEvent.at = "idle"
    BY DEF NoEvent, Emission, Kinds, Unstored
  <1>3. /\ emitting' \in [Emitters -> Emission]
        /\ ended' \in [Emitters -> {"no", "silent"} \cup LastWords]
        /\ emitting'[e].at = "idle"
        /\ \A f \in Emitters : f # e => emitting'[f] = emitting[f] /\ ended'[f] = ended[f]
        /\ ended'[e] \in LastWords => ended'[e] = emitting[e].kind
                                       /\ emitting[e].at = "sending" /\ emitting[e].to = {}
    BY <1>1, <1>2 DEF StreamInv, WireTypes, LastWords
  <1>4. WireTypes' /\ Subscribed'
    BY <1>1, <1>3 DEF StreamInv, WireTypes, Subscribed
  <1>5. Over'
    BY <1>1, <1>3 DEF StreamInv, Over, Emitters
  <1>6. SentToPost' => SentToPost
    BY <1>1, <1>3 DEF SentToPost, Emitters
  <1>7. LastWord' => LastWord
    BY <1>1, <1>3 DEF LastWord, Emitters
  <1>8. (Listening' => Listening) /\ (Heard => Heard')
    BY <1>1 DEF Listening, Heard
  <1>9. HearsWord' /\ HearsFirst'
    BY <1>1, <1>6, <1>7, <1>8 DEF StreamInv, HearsWord, HearsFirst
  <1>10. PostHearsTheEnd'
    BY <1>1, <1>3 DEF StreamInv, PostHearsTheEnd, Emitters
  <1> QED
    BY <1>4, <1>5, <1>9, <1>10 DEF StreamInv

\* A response that is over has a reason; the POST's own is true.
LEMMA StreamPostReturns ==
  ASSUME StreamInv, EmittersUnchanged, NEW why \in {"done", "agentDone", "noResponse", "gone"},
         PostReturns(why),
         why \in {"agentDone", "noResponse"} /\ Post \notin overflowed => ended[Turn] = "silent",
         why = "noResponse" /\ Post \notin overflowed => emits[Turn] = 0
  PROVE  StreamInv'
  <1>1. /\ post' = [at |-> "returned", turnPending |-> FALSE, waitsForTurn |-> FALSE,
                    forwardedAny |-> FALSE, why |-> why]
        /\ listening' = listening \ {Post} /\ chan' = [chan EXCEPT ![Post] = <<>>]
        /\ UNCHANGED <<eventLog, emitting, emits, ended, overflowed>>
    BY DEF PostReturns, EmittersUnchanged
  <1>2. post' \in PostRecord /\ post'.at = "returned" /\ post'.why = why
    BY <1>1 DEF PostRecord
  <1>3. chan' \in [Readers -> Seq(Envelope)]
    BY <1>1, EmptySeq DEF StreamInv, WireTypes
  <1>4. WireTypes' /\ Subscribed' /\ Over'
    BY <1>1, <1>2, <1>3 DEF StreamInv, WireTypes, Subscribed, Over
  <1>5. HearsWord' /\ HearsFirst'
    BY <1>2 DEF HearsWord, HearsFirst, Listening
  <1>6. PostHearsTheEnd'
    BY <1>1, <1>2 DEF PostHearsTheEnd
  <1> QED
    BY <1>4, <1>5, <1>6 DEF StreamInv

\* What is forwarded or kept was there; what is behind it still is.
LEMMA StreamPostReceives ==
  ASSUME StreamInv, PostReceives
  PROVE  StreamInv'
  <1> DEFINE c == chan[Post]
             kind == Head(chan[Post]).kind
  <1>1. /\ c \in Seq(Envelope) /\ c # <<>> /\ Head(c) \in Envelope /\ Tail(c) \in Seq(Envelope)
        /\ Head(c) = c[1] /\ Len(c) \in Nat /\ DOMAIN c = 1..Len(c)
        /\ DOMAIN Tail(c) = 1..Len(c) - 1 /\ \A i \in 1..Len(c) - 1 : Tail(c)[i] = c[i + 1]
    <2>1. c \in Seq(Envelope) /\ c # <<>>
      BY DEF PostReceives, StreamInv, WireTypes, Readers
    <2>2. /\ Head(c) \in Envelope /\ Tail(c) \in Seq(Envelope) /\ Head(c) = c[1]
          /\ Len(Tail(c)) = Len(c) - 1 /\ Len(c) \in Nat /\ DOMAIN c = 1..Len(c)
          /\ \A i \in 1..Len(Tail(c)) : Tail(c)[i] = c[i + 1]
      BY <2>1, HeadTailProperties, LenProperties
    <2>3. DOMAIN Tail(c) = 1..Len(Tail(c))
      BY <2>2, LenProperties
    <2> QED
      BY <2>1, <2>2, <2>3
  <1>2. /\ post.at \in {"loop", "drain"} /\ EmittersUnchanged
        /\ \/ /\ kind = "turn_pending" /\ PostStays([post EXCEPT !.turnPending = TRUE])
              /\ PostTakes
           \/ kind = "done" /\ PostReturns("done")
           \/ /\ kind \notin LastWords /\ PostStays([post EXCEPT !.forwardedAny = TRUE])
              /\ PostTakes
    BY DEF PostReceives
  <1>3. CASE PostReturns("done")
    BY <1>2, <1>3, StreamPostReturns
  <1>4. ASSUME PostTakes, NEW new \in PostRecord, PostStays(new), new.at = post.at,
               new.why = post.why, post.turnPending => new.turnPending,
               post.forwardedAny => new.forwardedAny, new.turnPending \/ new.forwardedAny,
               kind \in LastWords => new.turnPending
        PROVE  StreamInv'
    <2>1. /\ post' = new /\ chan' = [chan EXCEPT ![Post] = Tail(@)]
          /\ UNCHANGED <<eventLog, listening, closedChans, emitting, emits, ended, overflowed>>
      BY <1>2, <1>4 DEF PostTakes, PostStays, EmittersUnchanged
    <2>2. chan' \in [Readers -> Seq(Envelope)] /\ chan'[Post] = Tail(c)
      BY <1>1, <2>1 DEF StreamInv, WireTypes, Readers
    <2> HIDE DEF c, kind
    <2>3. WireTypes' /\ Subscribed' /\ Over'
      BY <1>4, <2>1, <2>2 DEF StreamInv, WireTypes, Subscribed, Over
    <2>4. Heard => Heard'
      <3>1. CASE post.turnPending
        BY <1>4, <2>1, <3>1 DEF Heard
      <3>2. ASSUME NEW i \in DOMAIN c, c[i].kind \in LastWords PROVE Heard'
        <4>1. CASE i = 1
          BY <1>1, <1>4, <2>1, <3>2, <4>1 DEF Heard, kind, c
        <4>2. CASE i # 1
          <5>1. i - 1 \in 1..Len(c) - 1 /\ (i - 1) + 1 = i
            BY <1>1, <3>2, <4>2
          <5>2. i - 1 \in DOMAIN Tail(c) /\ Tail(c)[i - 1] = c[i]
            BY <1>1, <5>1
          <5> QED
            BY <2>2, <3>2, <5>2 DEF Heard
        <4> QED
          BY <4>1, <4>2
      <3> QED
        BY <3>1, <3>2 DEF Heard, c
    <2>5. (Listening' => Listening) /\ (LastWord' => LastWord)
      BY <1>4, <2>1 DEF Listening, LastWord
    <2>6. HearsWord' /\ HearsFirst'
      BY <1>4, <2>1, <2>4, <2>5 DEF StreamInv, HearsWord, HearsFirst
    <2>7. PostHearsTheEnd'
      BY <1>4, <2>1 DEF StreamInv, PostHearsTheEnd
    <2> QED
      BY <2>3, <2>6, <2>7 DEF StreamInv
  <1>5. CASE /\ kind = "turn_pending" /\ PostStays([post EXCEPT !.turnPending = TRUE])
             /\ PostTakes
    <2> DEFINE new == [post EXCEPT !.turnPending = TRUE]
    <2>1. /\ new \in PostRecord /\ new.turnPending /\ new.at = post.at /\ new.why = post.why
          /\ new.forwardedAny = post.forwardedAny
      BY DEF StreamInv, WireTypes, PostRecord
    <2> HIDE DEF new
    <2> QED
      BY <1>4, <1>5, <2>1 DEF new
  <1>6. CASE /\ kind \notin LastWords /\ PostStays([post EXCEPT !.forwardedAny = TRUE])
             /\ PostTakes
    <2> DEFINE new == [post EXCEPT !.forwardedAny = TRUE]
    <2>1. /\ new \in PostRecord /\ new.turnPending = post.turnPending /\ new.at = post.at
          /\ new.why = post.why /\ new.forwardedAny
      BY DEF StreamInv, WireTypes, PostRecord
    <2> HIDE DEF new
    <2> QED
      BY <1>4, <1>6, <2>1 DEF new
  <1> QED
    BY <1>2, <1>3, <1>5, <1>6

\* agentDone is seen only after the turn is over; the decision comes with an
\* empty channel.
LEMMA StreamPostDecides ==
  ASSUME StreamInv, PostSeesTurnEnd \/ PostDecides \/ PostGivesUp
  PROVE  StreamInv'
  <1>1. ASSUME NEW new \in PostRecord, PostStays(new), EmittersUnchanged, chan' = chan,
               post.at # "returned", new.at # "returned", new.why = post.why,
               new.turnPending = post.turnPending, new.forwardedAny = post.forwardedAny,
               new.at = "drain" => ended[Turn] # "no"
        PROVE  StreamInv'
    <2>1. /\ post' = new
          /\ UNCHANGED <<eventLog, listening, closedChans, chan, emitting, emits, ended,
                         overflowed>>
      BY <1>1 DEF PostStays, EmittersUnchanged
    <2>2. WireTypes' /\ Subscribed' /\ Over'
      BY <1>1, <2>1 DEF StreamInv, WireTypes, Subscribed, Over
    <2>3. HearsWord' /\ HearsFirst'
      BY <1>1, <2>1 DEF StreamInv, HearsWord, HearsFirst, Listening, LastWord, Heard, SentToPost
    <2>4. PostHearsTheEnd'
      BY <1>1, <2>1 DEF StreamInv, PostHearsTheEnd
    <2> QED
      BY <2>2, <2>3, <2>4 DEF StreamInv
  <1>2. CASE PostSeesTurnEnd
    <2> DEFINE new == [post EXCEPT !.at = "drain"]
    <2>1. /\ new \in PostRecord /\ new.at = "drain" /\ new.why = post.why
          /\ new.turnPending = post.turnPending /\ new.forwardedAny = post.forwardedAny
      BY DEF StreamInv, WireTypes, PostRecord
    <2>2. /\ post.at = "loop" /\ ended[Turn] # "no" /\ PostStays(new) /\ EmittersUnchanged
          /\ chan' = chan
      BY <1>2 DEF PostSeesTurnEnd
    <2> HIDE DEF new
    <2> QED
      BY <1>1, <2>1, <2>2
  <1>3. CASE PostDecides
    <2>1. post.at = "drain" /\ chan[Post] = <<>> /\ EmittersUnchanged
      BY <1>3 DEF PostDecides
    <2>2. CASE post.turnPending /\ PostStays([post EXCEPT !.at = "loop", !.waitsForTurn = FALSE])
               /\ UNCHANGED chan
      <3> DEFINE new == [post EXCEPT !.at = "loop", !.waitsForTurn = FALSE]
      <3>1. /\ new \in PostRecord /\ new.at = "loop" /\ new.why = post.why
            /\ new.turnPending = post.turnPending /\ new.forwardedAny = post.forwardedAny
        BY DEF StreamInv, WireTypes, PostRecord
      <3> HIDE DEF new
      <3> QED
        BY <1>1, <2>1, <2>2, <3>1 DEF new
    <2>3. ASSUME ~post.turnPending,
                 PostReturns(IF post.forwardedAny THEN "agentDone" ELSE "noResponse")
          PROVE  StreamInv'
      <3>1. ~Heard
        BY <2>1, <2>3 DEF Heard
      <3>2. ended[Turn] # "no" /\ emitting[Turn].at = "idle"
        BY <2>1 DEF StreamInv, Over, Emitters
      <3>3. Post \notin overflowed => ended[Turn] = "silent"
        BY <2>1, <3>1, <3>2 DEF StreamInv, WireTypes, HearsWord, Listening, LastWord, Emitters
      <3>4. Post \notin overflowed /\ ~post.forwardedAny => emits[Turn] = 0
        BY <2>1, <2>3, <3>2 DEF StreamInv, HearsFirst, Listening, SentToPost
      <3>5. CASE post.forwardedAny
        BY <2>1, <2>3, <3>3, <3>5, StreamPostReturns
      <3>6. CASE ~post.forwardedAny
        BY <2>1, <2>3, <3>3, <3>4, <3>6, StreamPostReturns
      <3> QED
        BY <3>5, <3>6
    <2> QED
      BY <1>3, <2>2, <2>3 DEF PostDecides
  <1>4. CASE PostGivesUp
    BY <1>4, StreamPostReturns DEF PostGivesUp
  <1> QED
    BY <1>2, <1>3, <1>4

\* The page's handler touches nothing of the POST's.
LEMMA StreamPage ==
  ASSUME StreamInv,
         \/ \E from \in 0..Len(eventLog) : PageSubscribes(from)
         \/ PageReplays \/ PageReceives \/ PageLeaves
  PROVE  StreamInv'
  <1>1. Post # Page /\ Page \in Readers /\ Post \in Readers
    BY StreamAssumption DEF StreamAssumption, Readers
  <1>2. UNCHANGED <<eventLog, emitting, emits, ended, overflowed, post>>
    BY DEF PageSubscribes, PageReplays, PageReceives, PageLeaves, EmittersUnchanged
  <1>3. /\ listening' \subseteq Readers /\ (Post \in listening => Post \in listening')
        /\ (Post \in closedChans' => Post \in closedChans)
    BY <1>1 DEF PageSubscribes, PageReplays, PageReceives, PageLeaves, StreamInv, WireTypes
  <1>4. /\ chan' \in [Readers -> Seq(Envelope)] /\ chan'[Post] = chan[Post]
    <2>1. CASE chan' = chan
      BY <2>1 DEF StreamInv, WireTypes
    <2>2. CASE PageReceives
      <3>1. Tail(chan[Page]) \in Seq(Envelope)
        BY <1>1, <2>2, HeadTailProperties DEF PageReceives, StreamInv, WireTypes
      <3> QED
        BY <1>1, <2>2, <3>1 DEF PageReceives, StreamInv, WireTypes
    <2>3. CASE PageLeaves
      BY <1>1, <2>3, EmptySeq DEF PageLeaves, StreamInv, WireTypes
    <2> QED
      BY <2>1, <2>2, <2>3 DEF PageSubscribes, PageReplays
  <1>5. WireTypes' /\ Subscribed' /\ Over'
    BY <1>2, <1>3, <1>4 DEF StreamInv, WireTypes, Subscribed, Over
  <1>6. HearsWord' /\ HearsFirst'
    BY <1>2, <1>4 DEF StreamInv, HearsWord, HearsFirst, Listening, LastWord, Heard, SentToPost
  <1>7. PostHearsTheEnd'
    BY <1>2 DEF StreamInv, PostHearsTheEnd
  <1> QED
    BY <1>5, <1>6, <1>7 DEF StreamInv

LEMMA StreamStep ==
  ASSUME StreamInv, [StreamNext]_streamVars
  PROVE  StreamInv'
  <1>1. ASSUME NEW e \in Emitters,
               \/ \E kind \in Kinds : Emit(e, kind)
               \/ Copy(e) \/ (\E r \in Readers : Send(e, r)) \/ Sent(e) \/ EndSilently(e)
        PROVE  StreamInv'
    BY <1>1, StreamEmit, StreamCopy, StreamSend, StreamSentOrEnds
  <1>2. CASE PostReceives \/ PostSeesTurnEnd \/ PostDecides \/ PostGivesUp
    BY <1>2, StreamPostReceives, StreamPostDecides
  <1>3. CASE \/ \E from \in 0..Len(eventLog) : PageSubscribes(from)
             \/ PageReplays \/ PageReceives \/ PageLeaves
    BY <1>3, StreamPage
  <1>4. CASE UNCHANGED streamVars
    BY <1>4 DEF streamVars, StreamInv, WireTypes, Subscribed, Over, HearsWord, HearsFirst,
       Listening, LastWord, Heard, SentToPost, PostHearsTheEnd
  <1> QED
    BY <1>1, <1>2, <1>3, <1>4 DEF StreamNext

\* handleChatStream never takes its turn for silent while the turn's last word,
\* or anything it said, is in the channel: whichever of agentDone and the
\* channel the select saw first, and whoever else publishes to the chat.
THEOREM PostHearsTheEndTheorem == StreamSpec => []PostHearsTheEnd
  <1>1. StreamInv => PostHearsTheEnd
    BY DEF StreamInv
  <1>2. StreamInit => StreamInv
    BY StreamInitial
  <1>3. StreamInv /\ [StreamNext]_streamVars => StreamInv'
    BY StreamStep
  <1> QED
    BY <1>1, <1>2, <1>3, PTL DEF StreamSpec
-----------------------------------------------------------------------------
(* The page.  An event that was stored after the replay and has not been sent *)
(* to the page is being emitted, waits in its channel, or is one of missed;   *)
(* what is sent too late finds its way to missed before it is skipped.        *)
PageRecord == [at : {"off", "subscribed", "live", "left"}, from : Nat, since : Nat]

WasShown(n) == \E i \in DOMAIN shown : shown[i] = n
Waits(n) == \E i \in DOMAIN chan[Page] : chan[Page][i].seq = n
Emitted(n) == \E e \in Emitters : emitting[e].seq = n

\* Numbers are those of stored events, and no delta has one.
Numbered ==
    /\ page \in PageRecord /\ page.from <= Len(eventLog) /\ shown \in Seq(Nat)
    /\ \A e \in Emitters : /\ emitting[e].at = "idle" => emitting[e].seq = Unstored
                           /\ emitting[e].seq <= Len(eventLog)
                           /\ emitting[e].seq # Unstored => emitting[e].kind # "delta"
    /\ \A i \in DOMAIN chan[Page] :
          /\ chan[Page][i].seq <= Len(eventLog)
          /\ chan[Page][i].seq # Unstored => chan[Page][i].kind # "delta"

\* The page is subscribed before its replay and until it leaves.
PageAttached ==
    /\ page.at \in {"subscribed", "live"} => Page \in listening
    /\ page.at # "left" => Page \notin closedChans
    /\ page.at # "live" => page.since = page.from /\ shown = <<>>

\* What it was sent last is the largest.
UpToSince ==
    /\ \A i, j \in DOMAIN shown : i < j => shown[i] < shown[j]
    /\ \A i \in DOMAIN shown : shown[i] <= page.since
    /\ page.since # page.from => page.from < page.since /\ WasShown(page.since)

\* A channel delivers out of order only what is in missed, and so it skips.
LateIsMissed ==
    /\ \A i, j \in DOMAIN chan[Page] :
          i < j /\ chan[Page][j].seq < chan[Page][i].seq /\ chan[Page][j].seq # Unstored
          => chan[Page][j].seq \in missed
    /\ \A i \in DOMAIN chan[Page] :
          page.from < chan[Page][i].seq /\ chan[Page][i].seq <= page.since
          => WasShown(chan[Page][i].seq) \/ chan[Page][i].seq \in missed

\* Whoever has passed the page in its list has delivered.
Delivered ==
    \A e \in Emitters :
        /\ page.at = "live" /\ emitting[e].at = "sending" /\ Page \notin emitting[e].to
        /\ page.from < emitting[e].seq
        => LET n == emitting[e].seq IN n \in missed \/ Waits(n) \/ WasShown(n)

NoHole ==
    /\ page.at = "live" => \A n \in page.since + 1 .. Len(eventLog) :
                              n \in missed \/ Emitted(n) \/ Waits(n)
    /\ \A n \in page.from + 1 .. page.since : n \in missed \/ Emitted(n) \/ WasShown(n)

PageInv == Numbered /\ PageAttached /\ UpToSince /\ LateIsMissed /\ Delivered /\ NoHole

-----------------------------------------------------------------------------
LEMMA PageInitial ==
  ASSUME StreamInit
  PROVE  PageInv
  <1>1. /\ page = [at |-> "off", from |-> 0, since |-> 0] /\ shown = <<>> /\ eventLog = <<>>
        /\ closedChans = {} /\ chan[Page] = <<>>
        /\ \A e \in Emitters : emitting[e] = NoEvent
    BY DEF StreamInit, Readers
  <1>2. page \in PageRecord /\ shown \in Seq(Nat) /\ Len(eventLog) = 0
    BY <1>1, EmptySeq DEF PageRecord
  <1>3. Numbered /\ PageAttached
    BY <1>1, <1>2 DEF Numbered, PageAttached, NoEvent, Unstored
  <1>4. UpToSince /\ LateIsMissed /\ Delivered /\ NoHole
    BY <1>1 DEF UpToSince, LateIsMissed, Delivered, NoHole
  <1> QED
    BY <1>3, <1>4 DEF PageInv

\* The numbers the page and its channel hold are natural.
LEMMA PageNumbers ==
  ASSUME StreamInv, PageInv
  PROVE  /\ page.from \in Nat /\ page.since \in Nat /\ page.from <= page.since
         /\ Len(eventLog) \in Nat /\ DOMAIN eventLog = 1..Len(eventLog)
         /\ Page \in Readers /\ Post # Page /\ chan[Page] \in Seq(Envelope)
         /\ \A e \in Emitters : emitting[e].seq \in Nat
         /\ \A i \in DOMAIN chan[Page] : chan[Page][i].seq \in Nat
         /\ \A i \in DOMAIN shown : shown[i] \in Nat
  <1>1. /\ Len(eventLog) \in Nat /\ DOMAIN eventLog = 1..Len(eventLog)
        /\ Page \in Readers /\ chan[Page] \in Seq(Envelope) /\ Post # Page
        /\ \A e \in Emitters : emitting[e].seq \in Nat
    BY LenProperties, StreamAssumption
       DEF StreamAssumption, StreamInv, WireTypes, Readers, Emission
  <1>2. \A i \in DOMAIN chan[Page] : chan[Page][i] \in Envelope
    BY <1>1, LenProperties, ElementOfSeq
  <1>3. \A i \in DOMAIN shown : shown[i] \in Nat
    BY LenProperties, ElementOfSeq DEF PageInv, Numbered
  <1>4. page.from \in Nat /\ page.since \in Nat
    BY DEF PageInv, Numbered, PageRecord
  <1>5. page.from <= page.since
    BY <1>4 DEF PageInv, UpToSince
  <1> QED
    BY <1>1, <1>2, <1>3, <1>4, <1>5 DEF Envelope

\* An event that is stored is the next one of the log, and is being emitted.
LEMMA PageEmit ==
  ASSUME StreamInv, PageInv, NEW e \in Emitters, NEW kind \in Kinds, Emit(e, kind)
  PROVE  PageInv'
  <1> DEFINE n == Len(eventLog)
  <1>1. /\ n \in Nat /\ page.from \in Nat /\ page.since \in Nat
        /\ \A f \in Emitters : emitting[f].seq \in Nat
    BY PageNumbers
  <1>2. /\ emitting[e].at = "idle"
        /\ UNCHANGED <<listening, closedChans, chan, page, shown, missed>>
    BY DEF Emit, ReadersUnchanged
  <1>3. PICK s \in Nat : /\ emitting' = [emitting EXCEPT ![e] =
                                [at |-> "stored", kind |-> kind, to |-> {}, seq |-> s]]
                         /\ \/ eventLog' = eventLog /\ s = Unstored
                            \/ eventLog' = Append(eventLog, kind) /\ s = n + 1 /\ kind # "delta"
    <2>1. PICK stored \in BOOLEAN :
             /\ stored => kind # "delta"
             /\ eventLog' = IF stored THEN Append(eventLog, kind) ELSE eventLog
             /\ emitting' = [emitting EXCEPT ![e] =
                    [at |-> "stored", kind |-> kind, to |-> {},
                     seq |-> IF stored THEN n + 1 ELSE Unstored]]
      BY DEF Emit
    <2>2. n + 1 \in Nat /\ Unstored \in Nat
      BY <1>1 DEF Unstored
    <2>3. CASE stored
      BY <2>1, <2>2, <2>3
    <2>4. CASE ~stored
      BY <2>1, <2>2, <2>4
    <2> QED
      BY <2>3, <2>4
  <1>4. /\ emitting'[e].at = "stored" /\ emitting'[e].seq = s /\ emitting'[e].kind = kind
        /\ \A f \in Emitters : f # e => emitting'[f] = emitting[f]
    BY <1>3 DEF StreamInv, WireTypes
  <1>5. \/ Len(eventLog') = n /\ s = 0
        \/ Len(eventLog') = n + 1 /\ s = n + 1 /\ kind # "delta"
    <2>1. Len(Append(eventLog, kind)) = n + 1
      BY AppendProperties DEF StreamInv, WireTypes
    <2> QED
      BY <1>3, <2>1 DEF Unstored
  <1>6. emitting[e].seq = 0
    BY <1>2 DEF PageInv, Numbered, Unstored
  <1> HIDE DEF n
  <1>7. Numbered'
    <2>1. \A f \in Emitters : /\ emitting'[f].at = "idle" => emitting'[f].seq = Unstored
                              /\ emitting'[f].seq <= Len(eventLog')
                              /\ emitting'[f].seq # Unstored => emitting'[f].kind # "delta"
      BY <1>1, <1>4, <1>5 DEF PageInv, Numbered, Unstored, n
    <2>2. /\ page.from <= Len(eventLog')
          /\ \A i \in DOMAIN chan[Page] : chan[Page][i].seq <= Len(eventLog')
      <3>1. /\ n <= Len(eventLog') /\ Len(eventLog') \in Nat
            /\ \A i \in DOMAIN chan[Page] : chan[Page][i].seq \in Nat /\ chan[Page][i].seq <= n
        BY <1>1, <1>5, PageNumbers DEF PageInv, Numbered, n
      <3> QED
        BY <1>1, <3>1 DEF PageInv, Numbered, n
    <2> QED
      BY <1>2, <2>1, <2>2 DEF PageInv, Numbered
  <1>8. PageAttached' /\ UpToSince' /\ LateIsMissed'
    BY <1>2 DEF PageInv, PageAttached, UpToSince, WasShown, LateIsMissed
  <1>9. Delivered'
    BY <1>2, <1>4 DEF PageInv, Delivered, Waits, WasShown
  <1>10. NoHole'
    <2>1. \A m \in Nat \ {0} : Emitted(m) => Emitted(m)'
      BY <1>4, <1>6 DEF Emitted
    <2>2. Emitted(s)'
      BY <1>4 DEF Emitted
    <2>3. \A m \in page.since + 1 .. Len(eventLog') :
             m \in Nat \ {0} /\ (m \in page.since + 1 .. n \/ m = s)
      BY <1>1, <1>5
    <2>4. \A m \in page.from + 1 .. page.since : m \in Nat \ {0}
      BY <1>1
    <2>5. ASSUME page.at = "live", NEW m \in page.since + 1 .. Len(eventLog')
          PROVE  m \in missed \/ Emitted(m)' \/ Waits(m)
      <3>1. CASE m \in page.since + 1 .. n
        BY <2>1, <2>3, <2>5, <3>1 DEF PageInv, NoHole, n
      <3>2. CASE m = s
        BY <2>2, <3>2
      <3> QED
        BY <2>3, <2>5, <3>1, <3>2
    <2>6. \A m \in page.from + 1 .. page.since : m \in missed \/ Emitted(m)' \/ WasShown(m)
      BY <2>1, <2>4 DEF PageInv, NoHole
    <2> QED
      BY <1>2, <2>5, <2>6 DEF NoHole, Waits, WasShown
  <1> QED
    BY <1>7, <1>8, <1>9, <1>10 DEF PageInv

\* Publish's copy of the list has a live page in it.
LEMMA PageCopy ==
  ASSUME StreamInv, PageInv, NEW e \in Emitters, Copy(e)
  PROVE  PageInv'
  <1>1. /\ emitting[e].at = "stored"
        /\ emitting' = [emitting EXCEPT ![e].at = "sending", ![e].to = listening]
        /\ UNCHANGED <<eventLog, listening, closedChans, chan, page, shown, missed>>
    BY DEF Copy, ReadersUnchanged
  <1>2. /\ emitting'[e].at = "sending" /\ emitting'[e].to = listening
        /\ emitting'[e].seq = emitting[e].seq /\ emitting'[e].kind = emitting[e].kind
        /\ \A f \in Emitters : f # e => emitting'[f] = emitting[f]
    BY <1>1 DEF StreamInv, WireTypes, Emission
  <1>3. \A n : Emitted(n)' <=> Emitted(n)
    BY <1>2 DEF Emitted
  <1>4. Numbered' /\ PageAttached' /\ UpToSince' /\ LateIsMissed'
    BY <1>1, <1>2 DEF PageInv, Numbered, PageAttached, UpToSince, WasShown, LateIsMissed
  <1>5. Delivered'
    <2>1. ASSUME NEW f \in Emitters, page.at = "live", emitting'[f].at = "sending",
                 Page \notin emitting'[f].to, page.from < emitting'[f].seq
          PROVE  \/ emitting'[f].seq \in missed \/ Waits(emitting'[f].seq)
                 \/ WasShown(emitting'[f].seq)
      <3>1. f # e
        BY <1>2, <2>1 DEF PageInv, PageAttached
      <3>2. emitting'[f] = emitting[f]
        BY <1>2, <3>1
      <3> QED
        BY <2>1, <3>2 DEF PageInv, Delivered
    <2>2. \A n : (Waits(n)' <=> Waits(n)) /\ (WasShown(n)' <=> WasShown(n))
      BY <1>1 DEF Waits, WasShown
    <2> QED
      BY <1>1, <2>1, <2>2 DEF Delivered
  <1>6. NoHole'
    BY <1>1, <1>3 DEF PageInv, NoHole, Waits, WasShown
  <1> QED
    BY <1>4, <1>5, <1>6 DEF PageInv


\* What is sent to the page is in its channel or in missed, and it is in missed
\* if something later was sent before.
LEMMA PageSend ==
  ASSUME StreamInv, PageInv, NEW e \in Emitters, NEW r \in Readers, Send(e, r)
  PROVE  PageInv'
  <1> DEFINE c == chan[Page]
  <1>1. PICK s \in Nat : s = emitting[e].seq
    BY PageNumbers
  <1>2. PICK env \in Envelope : env = [seq |-> s, kind |-> emitting[e].kind]
    BY <1>1 DEF StreamInv, WireTypes, Emission, Envelope
  <1>3. /\ emitting[e].at = "sending" /\ r \in emitting[e].to
        /\ emitting' = [emitting EXCEPT ![e].to = @ \ {r}]
        /\ UNCHANGED <<eventLog, listening, closedChans, page, shown>>
    BY DEF Send, ReadersUnchanged
  <1>4. /\ emitting'[e].at = "sending" /\ emitting'[e].seq = s
        /\ emitting'[e].kind = emitting[e].kind /\ emitting'[e].to = emitting[e].to \ {r}
        /\ \A f \in Emitters : f # e => emitting'[f] = emitting[f]
    BY <1>1, <1>3 DEF StreamInv, WireTypes, Emission
  <1>5. missed \subseteq missed'
    BY DEF Send
  <1>6. /\ chan'[Page] = c \/ (r = Page /\ chan'[Page] = Append(c, env))
        /\ r = Page /\ Page \notin closedChans => chan'[Page] = Append(c, env) \/ s \in missed'
    BY <1>1, <1>2, PageNumbers DEF Send, StreamInv, WireTypes
  <1>7. ASSUME r = Page, s # Unstored, NEW n \in Nat, WasShown(n) \/ Waits(n), s < n
        PROVE  s \in missed'
    <2>1. n \in Given
      BY <1>7 DEF Given, WasShown, Waits, ToSet
    <2> QED
      BY <1>1, <1>7, <2>1 DEF Send
  <1>8. /\ \A n : Waits(n) => Waits(n)'
        /\ r = Page /\ Page \notin closedChans => s \in missed' \/ Waits(s)'
        /\ c \in Seq(Envelope) /\ Len(c) \in Nat /\ DOMAIN c = 1..Len(c)
        /\ \A i \in DOMAIN chan'[Page] :
              \/ i \in DOMAIN c /\ chan'[Page][i] = c[i]
              \/ r = Page /\ i = Len(c) + 1 /\ chan'[Page][i] = env
    <2>1. /\ c \in Seq(Envelope) /\ Len(c) \in Nat /\ DOMAIN c = 1..Len(c)
      BY PageNumbers, LenProperties
    <2>2. /\ Append(c, env)[Len(c) + 1] = env /\ \A i \in 1..Len(c) : Append(c, env)[i] = c[i]
          /\ DOMAIN Append(c, env) = 1..Len(c) + 1
      <3>1. /\ Append(c, env)[Len(c) + 1] = env /\ \A i \in 1..Len(c) : Append(c, env)[i] = c[i]
            /\ Append(c, env) \in Seq(Envelope) /\ Len(Append(c, env)) = Len(c) + 1
        BY <2>1, AppendProperties
      <3> QED
        BY <3>1, LenProperties
    <2>3. /\ Len(c) + 1 \in 1..Len(c) + 1 /\ 1..Len(c) \subseteq 1..Len(c) + 1
          /\ \A i \in 1..Len(c) + 1 : i \in 1..Len(c) \/ i = Len(c) + 1
      BY <2>1
    <2>4. env.seq = s
      BY <1>2
    <2> HIDE DEF c
    <2>5. CASE chan'[Page] = c
      BY <1>6, <2>1, <2>2, <2>3, <2>4, <2>5 DEF Waits, c
    <2>6. CASE r = Page /\ chan'[Page] = Append(c, env)
      BY <2>1, <2>2, <2>3, <2>4, <2>6 DEF Waits, c
    <2> QED
      BY <1>6, <2>5, <2>6
  <1> HIDE DEF c
  <1>9. env.seq = s /\ env.kind = emitting[e].kind
    BY <1>2
  <1>10. \A n : (Emitted(n)' <=> Emitted(n)) /\ (WasShown(n)' <=> WasShown(n))
    BY <1>1, <1>3, <1>4 DEF Emitted, WasShown
  <1>11. Numbered'
    BY <1>1, <1>3, <1>4, <1>8, <1>9 DEF PageInv, Numbered, c
  <1>12. PageAttached' /\ UpToSince'
    BY <1>3 DEF PageInv, PageAttached, UpToSince, WasShown
  <1>13. LateIsMissed'
    <2>1. ASSUME NEW i \in DOMAIN chan'[Page], NEW j \in DOMAIN chan'[Page], i < j,
                 chan'[Page][j].seq < chan'[Page][i].seq, chan'[Page][j].seq # Unstored
          PROVE  chan'[Page][j].seq \in missed'
      <3>1. CASE j \in DOMAIN c /\ chan'[Page][j] = c[j]
        <4>1. i \in DOMAIN c /\ chan'[Page][i] = c[i]
          BY <1>8, <2>1, <3>1
        <4> QED
          BY <1>5, <2>1, <3>1, <4>1 DEF PageInv, LateIsMissed, c
      <3>2. CASE r = Page /\ j = Len(c) + 1 /\ chan'[Page][j] = env
        <4>1. i \in DOMAIN c /\ chan'[Page][i] = c[i]
          BY <1>8, <2>1, <3>2
        <4>2. c[i].seq \in Nat /\ Waits(c[i].seq)
          BY <4>1, PageNumbers DEF Waits, c
        <4> QED
          BY <1>7, <1>9, <2>1, <3>2, <4>1, <4>2
      <3> QED
        BY <1>8, <3>1, <3>2
    <2>2. ASSUME NEW i \in DOMAIN chan'[Page], page.from < chan'[Page][i].seq,
                 chan'[Page][i].seq <= page.since
          PROVE  WasShown(chan'[Page][i].seq) \/ chan'[Page][i].seq \in missed'
      <3>1. CASE i \in DOMAIN c /\ chan'[Page][i] = c[i]
        BY <1>5, <2>2, <3>1 DEF PageInv, LateIsMissed, c
      <3>2. CASE r = Page /\ i = Len(c) + 1 /\ chan'[Page][i] = env
        <4>1. /\ s # Unstored /\ page.since \in Nat /\ page.since # page.from
              /\ s = page.since \/ s < page.since
          BY <1>9, <2>2, <3>2, PageNumbers DEF Unstored
        <4>2. WasShown(page.since)
          BY <4>1 DEF PageInv, UpToSince
        <4> QED
          BY <1>7, <1>9, <3>2, <4>1, <4>2
      <3> QED
        BY <1>8, <3>1, <3>2
    <2> QED
      BY <1>3, <1>10, <2>1, <2>2 DEF LateIsMissed, WasShown
  <1>14. Delivered'
    <2> SUFFICES ASSUME NEW f \in Emitters, page.at = "live", emitting'[f].at = "sending",
                        Page \notin emitting'[f].to, NEW n \in Nat, n = emitting'[f].seq,
                        page.from < n
                 PROVE  n \in missed' \/ Waits(n)' \/ WasShown(n)'
      BY <1>1, <1>3, <1>4, PageNumbers DEF Delivered, Waits, WasShown
    <2>1. CASE f = e /\ r = Page
      BY <1>4, <1>8, <2>1 DEF PageInv, PageAttached
    <2>2. CASE f # e \/ r # Page
      <3>1. emitting[f].at = "sending" /\ Page \notin emitting[f].to /\ emitting[f].seq = n
        BY <1>1, <1>3, <1>4, <2>2
      <3>2. n \in missed \/ Waits(n) \/ WasShown(n)
        BY <3>1 DEF PageInv, Delivered
      <3> QED
        BY <1>5, <1>8, <1>10, <3>2
    <2> QED
      BY <2>1, <2>2
  <1>15. NoHole'
    <2>1. ASSUME page.at = "live", NEW n \in page.since + 1 .. Len(eventLog)
          PROVE  n \in missed' \/ Emitted(n)' \/ Waits(n)'
      BY <1>5, <1>8, <1>10, <2>1 DEF PageInv, NoHole
    <2>2. ASSUME NEW n \in page.from + 1 .. page.since
          PROVE  n \in missed' \/ Emitted(n)' \/ WasShown(n)'
      BY <1>5, <1>10 DEF PageInv, NoHole
    <2> QED
      BY <1>3, <2>1, <2>2 DEF NoHole, Emitted, Waits, WasShown
  <1> QED
    BY <1>11, <1>12, <1>13, <1>14, <1>15 DEF PageInv

\* An emitter that goes on has passed the page, and so leaves no hole behind.
LEMMA PageSent ==
  ASSUME StreamInv, PageInv, NEW e \in Emitters, Sent(e) \/ EndSilently(e)
  PROVE  PageInv'
  <1>1. /\ UNCHANGED <<eventLog, listening, closedChans, chan, page, shown, missed>>
        /\ \/ emitting' = emitting
           \/ /\ emitting[e].at = "sending" /\ emitting[e].to = {}
              /\ emitting' = [emitting EXCEPT ![e] = NoEvent]
    BY DEF Sent, EndSilently, ReadersUnchanged
  <1>2. /\ \A f \in Emitters : emitting'[f] # emitting[f]
              => /\ f = e /\ emitting'[f] = NoEvent
                 /\ emitting[e].at = "sending" /\ emitting[e].to = {}
        /\ NoEvent.at = "idle" /\ NoEvent.seq = Unstored
    BY <1>1 DEF StreamInv, WireTypes, NoEvent
  <1>3. ASSUME NEW n, Emitted(n), ~Emitted(n)', page.at = "live", page.from < n
        PROVE  n \in missed \/ Waits(n) \/ WasShown(n)
    <2>1. PICK f \in Emitters : emitting[f].seq = n
      BY <1>3 DEF Emitted
    <2>2. emitting'[f] # emitting[f]
      BY <1>3, <2>1 DEF Emitted
    <2>3. emitting[f].at = "sending" /\ Page \notin emitting[f].to
      BY <1>2, <2>2
    <2> QED
      BY <1>3, <2>1, <2>3 DEF PageInv, Delivered
  <1>4. Numbered'
    <2>1. Unstored <= Len(eventLog)
      BY PageNumbers DEF Unstored
    <2>2. \A f \in Emitters : /\ emitting'[f].at = "idle" => emitting'[f].seq = Unstored
                              /\ emitting'[f].seq <= Len(eventLog)
                              /\ emitting'[f].seq # Unstored => emitting'[f].kind # "delta"
      BY <1>2, <2>1 DEF PageInv, Numbered
    <2> QED
      BY <1>1, <2>2 DEF PageInv, Numbered
  <1>5. PageAttached' /\ UpToSince' /\ LateIsMissed'
    BY <1>1 DEF PageInv, PageAttached, UpToSince, WasShown, LateIsMissed
  <1>6. Delivered'
    BY <1>1, <1>2 DEF PageInv, Delivered, Waits, WasShown
  <1>7. NoHole'
    <2>0. /\ page.from \in Nat /\ page.since \in Nat /\ page.from <= page.since
          /\ \A n : WasShown(n) => n <= page.since
      BY PageNumbers DEF PageInv, UpToSince, WasShown
    <2>1. ASSUME page.at = "live", NEW n \in page.since + 1 .. Len(eventLog)
          PROVE  n \in missed \/ Emitted(n)' \/ Waits(n)
      <3>1. page.from < n /\ ~(n <= page.since)
        BY <2>0, PageNumbers
      <3> QED
        BY <1>3, <2>0, <2>1, <3>1 DEF PageInv, NoHole
    <2>2. ASSUME NEW n \in page.from + 1 .. page.since
          PROVE  n \in missed \/ Emitted(n)' \/ WasShown(n)
      <3>1. page.from < n /\ n <= page.since /\ page.since # page.from
        BY <2>0
      <3>2. page.at = "live"
        BY <3>1 DEF PageInv, PageAttached
      <3>3. Waits(n) => WasShown(n) \/ n \in missed
        BY <3>1 DEF PageInv, LateIsMissed, Waits
      <3> QED
        BY <1>3, <3>1, <3>2, <3>3 DEF PageInv, NoHole
    <2> QED
      BY <1>1, <2>1, <2>2 DEF NoHole, Waits, WasShown
  <1> QED
    BY <1>4, <1>5, <1>6, <1>7 DEF PageInv

\* The POST takes from its own channel and closes only that.
LEMMA PageBesidePost ==
  ASSUME StreamInv, PageInv,
         PostReceives \/ PostSeesTurnEnd \/ PostDecides \/ PostGivesUp
  PROVE  PageInv'
  <1>1. Post # Page /\ Page \in Readers
    BY PageNumbers
  <1>2. /\ UNCHANGED <<eventLog, emitting, page, shown, missed>>
        /\ chan' = chan \/ \E q : chan' = [chan EXCEPT ![Post] = q]
        /\ Page \in listening => Page \in listening'
        /\ Page \in closedChans' => Page \in closedChans
    BY <1>1 DEF PostReceives, PostSeesTurnEnd, PostDecides, PostGivesUp, PostReturns, PostStays,
                PostTakes, EmittersUnchanged
  <1>3. chan'[Page] = chan[Page]
    BY <1>1, <1>2 DEF StreamInv, WireTypes
  <1> QED
    BY <1>2, <1>3 DEF PageInv, Numbered, PageAttached, UpToSince, LateIsMissed, Delivered, NoHole,
                      WasShown, Waits, Emitted


LEMMA PageAttaches ==
  ASSUME StreamInv, PageInv, NEW from \in 0..Len(eventLog), PageSubscribes(from)
  PROVE  PageInv'
  <1>1. /\ page.at = "off" /\ page' = [at |-> "subscribed", from |-> from, since |-> from]
        /\ Page \in listening'
        /\ UNCHANGED <<eventLog, emitting, closedChans, chan, shown, missed>>
    BY DEF PageSubscribes, EmittersUnchanged
  <1>2. /\ from \in Nat /\ from <= Len(eventLog)
        /\ page' \in PageRecord /\ page'.at = "subscribed"
        /\ page'.from = from /\ page'.since = from
    BY <1>1, PageNumbers DEF PageRecord
  <1>3. shown = <<>> /\ Page \notin closedChans /\ \A i \in DOMAIN shown : FALSE
    BY <1>1 DEF PageInv, PageAttached
  <1>4. Numbered' /\ PageAttached' /\ UpToSince'
    BY <1>1, <1>2, <1>3 DEF PageInv, Numbered, PageAttached, UpToSince
  <1>5. LateIsMissed'
    <2>1. \A i \in DOMAIN chan[Page] : ~(from < chan[Page][i].seq /\ chan[Page][i].seq <= from)
      BY <1>2, PageNumbers
    <2> QED
      BY <1>1, <1>2, <2>1 DEF PageInv, LateIsMissed
  <1>6. Delivered' /\ NoHole'
    BY <1>1, <1>2 DEF Delivered, NoHole
  <1> QED
    BY <1>4, <1>5, <1>6 DEF PageInv

\* The replay shows all that was stored so far, or gives it up.
LEMMA PageCatchesUp ==
  ASSUME StreamInv, PageInv, PageReplays
  PROVE  PageInv'
  <1> DEFINE n == Len(eventLog)
             a == page.from
  <1>1. /\ page.at = "subscribed" /\ page.since = page.from /\ shown = <<>>
        /\ UNCHANGED <<eventLog, emitting, listening, closedChans, chan>>
        /\ Page \in listening /\ Page \notin closedChans /\ page \in PageRecord
    BY DEF PageReplays, EmittersUnchanged, PageInv, PageAttached, Numbered
  <1>2. n \in Nat /\ a \in Nat /\ a <= n /\ DOMAIN eventLog = 1..n
    BY PageNumbers DEF PageInv, Numbered
  <1>3. \A e \in Emitters : emitting[e].seq \in Nat /\ emitting[e].seq <= n
    BY PageNumbers DEF PageInv, Numbered
  <1>4. \A i \in DOMAIN chan[Page] : chan[Page][i].seq \in Nat /\ chan[Page][i].seq <= n
    BY PageNumbers DEF PageInv, Numbered
  <1>5. CASE /\ shown' = [i \in 1..n - a |-> a + i]
             /\ page' = [page EXCEPT !.at = "live", !.since = n] /\ missed' = missed
    <2>1. /\ page' \in PageRecord /\ page'.at = "live" /\ page'.from = a /\ page'.since = n
      BY <1>1, <1>2, <1>5 DEF PageRecord
    <2>2. /\ shown' \in Seq(Nat) /\ DOMAIN shown' = 1..n - a
          /\ \A i \in 1..n - a : shown'[i] = a + i
      <3>1. n - a \in Nat /\ \A i \in 1..n - a : a + i \in Nat
        BY <1>2
      <3> QED
        BY <1>5, <3>1, SeqDef
    <2>3. ASSUME NEW m \in Nat, a < m, m <= n PROVE WasShown(m)'
      <3>1. m - a \in 1..n - a /\ a + (m - a) = m
        BY <1>2, <2>3
      <3> QED
        BY <2>2, <3>1 DEF WasShown
    <2> HIDE DEF n, a
    <2>4. Numbered' /\ PageAttached'
      BY <1>1, <1>2, <2>1, <2>2 DEF PageInv, Numbered, PageAttached, n, a
    <2>5. UpToSince'
      <3>1. \A i, j \in 1..n - a : i < j => a + i < a + j
        BY <1>2
      <3>2. \A i \in 1..n - a : a + i <= n
        BY <1>2
      <3>3. n # a => a < n /\ \E i \in 1..n - a : a + i = n
        <4>1. n # a => n - a \in 1..n - a /\ a + (n - a) = n /\ a < n
          BY <1>2
        <4> QED
          BY <4>1
      <3> QED
        BY <2>1, <2>2, <3>1, <3>2, <3>3 DEF UpToSince, WasShown
    <2>6. LateIsMissed'
      <3>1. ASSUME NEW i \in DOMAIN chan[Page], a < chan[Page][i].seq
            PROVE  \E k \in DOMAIN shown' : shown'[k] = chan[Page][i].seq
        <4>1. PICK m \in Nat : m = chan[Page][i].seq
          BY <1>4
        <4> QED
          BY <1>4, <2>3, <3>1, <4>1 DEF WasShown
      <3> QED
        BY <1>1, <1>5, <2>1, <3>1 DEF PageInv, LateIsMissed, WasShown
    <2>7. Delivered'
      <3>1. ASSUME NEW e \in Emitters, a < emitting[e].seq
            PROVE  \E k \in DOMAIN shown' : shown'[k] = emitting[e].seq
        <4>1. PICK m \in Nat : m = emitting[e].seq
          BY <1>3
        <4> QED
          BY <1>3, <2>3, <3>1, <4>1 DEF WasShown
      <3> QED
        BY <1>1, <2>1, <3>1 DEF Delivered, WasShown
    <2>8. NoHole'
      <3>1. \A m \in n + 1 .. n : FALSE
        BY <1>2
      <3>2. \A m \in a + 1 .. n : WasShown(m)'
        BY <1>2, <2>3
      <3> QED
        BY <1>1, <2>1, <3>1, <3>2 DEF NoHole, WasShown, n
    <2> QED
      BY <2>4, <2>5, <2>6, <2>7, <2>8 DEF PageInv
  <1>6. CASE /\ shown' = shown /\ page' = [page EXCEPT !.at = "live"]
             /\ missed' = missed \cup DOMAIN eventLog
    <2>1. /\ page' \in PageRecord /\ page'.at = "live" /\ page'.from = a /\ page'.since = a
      BY <1>1, <1>6 DEF PageRecord
    <2>2. \A m \in Nat : a < m /\ m <= n => m \in missed'
      BY <1>2, <1>6
    <2> HIDE DEF n, a
    <2>3. Numbered' /\ PageAttached'
      BY <1>1, <1>2, <1>6, <2>1 DEF PageInv, Numbered, PageAttached, n, a
    <2>4. UpToSince'
      BY <1>1, <1>6, <2>1 DEF UpToSince
    <2>5. LateIsMissed'
      <3>1. \A i \in DOMAIN chan[Page] : ~(a < chan[Page][i].seq /\ chan[Page][i].seq <= a)
        BY <1>2, <1>4
      <3> QED
        BY <1>1, <1>6, <2>1, <3>1 DEF PageInv, LateIsMissed
    <2>6. Delivered'
      BY <1>1, <1>3, <2>1, <2>2 DEF Delivered
    <2>7. NoHole'
      <3>1. \A m \in a + 1 .. a : FALSE
        BY <1>2
      <3>2. \A m \in a + 1 .. n : m \in missed'
        BY <1>2, <2>2
      <3> QED
        BY <1>1, <2>1, <3>1, <3>2 DEF NoHole, n
    <2> QED
      BY <2>3, <2>4, <2>5, <2>6, <2>7 DEF PageInv
  <1> QED
    BY <1>5, <1>6 DEF PageReplays

\* It skips what it has seen, and what it jumps over is on its way or missed.
LEMMA PageTakes ==
  ASSUME StreamInv, PageInv, PageReceives
  PROVE  PageInv'
  <1> DEFINE c == chan[Page]
             z == Len(chan[Page])
  <1>1. /\ page.at = "live" /\ c # <<>>
        /\ UNCHANGED <<eventLog, emitting, listening, closedChans, missed>>
        /\ chan'[Page] = Tail(c)
    BY PageNumbers DEF PageReceives, EmittersUnchanged, StreamInv, WireTypes
  <1>2. /\ c \in Seq(Envelope) /\ z \in Nat \ {0} /\ DOMAIN c = 1..z /\ Head(c) = c[1]
        /\ DOMAIN Tail(c) = 1..z - 1 /\ \A i \in 1..z - 1 : Tail(c)[i] = c[i + 1]
    <2>1. /\ c \in Seq(Envelope) /\ z \in Nat /\ DOMAIN c = 1..z /\ Head(c) = c[1]
          /\ z # 0 /\ Tail(c) \in Seq(Envelope) /\ Len(Tail(c)) = z - 1
          /\ \A i \in 1..z - 1 : Tail(c)[i] = c[i + 1]
      BY <1>1, PageNumbers, HeadTailProperties, LenProperties, EmptySeq
    <2> QED
      BY <2>1, LenProperties
  <1>3. PICK h \in Nat : h = c[1].seq
    BY <1>2, PageNumbers
  <1>4. /\ page.from \in Nat /\ page.since \in Nat /\ page.from <= page.since
        /\ h <= Len(eventLog) /\ page \in PageRecord /\ shown \in Seq(Nat)
        /\ Len(eventLog) \in Nat
    <2>1. /\ page.from \in Nat /\ page.since \in Nat /\ page.from <= page.since
          /\ Len(eventLog) \in Nat
      BY PageNumbers
    <2>2. /\ page \in PageRecord /\ shown \in Seq(Nat)
          /\ \A i \in DOMAIN chan[Page] : chan[Page][i].seq <= Len(eventLog)
      BY DEF PageInv, Numbered
    <2>3. 1 \in DOMAIN chan[Page] /\ h = chan[Page][1].seq
      BY <1>2, <1>3
    <2> QED
      BY <2>1, <2>2, <2>3
  <1> HIDE DEF c, z
  <1>5. \A i \in 1..z - 1 : /\ chan'[Page][i] = c[i + 1] /\ i + 1 \in DOMAIN c
                            /\ 1 \in DOMAIN c /\ 1 < i + 1
    BY <1>1, <1>2
  <1>6. \A n : Waits(n) => n = h \/ Waits(n)'
    <2> SUFFICES ASSUME NEW n, Waits(n), n # h PROVE Waits(n)'
      OBVIOUS
    <2>1. PICK i \in 1..z : c[i].seq = n /\ i # 1
      BY <1>2, <1>3 DEF Waits, c
    <2>2. i - 1 \in 1..z - 1 /\ (i - 1) + 1 = i
      BY <1>2, <2>1
    <2>3. i - 1 \in DOMAIN chan'[Page] /\ chan'[Page][i - 1].seq = n
      BY <1>1, <1>2, <1>5, <2>1, <2>2
    <2> QED
      BY <2>3 DEF Waits
  <1>7. ASSUME NEW n \in Nat \ {0}, Waits(n), n < h PROVE n \in missed
    <2>1. PICK i \in 1..z : c[i].seq = n
      BY <1>2, <1>7 DEF Waits, c
    <2>2. i # 1 /\ 1 < i /\ i \in DOMAIN c /\ 1 \in DOMAIN c
      BY <1>2, <1>3, <1>7, <2>1
    <2> QED
      BY <1>3, <1>7, <2>1, <2>2 DEF PageInv, LateIsMissed, c, Unstored
  <1>8. /\ \A i \in DOMAIN chan'[Page] :
              /\ chan'[Page][i].seq <= Len(eventLog)
              /\ chan'[Page][i].seq # Unstored => chan'[Page][i].kind # "delta"
        /\ \A i, j \in DOMAIN chan'[Page] :
              i < j /\ chan'[Page][j].seq < chan'[Page][i].seq /\ chan'[Page][j].seq # Unstored
              => chan'[Page][j].seq \in missed
    <2>1. DOMAIN chan'[Page] = 1..z - 1
      BY <1>1, <1>2
    <2>2. ASSUME NEW i \in 1..z - 1
          PROVE  /\ chan'[Page][i].seq <= Len(eventLog)
                 /\ chan'[Page][i].seq # Unstored => chan'[Page][i].kind # "delta"
      <3>1. chan'[Page][i] = c[i + 1] /\ i + 1 \in DOMAIN c
        BY <1>5
      <3> QED
        BY <3>1 DEF PageInv, Numbered, c
    <2>3. ASSUME NEW i \in 1..z - 1, NEW j \in 1..z - 1, i < j,
                 chan'[Page][j].seq < chan'[Page][i].seq, chan'[Page][j].seq # Unstored
          PROVE  chan'[Page][j].seq \in missed
      <3>1. /\ chan'[Page][i] = c[i + 1] /\ i + 1 \in DOMAIN c
            /\ chan'[Page][j] = c[j + 1] /\ j + 1 \in DOMAIN c
        BY <1>5
      <3>2. i + 1 < j + 1
        BY <1>2, <2>3
      <3> QED
        BY <2>3, <3>1, <3>2 DEF PageInv, LateIsMissed, c
    <2> QED
      BY <2>1, <2>2, <2>3
  <1>9. \A i \in DOMAIN chan'[Page] : /\ Waits(chan'[Page][i].seq)
                                      /\ chan'[Page][i].seq \in Nat
                                      /\ \/ ~(page.from < chan'[Page][i].seq)
                                         \/ ~(chan'[Page][i].seq <= page.since)
                                         \/ WasShown(chan'[Page][i].seq)
                                         \/ chan'[Page][i].seq \in missed
    BY <1>1, <1>2, <1>5, PageNumbers DEF PageInv, LateIsMissed, Waits, c
  <1>10. \A n : Emitted(n)' <=> Emitted(n)
    BY <1>1 DEF Emitted
  <1>11. CASE h <= page.since /\ UNCHANGED <<shown, page>>
    <2>1. Numbered' /\ PageAttached' /\ UpToSince'
      BY <1>1, <1>8, <1>11 DEF PageInv, Numbered, PageAttached, UpToSince, WasShown
    <2>2. LateIsMissed'
      BY <1>1, <1>8, <1>9, <1>11 DEF LateIsMissed, WasShown
    <2>3. Delivered'
      <3> SUFFICES ASSUME NEW e \in Emitters, emitting[e].at = "sending",
                          Page \notin emitting[e].to, NEW n \in Nat, n = emitting[e].seq,
                          page.from < n
                   PROVE  n \in missed \/ Waits(n)' \/ WasShown(n)
        BY <1>1, <1>11, PageNumbers DEF Delivered, Waits, WasShown
      <3>1. n \in missed \/ Waits(n) \/ WasShown(n)
        BY <1>1 DEF PageInv, Delivered
      <3>2. Waits(n) /\ n = h => WasShown(n) \/ n \in missed
        BY <1>11 DEF PageInv, LateIsMissed, Waits
      <3> QED
        BY <1>6, <3>1, <3>2
    <2>4. NoHole'
      <3>1. ASSUME NEW n \in page.since + 1 .. Len(eventLog)
            PROVE  n \in missed \/ Emitted(n) \/ Waits(n)'
        <4>1. n # h
          BY <1>4, <1>11
        <4> QED
          BY <1>1, <1>6, <4>1 DEF PageInv, NoHole
      <3> QED
        BY <1>1, <1>11, <3>1 DEF PageInv, NoHole, Emitted, Waits, WasShown
    <2> QED
      BY <2>1, <2>2, <2>3, <2>4 DEF PageInv
  <1>12. CASE h > page.since /\ shown' = Append(shown, h) /\ page' = [page EXCEPT !.since = h]
    <2>1. /\ page' \in PageRecord /\ page'.at = "live" /\ page'.from = page.from
          /\ page'.since = h /\ page.from < h
      BY <1>1, <1>4, <1>12 DEF PageRecord
    <2>2. /\ shown' \in Seq(Nat) /\ Len(shown) \in Nat /\ DOMAIN shown = 1..Len(shown)
          /\ DOMAIN shown' = 1..Len(shown) + 1 /\ shown'[Len(shown) + 1] = h
          /\ \A i \in 1..Len(shown) : shown'[i] = shown[i]
      <3>1. /\ shown' \in Seq(Nat) /\ Len(shown) \in Nat /\ DOMAIN shown = 1..Len(shown)
            /\ Len(shown') = Len(shown) + 1 /\ shown'[Len(shown) + 1] = h
            /\ \A i \in 1..Len(shown) : shown'[i] = shown[i]
        BY <1>4, <1>12, AppendProperties, LenProperties
      <3> QED
        BY <3>1, LenProperties
    <2>3. WasShown(h)' /\ \A n : WasShown(n) => WasShown(n)'
      <3>1. Len(shown) + 1 \in DOMAIN shown' /\ 1..Len(shown) \subseteq DOMAIN shown'
        BY <2>2
      <3> QED
        BY <2>2, <3>1 DEF WasShown
    <2>4. Numbered' /\ PageAttached'
      BY <1>1, <1>4, <1>8, <2>1, <2>2 DEF PageInv, Numbered, PageAttached
    <2>5. UpToSince'
      <3>1. \A i \in 1..Len(shown) : shown[i] \in Nat /\ shown[i] <= page.since /\ shown[i] < h
        BY <1>4, <1>12, <2>2, PageNumbers DEF PageInv, UpToSince
      <3>2. ASSUME NEW i \in 1..Len(shown) + 1, NEW j \in 1..Len(shown) + 1, i < j
            PROVE  shown'[i] < shown'[j]
        <4>1. i \in 1..Len(shown)
          BY <2>2, <3>2
        <4>2. CASE j \in 1..Len(shown)
          BY <2>2, <3>2, <4>1, <4>2 DEF PageInv, UpToSince
        <4>3. CASE j = Len(shown) + 1
          BY <2>2, <3>1, <4>1, <4>3
        <4> QED
          BY <2>2, <4>2, <4>3
      <3>3. \A i \in 1..Len(shown) + 1 : shown'[i] <= h
        <4>1. \A i \in 1..Len(shown) + 1 : i \in 1..Len(shown) \/ i = Len(shown) + 1
          BY <2>2
        <4> QED
          BY <2>2, <3>1, <4>1
      <3> QED
        BY <2>1, <2>2, <2>3, <3>2, <3>3 DEF UpToSince, WasShown
    <2>6. LateIsMissed'
      <3>1. ASSUME NEW i \in DOMAIN chan'[Page], NEW n \in Nat, n = chan'[Page][i].seq,
                   page.from < n, n <= h
            PROVE  WasShown(n)' \/ n \in missed
        <4>1. Waits(n) /\ n # 0
          BY <1>4, <1>9, <3>1
        <4>2. n < h => n \in missed
          BY <1>7, <4>1
        <4> QED
          BY <2>3, <3>1, <4>2
      <3>2. \A i \in DOMAIN chan'[Page] : chan'[Page][i].seq \in Nat
        BY <1>9
      <3> QED
        BY <1>1, <1>8, <2>1, <3>1, <3>2 DEF LateIsMissed, WasShown
    <2>7. Delivered'
      <3> SUFFICES ASSUME NEW e \in Emitters, emitting[e].at = "sending",
                          Page \notin emitting[e].to, NEW n \in Nat, n = emitting[e].seq,
                          page.from < n
                   PROVE  n \in missed \/ Waits(n)' \/ WasShown(n)'
        BY <1>1, <2>1, PageNumbers DEF Delivered, Waits, WasShown
      <3>1. n \in missed \/ Waits(n) \/ WasShown(n)
        BY <1>1 DEF PageInv, Delivered
      <3> QED
        BY <1>6, <2>3, <3>1
    <2>8. NoHole'
      <3>1. ASSUME NEW n \in h + 1 .. Len(eventLog)
            PROVE  n \in missed \/ Emitted(n) \/ Waits(n)'
        <4>1. n # h /\ n \in page.since + 1 .. Len(eventLog)
          BY <1>4, <1>12
        <4> QED
          BY <1>1, <1>6, <4>1 DEF PageInv, NoHole
      <3>2. ASSUME NEW n \in page.from + 1 .. h
            PROVE  n \in missed \/ Emitted(n) \/ WasShown(n)'
        <4>1. CASE n <= page.since
          <5>1. n \in page.from + 1 .. page.since
            BY <1>4, <4>1
          <5> QED
            BY <2>3, <5>1 DEF PageInv, NoHole
        <4>2. CASE n = h
          BY <2>3, <4>2
        <4>3. CASE page.since < n /\ n < h
          <5>1. n \in page.since + 1 .. Len(eventLog) /\ n \in Nat \ {0}
            BY <1>4, <4>3
          <5> QED
            BY <1>1, <1>7, <4>3, <5>1 DEF PageInv, NoHole
        <4> QED
          BY <1>4, <4>1, <4>2, <4>3
      <3> QED
        BY <1>1, <1>10, <2>1, <3>1, <3>2 DEF NoHole
    <2> QED
      BY <2>4, <2>5, <2>6, <2>7, <2>8 DEF PageInv
  <1>13. \/ h <= page.since /\ UNCHANGED <<shown, page>>
         \/ h > page.since /\ shown' = Append(shown, h) /\ page' = [page EXCEPT !.since = h]
    <2>1. h = Head(chan[Page]).seq
      BY <1>2, <1>3 DEF c
    <2>2. Head(chan[Page]).kind = "delta" => h = 0
      BY <1>2, <1>3 DEF PageInv, Numbered, Unstored, c
    <2>3. h = 0 => h <= page.since
      BY <1>4
    <2>4. h > page.since \/ h <= page.since
      BY <1>4
    <2> QED
      BY <2>1, <2>2, <2>3, <2>4 DEF PageReceives, IsNew, Unstored
  <1> QED
    BY <1>11, <1>12, <1>13

LEMMA PageGoes ==
  ASSUME StreamInv, PageInv, PageLeaves
  PROVE  PageInv'
  <1>1. /\ page' = [at |-> "left", from |-> 0, since |-> 0] /\ shown' = <<>>
        /\ chan'[Page] = <<>> /\ UNCHANGED <<eventLog, emitting>>
    BY PageNumbers DEF PageLeaves, EmittersUnchanged, StreamInv, WireTypes
  <1>2. page' \in PageRecord /\ shown' \in Seq(Nat) /\ 0 <= Len(eventLog)
    BY <1>1, PageNumbers, EmptySeq DEF PageRecord
  <1>3. Numbered' /\ PageAttached' /\ UpToSince'
    BY <1>1, <1>2 DEF PageInv, Numbered, PageAttached, UpToSince
  <1>4. LateIsMissed' /\ Delivered' /\ NoHole'
    BY <1>1 DEF LateIsMissed, Delivered, NoHole
  <1> QED
    BY <1>3, <1>4 DEF PageInv

LEMMA PageStep ==
  ASSUME StreamInv, PageInv, [StreamNext]_streamVars
  PROVE  PageInv'
  <1>1. ASSUME NEW e \in Emitters,
               \/ \E kind \in Kinds : Emit(e, kind)
               \/ Copy(e) \/ (\E r \in Readers : Send(e, r)) \/ Sent(e) \/ EndSilently(e)
        PROVE  PageInv'
    BY <1>1, PageEmit, PageCopy, PageSend, PageSent
  <1>2. CASE PostReceives \/ PostSeesTurnEnd \/ PostDecides \/ PostGivesUp
    BY <1>2, PageBesidePost
  <1>3. CASE \/ \E from \in 0..Len(eventLog) : PageSubscribes(from)
             \/ PageReplays \/ PageReceives \/ PageLeaves
    BY <1>3, PageAttaches, PageCatchesUp, PageTakes, PageGoes
  <1>4. CASE UNCHANGED streamVars
    BY <1>4 DEF streamVars, PageInv, Numbered, PageAttached, UpToSince, LateIsMissed, Delivered,
       NoHole, WasShown, Waits, Emitted
  <1> QED
    BY <1>1, <1>2, <1>3, <1>4 DEF StreamNext

\* handleChatSubscribe subscribes before it replays and skips what the replay
\* covered: no event between the two is shown twice, out of order or left out,
\* but for those that missed names or that are still being emitted.
THEOREM ReplayTheorem == StreamSpec => []ReplayJoinsLive
  <1>1. StreamInv /\ PageInv => ReplayJoinsLive
    <2> SUFFICES ASSUME StreamInv, PageInv, NEW n \in page.from + 1 .. page.since
                 PROVE  n \in ToSet(shown) \cup missed \cup {emitting[e].seq : e \in Emitters}
      BY DEF ReplayJoinsLive, PageInv, UpToSince
    <2>1. n \in missed \/ Emitted(n) \/ WasShown(n)
      BY DEF PageInv, NoHole
    <2> QED
      BY <2>1 DEF Emitted, WasShown, ToSet
  <1>2. StreamInit => StreamInv /\ PageInv
    BY StreamInitial, PageInitial
  <1>3. StreamInv /\ PageInv /\ [StreamNext]_streamVars => StreamInv' /\ PageInv'
    BY StreamStep, PageStep
  <1> QED
    BY <1>1, <1>2, <1>3, PTL DEF StreamSpec
-----------------------------------------------------------------------------
(* Sizes: no channel holds more than its buffer.                           *)

RoomInv ==
    /\ \A r \in Readers : Len(chan[r]) <= BufferSize
    /\ closedChans \subseteq Readers \ listening
    /\ missed \subseteq Nat
    /\ overflowed \subseteq Readers
    /\ cut \in BOOLEAN /\ dead \in BOOLEAN

LEMMA ChanLengths ==
  ASSUME NEW q \in Seq(Envelope)
  PROVE  /\ Len(q) \in Nat
         /\ q # <<>> => Len(Tail(q)) = Len(q) - 1
         /\ \A env \in Envelope : Len(Append(q, env)) = Len(q) + 1
  <1>1. Len(q) \in Nat /\ (q # <<>> => Len(Tail(q)) = Len(q) - 1)
    BY HeadTailProperties, LenProperties
  <1>2. \A env \in Envelope : Len(Append(q, env)) = Len(q) + 1
    BY AppendProperties
  <1> QED
    BY <1>1, <1>2

\* A reader takes the head of its channel, or leaves it empty.
LEMMA RoomLeft ==
  ASSUME WireTypes, RoomInv, NEW r \in Readers,
         \/ chan' = chan \/ chan' = [chan EXCEPT ![r] = <<>>]
         \/ chan[r] # <<>> /\ chan' = [chan EXCEPT ![r] = Tail(@)]
  PROVE  \A s \in Readers : Len(chan'[s]) <= BufferSize
  <1>1. BufferSize \in Nat /\ Len(<<>>) = 0
    BY StreamAssumption DEF StreamAssumption
  <1>2. CASE chan' = chan
    BY <1>2 DEF RoomInv
  <1>3. CASE chan' = [chan EXCEPT ![r] = <<>>]
    <2>1. \A s \in Readers : chan'[s] \in {chan[s], <<>>}
      BY <1>3 DEF WireTypes
    <2> QED
      BY <1>1, <2>1 DEF RoomInv
  <1>4. CASE chan[r] # <<>> /\ chan' = [chan EXCEPT ![r] = Tail(@)]
    <2>1. chan'[r] = Tail(chan[r]) /\ \A s \in Readers : s # r => chan'[s] = chan[s]
      BY <1>4 DEF WireTypes
    <2>2. Len(chan'[r]) = Len(chan[r]) - 1 /\ Len(chan[r]) \in Nat
      BY <1>4, <2>1, ChanLengths DEF WireTypes
    <2>3. Len(chan'[r]) <= BufferSize
      BY <1>1, <2>2 DEF RoomInv
    <2> QED
      BY <2>1, <2>3 DEF RoomInv
  <1> QED
    BY <1>2, <1>3, <1>4

LEMMA RoomSend ==
  ASSUME StreamInv, RoomInv, NEW e \in Emitters, NEW r \in Readers, Send(e, r)
  PROVE  RoomInv'
  <1> DEFINE env == [seq |-> emitting[e].seq, kind |-> emitting[e].kind]
  <1>1. /\ \/ chan' = chan
           \/ /\ r \notin closedChans /\ Len(chan[r]) # BufferSize
              /\ chan' = [chan EXCEPT ![r] = Append(@, env)]
        /\ overflowed' = overflowed \/ overflowed' = overflowed \cup {r}
        /\ missed' = missed \/ missed' = missed \cup {emitting[e].seq}
        /\ dead' \in BOOLEAN
        /\ UNCHANGED <<listening, closedChans, cut>>
    BY DEF Send, ReadersUnchanged
  <1>2. emitting[e].seq \in Nat /\ env \in Envelope
    BY DEF StreamInv, WireTypes, Emission, Envelope
  <1> HIDE DEF env
  <1>3. \A s \in Readers : Len(chan'[s]) <= BufferSize
    <2>1. CASE chan' = chan
      BY <2>1 DEF RoomInv
    <2>2. CASE Len(chan[r]) # BufferSize /\ chan' = [chan EXCEPT ![r] = Append(@, env)]
      <3>1. /\ chan'[r] = Append(chan[r], env) /\ chan[r] \in Seq(Envelope)
            /\ \A s \in Readers : s # r => chan'[s] = chan[s]
        BY <2>2 DEF StreamInv, WireTypes
      <3>2. Len(chan'[r]) = Len(chan[r]) + 1 /\ Len(chan[r]) \in Nat
        BY <1>2, <3>1, ChanLengths
      <3>3. Len(chan[r]) <= BufferSize /\ BufferSize \in Nat
        BY StreamAssumption DEF RoomInv, StreamAssumption
      <3>4. Len(chan'[r]) <= BufferSize
        BY <2>2, <3>2, <3>3
      <3> QED
        BY <3>1, <3>4 DEF RoomInv
    <2> QED
      BY <1>1, <2>1, <2>2
  <1> QED
    BY <1>1, <1>2, <1>3 DEF RoomInv

LEMMA RoomPost ==
  ASSUME StreamInv, RoomInv, PostReceives \/ PostSeesTurnEnd \/ PostDecides \/ PostGivesUp
  PROVE  RoomInv'
  <1>0. Post \in Readers /\ WireTypes
    BY DEF Readers, StreamInv
  <1>1. /\ UNCHANGED <<missed, overflowed, dead>>
        /\ \/ /\ PostTakes /\ chan[Post] # <<>>
              /\ UNCHANGED <<listening, closedChans, cut>>
           \/ \E why : PostReturns(why)
           \/ UNCHANGED <<chan, listening, closedChans, cut>>
    BY DEF PostReceives, PostSeesTurnEnd, PostDecides, PostGivesUp, PostStays,
           EmittersUnchanged
  <1>2. \A s \in Readers : Len(chan'[s]) <= BufferSize
    BY <1>0, <1>1, RoomLeft DEF PostTakes, PostReturns
  <1> QED
    BY <1>0, <1>1, <1>2 DEF PostReturns, RoomInv

LEMMA RoomPage ==
  ASSUME StreamInv, PageInv, RoomInv,
         \/ \E from \in 0..Len(eventLog) : PageSubscribes(from)
         \/ PageReplays \/ PageReceives \/ PageLeaves
  PROVE  RoomInv'
  <1>0. Page \in Readers /\ WireTypes
    BY DEF Readers, StreamInv
  <1>1. CASE \E from \in 0..Len(eventLog) : PageSubscribes(from)
    <2>1. Page \notin closedChans
      BY <1>1 DEF PageSubscribes, PageInv, PageAttached
    <2> QED
      BY <1>0, <1>1, <2>1 DEF PageSubscribes, EmittersUnchanged, RoomInv
  <1>2. CASE PageReplays
    <2>1. DOMAIN eventLog \subseteq Nat
      BY LenProperties DEF StreamInv, WireTypes
    <2> QED
      BY <1>2, <2>1 DEF PageReplays, EmittersUnchanged, RoomInv
  <1>3. CASE PageReceives
    <2>1. \A s \in Readers : Len(chan'[s]) <= BufferSize
      BY <1>0, <1>3, RoomLeft DEF PageReceives
    <2> QED
      BY <1>3, <2>1 DEF PageReceives, EmittersUnchanged, RoomInv
  <1>4. CASE PageLeaves
    <2>1. \A s \in Readers : Len(chan'[s]) <= BufferSize
      BY <1>0, <1>4, RoomLeft DEF PageLeaves
    <2> QED
      BY <1>0, <1>4, <2>1 DEF PageLeaves, EmittersUnchanged, RoomInv
  <1> QED
    BY <1>1, <1>2, <1>3, <1>4

LEMMA RoomStep ==
  ASSUME StreamInv, PageInv, RoomInv, [StreamNext]_streamVars
  PROVE  RoomInv'
  <1>1. ASSUME NEW e \in Emitters,
               (\E kind \in Kinds : Emit(e, kind)) \/ Copy(e) \/ Sent(e) \/ EndSilently(e)
        PROVE  RoomInv'
    <2>1. UNCHANGED <<chan, missed, overflowed, dead, listening, closedChans, cut>>
      BY <1>1 DEF Emit, Copy, Sent, EndSilently, ReadersUnchanged
    <2> QED
      BY <2>1 DEF RoomInv
  <1>2. ASSUME NEW e \in Emitters, NEW r \in Readers, Send(e, r) PROVE RoomInv'
    BY <1>2, RoomSend
  <1>3. CASE UNCHANGED streamVars
    BY <1>3 DEF streamVars, RoomInv
  <1> QED
    BY <1>1, <1>2, <1>3, RoomPost, RoomPage DEF StreamNext

\* The variables of the stream keep their types: Publish skips a channel that is
\* full, so none outgrows its buffer, and a reader whose channel was closed is
\* no longer in the hub's list (event_hub.go).
THEOREM StreamTypeTheorem == StreamSpec => []StreamType
  <1>1. StreamInit => StreamInv /\ PageInv /\ RoomInv
    <2>1. ASSUME StreamInit PROVE RoomInv
      <3>1. Len(<<>>) = 0 /\ BufferSize \in Nat
        BY StreamAssumption DEF StreamAssumption
      <3>2. \A r \in Readers : chan[r] = <<>>
        BY <2>1 DEF StreamInit
      <3>3. \A r \in Readers : Len(chan[r]) <= BufferSize
        BY <3>1, <3>2
      <3> QED
        BY <2>1, <3>3 DEF StreamInit, RoomInv
    <2> QED
      BY <2>1, StreamInitial, PageInitial
  <1>2. StreamInv /\ PageInv /\ RoomInv /\ [StreamNext]_streamVars
           => StreamInv' /\ PageInv' /\ RoomInv'
    BY StreamStep, PageStep, RoomStep
  <1>3. StreamInv /\ PageInv /\ RoomInv => StreamType
    <2> SUFFICES ASSUME StreamInv, PageInv, RoomInv PROVE StreamType
      OBVIOUS
    <2>1. /\ eventLog \in Seq(Kinds) /\ listening \subseteq Readers
          /\ \A r \in Readers : chan[r] \in Seq(Envelope)
          /\ emits \in [Emitters -> Nat]
          /\ ended \in [Emitters -> {"no", "silent"} \cup LastWords]
      BY DEF StreamInv, WireTypes
    <2>2. /\ emitting \in [Emitters -> [at : {"idle", "stored", "sending"}, seq : Nat,
                                        kind : Kinds, to : SUBSET Readers]]
          /\ post \in [at : {"loop", "drain", "returned"}, turnPending : BOOLEAN,
                       waitsForTurn : BOOLEAN, forwardedAny : BOOLEAN,
                       why : {"", "done", "agentDone", "noResponse", "gone"}]
      BY DEF StreamInv, WireTypes, Emission, PostRecord
    <2>3. /\ page \in [at : {"off", "subscribed", "live", "left"}, from : Nat, since : Nat]
          /\ shown \in Seq(Nat)
      BY DEF PageInv, Numbered, PageRecord
    <2> QED
      BY <2>1, <2>2, <2>3 DEF RoomInv, StreamType
  <1> QED
    BY <1>1, <1>2, <1>3, PTL DEF StreamSpec
=============================================================================
