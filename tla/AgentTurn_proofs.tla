-------------------------- MODULE AgentTurn_proofs --------------------------
(***************************************************************************)
(* Proofs about a conversation, for any number of threads, objects, turns  *)
(* and events.  In order:                                                  *)
(*   - lemmas about histories: what appends, results and cuts keep, and    *)
(*     which histories make a request that the APIs accept;                *)
(*   - no steer is stranded (SteerInv);                                    *)
(*   - types, and what a thread has where it is (FlowInv);                 *)
(*   - the stored history grows (LossInv);                                 *)
(*   - while turns do not get tangled a call has one result (CalmInv), and *)
(*     the requests for OpenAI (PairInv) and for Anthropic (DeclInv) pair  *)
(*     calls with results.                                                 *)
(* Each invariant is the one before it and what it adds.                   *)
(***************************************************************************)
EXTENDS AgentTurn, FiniteSetTheorems, SequenceTheorems, WellFoundedInduction, TLAPS

-----------------------------------------------------------------------------
(* Requests.                                                               *)

\* A tool message is in the run of one assistant message only: the runs of two
\* messages that are no tool messages do not overlap (openai.go:151-175).
LEMMA RunsDisjoint ==
  ASSUME NEW h \in Histories, NEW i \in DOMAIN h, NEW j \in DOMAIN h,
         h[i].role # "tool", h[j].role # "tool",
         NEW k \in Run(h, i), k \in Run(h, j)
  PROVE  i = j
  <1>1. DOMAIN h \subseteq Nat
    BY DEF Histories
  <1>2. k > i /\ k > j /\ k \in DOMAIN h
    BY DEF Run
  <1>3. ~(i < j)
    <2> SUFFICES ASSUME i < j PROVE FALSE
      OBVIOUS
    <2>1. h[j].role = "tool"
      BY <1>1, <1>2 DEF Run
    <2> QED
      BY <2>1
  <1>4. ~(j < i)
    <2> SUFFICES ASSUME j < i PROVE FALSE
      OBVIOUS
    <2>1. h[i].role = "tool"
      BY <1>1, <1>2 DEF Run
    <2> QED
      BY <2>1
  <1> QED
    BY <1>1, <1>3, <1>4

\* A result that answers a call of a message that is no orphan stays.
LEMMA ResultKept ==
  ASSUME NEW h \in Histories, NEW i \in DOMAIN h, Declares(h, i), ~Orphan(h, i),
         NEW k \in Run(h, i)
  PROVE  k \in KeptByOpenAI(h)
  <1>1. k \in DOMAIN h
    BY DEF Run
  <1>2. SUFFICES ASSUME NEW j \in DOMAIN h, Orphan(h, j), k \in Run(h, j)
                 PROVE  FALSE
    BY <1>1 DEF KeptByOpenAI, OrphanTool
  <1>3. h[i].role # "tool" /\ h[j].role # "tool"
    BY <1>2 DEF Declares, Orphan
  <1>4. i = j
    BY <1>2, <1>3, RunsDisjoint
  <1> QED
    BY <1>2, <1>4

\* Whatever the history, a request for OpenAI answers each call it leaves in
\* right after the message that makes it (toAPIMessages and findOrphanToolCalls,
\* openai.go:86-188): no detected loop, crash or overlap of turns can make the
\* API reject a request for a call without a result.
THEOREM CallsAnsweredTheorem ==
  ASSUME NEW h \in Histories
  PROVE  CallsAnswered(h, KeptByOpenAI(h))
  <1> SUFFICES ASSUME NEW i \in KeptByOpenAI(h), NEW c \in Left(h, i)
               PROVE  \E k \in WireRun(h, KeptByOpenAI(h), i) : h[k].answers = c
    BY DEF CallsAnswered
  <1>1. i \in DOMAIN h /\ ~Orphan(h, i) /\ c \in h[i].calls
    BY DEF KeptByOpenAI, Left
  <1>2. h[i] \in Message
    BY <1>1 DEF Histories
  <1>3. Declares(h, i)
    BY <1>1, <1>2 DEF Declares, Message, Left
  <1>4. PICK k \in Run(h, i) : h[k].answers = c
    BY <1>1, <1>3 DEF Orphan
  <1>5. k \in KeptByOpenAI(h)
    BY <1>1, <1>3, ResultKept
  <1>6. k \in WireRun(h, KeptByOpenAI(h), i)
    BY <1>5 DEF WireRun, Run, KeptByOpenAI
  <1> QED
    BY <1>4, <1>6
-----------------------------------------------------------------------------
(* Histories: what makes them fit for a request, and what keeps them so.   *)

Tool(h, k) == h[k].role = "tool"

\* Two results of one call have a message between them that makes it again; no
\* result of a call of P comes after the last message that makes it.  Where no
\* identifier was given twice, results come after the message that calls, and
\* only one does.
Once(h)         == \A k, l \in DOMAIN h :
                      Tool(h, k) /\ Tool(h, l) /\ h[k].answers = h[l].answers /\ k < l
                      => \E i \in DOMAIN h : k < i /\ i < l /\ h[l].answers \in h[i].calls
NoResult(h, P)  == \A k \in DOMAIN h : Tool(h, k) /\ h[k].answers \in P
                      => \E i \in DOMAIN h : k < i /\ h[k].answers \in h[i].calls
After(h)        == \A i, k \in DOMAIN h :
                      Tool(h, k) /\ h[k].answers \in h[i].calls => i < k
DeclaredOnce(h) == \A i, j \in DOMAIN h : \A c \in h[i].calls : c \in h[j].calls => i = j

Regular(h, P) == Once(h) /\ NoResult(h, P)
SingleUse(h)   == After(h) /\ DeclaredOnce(h)

\* Every result comes after a message that makes its call.
Declared(h) == \A k \in DOMAIN h : Tool(h, k)
                  => \E i \in DOMAIN h : i < k /\ h[k].answers \in h[i].calls

\* Every result is in the run of its call, and every call has one but those of P
\* that the last message with calls makes.
Adjacent(h)  == \A k \in DOMAIN h : Tool(h, k) =>
                   \E i \in DOMAIN h : k \in Run(h, i) /\ h[k].answers \in h[i].calls
Served(h, P) == \A i \in DOMAIN h : \A c \in h[i].calls :
                   \/ c \in P /\ \A j \in DOMAIN h : j > i => Tool(h, j)
                   \/ \E k \in Run(h, i) : h[k].answers = c
Paired(h, P) == Adjacent(h) /\ Served(h, P)

\* Messages that neither call nor answer.
Plain(m) == \A i \in DOMAIN m : m[i].role # "tool" /\ m[i].calls = {}

\* m answers each call once, and what h answers too only if it called it again.
Single(m)  == \A i, j \in DOMAIN m : Tool(m, i) /\ Tool(m, j) /\ m[i].answers = m[j].answers
                                     => i = j
Anew(h, m) == \A k \in DOMAIN h : \A i \in DOMAIN m :
                 Tool(h, k) /\ Tool(m, i) /\ h[k].answers = m[i].answers
                 => \E d \in DOMAIN h : k < d /\ m[i].answers \in h[d].calls

\* g is h followed by m.
Joined(g, h, m) ==
    /\ DOMAIN g = 1..Len(h) + Len(m)
    /\ \A k \in 1..Len(h) : g[k] = h[k]
    /\ \A k \in Len(h) + 1 .. Len(h) + Len(m) : g[k] = m[k - Len(h)]

LEMMA Joins ==
  ASSUME NEW h \in Histories, NEW m \in Histories
  PROVE  h \o m \in Histories /\ Joined(h \o m, h, m)
  <1>1. h \o m \in Histories /\ Len(h \o m) = Len(h) + Len(m)
    BY ConcatProperties DEF Histories
  <1>2. DOMAIN (h \o m) = 1..Len(h) + Len(m)
    BY <1>1, LenProperties DEF Histories
  <1>3. ASSUME NEW k \in 1..Len(h) + Len(m)
        PROVE  (h \o m)[k] = IF k <= Len(h) THEN h[k] ELSE m[k - Len(h)]
    BY <1>3, ConcatProperties DEF Histories
  <1>4. Len(h) \in Nat /\ Len(m) \in Nat
    BY LenProperties DEF Histories
  <1> QED
    BY <1>1, <1>2, <1>3, <1>4 DEF Joined

LEMMA Lengths ==
  ASSUME NEW h \in Histories
  PROVE  Len(h) \in Nat /\ DOMAIN h = 1..Len(h) /\ \A k \in DOMAIN h : h[k] \in Message
  BY LenProperties, ElementOfSeq DEF Histories

LEMMA MessageFields ==
  ASSUME NEW x \in Message, Calls \subseteq Nat
  PROVE  x.calls \subseteq Nat /\ x.answers \in Nat /\ x.calls \subseteq Calls
  <1> DEFINE R == {"user", "assistant", "tool", "system"}
             B == SUBSET Calls
             C == Calls \cup {NoCall}
             D == BOOLEAN
  <1>0. x \in [role : R, calls : B, answers : C, text : D]
    BY ZenonT(20) DEF Message
  <1>1. x.calls \in B /\ x.answers \in C
    <2> HIDE DEF R, B, C, D
    <2> QED
      BY <1>0
  <1>2. \A a \in C : a \in Nat
    BY DEF NoCall
  <1>3. \A a \in B : a \subseteq Nat /\ a \subseteq Calls
    OBVIOUS
  <1> QED
    <2> HIDE DEF R, B, C, D
    <2> QED
      BY <1>1, <1>2, <1>3

LEMMA JoinedPlaces ==
  ASSUME NEW g, NEW h \in Histories, NEW m \in Histories, Joined(g, h, m)
  PROVE  /\ DOMAIN g \subseteq Nat /\ DOMAIN h \subseteq DOMAIN g
         /\ \A k \in DOMAIN h : g[k] = h[k]
         /\ \A k \in DOMAIN g : k \in DOMAIN h \/ k - Len(h) \in DOMAIN m
         /\ \A k \in DOMAIN m : k + Len(h) \in DOMAIN g /\ g[k + Len(h)] = m[k]
         /\ \A k \in DOMAIN g : k - Len(h) \in DOMAIN m
               => g[k] = m[k - Len(h)] /\ \A j \in DOMAIN h : j < k
  <1>0. /\ Len(h) \in Nat /\ DOMAIN h = 1..Len(h)
        /\ Len(m) \in Nat /\ DOMAIN m = 1..Len(m)
    BY Lengths
  <1>1. DOMAIN g \subseteq Nat /\ DOMAIN h \subseteq DOMAIN g
    BY <1>0 DEF Joined
  <1>2. \A k \in DOMAIN h : g[k] = h[k]
    BY <1>0 DEF Joined
  <1>3. \A k \in DOMAIN g : k \in DOMAIN h \/ k - Len(h) \in DOMAIN m
    BY <1>0 DEF Joined
  <1>4. ASSUME NEW k \in DOMAIN m
        PROVE  k + Len(h) \in DOMAIN g /\ g[k + Len(h)] = m[k]
    <2>1. k + Len(h) \in Len(h) + 1 .. Len(h) + Len(m) /\ k + Len(h) - Len(h) = k
      BY <1>0
    <2>2. g[k + Len(h)] = m[k + Len(h) - Len(h)]
      BY <2>1 DEF Joined
    <2>3. k + Len(h) \in DOMAIN g
      BY <1>0, <2>1 DEF Joined
    <2> QED
      BY <2>1, <2>2, <2>3
  <1>5. ASSUME NEW k \in DOMAIN g, k - Len(h) \in DOMAIN m
        PROVE  g[k] = m[k - Len(h)] /\ \A j \in DOMAIN h : j < k
    BY <1>0, <1>1, <1>5 DEF Joined
  <1> QED
    BY <1>1, <1>2, <1>3, <1>4, <1>5

\* What follows a sound history answers what it called last.
LEMMA OnceJoined ==
  ASSUME NEW g, NEW h \in Histories, NEW m \in Histories, Joined(g, h, m),
         Once(h), Single(m), Anew(h, m)
  PROVE  Once(g)
  <1>0. /\ DOMAIN g \subseteq Nat /\ DOMAIN h \subseteq DOMAIN g
        /\ \A k \in DOMAIN h : g[k] = h[k]
        /\ \A k \in DOMAIN g : k \in DOMAIN h \/ k - Len(h) \in DOMAIN m
        /\ \A k \in DOMAIN g : k - Len(h) \in DOMAIN m
              => g[k] = m[k - Len(h)] /\ \A j \in DOMAIN h : j < k
    BY JoinedPlaces
  <1> SUFFICES ASSUME NEW k \in DOMAIN g, NEW l \in DOMAIN g, Tool(g, k), Tool(g, l),
                      g[k].answers = g[l].answers, k < l
               PROVE  \E i \in DOMAIN g : k < i /\ i < l /\ g[l].answers \in g[i].calls
    BY DEF Once
  <1>1. CASE l \in DOMAIN h
    <2>1. k \in DOMAIN h
      <3>1. CASE k - Len(h) \in DOMAIN m
        <4>1. l < k
          BY <1>0, <1>1, <3>1
        <4> QED
          BY <1>0, <4>1
      <3> QED
        BY <1>0, <3>1
    <2>2. Tool(h, k) /\ Tool(h, l) /\ h[k].answers = h[l].answers
      BY <1>0, <1>1, <2>1 DEF Tool
    <2>3. \E i \in DOMAIN h : k < i /\ i < l /\ h[l].answers \in h[i].calls
      BY <1>1, <2>1, <2>2 DEF Once
    <2> QED
      BY <1>0, <1>1, <2>3
  <1>2. CASE k \in DOMAIN h /\ l - Len(h) \in DOMAIN m
    <2>1. Tool(h, k) /\ Tool(m, l - Len(h)) /\ h[k].answers = m[l - Len(h)].answers
      BY <1>0, <1>2 DEF Tool
    <2>2. PICK d \in DOMAIN h : k < d /\ m[l - Len(h)].answers \in h[d].calls
      BY <1>2, <2>1 DEF Anew
    <2> QED
      BY <1>0, <1>2, <2>2
  <1>3. CASE k - Len(h) \in DOMAIN m /\ l - Len(h) \in DOMAIN m
    <2>1. Tool(m, k - Len(h)) /\ Tool(m, l - Len(h))
          /\ m[k - Len(h)].answers = m[l - Len(h)].answers
      BY <1>0, <1>3 DEF Tool
    <2>2. k - Len(h) = l - Len(h)
      BY <1>3, <2>1 DEF Single
    <2>3. k \in Nat /\ l \in Nat /\ Len(h) \in Nat
      BY <1>0, Lengths
    <2> QED
      BY <2>2, <2>3
  <1> QED
    BY <1>0, <1>1, <1>2, <1>3

LEMMA NoResultJoined ==
  ASSUME NEW g, NEW h \in Histories, NEW m \in Histories, Joined(g, h, m),
         NEW P, NEW Q, NoResult(h, P),
         \A c \in Q : c \in P \/ \E i \in DOMAIN m : c \in m[i].calls,
         \A i \in DOMAIN m : Tool(m, i) => m[i].answers \notin Q
  PROVE  NoResult(g, Q)
  <1>0. /\ DOMAIN h \subseteq DOMAIN g
        /\ \A k \in DOMAIN h : g[k] = h[k]
        /\ \A k \in DOMAIN g : k \in DOMAIN h \/ k - Len(h) \in DOMAIN m
        /\ \A k \in DOMAIN m : k + Len(h) \in DOMAIN g /\ g[k + Len(h)] = m[k]
        /\ \A k \in DOMAIN g : k - Len(h) \in DOMAIN m => g[k] = m[k - Len(h)]
    BY JoinedPlaces
  <1> SUFFICES ASSUME NEW k \in DOMAIN g, Tool(g, k), g[k].answers \in Q
               PROVE  \E i \in DOMAIN g : k < i /\ g[k].answers \in g[i].calls
    BY DEF NoResult
  <1>1. k \in DOMAIN h /\ Tool(h, k) /\ h[k] = g[k]
    BY <1>0 DEF Tool
  <1>2. CASE g[k].answers \in P
    BY <1>0, <1>1, <1>2 DEF NoResult
  <1>3. ASSUME NEW i \in DOMAIN m, g[k].answers \in m[i].calls
        PROVE  \E j \in DOMAIN g : k < j /\ g[k].answers \in g[j].calls
    <2>1. k < i + Len(h)
      BY <1>1, Lengths
    <2> QED
      BY <1>0, <1>3, <2>1
  <1> QED
    BY <1>2, <1>3

LEMMA RegularFewer ==
  ASSUME NEW h, NEW P, NEW Q, Q \subseteq P, Regular(h, P)
  PROVE  Regular(h, Q)
  BY DEF Regular, NoResult

LEMMA RegularPlain ==
  ASSUME NEW g, NEW h \in Histories, NEW m \in Histories, Joined(g, h, m), Plain(m),
         NEW P, Regular(h, P)
  PROVE  Regular(g, P)
  <1>1. \A i \in DOMAIN m : ~Tool(m, i)
    BY DEF Plain, Tool
  <1>2. Single(m) /\ Anew(h, m)
    BY <1>1 DEF Single, Anew
  <1>3. \A c \in P : c \in P \/ \E i \in DOMAIN m : c \in m[i].calls
    OBVIOUS
  <1>4. NoResult(g, P)
    BY <1>1, <1>3, NoResultJoined DEF Regular
  <1> QED
    BY <1>2, <1>4, OnceJoined DEF Regular

\* The calls of a reply have no result after it.
LEMMA RegularCalling ==
  ASSUME NEW g, NEW h \in Histories, NEW C \in SUBSET Calls,
         <<Calling(C)>> \in Histories, Joined(g, h, <<Calling(C)>>),
         NEW P, Regular(h, P)
  PROVE  Regular(g, C)
  <1> DEFINE m == <<Calling(C)>>
  <1>1. DOMAIN m = {1} /\ m[1].role = "assistant" /\ m[1].calls = C
    BY DEF Calling
  <1>2. m \in Histories /\ Joined(g, h, m)
    OBVIOUS
  <1> HIDE DEF m
  <1>3. \A i \in DOMAIN m : ~Tool(m, i)
    BY <1>1 DEF Tool
  <1>4. Single(m) /\ Anew(h, m)
    BY <1>3 DEF Single, Anew
  <1>5. \A c \in C : c \in P \/ \E i \in DOMAIN m : c \in m[i].calls
    BY <1>1
  <1>6. NoResult(h, P) /\ Once(h)
    BY DEF Regular
  <1>7. NoResult(g, C)
    BY <1>2, <1>3, <1>5, <1>6, NoResultJoined
  <1>8. Once(g)
    BY <1>2, <1>4, <1>6, OnceJoined
  <1> QED
    BY <1>7, <1>8 DEF Regular

\* Identifiers stay distinct where a reply brings new ones.
LEMMA DistinctPlain ==
  ASSUME NEW g, NEW h \in Histories, NEW m \in Histories, Joined(g, h, m),
         \A i \in DOMAIN m : m[i].calls = {}, SingleUse(h)
  PROVE  SingleUse(g)
  <1>0. /\ DOMAIN g \subseteq Nat
        /\ \A k \in DOMAIN h : g[k] = h[k]
        /\ \A k \in DOMAIN g : k \in DOMAIN h \/ k - Len(h) \in DOMAIN m
        /\ \A k \in DOMAIN g : k - Len(h) \in DOMAIN m
              => g[k] = m[k - Len(h)] /\ \A j \in DOMAIN h : j < k
    BY JoinedPlaces
  <1>1. \A i \in DOMAIN g : g[i].calls # {} => i \in DOMAIN h /\ g[i] = h[i]
    BY <1>0
  <1>2. After(g)
    BY <1>0, <1>1 DEF SingleUse, After, Tool
  <1>3. DeclaredOnce(g)
    BY <1>1 DEF SingleUse, DeclaredOnce
  <1> QED
    BY <1>2, <1>3 DEF SingleUse

LEMMA DistinctCalling ==
  ASSUME NEW g, NEW h \in Histories, NEW C \in SUBSET Calls,
         <<Calling(C)>> \in Histories, Joined(g, h, <<Calling(C)>>),
         C \cap Known(h) = {}, SingleUse(h)
  PROVE  SingleUse(g)
  <1> DEFINE m == <<Calling(C)>>
             e == 1 + Len(h)
  <1>1. DOMAIN m = {1} /\ m[1].role = "assistant" /\ m[1].calls = C
    BY DEF Calling
  <1>2. m \in Histories /\ Joined(g, h, m)
    OBVIOUS
  <1> HIDE DEF m
  <1>3. /\ DOMAIN g \subseteq Nat
        /\ \A k \in DOMAIN h : g[k] = h[k]
        /\ \A k \in DOMAIN g : k \in DOMAIN h \/ k = e
        /\ \A k \in DOMAIN g : k = e => g[k] = m[1]
    <2>1. /\ DOMAIN g \subseteq Nat
          /\ \A k \in DOMAIN h : g[k] = h[k]
          /\ \A k \in DOMAIN g : k \in DOMAIN h \/ k - Len(h) \in DOMAIN m
          /\ \A k \in DOMAIN m : k + Len(h) \in DOMAIN g /\ g[k + Len(h)] = m[k]
      BY <1>2, JoinedPlaces
    <2>2. \A k \in Nat : k - Len(h) = 1 => k = e
      BY Lengths
    <2> HIDE DEF e
    <2>3. \A k \in DOMAIN g : k \in DOMAIN h \/ k = e
      BY <1>1, <2>1, <2>2
    <2>4. g[e] = m[1]
      BY <1>1, <2>1 DEF e
    <2> QED
      BY <2>1, <2>3, <2>4
  <1> HIDE DEF e
  <1>4. ASSUME NEW c \in C, NEW k \in DOMAIN h
        PROVE  c \notin h[k].calls /\ h[k].answers # c
    BY <1>4 DEF Known
  <1>5. After(g)
    BY <1>1, <1>3, <1>4 DEF SingleUse, After, Tool
  <1>6. DeclaredOnce(g)
    BY <1>1, <1>3, <1>4 DEF SingleUse, DeclaredOnce
  <1> QED
    BY <1>5, <1>6 DEF SingleUse

\* A result per call, of calls that had none.
Results(s) == [i \in DOMAIN s |-> Result(s[i])]

LEMMA ResultsType ==
  ASSUME NEW s \in Seq(Calls)
  PROVE  /\ Results(s) \in Histories
         /\ Len(Results(s)) = Len(s) /\ DOMAIN Results(s) = DOMAIN s
         /\ \A i \in DOMAIN s : Tool(Results(s), i) /\ Results(s)[i].answers = s[i]
                                /\ Results(s)[i].calls = {}
  <1>1. Len(s) \in Nat /\ DOMAIN s = 1..Len(s) /\ \A i \in DOMAIN s : s[i] \in Calls
    BY LenProperties, ElementOfSeq
  <1>2. \A c \in Calls : Result(c) \in Message
    BY DEF Result, Message
  <1>3. Results(s) \in [1..Len(s) -> Message]
    BY <1>1, <1>2 DEF Results
  <1>4. Results(s) \in Seq(Message)
    BY <1>1, <1>3, SeqDef
  <1>5. Len(Results(s)) = Len(s)
    BY <1>1, <1>3, <1>4, LenProperties
  <1>6. \A i \in DOMAIN s : Results(s)[i] = Result(s[i])
    BY DEF Results
  <1> QED
    BY <1>1, <1>3, <1>4, <1>5, <1>6 DEF Histories, Tool, Result

\* Results of different calls that had none since they were made.
LEMMA RegularResults ==
  ASSUME NEW g, NEW h \in Histories, NEW s \in Seq(Calls), Joined(g, h, Results(s)),
         \A i, j \in DOMAIN s : s[i] = s[j] => i = j,
         NEW P, NEW Q, Q \subseteq P, \A i \in DOMAIN s : s[i] \notin Q,
         Regular(h, P), NoResult(h, ToSet(s))
  PROVE  Regular(g, Q)
  <1> DEFINE m == Results(s)
  <1>1. /\ m \in Histories /\ Len(m) = Len(s) /\ DOMAIN m = DOMAIN s
        /\ \A i \in DOMAIN m : Tool(m, i) /\ m[i].answers = s[i] /\ m[i].calls = {}
    BY ResultsType
  <1>2. Joined(g, h, m)
    OBVIOUS
  <1> HIDE DEF m
  <1>3. Single(m)
    BY <1>1 DEF Single
  <1>4. Anew(h, m)
    <2>1. \A i \in DOMAIN s : s[i] \in ToSet(s)
      BY DEF ToSet
    <2> QED
      BY <1>1, <2>1 DEF Anew, NoResult
  <1>5. NoResult(h, P) /\ Once(h)
    BY DEF Regular
  <1>6. NoResult(g, Q)
    <2>1. \A c \in Q : c \in P \/ \E i \in DOMAIN m : c \in m[i].calls
      OBVIOUS
    <2>2. \A i \in DOMAIN m : Tool(m, i) => m[i].answers \notin Q
      BY <1>1
    <2> QED
      BY <1>1, <1>2, <1>5, <2>1, <2>2, NoResultJoined
  <1>7. Once(g)
    BY <1>1, <1>2, <1>3, <1>4, <1>5, OnceJoined
  <1> QED
    BY <1>6, <1>7 DEF Regular

\* What a history has that was saved: its first messages.
LEMMA PrefixPlaces ==
  ASSUME NEW h \in Histories, NEW r \in Histories, IsPrefix(r, h)
  PROVE  /\ DOMAIN r \subseteq DOMAIN h /\ DOMAIN h \subseteq Nat
         /\ \A k \in DOMAIN r : r[k] = h[k] /\ \A i \in DOMAIN h : i < k => i \in DOMAIN r
  <1>1. /\ Len(r) \in Nat /\ DOMAIN r = 1..Len(r) /\ Len(h) \in Nat /\ DOMAIN h = 1..Len(h)
    BY Lengths
  <1>2. Len(r) <= Len(h) /\ \A k \in 1..Len(r) : r[k] = h[k]
    BY <1>1 DEF IsPrefix
  <1> QED
    BY <1>1, <1>2

LEMMA PrefixSound ==
  ASSUME NEW h \in Histories, NEW r \in Histories, IsPrefix(r, h)
  PROVE  /\ Once(h) => Once(r)
         /\ SingleUse(h) => SingleUse(r)
         /\ Declared(h) => Declared(r)
  <1>0. /\ DOMAIN r \subseteq DOMAIN h /\ DOMAIN h \subseteq Nat
        /\ \A k \in DOMAIN r : r[k] = h[k] /\ \A i \in DOMAIN h : i < k => i \in DOMAIN r
    BY PrefixPlaces
  <1>1. ASSUME Once(h) PROVE Once(r)
    <2> SUFFICES ASSUME NEW k \in DOMAIN r, NEW l \in DOMAIN r, Tool(r, k), Tool(r, l),
                        r[k].answers = r[l].answers, k < l
                 PROVE  \E i \in DOMAIN r : k < i /\ i < l /\ r[l].answers \in r[i].calls
      BY DEF Once
    <2>1. Tool(h, k) /\ Tool(h, l) /\ h[k].answers = h[l].answers
      BY <1>0 DEF Tool
    <2>2. PICK i \in DOMAIN h : k < i /\ i < l /\ h[l].answers \in h[i].calls
      BY <1>0, <1>1, <2>1 DEF Once
    <2> QED
      BY <1>0, <2>2
  <1>2. ASSUME SingleUse(h) PROVE SingleUse(r)
    BY <1>0, <1>2 DEF SingleUse, After, DeclaredOnce, Tool
  <1>3. ASSUME Declared(h) PROVE Declared(r)
    <2> SUFFICES ASSUME NEW k \in DOMAIN r, Tool(r, k)
                 PROVE  \E i \in DOMAIN r : i < k /\ r[k].answers \in r[i].calls
      BY DEF Declared
    <2>1. PICK i \in DOMAIN h : i < k /\ h[k].answers \in h[i].calls
      BY <1>0, <1>3 DEF Declared, Tool
    <2> QED
      BY <1>0, <2>1
  <1> QED
    BY <1>1, <1>2, <1>3

\* The least of a set of numbers, and the greatest position of a history.
LEMMA LeastOf ==
  ASSUME NEW S \in SUBSET Nat, S # {}
  PROVE  \E w \in S : \A v \in S : w <= v
  <1> DEFINE R == OpToRel(<, Nat)
  <1>1. \E w \in S : \A v \in S : ~(<<v, w>> \in R)
    BY NatLessThanWellFounded, WFMin, Zenon
  <1>2. \A v, w \in Nat : v < w => <<v, w>> \in R
    BY SMT DEF OpToRel
  <1> HIDE DEF R
  <1>3. PICK w \in S : \A v \in S : ~(<<v, w>> \in R)
    BY <1>1
  <1>4. \A v \in S : ~(v < w)
    BY <1>2, <1>3
  <1> QED
    BY <1>4

LEMMA GreatestOf ==
  ASSUME NEW n \in Nat, NEW S \in SUBSET (1..n), S # {}
  PROVE  \E w \in S : \A v \in S : v <= w
  <1> DEFINE T == {k \in Nat : n - k \in S}
  <1>1. \A v \in S : n - v \in T
    OBVIOUS
  <1>2. T \in SUBSET Nat /\ T # {}
    BY <1>1
  <1>3. PICK k \in T : \A j \in T : k <= j
    BY <1>2, LeastOf
  <1>4. n - k \in S /\ k \in Nat
    BY <1>3
  <1>5. \A v \in S : v <= n - k
    BY <1>1, <1>3
  <1> QED
    BY <1>4, <1>5

\* g is h from its first c messages on, after a summary of those.
Cut(g, h, c) ==
    /\ DOMAIN g = 1..Len(h) - c + 1
    /\ g[1] = User
    /\ \A k \in 2..Len(h) - c + 1 : g[k] = h[k - 1 + c]

\* The tail that safeCompactionCutoff chooses does not start with a result.
LEMMA CutoffAt ==
  ASSUME NEW h \in Histories, KeptTail \in Nat
  PROVE  /\ Cutoff(h) \in 0..Len(h)
         /\ Cutoff(h) = Len(h) \/ ~Tool(h, Cutoff(h) + 1)
  <1> DEFINE K == Len(h) - KeptTail
             S == {n \in 0..Len(h) : n >= K /\ (n = Len(h) \/ ~Tool(h, n + 1))}
  <1>1. Len(h) \in Nat /\ K \in Int
    BY LenProperties DEF Histories
  <1>2. S \in SUBSET Nat /\ Len(h) \in S
    BY <1>1
  <1>3. PICK n \in S : \A m \in S : n <= m
    BY <1>2, LeastOf
  <1>4. ASSUME NEW m \in 0..n - 1, m >= K PROVE Tool(h, m + 1)
    <2>1. n \in 0..Len(h) /\ m \in 0..Len(h) /\ ~(n <= m)
      BY <1>1, <1>3
    <2>2. m \notin S
      BY <1>3, <2>1
    <2> QED
      BY <1>4, <2>1, <2>2
  <1>5. /\ n \in 0..Len(h) /\ n >= K /\ (n = Len(h) \/ h[n + 1].role # "tool")
        /\ \A m \in 0..n - 1 : m >= K => h[m + 1].role = "tool"
    BY <1>3, <1>4 DEF Tool
  <1> QED
    BY <1>5 DEF Cutoff, Tool

\* Compaction leaves the history, or cuts it.
LEMMA CompressedCut ==
  ASSUME NEW h \in Histories, KeptTail \in Nat
  PROVE  /\ Compressed(h) \in Histories
         /\ Compressed(h) = h \/ Cut(Compressed(h), h, Cutoff(h))
  <1> DEFINE c == Cutoff(h)
             u == <<User>>
             v == SubSeq(h, c + 1, Len(h))
  <1>1. CASE Len(h) <= KeptTail
    BY <1>1 DEF Compressed
  <1>2. CASE ~(Len(h) <= KeptTail)
    <2>1. c \in 0..Len(h) /\ Len(h) \in Nat
      BY CutoffAt, LenProperties DEF Histories
    <2> HIDE DEF c
    <2>2. User \in Message
      BY DEF User, Said, Message
    <2>3. u \in Histories /\ Len(u) = 1 /\ u[1] = User
      BY <2>2 DEF Histories
    <2>4. /\ v \in Histories /\ Len(v) = Len(h) - c
          /\ \A i \in 1..Len(h) - c : v[i] = h[c + i]
      BY <2>1, SubSeqProperties DEF Histories
    <2> HIDE DEF u, v
    <2>5. u \o v \in Histories /\ Joined(u \o v, u, v)
      BY <2>3, <2>4, Joins
    <2>6. Cut(u \o v, h, c)
      <3> DEFINE g == u \o v
      <3>0. Joined(g, u, v)
        BY <2>5
      <3> HIDE DEF g
      <3>1. DOMAIN g = 1..Len(h) - c + 1
        BY <2>1, <2>3, <2>4, <3>0 DEF Joined
      <3>2. g[1] = User
        BY <2>3, <3>0 DEF Joined
      <3>3. ASSUME NEW k \in 2..Len(h) - c + 1 PROVE g[k] = h[k - 1 + c]
        <4>1. g[k] = v[k - 1] /\ k - 1 \in 1..Len(h) - c
          BY <2>1, <2>3, <2>4, <3>0 DEF Joined
        <4>2. v[k - 1] = h[c + (k - 1)] /\ c + (k - 1) = k - 1 + c
          BY <2>1, <2>4, <4>1
        <4> QED
          BY <4>1, <4>2
      <3>4. Cut(g, h, c)
        BY <3>1, <3>2, <3>3 DEF Cut
      <3> QED
        BY <3>4 DEF g
    <2>7. Compressed(h) = u \o v
      BY <1>2 DEF Compressed, c, u, v
    <2> QED
      BY <2>5, <2>6, <2>7 DEF c
  <1> QED
    BY <1>1, <1>2

LEMMA SoundCut ==
  ASSUME NEW g, NEW h \in Histories, NEW c \in 0..Len(h), Cut(g, h, c)
  PROVE  /\ Once(h) => Once(g)
         /\ SingleUse(h) => SingleUse(g)
  <1>0. Len(h) \in Nat /\ DOMAIN h = 1..Len(h) /\ DOMAIN g \subseteq Nat
        /\ DOMAIN g = 1..Len(h) - c + 1
    BY Lengths DEF Cut
  <1>1. \A k \in DOMAIN g : \/ k = 1 /\ ~Tool(g, k) /\ g[k].calls = {}
                            \/ k > 1 /\ k - 1 + c \in DOMAIN h /\ g[k] = h[k - 1 + c]
    BY <1>0 DEF Cut, User, Said, Tool
  <1> USE DEF Tool
  <1>2. ASSUME Once(h) PROVE Once(g)
    <2> SUFFICES ASSUME NEW k \in DOMAIN g, NEW l \in DOMAIN g, Tool(g, k), Tool(g, l),
                        g[k].answers = g[l].answers, k < l
                 PROVE  \E i \in DOMAIN g : k < i /\ i < l /\ g[l].answers \in g[i].calls
      BY DEF Once
    <2>1. /\ k > 1 /\ k - 1 + c \in DOMAIN h /\ g[k] = h[k - 1 + c]
          /\ l > 1 /\ l - 1 + c \in DOMAIN h /\ g[l] = h[l - 1 + c]
      BY <1>1
    <2>2. k - 1 + c < l - 1 + c
      BY <1>0
    <2>3. PICK d \in DOMAIN h : /\ k - 1 + c < d /\ d < l - 1 + c
                               /\ h[l - 1 + c].answers \in h[d].calls
      BY <1>2, <2>1, <2>2 DEF Once
    <2> DEFINE i == d - c + 1
    <2>4. i \in Nat /\ k < i /\ i < l /\ i - 1 + c = d
      BY <1>0, <2>1, <2>3
    <2>5. i \in DOMAIN g /\ i # 1
      BY <1>0, <2>1, <2>4
    <2>6. g[i] = h[d]
      BY <1>1, <2>4, <2>5
    <2> QED
      BY <2>1, <2>3, <2>4, <2>5, <2>6
  <1>3. ASSUME SingleUse(h) PROVE SingleUse(g)
    <2>1. ASSUME NEW i \in DOMAIN g, NEW k \in DOMAIN g,
                 Tool(g, k), g[k].answers \in g[i].calls
          PROVE  i < k
      <3>1. /\ i - 1 + c \in DOMAIN h /\ g[i] = h[i - 1 + c]
            /\ k - 1 + c \in DOMAIN h /\ g[k] = h[k - 1 + c]
        BY <1>1, <2>1
      <3>2. i - 1 + c < k - 1 + c
        BY <1>3, <2>1, <3>1 DEF SingleUse, After
      <3> QED
        BY <1>0, <3>2
    <2>2. DeclaredOnce(g)
      BY <1>0, <1>1, <1>3 DEF SingleUse, DeclaredOnce
    <2> QED
      BY <2>1, <2>2 DEF SingleUse, After
  <1> QED
    BY <1>2, <1>3


\* Some message makes all calls of S; the last that is no result does.
Announced(h, S) == \E i \in DOMAIN h : S \subseteq h[i].calls
Open(h, S)      == \E i \in DOMAIN h : /\ S \subseteq h[i].calls
                                       /\ \A j \in DOMAIN h : j > i => Tool(h, j)

\* The runs are of results.
LEMMA NotInRun ==
  ASSUME NEW h \in Histories, NEW i \in DOMAIN h, h[i].role # "tool", NEW j \in DOMAIN h
  PROVE  i \notin Run(h, j)
  <1>1. i <= i
    BY Lengths
  <1> QED
    BY <1>1 DEF Run

\* Only an assistant calls.
LEMMA Caller ==
  ASSUME NEW x \in Message, x.calls # {}
  PROVE  x.role = "assistant"
  BY ZenonT(20) DEF Message

LEMMA AdjacentDeclared ==
  ASSUME NEW h \in Histories, Adjacent(h)
  PROVE  Declared(h)
  BY DEF Adjacent, Declared, Run

LEMMA OpenAnnounced ==
  ASSUME NEW h, NEW S, Open(h, S)
  PROVE  Announced(h, S)
  BY DEF Open, Announced

LEMMA FewerCalls ==
  ASSUME NEW h, NEW S, NEW T, T \subseteq S
  PROVE  (Announced(h, S) => Announced(h, T)) /\ (Open(h, S) => Open(h, T))
  BY DEF Announced, Open

\* The runs of h are in the runs of g.
LEMMA RunJoined ==
  ASSUME NEW g, NEW h \in Histories, NEW m \in Histories, Joined(g, h, m),
         NEW i \in DOMAIN h, NEW k \in Run(h, i)
  PROVE  k \in Run(g, i) /\ g[k] = h[k]
  <1>0. /\ DOMAIN h \subseteq DOMAIN g /\ (\A j \in DOMAIN h : g[j] = h[j])
        /\ \A j \in DOMAIN g : j \in DOMAIN h \/ j - Len(h) \in DOMAIN m
        /\ \A j \in DOMAIN g : j - Len(h) \in DOMAIN m => \A b \in DOMAIN h : b < j
        /\ DOMAIN g \subseteq Nat
    BY JoinedPlaces
  <1>1. k \in DOMAIN h /\ k > i
    BY DEF Run
  <1>2. ASSUME NEW j \in DOMAIN g, i < j /\ j <= k PROVE g[j].role = "tool"
    <2>1. j \in DOMAIN h
      BY <1>0, <1>1, <1>2
    <2> QED
      BY <1>0, <1>2, <2>1 DEF Run
  <1> QED
    BY <1>0, <1>1, <1>2 DEF Run

\* What follows answers calls of the history.
Answering(h, m) ==
    \A i \in DOMAIN m : Tool(m, i) => \E j \in DOMAIN h : m[i].answers \in h[j].calls

LEMMA DeclaredJoined ==
  ASSUME NEW g, NEW h \in Histories, NEW m \in Histories, Joined(g, h, m),
         Declared(h), Answering(h, m)
  PROVE  Declared(g)
  <1>0. /\ DOMAIN h \subseteq DOMAIN g /\ (\A j \in DOMAIN h : g[j] = h[j])
        /\ \A j \in DOMAIN g : j \in DOMAIN h \/ j - Len(h) \in DOMAIN m
        /\ \A j \in DOMAIN g : j - Len(h) \in DOMAIN m
              => g[j] = m[j - Len(h)] /\ \A b \in DOMAIN h : b < j
    BY JoinedPlaces
  <1> SUFFICES ASSUME NEW k \in DOMAIN g, Tool(g, k)
               PROVE  \E i \in DOMAIN g : i < k /\ g[k].answers \in g[i].calls
    BY DEF Declared
  <1>1. \E i \in DOMAIN h : i < k /\ g[k].answers \in h[i].calls
    BY <1>0 DEF Tool, Declared, Answering
  <1> QED
    BY <1>0, <1>1

LEMMA PlainAnswers ==
  ASSUME NEW h, NEW m, Plain(m)
  PROVE  Answering(h, m)
  BY DEF Plain, Answering, Tool

LEMMA AnnouncedJoined ==
  ASSUME NEW g, NEW h \in Histories, NEW m \in Histories, Joined(g, h, m),
         NEW S, Announced(h, S)
  PROVE  Announced(g, S)
  <1>0. DOMAIN h \subseteq DOMAIN g /\ (\A j \in DOMAIN h : g[j] = h[j])
    BY JoinedPlaces
  <1> QED
    BY <1>0 DEF Announced

\* After results with their calls come messages of which the last may call Q.
LEMMA PairedJoined ==
  ASSUME NEW g, NEW h \in Histories, NEW m \in Histories, Joined(g, h, m),
         NEW Q, Paired(h, {}),
         \A i \in DOMAIN m : /\ ~Tool(m, i) /\ m[i].calls \subseteq Q
                             /\ m[i].calls # {} => \A j \in DOMAIN m : j <= i
  PROVE  Paired(g, Q)
  <1>0. /\ DOMAIN h \subseteq DOMAIN g /\ (\A j \in DOMAIN h : g[j] = h[j])
        /\ DOMAIN g \subseteq Nat
        /\ \A j \in DOMAIN g : j \in DOMAIN h \/ j - Len(h) \in DOMAIN m
        /\ \A j \in DOMAIN g : j - Len(h) \in DOMAIN m
              => g[j] = m[j - Len(h)] /\ \A b \in DOMAIN h : b < j
    BY JoinedPlaces
  <1>1. ASSUME NEW k \in DOMAIN g, Tool(g, k)
        PROVE  \E i \in DOMAIN g : k \in Run(g, i) /\ g[k].answers \in g[i].calls
    <2>0. CASE k - Len(h) \in DOMAIN m
      <3>1. g[k] = m[k - Len(h)] /\ ~Tool(m, k - Len(h))
        BY <1>0, <2>0
      <3> QED
        BY <1>1, <3>1 DEF Tool
    <2>1. k \in DOMAIN h /\ Tool(h, k)
      BY <1>0, <1>1, <2>0 DEF Tool
    <2>2. PICK i \in DOMAIN h : k \in Run(h, i) /\ h[k].answers \in h[i].calls
      BY <2>1 DEF Paired, Adjacent
    <2>3. k \in Run(g, i)
      BY <2>2, RunJoined
    <2> QED
      BY <1>0, <2>1, <2>2, <2>3
  <1>2. ASSUME NEW i \in DOMAIN g, NEW c \in g[i].calls
        PROVE  \/ c \in Q /\ \A j \in DOMAIN g : j > i => Tool(g, j)
               \/ \E k \in Run(g, i) : g[k].answers = c
    <2>1. CASE i \in DOMAIN h
      <3>1. \E k \in Run(h, i) : h[k].answers = c
        BY <1>0, <2>1 DEF Paired, Served
      <3> QED
        BY <2>1, <3>1, RunJoined
    <2>2. CASE i - Len(h) \in DOMAIN m
      <3>1. c \in m[i - Len(h)].calls
        BY <1>0, <2>2
      <3>0. m[i - Len(h)].calls # {} /\ m[i - Len(h)].calls \subseteq Q
        BY <3>1, <2>2
      <3>2. c \in Q /\ \A j \in DOMAIN m : j <= i - Len(h)
        BY <2>2, <3>0, <3>1
      <3>3. ASSUME NEW j \in DOMAIN g, j > i PROVE FALSE
        <4>1. CASE j \in DOMAIN h
          <5>1. j < i
            BY <1>0, <2>2, <4>1
          <5> QED
            BY <1>0, <3>3, <5>1
        <4>2. CASE j - Len(h) \in DOMAIN m
          <5>1. j - Len(h) <= i - Len(h) /\ j \in Nat /\ i \in Nat /\ Len(h) \in Nat
            BY <1>0, <3>2, <4>2, Lengths
          <5> QED
            BY <3>3, <5>1
        <4> QED
          BY <1>0, <4>1, <4>2
      <3> QED
        BY <3>2, <3>3
    <2> QED
      BY <1>0, <2>1, <2>2
  <1> QED
    BY <1>1, <1>2 DEF Paired, Adjacent, Served

\* A result of the last message's calls joins its run.
LEMMA PairedResult ==
  ASSUME NEW g, NEW h \in Histories, NEW c \in Calls, <<Result(c)>> \in Histories,
         Joined(g, h, <<Result(c)>>),
         NEW P, NEW Q, P \subseteq Q \cup {c}, Paired(h, P),
         NEW S, Open(h, S), c \in S
  PROVE  Paired(g, Q) /\ Open(g, S)
  <1> DEFINE m == <<Result(c)>>
             e == 1 + Len(h)
  <1>1. DOMAIN m = {1} /\ m[1].role = "tool" /\ m[1].answers = c /\ m[1].calls = {}
    BY DEF Result
  <1>2. m \in Histories /\ Joined(g, h, m)
    OBVIOUS
  <1> HIDE DEF m
  <1>0. /\ DOMAIN h \subseteq DOMAIN g /\ (\A j \in DOMAIN h : g[j] = h[j])
        /\ DOMAIN g \subseteq Nat
        /\ (\A j \in DOMAIN g : j \in DOMAIN h \/ j = e)
        /\ e \in DOMAIN g /\ g[e] = m[1] /\ \A j \in DOMAIN h : j < e
    <2>1. \A j \in DOMAIN g : j \in DOMAIN h \/ j = e
      <3>1. \A j \in Nat : j - Len(h) = 1 => j = e
        BY Lengths
      <3>2. DOMAIN g \subseteq Nat /\ \A j \in DOMAIN g : j \in DOMAIN h \/ j - Len(h) \in DOMAIN m
        BY <1>2, JoinedPlaces
      <3> QED
        BY <1>1, <3>1, <3>2
    <2>2. e \in DOMAIN g /\ g[e] = m[1]
      BY <1>1, <1>2, JoinedPlaces
    <2>3. \A j \in DOMAIN h : j < e
      BY Lengths
    <2> QED
      BY <1>2, <2>1, <2>2, <2>3, JoinedPlaces
  <1> HIDE DEF e
  <1>3. PICK a \in DOMAIN h : /\ S \subseteq h[a].calls
                              /\ \A j \in DOMAIN h : j > a => Tool(h, j)
    BY DEF Open
  <1>4. e \in Run(g, a)
    BY <1>0, <1>1, <1>3 DEF Run, Tool
  <1>5. ASSUME NEW k \in DOMAIN g, Tool(g, k)
        PROVE  \E i \in DOMAIN g : k \in Run(g, i) /\ g[k].answers \in g[i].calls
    <2>1. CASE k \in DOMAIN h
      <3>1. PICK i \in DOMAIN h : k \in Run(h, i) /\ h[k].answers \in h[i].calls
        BY <1>0, <1>5, <2>1 DEF Paired, Adjacent, Tool
      <3>2. k \in Run(g, i)
        BY <1>2, <3>1, RunJoined
      <3> QED
        BY <1>0, <2>1, <3>1, <3>2
    <2>2. CASE k = e
      BY <1>0, <1>1, <1>3, <1>4, <2>2
    <2> QED
      BY <1>0, <2>1, <2>2
  <1>6. ASSUME NEW i \in DOMAIN g, NEW d \in g[i].calls
        PROVE  \/ d \in Q /\ \A j \in DOMAIN g : j > i => Tool(g, j)
               \/ \E k \in Run(g, i) : g[k].answers = d
    <2>1. i \in DOMAIN h /\ d \in h[i].calls
      BY <1>0, <1>1, <1>6
    <2>2. CASE \E k \in Run(h, i) : h[k].answers = d
      BY <1>2, <2>1, <2>2, RunJoined
    <2>3. CASE d \in P /\ \A j \in DOMAIN h : j > i => Tool(h, j)
      <3>1. \A j \in DOMAIN g : j > i => Tool(g, j)
        BY <1>0, <1>1, <2>3 DEF Tool
      <3>2. i = a
        <4>1. ~Tool(h, i) /\ ~Tool(h, a)
          BY <1>3, <2>1, Lengths, Caller DEF Tool
        <4>2. ~(a > i) /\ ~(i > a)
          BY <1>3, <2>1, <2>3, <4>1
        <4> QED
          BY <1>0, <2>1, <4>2
      <3> QED
        BY <1>0, <1>1, <1>4, <2>3, <3>1, <3>2
    <2> QED
      BY <2>1, <2>2, <2>3 DEF Paired, Served
  <1>7. Open(g, S)
    <2>1. a \in DOMAIN g /\ g[a] = h[a]
      BY <1>0, <1>3
    <2>2. \A j \in DOMAIN g : j > a => Tool(g, j)
      BY <1>0, <1>1, <1>3 DEF Tool
    <2> QED
      BY <1>3, <2>1, <2>2 DEF Open
  <1> QED
    BY <1>5, <1>6, <1>7 DEF Paired, Adjacent, Served


\* A message with calls is the last of its history.
LEMMA OpenCalling ==
  ASSUME NEW g, NEW h \in Histories, NEW C \in SUBSET Calls,
         <<Calling(C)>> \in Histories, Joined(g, h, <<Calling(C)>>)
  PROVE  Open(g, C)
  <1> DEFINE m == <<Calling(C)>>
             e == 1 + Len(h)
  <1>1. DOMAIN m = {1} /\ m[1].calls = C
    BY DEF Calling
  <1>2. m \in Histories /\ Joined(g, h, m)
    OBVIOUS
  <1> HIDE DEF m
  <1>3. e \in DOMAIN g /\ g[e] = m[1]
    <2>1. \A k \in DOMAIN m : k + Len(h) \in DOMAIN g /\ g[k + Len(h)] = m[k]
      BY <1>2, JoinedPlaces
    <2> QED
      BY <1>1, <2>1
  <1>4. \A j \in DOMAIN g : ~(j > e)
    <2>1. DOMAIN g = 1..Len(h) + Len(m) /\ Len(m) = 1
      BY <1>2 DEF Joined, m
    <2> QED
      BY <2>1, Lengths
  <1> QED
    BY <1>1, <1>3, <1>4 DEF Open

\* A cut before a message that is no result takes no result from its call.
LEMMA PairedCut ==
  ASSUME NEW g, NEW h \in Histories, NEW c \in Nat, c <= Len(h), Cut(g, h, c),
         c = Len(h) \/ ~Tool(h, c + 1), Paired(h, {})
  PROVE  Paired(g, {})
  <1> DEFINE n == Len(h)
  <1>0. /\ n \in Nat /\ c <= n
        /\ DOMAIN h \subseteq Nat /\ (\A j \in Nat : j \in DOMAIN h <=> 1 <= j /\ j <= n)
        /\ DOMAIN g \subseteq Nat /\ (\A j \in Nat : j \in DOMAIN g <=> 1 <= j /\ j <= n - c + 1)
    <2>1. n \in Nat /\ DOMAIN h = 1..n
      BY Lengths
    <2>2. DOMAIN g = 1..n - c + 1
      BY DEF Cut
    <2>0. n \in Nat
      BY Lengths
    <2>3. n - c + 1 \in Int /\ n \in Int
      BY <2>0
    <2>4. \A b \in Int : 1..b \subseteq Nat /\ \A j \in Nat : j \in 1..b <=> 1 <= j /\ j <= b
      OBVIOUS
    <2> DEFINE e == n - c + 1
    <2> HIDE DEF e, n
    <2>5. DOMAIN h \subseteq Nat /\ \A j \in Nat : j \in DOMAIN h <=> 1 <= j /\ j <= n
      BY <2>1, <2>3, <2>4, Zenon
    <2>6. DOMAIN g \subseteq Nat /\ \A j \in Nat : j \in DOMAIN g <=> 1 <= j /\ j <= e
      BY <2>2, <2>3, <2>4, Zenon DEF e
    <2>7. n \in Nat /\ c <= n
      BY <2>1 DEF n
    <2> QED
      BY <2>5, <2>6, <2>7, Zenon DEF e
  <1>1. /\ ~Tool(g, 1) /\ g[1].calls = {}
        /\ \A k \in DOMAIN g : k # 1 => k - 1 + c \in DOMAIN h /\ g[k] = h[k - 1 + c]
    <2>1. g[1].role = "user" /\ g[1].calls = {}
      BY DEF Cut, User, Said
    <2>2. ASSUME NEW k \in DOMAIN g, k # 1
          PROVE  k - 1 + c \in DOMAIN h /\ g[k] = h[k - 1 + c]
      <3>1. k \in 2..n - c + 1
        BY <1>0, <2>2
      <3>2. k - 1 + c \in DOMAIN h
        BY <1>0, <3>1
      <3> QED
        BY <3>1, <3>2 DEF Cut
    <2> QED
      BY <2>1, <2>2 DEF Tool
  <1>9. c = n \/ ~Tool(h, c + 1)
    OBVIOUS
  <1> HIDE DEF n
  <1>2. ASSUME NEW i \in DOMAIN g, NEW k \in DOMAIN g, i # 1, k # 1,
               k - 1 + c \in Run(h, i - 1 + c)
        PROVE  k \in Run(g, i)
    <2>1. k > i
      BY <1>0, <1>2 DEF Run
    <2>2. ASSUME NEW j \in DOMAIN g, i < j /\ j <= k PROVE g[j].role = "tool"
      <3>0. i \in Nat /\ j \in Nat /\ k \in Nat /\ 1 <= i
        BY <1>0
      <3>1. j # 1 /\ i - 1 + c < j - 1 + c /\ j - 1 + c <= k - 1 + c
        BY <2>2, <3>0
      <3> QED
        BY <1>1, <1>2, <3>1 DEF Run
    <2> QED
      BY <2>1, <2>2 DEF Run
  <1>3. ASSUME NEW k \in DOMAIN g, Tool(g, k)
        PROVE  \E i \in DOMAIN g : k \in Run(g, i) /\ g[k].answers \in g[i].calls
    <2>1. k # 1 /\ k - 1 + c \in DOMAIN h /\ g[k] = h[k - 1 + c] /\ Tool(h, k - 1 + c)
      BY <1>1, <1>3 DEF Tool
    <2>2. PICK a \in DOMAIN h : k - 1 + c \in Run(h, a) /\ h[k - 1 + c].answers \in h[a].calls
      BY <2>1 DEF Paired, Adjacent
    <2>3. a > c
      <3>1. SUFFICES ASSUME a <= c PROVE FALSE
        BY <1>0
      <3>2. c + 1 \in DOMAIN h /\ a < c + 1 /\ c + 1 <= k - 1 + c
        <4>1. k \in Nat /\ 1 <= k /\ k # 1 /\ k - 1 + c \in Nat /\ k - 1 + c <= n
          BY <1>0, <2>1
        <4>2. c + 1 <= k - 1 + c /\ c + 1 \in Nat /\ 1 <= c + 1
          BY <4>1
        <4>3. c + 1 <= n
          BY <1>0, <4>1, <4>2
        <4>4. a \in Nat /\ a < c + 1
          BY <1>0, <3>1
        <4> QED
          BY <1>0, <4>2, <4>3, <4>4
      <3>3. Tool(h, c + 1)
        BY <2>2, <3>2 DEF Run, Tool
      <3>4. c # n
        BY <1>0, <3>2
      <3> QED
        BY <1>9, <3>3, <3>4
    <2> DEFINE i == a - c + 1
    <2>4. i \in DOMAIN g /\ i # 1 /\ i - 1 + c = a
      BY <1>0, <2>3
    <2>5. k \in Run(g, i)
      BY <1>2, <2>1, <2>2, <2>4
    <2>6. g[i] = h[a]
      BY <1>1, <2>4
    <2> QED
      BY <2>1, <2>2, <2>4, <2>5, <2>6
  <1>4. ASSUME NEW i \in DOMAIN g, NEW d \in g[i].calls
        PROVE  \E k \in Run(g, i) : g[k].answers = d
    <2>1. i # 1 /\ i - 1 + c \in DOMAIN h /\ g[i] = h[i - 1 + c]
      BY <1>1, <1>4
    <2>3. \E k \in Run(g, i) : g[k].answers = d
      <3>1. PICK b \in Run(h, i - 1 + c) : h[b].answers = d
        BY <1>4, <2>1 DEF Paired, Served
      <3>2. b \in DOMAIN h /\ b > i - 1 + c
        BY <3>1 DEF Run
      <3> DEFINE k == b - c + 1
      <3>3. k \in DOMAIN g /\ k # 1 /\ k - 1 + c = b
        <4>1. i \in Nat /\ 1 <= i /\ b \in Nat /\ b <= n
          BY <1>0, <3>2
        <4>2. k \in Nat /\ 1 < k /\ k - 1 + c = b /\ k <= n - c + 1
          <5>1. i - 1 + c < b /\ n \in Nat
            BY <1>0, <3>2
          <5> HIDE DEF n
          <5> QED
            BY <4>1, <5>1
        <4>3. \A j \in Nat : j \in DOMAIN g <=> 1 <= j /\ j <= n - c + 1
          BY <1>0
        <4> HIDE DEF k, n
        <4>4. k \in DOMAIN g
          BY <4>2, <4>3
        <4> QED
          BY <4>2, <4>4
      <3>4. k \in Run(g, i)
        BY <1>2, <2>1, <3>1, <3>3
      <3>5. g[k] = h[b]
        BY <1>1, <3>3
      <3> QED
        BY <3>1, <3>4, <3>5
    <2> QED
      BY <2>3
  <1> QED
    BY <1>3, <1>4 DEF Paired, Adjacent, Served

\* The calls padOrphanToolResults answers have no result, and a message makes
\* them; there is none when every call is answered in its run.
LEMMA UnansweredFacts ==
  ASSUME NEW h \in Histories, NEW c \in Unanswered(h)
  PROVE  \E i \in DOMAIN h : /\ c \in h[i].calls
                             /\ \A k \in DOMAIN h : k > i => h[k].answers # c
  <1> DEFINE callers == {i \in DOMAIN h : Declares(h, i)}
             last    == CHOOSE i \in callers : \A j \in callers : j <= i
  <1>0. Len(h) \in Nat /\ DOMAIN h = 1..Len(h)
    BY Lengths
  <1>1. callers # {}
    BY DEF Unanswered
  <1>2. callers \in SUBSET (1..Len(h))
    BY <1>0
  <1>3. last \in callers
    BY <1>0, <1>1, <1>2, GreatestOf
  <1>4. c \in h[last].calls \ {h[k].answers : k \in last + 1 .. Len(h)}
    BY <1>1 DEF Unanswered
  <1> HIDE DEF last
  <1>5. \A k \in DOMAIN h : k > last => k \in last + 1 .. Len(h)
    BY <1>0, <1>3
  <1> QED
    BY <1>3, <1>4, <1>5

LEMMA UnansweredNew ==
  ASSUME NEW h \in Histories
  PROVE  NoResult(h, Unanswered(h))
  <1> SUFFICES ASSUME NEW k \in DOMAIN h, Tool(h, k), h[k].answers \in Unanswered(h)
               PROVE  \E i \in DOMAIN h : k < i /\ h[k].answers \in h[i].calls
    BY DEF NoResult
  <1>1. PICK i \in DOMAIN h : /\ h[k].answers \in h[i].calls
                              /\ \A j \in DOMAIN h : j > i => h[j].answers # h[k].answers
    BY UnansweredFacts
  <1>2. i # k
    BY <1>1, Lengths, Caller DEF Tool
  <1>3. DOMAIN h \subseteq Nat
    BY Lengths
  <1> QED
    BY <1>1, <1>2, <1>3

LEMMA NoneUnanswered ==
  ASSUME NEW h \in Histories, Served(h, {})
  PROVE  Unanswered(h) = {}
  <1> SUFFICES ASSUME NEW c \in Unanswered(h) PROVE FALSE
    OBVIOUS
  <1>1. PICK i \in DOMAIN h : /\ c \in h[i].calls
                              /\ \A k \in DOMAIN h : k > i => h[k].answers # c
    BY UnansweredFacts
  <1>2. PICK k \in Run(h, i) : h[k].answers = c
    BY <1>1 DEF Served
  <1> QED
    BY <1>1, <1>2 DEF Run

\* Of two results of a call in a run one would be after a call that is sent.
LEMMA OnceFits ==
  ASSUME NEW h \in Histories, Once(h), NEW K \in SUBSET DOMAIN h,
         \A k \in K : h[k].role = "tool"
            => \A d \in DOMAIN h : h[k].answers \in h[d].calls => d \in K
  PROVE  AnsweredOnce(h, K)
  <1>0. DOMAIN h \subseteq Nat
    BY Lengths
  <1>1. ASSUME NEW i \in K, NEW k \in WireRun(h, K, i), NEW l \in WireRun(h, K, i),
               h[k].answers = h[l].answers, k < l
        PROVE  FALSE
    <2>1. /\ k \in K /\ l \in K /\ k > i /\ l > i /\ k <= k /\ l <= l
      BY <1>0 DEF WireRun
    <2>2. Tool(h, k) /\ Tool(h, l)
      BY <2>1 DEF WireRun, Tool
    <2>3. PICK d \in DOMAIN h : k < d /\ d < l /\ h[l].answers \in h[d].calls
      BY <1>1, <2>1, <2>2 DEF Once
    <2>4. d \in K
      BY <2>1, <2>2, <2>3 DEF Tool
    <2>5. i < d /\ d <= l
      BY <1>0, <2>1, <2>3
    <2>6. h[d].role = "tool"
      BY <2>4, <2>5 DEF WireRun
    <2>7. h[d].role = "assistant"
      BY <2>3, Lengths, Caller
    <2> QED
      BY <2>6, <2>7
  <1> SUFFICES ASSUME NEW i \in K, NEW k \in WireRun(h, K, i), NEW l \in WireRun(h, K, i),
                      h[k].answers = h[l].answers
               PROVE  k = l
    BY DEF AnsweredOnce
  <1>2. ~(k < l) /\ ~(l < k)
    BY <1>1
  <1>3. k \in Nat /\ l \in Nat
    BY <1>0 DEF WireRun
  <1> QED
    BY <1>2, <1>3

\* Requests for OpenAI: results with their calls stay with them.
LEMMA OpenAIFits ==
  ASSUME NEW h \in Histories, Once(h), Adjacent(h)
  PROVE  WellFormed(h, KeptByOpenAI(h))
  <1> DEFINE K == KeptByOpenAI(h)
  <1>1. CallsAnswered(h, K)
    BY CallsAnsweredTheorem
  <1>2. AnsweredOnce(h, K)
    <2>1. ASSUME NEW d \in DOMAIN h, NEW c, c \in h[d].calls PROVE d \in K
      <3>1. h[d].role # "tool"
        BY <2>1, Lengths, Caller
      <3>2. \A j \in DOMAIN h : d \notin Run(h, j)
        BY <3>1, NotInRun
      <3> QED
        BY <2>1, <3>2 DEF KeptByOpenAI, OrphanTool
    <2>2. K \subseteq DOMAIN h
      BY DEF KeptByOpenAI
    <2> HIDE DEF K
    <2> QED
      BY <2>1, <2>2, OnceFits
  <1>3. ASSUME NEW k \in K, h[k].role = "tool"
        PROVE  \E i \in K : k \in WireRun(h, K, i) /\ h[k].answers \in Left(h, i)
    <2>1. k \in DOMAIN h /\ ~OrphanTool(h, k)
      BY DEF KeptByOpenAI
    <2>2. PICK i \in DOMAIN h : k \in Run(h, i) /\ h[k].answers \in h[i].calls
      BY <1>3, <2>1 DEF Adjacent, Tool
    <2>3. ~Orphan(h, i)
      BY <2>1, <2>2 DEF OrphanTool
    <2>4. h[i].role # "tool"
      BY <2>2, Lengths, Caller
    <2>5. i \in K
      <3>1. \A j \in DOMAIN h : i \notin Run(h, j)
        BY <2>4, NotInRun
      <3> QED
        BY <2>2, <3>1 DEF KeptByOpenAI, OrphanTool
    <2>6. k \in WireRun(h, K, i)
      BY <2>2 DEF WireRun, Run, KeptByOpenAI
    <2>7. h[k].answers \in Left(h, i)
      BY <2>2, <2>3 DEF Left
    <2> QED
      BY <2>5, <2>6, <2>7
  <1> QED
    BY <1>1, <1>2, <1>3 DEF WellFormed, ResultsCalled


\* Requests for Anthropic: a result whose call is left in is in its run.
LEMMA AnthropicFits ==
  ASSUME NEW h \in Histories, Once(h), SingleUse(h), Declared(h)
  PROVE  WellFormed(h, KeptByAnthropic(h))
  <1> DEFINE K == KeptByAnthropic(h)
  <1>0. K \subseteq DOMAIN h
    BY DEF KeptByAnthropic
  <1>1. ASSUME NEW i \in DOMAIN h, ~Orphan(h, i), NEW c \in h[i].calls
        PROVE  \E k \in WireRun(h, K, i) : h[k].answers = c /\ k \in Run(h, i)
    <2>1. h[i].role = "assistant"
      BY <1>1, Lengths, Caller
    <2>2. PICK k \in Run(h, i) : h[k].answers = c
      BY <1>1, <2>1 DEF Orphan, Declares
    <2>3. k \in DOMAIN h /\ h[k].role = "tool"
      <3>1. k \in DOMAIN h /\ k > i /\ k <= k
        BY Lengths DEF Run
      <3> QED
        BY <3>1 DEF Run
    <2>4. ASSUME NEW j \in DOMAIN h, Orphan(h, j) PROVE c \notin h[j].calls
      BY <1>1, <2>4 DEF SingleUse, DeclaredOnce
    <2>5. ~OrphanTool(h, k) /\ ~Swept(h, k)
      BY <2>2, <2>4 DEF OrphanTool, Swept
    <2>6. ~Orphan(h, k)
      BY <2>3 DEF Orphan, Declares
    <2>7. k \in K
      BY <2>3, <2>5, <2>6 DEF KeptByAnthropic
    <2>8. k \in WireRun(h, K, i)
      BY <1>0, <2>7 DEF WireRun, Run
    <2> QED
      BY <2>2, <2>8
  <1>2. CallsAnswered(h, K)
    <2> SUFFICES ASSUME NEW i \in K, NEW c \in Left(h, i)
                 PROVE  \E k \in WireRun(h, K, i) : h[k].answers = c
      BY DEF CallsAnswered
    <2>1. ~Orphan(h, i) /\ c \in h[i].calls
      BY DEF Left
    <2> QED
      BY <1>0, <1>1, <2>1
  <1>3. ASSUME NEW k \in K, h[k].role = "tool"
        PROVE  \E i \in K : k \in WireRun(h, K, i) /\ h[k].answers \in Left(h, i)
    <2>1. k \in DOMAIN h /\ ~Swept(h, k)
      BY DEF KeptByAnthropic
    <2>2. PICK i \in DOMAIN h : h[k].answers \in h[i].calls
      BY <1>3, <2>1 DEF Declared, Tool
    <2>3. ~Orphan(h, i)
      BY <1>3, <2>1, <2>2 DEF Swept
    <2>4. h[i].role = "assistant"
      BY <2>2, Lengths, Caller
    <2>5. i \in K
      <3>1. \A j \in DOMAIN h : i \notin Run(h, j)
        BY <2>4, NotInRun
      <3> QED
        BY <2>3, <2>4, <3>1 DEF KeptByAnthropic, OrphanTool, Swept
    <2>6. PICK j \in WireRun(h, K, i) : h[j].answers = h[k].answers /\ j \in Run(h, i)
      BY <1>1, <2>2, <2>3
    <2>7. j \in DOMAIN h /\ h[j].role = "tool"
      <3>1. j \in DOMAIN h /\ j > i /\ j <= j
        BY <2>6, Lengths DEF Run
      <3> QED
        BY <2>6, <3>1 DEF Run
    <2>8. j = k
      <3>0. DOMAIN h \subseteq Nat
        BY Lengths
      <3>1. i < j /\ i < k
        BY <1>3, <2>1, <2>2, <2>6, <2>7 DEF SingleUse, After, Tool
      <3>2. \A d \in DOMAIN h : h[k].answers \in h[d].calls => d = i
        BY <2>2 DEF SingleUse, DeclaredOnce
      <3>3. ASSUME j < k PROVE FALSE
        <4>1. \E d \in DOMAIN h : j < d /\ d < k /\ h[k].answers \in h[d].calls
          BY <1>3, <2>1, <2>6, <2>7, <3>3 DEF Once, Tool
        <4> QED
          BY <3>0, <3>1, <3>2, <4>1, <2>7
      <3>4. ASSUME k < j PROVE FALSE
        <4>1. \E d \in DOMAIN h : k < d /\ d < j /\ h[j].answers \in h[d].calls
          BY <1>3, <2>1, <2>6, <2>7, <3>4 DEF Once, Tool
        <4> QED
          BY <2>1, <2>6, <3>0, <3>1, <3>2, <4>1
      <3> QED
        BY <2>1, <2>7, <3>0, <3>3, <3>4
    <2>9. h[k].answers \in Left(h, i)
      BY <2>2, <2>3 DEF Left
    <2> QED
      BY <2>5, <2>6, <2>8, <2>9
  <1>4. AnsweredOnce(h, K)
    <2>1. ASSUME NEW k \in K, h[k].role = "tool", NEW d \in DOMAIN h,
                 h[k].answers \in h[d].calls
          PROVE  d \in K
      <3>1. k \in DOMAIN h /\ ~Swept(h, k)
        BY DEF KeptByAnthropic
      <3>2. ~Orphan(h, d)
        BY <2>1, <3>1 DEF Swept
      <3>3. h[d].role = "assistant"
        BY <2>1, Lengths, Caller
      <3>4. \A j \in DOMAIN h : d \notin Run(h, j)
        BY <3>3, NotInRun
      <3> QED
        BY <3>2, <3>3, <3>4 DEF KeptByAnthropic, OrphanTool, Swept
    <2> HIDE DEF K
    <2> QED
      BY <1>0, <2>1, OnceFits
  <1> QED
    BY <1>2, <1>3, <1>4 DEF WellFormed, ResultsCalled

\* ... and where every call is answered in its run, nothing is stripped.
LEMMA AnthropicPaired ==
  ASSUME NEW h \in Histories, Once(h), Paired(h, {})
  PROVE  WellFormed(h, KeptByAnthropic(h))
  <1> DEFINE K == KeptByAnthropic(h)
  <1>1. \A i \in DOMAIN h : ~Orphan(h, i)
    BY DEF Paired, Served, Orphan
  <1>2. K = {k \in DOMAIN h : h[k].role # "system"}
    BY <1>1 DEF KeptByAnthropic, OrphanTool, Swept
  <1> HIDE DEF K
  <1>3. ASSUME NEW i \in DOMAIN h, NEW k \in Run(h, i) PROVE k \in WireRun(h, K, i)
    <2>1. k \in DOMAIN h /\ k > i /\ k <= k
      BY Lengths DEF Run
    <2>2. h[k].role = "tool"
      BY <2>1 DEF Run
    <2> QED
      BY <1>2, <2>1, <2>2 DEF WireRun, Run
  <1>4. \A i \in DOMAIN h : h[i].calls # {} => i \in K
    BY <1>2, Lengths, Caller
  <1>5. \A i \in DOMAIN h : Left(h, i) = h[i].calls
    BY <1>1 DEF Left
  <1>6. CallsAnswered(h, K)
    <2> SUFFICES ASSUME NEW i \in K, NEW c \in Left(h, i)
                 PROVE  \E k \in WireRun(h, K, i) : h[k].answers = c
      BY DEF CallsAnswered
    <2>1. i \in DOMAIN h
      BY <1>2
    <2>2. \E k \in Run(h, i) : h[k].answers = c
      BY <1>5, <2>1 DEF Paired, Served
    <2> QED
      BY <1>3, <2>1, <2>2
  <1>7. ResultsCalled(h, K)
    <2> SUFFICES ASSUME NEW k \in K, h[k].role = "tool"
                 PROVE  \E i \in K : k \in WireRun(h, K, i) /\ h[k].answers \in Left(h, i)
      BY DEF ResultsCalled
    <2>1. PICK i \in DOMAIN h : k \in Run(h, i) /\ h[k].answers \in h[i].calls
      BY <1>2 DEF Paired, Adjacent, Tool
    <2> QED
      BY <1>3, <1>4, <1>5, <2>1
  <1>8. AnsweredOnce(h, K)
    <2>1. K \subseteq DOMAIN h
      BY <1>2
    <2> QED
      BY <1>4, <2>1, OnceFits
  <1> QED
    BY <1>6, <1>7, <1>8 DEF WellFormed, K

-----------------------------------------------------------------------------
(* Steers.                                                                 *)

Waiting == {"idle", "query", "got"}

\* The turns marked on object o by BeginTurn and not yet ended.
InTurn(o) == {t \in Turners : obj[t] = o /\ reply[t] = "whole" /\ at[t] \notin Waiting}

PlaceType ==
    /\ at \in [Threads -> Places]
    /\ obj \in [Threads -> Objects \cup {0}]
    /\ reply \in [Threads -> {"whole", "streamed", "unsaid"}]
ObjectType ==
    /\ current \in Objects \cup {0}
    /\ made \in 0..MaxObjects
    /\ depth \in [Objects -> Nat]
    /\ steerBuf \in [Objects -> Histories]

\* A thread past its Get has an object, and only turns go further.
Held == \A t \in Threads : at[t] \notin {"idle", "query"} => obj[t] \in Objects
SidesWait == \A t \in Threads : at[t] \notin Waiting => t \in Turners

\* turnDepth counts the turns, and a buffer is filled only while there are some.
Counted  == \A o \in Objects : depth[o] = Cardinality(InTurn(o))
Buffered == \A o \in Objects : steerBuf[o] # <<>> => depth[o] > 0

SteerInv == PlaceType /\ ObjectType /\ Held /\ SidesWait /\ Counted /\ Buffered

LEMMA FiniteTurners ==
  ASSUME NEW o
  PROVE  IsFiniteSet(InTurn(o))
  <1>1. InTurn(o) \subseteq Threads
    BY TurnAssumption DEF InTurn
  <1> QED
    BY <1>1, TurnAssumption, FS_Subset

\* A steer in a buffer has its turn.
LEMMA SteerHasTurn ==
  ASSUME SteerInv
  PROVE  NoSteerStranded
  <1> SUFFICES ASSUME NEW o \in Objects, steerBuf[o] # <<>>
               PROVE  InTurn(o) # {}
    BY DEF NoSteerStranded, InTurn, Waiting
  <1>1. Cardinality(InTurn(o)) > 0
    BY DEF SteerInv, Counted, Buffered
  <1> QED
    BY <1>1, FiniteTurners, FS_EmptySet

LEMMA SteerInit ==
  ASSUME TurnInit
  PROVE  SteerInv
  <1>1. PlaceType /\ ObjectType
    BY SessionAssumption
       DEF TurnInit, SessionInit, PlaceType, ObjectType, Places, Objects, Histories
  <1>2. Held /\ SidesWait
    BY DEF TurnInit, Held, SidesWait, Waiting
  <1>3. \A o \in Objects : InTurn(o) = {}
    BY TurnAssumption DEF TurnInit, InTurn, Waiting
  <1>4. Counted /\ Buffered
    BY <1>3, FS_EmptySet DEF TurnInit, SessionInit, Counted, Buffered
  <1> QED
    BY <1>1, <1>2, <1>4 DEF SteerInv

\* Buffers that stay or are emptied, under depths that stay, keep the invariant
\* when the marked turns stay.
LEMMA SteersStay ==
  ASSUME SteerInv, PlaceType', Held', SidesWait',
         current' \in Objects \cup {0}, made' \in 0..MaxObjects, depth' = depth,
         \A o \in Objects : InTurn(o)' = InTurn(o),
         \/ steerBuf' = steerBuf
         \/ \E o \in Objects : steerBuf' = [steerBuf EXCEPT ![o] = <<>>]
  PROVE  SteerInv'
  <1>0. <<>> \in Histories
    BY DEF Histories
  <1>1. ObjectType'
    BY <1>0 DEF SteerInv, ObjectType
  <1>2. Counted'
    BY DEF SteerInv, Counted
  <1>3. Buffered'
    BY DEF SteerInv, ObjectType, Buffered
  <1> QED
    BY <1>1, <1>2, <1>3 DEF SteerInv

\* A step of a thread inside its turn moves no turn on or off an object.
LEMMA InsideTurn ==
  ASSUME SteerInv, NEW t \in Threads, NEW p \in Places,
         at[t] \notin Waiting, p \notin Waiting, Go(t, p),
         obj' = obj, current' = current, made' = made, depth' = depth,
         \/ reply' = reply
         \/ reply[t] # "whole" /\ \E r \in {"streamed", "unsaid"} :
                                    reply' = [reply EXCEPT ![t] = r],
         steerBuf' = steerBuf \/ steerBuf' = [steerBuf EXCEPT ![obj[t]] = <<>>]
  PROVE  SteerInv'
  <1> USE DEF SteerInv, PlaceType
  <1>1. PlaceType' /\ Held' /\ SidesWait'
    BY DEF Go, Held, SidesWait, Waiting
  <1>2. ASSUME NEW o \in Objects PROVE InTurn(o)' = InTurn(o)
    BY TurnAssumption DEF Go, InTurn
  <1>3. obj[t] \in Objects
    BY DEF Held, Waiting
  <1>4. current' \in Objects \cup {0} /\ made' \in 0..MaxObjects
    BY DEF ObjectType
  <1>5. \/ steerBuf' = steerBuf
        \/ \E o \in Objects : steerBuf' = [steerBuf EXCEPT ![o] = <<>>]
    BY <1>3
  <1> QED
    BY <1>1, <1>2, <1>4, <1>5, SteersStay

\* A step of a thread outside a turn, to a place outside a turn, as well.
LEMMA OutsideTurn ==
  ASSUME SteerInv, NEW t \in Threads, NEW p \in Waiting,
         at[t] \in Waiting, Go(t, p),
         reply' = reply \/ reply' = [reply EXCEPT ![t] = "streamed"],
         \/ p = "idle" /\ obj' = [obj EXCEPT ![t] = 0]
         \/ p = "query" /\ obj' = obj
         \/ p = "got" /\ \E o \in Objects : obj' = [obj EXCEPT ![t] = o]
  PROVE  /\ PlaceType' /\ Held' /\ SidesWait'
         /\ \A o \in Objects : InTurn(o)' = InTurn(o)
  <1> USE DEF SteerInv, PlaceType, Waiting, Go
  <1>1. PlaceType' /\ Held'
    BY DEF Held, Places
  <1>2. SidesWait'
    BY DEF SidesWait
  <1>3. ASSUME NEW o \in Objects PROVE InTurn(o)' = InTurn(o)
    BY TurnAssumption DEF InTurn
  <1> QED
    BY <1>1, <1>2, <1>3

LEMMA SteerArrive ==
  ASSUME SteerInv, NEW t \in Threads, NEW ok \in BOOLEAN, Arrive(t, ok)
  PROVE  SteerInv'
  <1>1. reply' = reply \/ reply' = [reply EXCEPT ![t] = "streamed"]
    BY DEF Arrive
  <1>2. at[t] \in Waiting /\ Go(t, "query") /\ obj' = obj /\ "query" \in Waiting
    BY DEF Arrive, Waiting
  <1>3. /\ PlaceType' /\ Held' /\ SidesWait'
        /\ \A o \in Objects : InTurn(o)' = InTurn(o)
    BY <1>1, <1>2, OutsideTurn
  <1>4. UNCHANGED <<current, made, depth, steerBuf>>
    BY DEF Arrive, GetQuery
  <1> QED
    BY <1>3, <1>4, SteersStay DEF SteerInv, ObjectType

LEMMA SteerGot ==
  ASSUME SteerInv, NEW t \in Threads, Got(t)
  PROVE  SteerInv'
  <1>1. Returned \in Objects
    BY SessionAssumption DEF Got, GetAssign, Returned, SteerInv, ObjectType, Objects
  <1>2. /\ at[t] \in Waiting /\ Go(t, "got") /\ reply' = reply /\ "got" \in Waiting
        /\ \E o \in Objects : obj' = [obj EXCEPT ![t] = o]
    BY <1>1 DEF Got, Waiting
  <1>3. /\ PlaceType' /\ Held' /\ SidesWait'
        /\ \A o \in Objects : InTurn(o)' = InTurn(o)
    BY <1>2, OutsideTurn
  <1>4. current' \in Objects \cup {0} /\ UNCHANGED <<depth, steerBuf>>
    BY <1>1 DEF Got, GetAssign
  <1>5. made' \in 0..MaxObjects
    BY SessionAssumption DEF Got, GetAssign, Returned, SteerInv, ObjectType
  <1> QED
    BY <1>3, <1>4, <1>5, SteersStay

\* BeginTurn counts the turn that appears on the object.
LEMMA SteerBegin ==
  ASSUME SteerInv, NEW t \in Threads, Begin(t)
  PROVE  SteerInv'
  <1> USE DEF SteerInv, PlaceType
  <1>1. /\ at[t] = "got" /\ t \in Turners /\ at' = [at EXCEPT ![t] = "begun"]
        /\ UNCHANGED <<obj, reply, current, made, steerBuf>>
    BY DEF Begin, Go, Unmoved, Quiet, BeginTurn
  <1>2. PlaceType' /\ Held' /\ SidesWait'
    BY <1>1 DEF Held, SidesWait, Places, Waiting
  <1>3. obj[t] \in Objects
    BY <1>1 DEF Held
  <1>4. CASE reply[t] = "whole"
    <2>1. depth' = [depth EXCEPT ![obj[t]] = @ + 1]
      BY <1>4 DEF Begin, BeginTurn
    <2>2. ObjectType'
      BY <1>1, <1>3, <2>1 DEF ObjectType
    <2>3. ASSUME NEW o \in Objects PROVE depth'[o] = Cardinality(InTurn(o)')
      <3>1. CASE o = obj[t]
        <4>1. InTurn(o)' = InTurn(o) \cup {t} /\ t \notin InTurn(o)
          BY <1>1, <1>4, <3>1, TurnAssumption DEF InTurn, Waiting
        <4>2. Cardinality(InTurn(o)') = Cardinality(InTurn(o)) + 1
          BY <4>1, FiniteTurners, FS_AddElement
        <4> QED
          BY <1>3, <2>1, <3>1, <4>2 DEF Counted, ObjectType
      <3>2. CASE o # obj[t]
        <4>1. InTurn(o)' = InTurn(o)
          BY <1>1, <3>2, TurnAssumption DEF InTurn, Waiting
        <4> QED
          BY <1>3, <2>1, <3>2, <4>1 DEF Counted, ObjectType
      <3> QED
        BY <3>1, <3>2
    <2>4. Buffered'
      BY <1>1, <1>3, <2>1 DEF Buffered, ObjectType
    <2> QED
      BY <1>2, <2>2, <2>3, <2>4 DEF Counted
  <1>5. CASE reply[t] # "whole"
    <2>1. depth' = depth
      BY <1>5 DEF Begin, Quiet
    <2>2. ASSUME NEW o \in Objects PROVE InTurn(o)' = InTurn(o)
      BY <1>1, <1>5, TurnAssumption DEF InTurn, Waiting
    <2> QED
      BY <1>1, <1>2, <2>1, <2>2, SteersStay DEF ObjectType
  <1> QED
    BY <1>4, <1>5

\* EndTurn counts the turn that leaves the object, and takes the buffer with
\* the last of them.
LEMMA SteerFinish ==
  ASSUME SteerInv, NEW t \in Threads, Finish(t)
  PROVE  SteerInv'
  <1> USE DEF SteerInv, PlaceType
  <1>1. /\ at[t] = "closing" /\ at' = [at EXCEPT ![t] = "idle"]
        /\ obj' = [obj EXCEPT ![t] = 0] /\ reply' = [reply EXCEPT ![t] = "whole"]
        /\ UNCHANGED <<current, made>>
    BY DEF Finish, Go, Unmoved
  <1>2. PlaceType' /\ Held' /\ SidesWait'
    BY <1>1 DEF Held, SidesWait, Places, Waiting
  <1>3. obj[t] \in Objects /\ t \in Turners
    BY <1>1 DEF Held, SidesWait, Waiting
  <1>4. CASE reply[t] = "whole"
    <2> DEFINE s == obj[t]
    <2>1. /\ depth' = [depth EXCEPT ![s] = IF @ > 0 THEN @ - 1 ELSE 0]
          /\ steerBuf' = [steerBuf EXCEPT ![s] = IF depth[s] > 1 THEN @ ELSE <<>>]
      BY <1>4 DEF Finish, EndTurn
    <2>2. <<>> \in Histories
      BY DEF Histories
    <2>3. ObjectType'
      BY <1>1, <1>3, <2>1, <2>2 DEF ObjectType
    <2>4. t \in InTurn(s)
      BY <1>1, <1>3, <1>4 DEF InTurn, Waiting
    <2>5. depth[s] > 0
      <3>1. Cardinality(InTurn(s)) # 0
        BY <2>4, FiniteTurners, FS_EmptySet
      <3> QED
        BY <1>3, <3>1 DEF Counted, ObjectType
    <2>6. ASSUME NEW o \in Objects PROVE depth'[o] = Cardinality(InTurn(o)')
      <3>1. CASE o = s
        <4>1. InTurn(o)' = InTurn(o) \ {t}
          BY <1>1, <1>3, <3>1, TurnAssumption DEF InTurn, Waiting, Objects
        <4>2. Cardinality(InTurn(o)') = Cardinality(InTurn(o)) - 1
          BY <2>4, <3>1, <4>1, FiniteTurners, FS_RemoveElement
        <4> QED
          BY <1>3, <2>1, <2>5, <3>1, <4>2 DEF Counted, ObjectType
      <3>2. CASE o # s
        <4>1. InTurn(o)' = InTurn(o)
          BY <1>1, <3>2, TurnAssumption DEF InTurn, Waiting, Objects
        <4> QED
          BY <1>3, <2>1, <3>2, <4>1 DEF Counted, ObjectType
      <3> QED
        BY <3>1, <3>2
    <2>7. Buffered'
      BY <1>3, <2>1, <2>5 DEF Buffered, ObjectType
    <2> QED
      BY <1>2, <2>3, <2>6, <2>7 DEF Counted
  <1>5. CASE reply[t] # "whole"
    <2>1. UNCHANGED <<depth, steerBuf>>
      BY <1>5 DEF Finish, Quiet
    <2>2. ASSUME NEW o \in Objects PROVE InTurn(o)' = InTurn(o)
      BY <1>1, <1>5, TurnAssumption DEF InTurn, Waiting, Objects
    <2> QED
      BY <1>1, <1>2, <2>1, <2>2, SteersStay DEF ObjectType
  <1> QED
    BY <1>4, <1>5

\* PushSteerIfActive fills the buffer of an object that has a turn.
LEMMA SteerSides ==
  ASSUME SteerInv, NEW t \in Threads, Steer(t) \/ Inject(t)
  PROVE  SteerInv'
  <1>1. /\ at[t] \in Waiting /\ Go(t, "idle") /\ reply' = reply /\ "idle" \in Waiting
        /\ obj' = [obj EXCEPT ![t] = 0] /\ UNCHANGED <<current, made>>
    BY DEF Steer, Inject, Waiting, Unmoved
  <1>2. /\ PlaceType' /\ Held' /\ SidesWait'
        /\ \A o \in Objects : InTurn(o)' = InTurn(o)
    BY <1>1, OutsideTurn
  <1>3. CASE UNCHANGED <<depth, steerBuf>>
    BY <1>1, <1>2, <1>3, SteersStay DEF SteerInv, ObjectType
  <1>4. CASE PushSteer(obj[t], User)
    <2>1. obj[t] \in Objects
      BY DEF Steer, Inject, SteerInv, Held
    <2>2. User \in Message
      BY DEF User, Said, Message
    <2>3. ObjectType'
      BY <1>1, <1>4, <2>1, <2>2 DEF PushSteer, SteerInv, ObjectType, Histories
    <2>4. Counted'
      BY <1>2, <1>4 DEF PushSteer, SteerInv, Counted
    <2>5. Buffered'
      BY <1>4, <2>1 DEF PushSteer, SteerInv, ObjectType, Buffered
    <2> QED
      BY <1>2, <2>3, <2>4, <2>5 DEF SteerInv
  <1> QED
    BY <1>3, <1>4 DEF Steer, Inject, Quiet

\* A rebuilt agent's manager has other objects; the old ones keep their turns.
LEMMA SteerRebuild ==
  ASSUME SteerInv, Rebuild
  PROVE  SteerInv'
  <1>1. /\ UNCHANGED <<at, obj, reply, depth, steerBuf, made>> /\ current' = 0
    BY DEF Rebuild, NewManager
  <1>2. PlaceType' /\ Held' /\ SidesWait'
    BY <1>1 DEF SteerInv, PlaceType, Held, SidesWait
  <1>3. ASSUME NEW o \in Objects PROVE InTurn(o)' = InTurn(o)
    BY <1>1 DEF InTurn
  <1> QED
    BY <1>1, <1>2, <1>3, SteersStay DEF SteerInv, ObjectType

\* A dead process has neither turns nor buffers.
LEMMA SteerCrash ==
  ASSUME SteerInv, Crash
  PROVE  SteerInv'
  <1>1. /\ at' = [t \in Threads |-> "idle"] /\ obj' = [t \in Threads |-> 0]
        /\ reply' = [t \in Threads |-> "whole"]
        /\ current' = 0 /\ made' = made
        /\ depth' = [o \in Objects |-> 0] /\ steerBuf' = [o \in Objects |-> <<>>]
    BY DEF Crash, DropObjects
  <1>2. PlaceType' /\ ObjectType'
    BY <1>1 DEF SteerInv, PlaceType, Places, ObjectType, Histories
  <1>3. Held' /\ SidesWait'
    BY <1>1 DEF Held, SidesWait, Waiting
  <1>4. \A o \in Objects : InTurn(o)' = {}
    BY <1>1, TurnAssumption DEF InTurn, Waiting
  <1>5. Counted' /\ Buffered'
    BY <1>1, <1>4, FS_EmptySet DEF Counted, Buffered
  <1> QED
    BY <1>2, <1>3, <1>5 DEF SteerInv

\* The steps inside a turn.
LEMMA SteerInside ==
  ASSUME SteerInv, NEW t \in Threads,
         \/ Accept(t) \/ Compact(t) \/ ModelFails(t) \/ ModelAnswers(t)
         \/ AfterAnswer(t) \/ ModelCalls(t) \/ LoopDetected(t) \/ StoreResult(t)
         \/ NextRound(t) \/ StreamsAnswer(t) \/ FinalAnswer(t) \/ Pad(t)
  PROVE  SteerInv'
  <1>1. at[t] \notin Waiting
    BY DEF Accept, Compact, ModelFails, ModelAnswers, AfterAnswer, ModelCalls,
           LoopDetected, StoreResult, NextRound, StreamsAnswer, FinalAnswer, Pad,
           AsksModel, Waiting
  <1>2. UNCHANGED <<obj, current, made, depth>>
    BY DEF Accept, Compact, ModelFails, ModelAnswers, AfterAnswer, ModelCalls,
           LoopDetected, StoreResult, NextRound, StreamsAnswer, FinalAnswer, Pad,
           Unmoved, Quiet, DrainSteer
  <1>3. \E p \in Places \ Waiting : Go(t, p)
    BY DEF Accept, Compact, ModelFails, ModelAnswers, AfterAnswer, ModelCalls,
           LoopDetected, StoreResult, NextRound, StreamsAnswer, FinalAnswer, Pad,
           Places, Waiting
  <1>4. \/ reply' = reply
        \/ reply[t] # "whole" /\ \E r \in {"streamed", "unsaid"} :
                                   reply' = [reply EXCEPT ![t] = r]
    BY DEF Accept, Compact, ModelFails, ModelAnswers, AfterAnswer, ModelCalls,
           LoopDetected, StoreResult, NextRound, StreamsAnswer, FinalAnswer, Pad
  <1>5. steerBuf' = steerBuf \/ steerBuf' = [steerBuf EXCEPT ![obj[t]] = <<>>]
    BY DEF Accept, Compact, ModelFails, ModelAnswers, AfterAnswer, ModelCalls,
           LoopDetected, StoreResult, NextRound, StreamsAnswer, FinalAnswer, Pad,
           Quiet, DrainSteer
  <1> QED
    BY <1>1, <1>2, <1>3, <1>4, <1>5, InsideTurn

\* The end of a stream concerns no marked turn.
LEMMA SteerStreamEnds ==
  ASSUME SteerInv, NEW t \in Threads, StreamEnds(t)
  PROVE  SteerInv'
  <1>1. /\ reply[t] = "unsaid" /\ reply' = [reply EXCEPT ![t] = "streamed"]
        /\ UNCHANGED <<at, obj, current, made, depth, steerBuf>>
    BY DEF StreamEnds, Unmoved, Quiet
  <1>2. PlaceType' /\ Held' /\ SidesWait'
    BY <1>1 DEF SteerInv, PlaceType, Held, SidesWait
  <1>3. ASSUME NEW o \in Objects PROVE InTurn(o)' = InTurn(o)
    BY <1>1, TurnAssumption DEF InTurn, SteerInv, PlaceType
  <1> QED
    BY <1>1, <1>2, <1>3, SteersStay DEF SteerInv, ObjectType

LEMMA SteerStep ==
  ASSUME SteerInv, [TurnNext]_convVars
  PROVE  SteerInv'
  <1>1. CASE UNCHANGED convVars
    BY <1>1 DEF convVars, sessionVars, turnVars, SteerInv, PlaceType, ObjectType,
                Held, SidesWait, Counted, Buffered, InTurn
  <1>2. ASSUME NEW t \in Threads, NEW ok \in BOOLEAN, Arrive(t, ok) PROVE SteerInv'
    BY <1>2, SteerArrive
  <1>3. ASSUME NEW t \in Threads, Proceed(t) PROVE SteerInv'
    BY <1>3, SteerGot, SteerBegin, SteerInside, SteerStreamEnds, SteerFinish, SteerSides
       DEF Proceed
  <1> QED
    BY <1>1, <1>2, <1>3, SteerRebuild, SteerCrash DEF TurnNext

\* No steer waits in the buffer of an object whose turns are over: it was
\* accepted while turnDepth was positive, each turn drains the buffer or leaves
\* it to another that is still marked, and the last takes it along
\* (PushSteerIfActive, DrainSteer and EndTurn, manager.go:487-548).
THEOREM NoSteerStrandedTheorem == TurnSpec => []NoSteerStranded
  <1>1. TurnInit => SteerInv
    BY SteerInit
  <1>2. SteerInv /\ [TurnNext]_convVars => SteerInv'
    BY SteerStep
  <1>3. SteerInv => NoSteerStranded
    BY SteerHasTurn
  <1> QED
    BY <1>1, <1>2, <1>3, PTL DEF TurnSpec
-----------------------------------------------------------------------------
(* Types, and what a thread has where it is.                               *)

HistoryType ==
    /\ row \in Histories
    /\ mem \in [Objects -> Histories]
    /\ ctx \in [Threads -> Histories]
    /\ fetched \in Histories
CountType ==
    /\ holder \in Threads \cup {Nobody}
    /\ queryOK \in BOOLEAN
    /\ marks \subseteq Marks
    /\ todo \in [Threads -> Seq(Calls)]
    /\ rounds \in [Threads -> 0..MaxRounds]
    /\ turns \in 0..MaxTurns
    /\ nextCall \in Nat
    /\ events \in 0..MaxEvents
    /\ unsaves \in 0..MaxUnsaves

LEMMA TurnTypeParts == TurnType <=> PlaceType /\ ObjectType /\ HistoryType /\ CountType
  BY DEF TurnType, SessionType, PlaceType, ObjectType, HistoryType, CountType

\* A turn that has stored its message.
Past(t) == at[t] \notin {"idle", "query", "got", "begun"}

\* Calls wait for results between the answer that makes them and the last
\* result; a round is counted when it is over; a copy of the conversation
\* exists once the message is stored, and a compaction sees that message last.
FlowPlace(t) ==
    /\ at[t] \in {"called", "results"} <=> todo[t] # <<>>
    /\ at[t] \in {"said", "called", "results", "drain"} => rounds[t] < MaxRounds
    /\ reply[t] = "unsaid" => at[t] \in {"ending", "closing"}
    /\ at[t] \in {"idle", "query"} => obj[t] = 0
    /\ at[t] = "final" => "looped" \in marks
    /\ obj[t] <= made
FlowTodo(t) == \A i, j \in DOMAIN todo[t] : todo[t][i] = todo[t][j] => i = j
FlowCopy(t) ==
    /\ ~Past(t) => ctx[t] = <<>>
    /\ at[t] = "cutting" => ctx[t] # <<>> /\ Last(ctx[t]) = User

Flow(t) == FlowPlace(t) /\ FlowTodo(t) /\ FlowCopy(t)

\* Objects not made yet are empty, and only the user's steers are buffered.
Fresh     == current <= made /\ \A o \in Objects : o > made => mem[o] = <<>>
OnlyUsers == \A o \in Objects : \A i \in DOMAIN steerBuf[o] : steerBuf[o][i] = User

FlowInv == /\ SteerInv /\ HistoryType /\ CountType
           /\ (\A t \in Threads : Flow(t)) /\ Fresh /\ OnlyUsers

LEMMA Bounds ==
  /\ Calls \subseteq Nat /\ MaxRounds \in Nat /\ MaxTurns \in Nat /\ MaxEvents \in Nat
  /\ KeptTail \in Nat /\ RoundCalls \in Nat /\ MaxObjects \in Nat \ {0} /\ Turners \subseteq Threads
  /\ MaxUnsaves \in Nat
  /\ Objects = 1..MaxObjects /\ Threads = Turners \cup Sides
  BY TurnAssumption, SessionAssumption DEF Objects

LEMMA SaidMessages ==
  /\ <<>> \in Histories /\ <<User>> \in Histories
  /\ <<Said("assistant")>> \in Histories /\ <<Said("system")>> \in Histories
  /\ \A C \in SUBSET Calls : <<Calling(C)>> \in Histories
  /\ \A c \in Calls : <<Result(c)>> \in Histories
  <1>1. User \in Message /\ Said("assistant") \in Message /\ Said("system") \in Message
    BY DEF User, Said, Message
  <1>2. \A C \in SUBSET Calls : Calling(C) \in Message
    BY DEF Calling, Message
  <1>3. \A c \in Calls : Result(c) \in Message
    BY DEF Result, Message
  <1> QED
    BY <1>1, <1>2, <1>3 DEF Histories

\* The other threads stay as they are.
Alone(t) == \A u \in Threads \ {t} :
    /\ at'[u] = at[u] /\ obj'[u] = obj[u] /\ reply'[u] = reply[u]
    /\ ctx'[u] = ctx[u] /\ todo'[u] = todo[u] /\ rounds'[u] = rounds[u]

LEMMA StepAlone ==
  ASSUME PlaceType, HistoryType, CountType, NEW t \in Threads,
         Proceed(t) \/ \E ok \in BOOLEAN : Arrive(t, ok)
  PROVE  Alone(t)
  <1> USE DEF PlaceType, HistoryType, CountType, Alone, Go
  <1>1. CASE \E ok \in BOOLEAN : Arrive(t, ok)
    BY <1>1 DEF Arrive
  <1>2. CASE Got(t) \/ Begin(t) \/ Accept(t) \/ Compact(t)
    BY <1>2 DEF Got, Begin, Accept, Compact
  <1>3. CASE ModelFails(t) \/ ModelAnswers(t) \/ AfterAnswer(t)
    BY <1>3 DEF ModelFails, ModelAnswers, AfterAnswer
  <1>4. CASE ModelCalls(t) \/ LoopDetected(t) \/ StoreResult(t)
    BY <1>4 DEF ModelCalls, LoopDetected, StoreResult, Add
  <1>5. CASE NextRound(t) \/ StreamsAnswer(t) \/ StreamEnds(t)
    BY <1>5 DEF NextRound, StreamsAnswer, StreamEnds, Add
  <1>6. CASE FinalAnswer(t) \/ Pad(t) \/ Finish(t) \/ Steer(t) \/ Inject(t)
    BY <1>6 DEF FinalAnswer, Pad, Finish, Steer, Inject
  <1> QED
    BY <1>1, <1>2, <1>3, <1>4, <1>5, <1>6 DEF Proceed

\* Marks and objects only become more.
LEMMA Grows ==
  ASSUME PlaceType, ObjectType, CountType, [TurnNext]_convVars
  PROVE  marks \subseteq marks' /\ made <= made'
  <1> USE DEF ObjectType, CountType
  <1>1. CASE UNCHANGED convVars
    BY <1>1 DEF convVars, sessionVars, turnVars
  <1>2. ASSUME NEW t \in Threads, NEW ok \in BOOLEAN, Arrive(t, ok)
        PROVE  marks \subseteq marks' /\ made <= made'
    BY <1>2 DEF Arrive, GetQuery
  <1>3. ASSUME NEW t \in Threads, Got(t) \/ Begin(t) \/ Accept(t) \/ Compact(t)
        PROVE  marks \subseteq marks' /\ made <= made'
    <2>1. CASE Got(t)
      <3>1. (made' = made \/ made' = made + 1)
        BY <2>1 DEF Got, GetAssign
      <3>2. marks \subseteq marks'
        BY <2>1 DEF Got, GetAssign
      <3> QED
        BY <3>1, <3>2
    <2>2. CASE Begin(t) \/ Accept(t)
      BY <2>2 DEF Begin, Accept, Unmoved
    <2>3. CASE Compact(t)
      BY <2>3 DEF Compact, Unmoved
    <2> QED
      BY <1>3, <2>1, <2>2, <2>3
  <1>4. ASSUME NEW t \in Threads, \/ ModelFails(t) \/ ModelAnswers(t) \/ AfterAnswer(t)
                                  \/ ModelCalls(t) \/ LoopDetected(t) \/ StoreResult(t)
        PROVE  marks \subseteq marks' /\ made <= made'
    <2>1. CASE ~ModelCalls(t)
      <3>1. UNCHANGED made
        BY <1>4, <2>1 DEF ModelFails, ModelAnswers, AfterAnswer, LoopDetected,
                          StoreResult, Unmoved
      <3>2. marks' = marks \/ marks' = marks \cup {"looped"}
        BY <1>4, <2>1 DEF ModelFails, ModelAnswers, AfterAnswer, LoopDetected,
                          StoreResult, Still
      <3> QED
        BY <3>1, <3>2
    <2>2. CASE ModelCalls(t)
      BY <2>2 DEF ModelCalls, Unmoved
    <2> QED
      BY <2>1, <2>2
  <1>5. ASSUME NEW t \in Threads, \/ NextRound(t) \/ StreamsAnswer(t) \/ StreamEnds(t)
                                  \/ FinalAnswer(t) \/ Pad(t) \/ Finish(t)
                                  \/ Steer(t) \/ Inject(t)
        PROVE  marks \subseteq marks' /\ made <= made'
    BY <1>5 DEF NextRound, StreamsAnswer, StreamEnds, FinalAnswer, Pad, Finish,
                Steer, Inject, Unmoved, Still
  <1>6. CASE Rebuild \/ Crash
    BY <1>6 DEF Rebuild, Crash, NewManager
  <1> QED
    BY <1>1, <1>2, <1>3, <1>4, <1>5, <1>6 DEF TurnNext, Proceed
-----------------------------------------------------------------------------
(* What a step does to the history and to the copies of it.                *)

LEMMA PlainLists ==
  /\ Plain(<<>>) /\ Plain(<<User>>) /\ Plain(<<Said("assistant")>>) /\ Plain(<<Said("system")>>)
  /\ \A h, m \in Histories : Plain(h) /\ Plain(m) => Plain(h \o m)
  <1>1. Plain(<<>>) /\ Plain(<<User>>) /\ Plain(<<Said("assistant")>>) /\ Plain(<<Said("system")>>)
    BY DEF Plain, User, Said
  <1>2. ASSUME NEW h \in Histories, NEW m \in Histories, Plain(h), Plain(m)
        PROVE  Plain(h \o m)
    <2> DEFINE g == h \o m
    <2>1. Joined(g, h, m)
      BY Joins
    <2> HIDE DEF g
    <2>2. ASSUME NEW k \in DOMAIN g PROVE g[k].role # "tool" /\ g[k].calls = {}
      <3>1. CASE k \in DOMAIN h
        BY <1>2, <2>1, <3>1, JoinedPlaces DEF Plain
      <3>2. CASE k - Len(h) \in DOMAIN m
        BY <1>2, <2>1, <3>2, JoinedPlaces DEF Plain
      <3> QED
        BY <2>1, <3>1, <3>2, JoinedPlaces
    <2>3. Plain(g)
      BY <2>2 DEF Plain
    <2> QED
      BY <2>3 DEF g
  <1> QED
    BY <1>1, <1>2

LEMMA JoinsThree ==
  ASSUME NEW a \in Histories, NEW b \in Histories, NEW c \in Histories
  PROVE  (a \o b) \o c = a \o (b \o c)
  <1> DEFINE S == Message
  <1>1. a \in Seq(S) /\ b \in Seq(S) /\ c \in Seq(S)
    BY DEF Histories
  <1> HIDE DEF S
  <1> QED
    BY <1>1, ConcatAssociative

LEMMA JoinedPrefix ==
  ASSUME NEW h \in Histories, NEW m \in Histories
  PROVE  IsPrefix(h, h \o m) /\ IsPrefix(h, h)
  <1> DEFINE g == h \o m
  <1>1. g \in Histories /\ Joined(g, h, m)
    BY Joins
  <1>2. Len(h) \in Nat /\ Len(m) \in Nat /\ Len(g) \in Nat /\ DOMAIN g = 1..Len(g)
    BY <1>1, Lengths
  <1>3. \A k \in 1..Len(h) : g[k] = h[k]
    BY <1>1 DEF Joined
  <1>4. Len(h) <= Len(g)
    <2>1. DOMAIN g = 1..Len(h) + Len(m)
      BY <1>1 DEF Joined
    <2> HIDE DEF g
    <2> QED
      BY <1>2, <2>1
  <1> HIDE DEF g
  <1>5. IsPrefix(h, g)
    BY <1>2, <1>3, <1>4 DEF IsPrefix, Histories
  <1>6. IsPrefix(h, h)
    BY <1>2 DEF IsPrefix
  <1> QED
    BY <1>5, <1>6 DEF g

\* The first messages of h and m that were saved.
LEMMA PartSaved ==
  ASSUME NEW h \in Histories, NEW m \in Histories, NEW n \in 0..Len(m)
  PROVE  LET p == h \o SubSeq(m, 1, n)
         IN p \in Histories /\ IsPrefix(p, h \o m) /\ IsPrefix(h, p)
  <1> DEFINE q == SubSeq(m, 1, n)
             p == h \o q
             g == h \o m
  <1>1. n \in Nat /\ n <= Len(m) /\ Len(m) \in Nat /\ DOMAIN m = 1..Len(m)
        /\ \A i \in 1..n : m[i] \in Message
    BY Lengths
  <1>2. q \in Histories /\ Len(q) = n /\ \A i \in 1..n : q[i] = m[i]
    <2>1. /\ q \in Seq(Message) /\ Len(q) = IF 1 <= n THEN n - 1 + 1 ELSE 0
          /\ \A i \in 1..n - 1 + 1 : q[i] = m[1 + i - 1]
      <3>1. 1 \in Int /\ n \in Int
        BY <1>1
      <3> QED
        BY ONLY <1>1, <3>1, SubSeqProperties
    <2> HIDE DEF q
    <2>2. ASSUME NEW i \in 1..n PROVE q[i] = m[i]
      <3>1. i \in 1..n - 1 + 1 /\ 1 + i - 1 = i
        BY <1>1
      <3> QED
        BY <2>1, <3>1
    <2>3. Len(q) = n
      BY <1>1, <2>1
    <2> QED
      BY <2>1, <2>2, <2>3 DEF Histories
  <1> HIDE DEF q
  <1>3. p \in Histories /\ g \in Histories /\ Joined(p, h, q) /\ Joined(g, h, m)
    BY <1>2, Joins
  <1>4. IsPrefix(h, p)
    BY <1>2, JoinedPrefix
  <1>6. Len(p) = Len(h) + Len(q) /\ Len(g) = Len(h) + Len(m)
    BY <1>2, ConcatProperties DEF Histories
  <1> HIDE DEF p, g
  <1>5. /\ Len(h) \in Nat /\ Len(p) \in Nat /\ DOMAIN p = 1..Len(p)
        /\ Len(g) \in Nat /\ DOMAIN g = 1..Len(g)
    BY <1>3, Lengths
  <1>7. Len(p) = Len(h) + n /\ Len(g) = Len(h) + Len(m)
    BY <1>2, <1>6
  <1>8. ASSUME NEW k \in 1..Len(p) PROVE p[k] = g[k]
    <2>1. CASE k \in 1..Len(h)
      BY <1>3, <2>1 DEF Joined
    <2>2. CASE k \notin 1..Len(h)
      <3>1. k \in Len(h) + 1 .. Len(h) + n /\ k - Len(h) \in 1..n
            /\ k \in Len(h) + 1 .. Len(h) + Len(m)
        BY <1>1, <1>5, <1>7, <2>2
      <3>2. p[k] = q[k - Len(h)] /\ g[k] = m[k - Len(h)]
        BY <1>2, <1>3, <3>1 DEF Joined
      <3> QED
        BY <1>2, <3>1, <3>2
    <2> QED
      BY <2>1, <2>2
  <1>9. IsPrefix(p, g)
    BY <1>1, <1>5, <1>7, <1>8 DEF IsPrefix
  <1> QED
    BY <1>3, <1>4, <1>9 DEF p, g, q

LEMMA PrefixChain ==
  ASSUME NEW h \in Histories, NEW g \in Histories, NEW r \in Histories,
         IsPrefix(r, g), IsPrefix(g, h)
  PROVE  IsPrefix(r, h)
  <1>1. /\ Len(r) \in Nat /\ Len(g) \in Nat /\ Len(h) \in Nat
    BY Lengths
  <1>2. /\ Len(r) <= Len(g) /\ \A k \in 1..Len(r) : r[k] = g[k]
        /\ Len(g) <= Len(h) /\ \A k \in 1..Len(g) : g[k] = h[k]
    BY <1>1 DEF IsPrefix
  <1>3. Len(r) <= Len(h) /\ \A k \in 1..Len(r) : r[k] = h[k]
    BY <1>1, <1>2
  <1> QED
    BY <1>1, <1>3 DEF IsPrefix

LEMMA SteersPlain ==
  ASSUME ObjectType, OnlyUsers, NEW o \in Objects
  PROVE  steerBuf[o] \in Histories /\ Plain(steerBuf[o])
  <1>1. steerBuf[o] \in Histories
    BY DEF ObjectType
  <1>2. \A i \in DOMAIN steerBuf[o] : steerBuf[o][i] = User
    BY DEF OnlyUsers
  <1>3. User.role # "tool" /\ User.calls = {}
    BY DEF User, Said
  <1> QED
    BY <1>1, <1>2, <1>3 DEF Plain

\* The row and the objects stay, or a step of t appends plain messages, of
\* which the row has those up to the last save that went through.
Keeps     == row' = row /\ mem' = mem
Speaks(t) == \E m \in Histories : Plain(m) /\ AppendTo(obj[t], m)
\* Its copy does not change, gets plain messages too, is made or dropped.
CopySpeaks(t) ==
    \/ ctx' = ctx
    \/ \E m \in Histories : Plain(m) /\ ctx' = [ctx EXCEPT ![t] = @ \o m]
    \/ ctx' = [ctx EXCEPT ![t] = mem'[obj[t]]]
    \/ ctx' = [ctx EXCEPT ![t] = <<>>]

LEMMA AppendEffect ==
  ASSUME HistoryType, NEW o \in Objects, NEW m \in Histories, AppendTo(o, m)
  PROVE  /\ mem' \in [Objects -> Histories] /\ row' \in Histories
         /\ mem'[o] = mem[o] \o m /\ mem' = [mem EXCEPT ![o] = mem[o] \o m]
         /\ \A p \in Objects \ {o} : mem'[p] = mem[p]
         /\ row' = row \/ (IsPrefix(row', mem'[o]) /\ IsPrefix(mem[o], row'))
         /\ m = <<>> => row' = row /\ mem' = mem
  <1>0. mem[o] \in Histories /\ mem[o] \o m \in Histories /\ row \in Histories
    BY Joins DEF HistoryType
  <1>1. /\ mem' = [mem EXCEPT ![o] = mem[o] \o m]
        /\ mem' \in [Objects -> Histories] /\ mem'[o] = mem[o] \o m
        /\ \A p \in Objects \ {o} : mem'[p] = mem[p]
    BY <1>0 DEF AppendTo, HistoryType
  <1>2. PICK n \in 0..Len(m) : row' = IF n = 0 THEN row ELSE mem[o] \o SubSeq(m, 1, n)
    BY DEF AppendTo
  <1>5. row' \in Histories /\ (row' = row \/ (IsPrefix(row', mem'[o]) /\ IsPrefix(mem[o], row')))
    <2>1. CASE n = 0
      BY <1>0, <1>2, <2>1
    <2>2. CASE n # 0
      <3>1. row' = mem[o] \o SubSeq(m, 1, n)
        BY <1>2, <2>2
      <3> QED
        BY <1>0, <1>1, <3>1, PartSaved
    <2> QED
      BY <2>1, <2>2
  <1>6. ASSUME m = <<>> PROVE row' = row /\ mem' = mem
    <2>1. n = 0
      BY <1>6
    <2>2. mem[o] \o m = mem[o]
      BY <1>0, <1>6, ConcatEmptySeq DEF Histories
    <2> QED
      BY <1>1, <1>2, <2>1, <2>2 DEF HistoryType
  <1> QED
    BY <1>1, <1>5, <1>6

LEMMA CopyEffect ==
  ASSUME HistoryType, NEW t \in Threads, NEW m \in Histories,
         ctx' = [ctx EXCEPT ![t] = @ \o m]
  PROVE  ctx' \in [Threads -> Histories] /\ ctx'[t] = ctx[t] \o m
  <1>1. ctx[t] \o m \in Histories
    BY Joins DEF HistoryType
  <1> QED
    BY <1>1 DEF HistoryType

PlainStep(t) ==
    \/ Begin(t) \/ Accept(t) \/ ModelFails(t) \/ ModelAnswers(t) \/ AfterAnswer(t)
    \/ LoopDetected(t) \/ NextRound(t) \/ StreamsAnswer(t) \/ StreamEnds(t)
    \/ FinalAnswer(t) \/ Finish(t) \/ Steer(t) \/ Inject(t)

LEMMA PlainEffect ==
  ASSUME FlowInv, NEW t \in Threads, PlainStep(t)
  PROVE  /\ obj[t] \in Objects /\ fetched' = fetched
         /\ Keeps \/ Speaks(t)
         /\ CopySpeaks(t)
         /\ todo' = todo \/ (LoopDetected(t) /\ todo' = [todo EXCEPT ![t] = <<>>])
         /\ nextCall' = nextCall /\ ("reissued" \in marks' => "reissued" \in marks)
  <1>0. obj[t] \in Objects
    BY DEF PlainStep, Begin, Accept, ModelFails, ModelAnswers, AfterAnswer, LoopDetected,
           NextRound, StreamsAnswer, StreamEnds, FinalAnswer, Finish, Steer, Inject,
           AsksModel, FlowInv, SteerInv, Held, Flow, FlowPlace
  <1>1. fetched' = fetched /\ nextCall' = nextCall
        /\ ("reissued" \in marks' => "reissued" \in marks)
    <2>1. fetched' = fetched /\ nextCall' = nextCall
      BY DEF PlainStep, Begin, Accept, ModelFails, ModelAnswers, AfterAnswer, LoopDetected,
             NextRound, StreamsAnswer, StreamEnds, FinalAnswer, Finish, Steer, Inject, Unmoved
    <2>2. marks' \subseteq marks \cup {"overlapped", "looped", "injected"}
      BY DEF PlainStep, Begin, Accept, ModelFails, ModelAnswers, AfterAnswer, LoopDetected,
             NextRound, StreamsAnswer, StreamEnds, FinalAnswer, Finish, Steer, Inject,
             Overlap, Still
    <2> QED
      BY <2>1, <2>2
  <1>2. todo' = todo \/ (LoopDetected(t) /\ todo' = [todo EXCEPT ![t] = <<>>])
    BY DEF PlainStep, Begin, Accept, ModelFails, ModelAnswers, AfterAnswer, LoopDetected,
           NextRound, StreamsAnswer, StreamEnds, FinalAnswer, Finish, Steer, Inject
  <1>3. steerBuf[obj[t]] \in Histories /\ Plain(steerBuf[obj[t]])
    BY <1>0, SteersPlain DEF FlowInv, SteerInv
  <1>4. CASE Begin(t) \/ ModelFails(t) \/ StreamsAnswer(t) \/ Steer(t)
    BY <1>0, <1>1, <1>2, <1>4
       DEF Begin, ModelFails, StreamsAnswer, Steer, Still, Unsaid, Keeps, CopySpeaks
  <1>5. CASE Accept(t)
    <2>1. AppendTo(obj[t], <<User>>) /\ ctx' = [ctx EXCEPT ![t] = mem'[obj[t]]]
      BY <1>5 DEF Accept
    <2> QED
      BY <1>0, <1>1, <1>2, <2>1, SaidMessages, PlainLists DEF Speaks, CopySpeaks
  <1>6. CASE ModelAnswers(t) \/ FinalAnswer(t) \/ Inject(t) \/ StreamEnds(t)
    <2>1. ctx' = ctx
      BY <1>6 DEF ModelAnswers, FinalAnswer, Inject, StreamEnds
    <2>2. \/ AppendTo(obj[t], <<Said("assistant")>>) \/ AppendTo(obj[t], <<User>>)
          \/ UNCHANGED <<row, mem>>
      BY <1>6 DEF ModelAnswers, FinalAnswer, Inject, StreamEnds, Unsaid
    <2> QED
      BY <1>0, <1>1, <1>2, <2>1, <2>2, SaidMessages, PlainLists DEF Speaks, CopySpeaks, Keeps
  <1>7. CASE LoopDetected(t)
    BY <1>0, <1>1, <1>2, <1>7, SaidMessages, PlainLists DEF LoopDetected, Add, Speaks, CopySpeaks
  <1>8. CASE NextRound(t)
    BY <1>0, <1>1, <1>2, <1>3, <1>8 DEF NextRound, Add, Unsaid, Speaks, CopySpeaks, Keeps
  <1>9. CASE Finish(t)
    <2>1. ctx' = [ctx EXCEPT ![t] = <<>>]
      BY <1>9 DEF Finish
    <2>2. UNCHANGED <<row, mem>> \/ AppendTo(obj[t], steerBuf[obj[t]])
      BY <1>9 DEF Finish, Leftovers, Unsaid
    <2> QED
      BY <1>0, <1>1, <1>2, <1>3, <2>1, <2>2 DEF Speaks, CopySpeaks, Keeps
  <1>10. CASE AfterAnswer(t)
    <2>1. CASE steerBuf[obj[t]] = <<>>
      BY <1>0, <1>1, <1>2, <1>10, <2>1 DEF AfterAnswer, Unsaid, Keeps, CopySpeaks
    <2>2. CASE steerBuf[obj[t]] # <<>>
      <3> DEFINE a == <<Said("assistant")>>
                 m == steerBuf[obj[t]]
      <3>1. AppendTo(obj[t], m) /\ ctx' = [ctx EXCEPT ![t] = (@ \o a) \o m]
        BY <1>10, <2>2 DEF AfterAnswer
      <3>2. a \in Histories /\ Plain(a) /\ ctx[t] \in Histories
        BY SaidMessages, PlainLists DEF FlowInv, HistoryType
      <3> HIDE DEF a, m
      <3>3. (ctx[t] \o a) \o m = ctx[t] \o (a \o m)
        BY <1>3, <3>2, JoinsThree DEF m
      <3>4. a \o m \in Histories /\ Plain(a \o m)
        BY <1>3, <3>2, Joins, PlainLists DEF m
      <3>5. ctx' = [ctx EXCEPT ![t] = @ \o (a \o m)]
        <4> DEFINE x == (ctx[t] \o a) \o m
        <4>1. ctx' = [ctx EXCEPT ![t] = x]
          BY <3>1, Zenon
        <4>2. x = ctx[t] \o (a \o m)
          BY <3>3
        <4> HIDE DEF x
        <4> QED
          BY <4>1, <4>2, Zenon
      <3>6. Speaks(t)
        BY <1>3, <3>1 DEF Speaks, m
      <3> QED
        BY <1>0, <1>1, <1>2, <3>4, <3>5, <3>6 DEF CopySpeaks
    <2> QED
      BY <2>1, <2>2
  <1> QED
    BY <1>4, <1>5, <1>6, <1>7, <1>8, <1>9, <1>10 DEF PlainStep

\* Identifiers of a reply differ, and are new unless that is marked; a result
\* is of the oldest call that waits; padOrphanToolResults answers what has no
\* answer.
LEMMA CallsEffect ==
  ASSUME FlowInv, NEW t \in Threads, ModelCalls(t)
  PROVE  /\ nextCall' \in Nat
         /\ \E s \in Seq(Calls) :
            /\ s # <<>> /\ \A i, j \in DOMAIN s : s[i] = s[j] => i = j
            /\ ToSet(s) \in SUBSET Calls
            /\ <<Calling(ToSet(s))>> \in Histories
            /\ AppendTo(obj[t], <<Calling(ToSet(s))>>)
            /\ ctx' = [ctx EXCEPT ![t] = @ \o <<Calling(ToSet(s))>>]
            /\ todo' = [todo EXCEPT ![t] = s]
            /\ "reissued" \notin marks' =>
                  ToSet(s) \cap (Known(mem[obj[t]]) \cup Known(ctx[t])) = {}
            /\ marks \subseteq marks' /\ marks' \subseteq marks \cup {"reissued"}
  <1>0. PICK n \in 1..RoundCalls : \E cs \in {Named(n), Recovered(n)} :
          /\ ToSet(cs) \subseteq Calls
          /\ Add(t, <<Calling(ToSet(cs))>>)
          /\ todo' = [todo EXCEPT ![t] = cs]
          /\ nextCall' = IF cs = Named(n) THEN nextCall + n ELSE nextCall
          /\ marks' = marks \cup
               (IF ToSet(cs) \cap (Known(mem[obj[t]]) \cup Known(ctx[t])) = {}
                THEN {} ELSE {"reissued"})
    BY DEF ModelCalls
  <1>1. PICK s \in {Named(n), Recovered(n)} :
          /\ ToSet(s) \subseteq Calls
          /\ Add(t, <<Calling(ToSet(s))>>)
          /\ todo' = [todo EXCEPT ![t] = s]
          /\ nextCall' = IF s = Named(n) THEN nextCall + n ELSE nextCall
          /\ marks' = marks \cup
               (IF ToSet(s) \cap (Known(mem[obj[t]]) \cup Known(ctx[t])) = {}
                THEN {} ELSE {"reissued"})
    BY <1>0
  <1>2. nextCall \in Nat /\ n \in Nat /\ n >= 1 /\ RoundCalls \in Nat
    BY Bounds DEF FlowInv, CountType
  <1>3. /\ DOMAIN s = 1..n /\ s = [i \in 1..n |-> s[i]]
        /\ \A i, j \in 1..n : s[i] = s[j] => i = j
    <2>1. CASE s = Named(n)
      <3>1. DOMAIN s = 1..n /\ s = [i \in 1..n |-> s[i]]
            /\ \A i \in 1..n : s[i] = RoundCalls + nextCall + i
        BY <2>1 DEF Named
      <3> QED
        BY <1>2, <3>1
    <2>2. CASE s = Recovered(n)
      BY <1>2, <2>2 DEF Recovered
    <2> QED
      BY <1>1, <2>1, <2>2
  <1>4. ToSet(s) \subseteq Calls /\ ToSet(s) = {s[i] : i \in 1..n}
    BY <1>1, <1>3 DEF ToSet
  <1>5. s \in [1..n -> Calls]
    BY <1>3, <1>4
  <1>6. s \in Seq(Calls)
    BY <1>2, <1>5, SeqDef
  <1>8. s # <<>>
    BY <1>2, <1>3
  <1>9. \A i, j \in DOMAIN s : s[i] = s[j] => i = j
    BY <1>2, <1>3
  <1>10. nextCall' \in Nat
    BY <1>1, <1>2
  <1>11. /\ "reissued" \notin marks' =>
              ToSet(s) \cap (Known(mem[obj[t]]) \cup Known(ctx[t])) = {}
         /\ marks \subseteq marks' /\ marks' \subseteq marks \cup {"reissued"}
    BY <1>1
  <1>12. <<Calling(ToSet(s))>> \in Histories
    BY <1>4, SaidMessages
  <1>13. /\ AppendTo(obj[t], <<Calling(ToSet(s))>>)
         /\ ctx' = [ctx EXCEPT ![t] = @ \o <<Calling(ToSet(s))>>]
    BY <1>1 DEF Add
  <1> QED
    BY <1>1, <1>4, <1>6, <1>8, <1>9, <1>10, <1>11, <1>12, <1>13

LEMMA ResultEffect ==
  ASSUME FlowInv, NEW t \in Threads, StoreResult(t)
  PROVE  /\ todo[t] # <<>> /\ Head(todo[t]) \in Calls /\ Head(todo[t]) = todo[t][1]
         /\ <<Result(Head(todo[t]))>> \in Histories
         /\ AppendTo(obj[t], <<Result(Head(todo[t]))>>)
         /\ ctx' = [ctx EXCEPT ![t] = @ \o <<Result(Head(todo[t]))>>]
         /\ todo' = [todo EXCEPT ![t] = Tail(todo[t])]
         /\ Tail(todo[t]) \in Seq(Calls) /\ Len(todo[t]) \in Nat \ {0}
         /\ DOMAIN Tail(todo[t]) = 1..Len(todo[t]) - 1
         /\ DOMAIN todo[t] = 1..Len(todo[t])
         /\ \A i \in 1..Len(todo[t]) - 1 : Tail(todo[t])[i] = todo[t][i + 1]
         /\ nextCall' = nextCall /\ marks' = marks
  <1>1. todo[t] \in Seq(Calls) /\ todo[t] # <<>>
    BY DEF StoreResult, FlowInv, Flow, FlowPlace, CountType
  <1> DEFINE s == todo[t]
  <1>2. /\ AppendTo(obj[t], <<Result(Head(s))>>) /\ nextCall' = nextCall /\ marks' = marks
        /\ ctx' = [ctx EXCEPT ![t] = @ \o <<Result(Head(s))>>]
        /\ todo' = [todo EXCEPT ![t] = Tail(s)]
    BY DEF StoreResult, Add
  <1>3. s \in Seq(Calls) /\ s # <<>>
    BY <1>1
  <1> HIDE DEF s
  <1>4. /\ Head(s) \in Calls /\ Tail(s) \in Seq(Calls) /\ Len(Tail(s)) = Len(s) - 1
        /\ \A i \in 1..Len(Tail(s)) : Tail(s)[i] = s[i + 1]
    BY <1>3, HeadTailProperties
  <1>5. Len(s) \in Nat \ {0} /\ DOMAIN s = 1..Len(s) /\ DOMAIN Tail(s) = 1..Len(s) - 1
    BY <1>3, <1>4, LenProperties, EmptySeq
  <1>6. Head(s) = s[1]
    BY <1>3
  <1>7. <<Result(Head(s))>> \in Histories
    BY <1>4, SaidMessages
  <1>8. \A i \in 1..Len(s) - 1 : Tail(s)[i] = s[i + 1]
    BY <1>4
  <1> QED
    BY <1>2, <1>3, <1>4, <1>5, <1>6, <1>7, <1>8 DEF s

LEMMA PadEffect ==
  ASSUME FlowInv, NEW t \in Threads, Pad(t)
  PROVE  \E s \in Seq(Calls) :
            /\ \A i, j \in DOMAIN s : s[i] = s[j] => i = j
            /\ ToSet(s) = Unanswered(mem[obj[t]])
            /\ Results(s) \in Histories
            /\ AppendTo(obj[t], Results(s))
            /\ ctx' = ctx /\ todo' = todo /\ nextCall' = nextCall /\ marks' = marks
  <1> DEFINE U == Unanswered(mem[obj[t]])
  <1>1. obj[t] \in Objects
    BY DEF Pad, FlowInv, SteerInv, Held
  <1>2. mem[obj[t]] \in Histories
    BY <1>1 DEF FlowInv, HistoryType
  <1>3. U \subseteq Calls
    <2> SUFFICES ASSUME NEW c \in U PROVE c \in Calls
      OBVIOUS
    <2> DEFINE h == mem[obj[t]]
    <2>1. PICK i \in DOMAIN h : c \in h[i].calls
      BY <1>2, UnansweredFacts
    <2>2. h[i] \in Message
      BY <1>2, Lengths
    <2>3. h[i].calls \subseteq Calls
      BY <2>2, MessageFields, Bounds, Zenon
    <2> QED
      BY <2>1, <2>3, Zenon
  <1>4. PICK s \in InOrder(U) : AppendTo(obj[t], [i \in DOMAIN s |-> Result(s[i])])
    BY DEF Pad
  <1> HIDE DEF U
  <1>5. PICK n \in 0..RoundCalls : s \in [1..n -> U]
    BY <1>4 DEF InOrder
  <1>6. n \in Nat
    BY <1>5, Bounds
  <1>7. s \in [1..n -> Calls]
    BY <1>3, <1>5
  <1>8. s \in Seq(Calls)
    BY <1>6, <1>7, SeqDef
  <1>9. ToSet(s) = U /\ \A i, j \in DOMAIN s : i < j => s[i] < s[j]
    BY <1>4 DEF InOrder
  <1>10. ASSUME NEW i \in DOMAIN s, NEW j \in DOMAIN s, s[i] = s[j] PROVE i = j
    <2>1. i \in 1..n /\ j \in 1..n
      BY <1>7
    <2>2. s[i] \in Calls /\ s[j] \in Calls
      BY <1>7, <2>1
    <2>5. Calls \subseteq Nat /\ \A c \in Nat : ~(c < c)
      BY Bounds
    <2>3. ~(s[i] < s[j]) /\ ~(s[j] < s[i])
      BY <1>10, <2>2, <2>5, Zenon
    <2>4. ~(i < j) /\ ~(j < i)
      BY <1>9, <2>3
    <2> QED
      BY <1>6, <2>1, <2>4
  <1>11. Results(s) \in Histories /\ AppendTo(obj[t], Results(s))
    BY <1>4, <1>8, ResultsType DEF Results
  <1>12. ctx' = ctx /\ todo' = todo /\ nextCall' = nextCall /\ marks' = marks
    BY DEF Pad
  <1> QED
    BY <1>8, <1>9, <1>10, <1>11, <1>12 DEF U

LEMMA CompactEffect ==
  ASSUME FlowInv, NEW t \in Threads, Compact(t)
  PROVE  \E g \in Histories :
            /\ g \in {ctx[t], Compressed(ctx[t])}
            /\ ctx[t] \in Histories /\ obj[t] \in Objects
            /\ mem' = [mem EXCEPT ![obj[t]] = g]
            /\ row' = g \/ (row' = row /\ "uncut" \in marks')
            /\ ctx' = [ctx EXCEPT ![t] = g]
            /\ mem[obj[t]] # ctx[t] => "lateCut" \in marks'
            /\ g # ctx[t] => "cut" \in marks'
            /\ marks' \subseteq marks \cup {"lateCut", "cut", "uncut"}
            /\ fetched' = fetched /\ todo' = todo /\ nextCall' = nextCall
  <1>1. obj[t] \in Objects /\ ctx[t] \in Histories
    BY DEF Compact, FlowInv, SteerInv, Held, HistoryType
  <1>2. Compressed(ctx[t]) \in Histories
    BY <1>1, CompressedCut, Bounds
  <1>3. PICK g \in {ctx[t], Compressed(ctx[t])}, ok \in BOOLEAN :
          /\ Replace(obj[t], g, ok)
          /\ ctx' = [ctx EXCEPT ![t] = g]
          /\ marks' = marks
               \cup (IF mem[obj[t]] # ctx[t] THEN {"lateCut"} ELSE {})
               \cup (IF g # ctx[t] THEN {"cut"} ELSE {})
               \cup (IF ok THEN {} ELSE {"uncut"})
    BY DEF Compact
  <1>4. /\ mem' = [mem EXCEPT ![obj[t]] = g]
        /\ row' = g \/ (row' = row /\ "uncut" \in marks')
    BY <1>3 DEF Replace
  <1>5. /\ mem[obj[t]] # ctx[t] => "lateCut" \in marks'
        /\ g # ctx[t] => "cut" \in marks'
        /\ marks' \subseteq marks \cup {"lateCut", "cut", "uncut"}
    BY <1>3
  <1>6. fetched' = fetched /\ todo' = todo /\ nextCall' = nextCall
    BY DEF Compact, Unmoved
  <1> QED
    BY <1>1, <1>2, <1>3, <1>4, <1>5, <1>6

\* The object a Get returns.
LEMMA GotObject ==
  ASSUME FlowInv, NEW t \in Threads, Got(t)
  PROVE  /\ Returned \in Objects /\ Reloaded(Returned) \in Histories
         /\ row' = row /\ ctx' = ctx /\ todo' = todo /\ nextCall' = nextCall
         /\ mem' = [mem EXCEPT ![Returned] = Reloaded(Returned)]
         /\ fetched' = <<>> /\ current' = Returned
         /\ "reissued" \in marks' => "reissued" \in marks
  <1>1. Returned \in Objects
    BY Bounds DEF Got, GetAssign, Returned, FlowInv, SteerInv, ObjectType
  <1>2. Reloaded(Returned) \in Histories
    BY <1>1 DEF Reloaded, FlowInv, HistoryType
  <1> QED
    BY <1>1, <1>2 DEF Got, GetAssign

LEMMA HistoryStep ==
  ASSUME FlowInv, [TurnNext]_convVars
  PROVE  HistoryType'
  <1>0. HistoryType
    BY DEF FlowInv
  <1>1. CASE UNCHANGED convVars
    BY <1>0, <1>1 DEF convVars, sessionVars, turnVars, HistoryType
  <1>2. ASSUME NEW t \in Threads, NEW ok \in BOOLEAN, Arrive(t, ok) PROVE HistoryType'
    BY <1>0, <1>2, SaidMessages DEF Arrive, GetQuery, HistoryType
  <1>3. ASSUME NEW t \in Threads, Got(t) PROVE HistoryType'
    BY <1>0, <1>3, GotObject, SaidMessages DEF HistoryType
  <1>4. ASSUME NEW t \in Threads, PlainStep(t) PROVE HistoryType'
    <2>1. obj[t] \in Objects /\ fetched' = fetched /\ (Keeps \/ Speaks(t)) /\ CopySpeaks(t)
      BY <1>4, PlainEffect
    <2>2. row' \in Histories /\ mem' \in [Objects -> Histories]
      BY <1>0, <2>1, AppendEffect DEF Keeps, Speaks, HistoryType
    <2>3. ctx' \in [Threads -> Histories]
      <3>1. CASE \E m \in Histories : Plain(m) /\ ctx' = [ctx EXCEPT ![t] = @ \o m]
        BY <1>0, <3>1, CopyEffect
      <3>2. CASE \/ ctx' = ctx \/ ctx' = [ctx EXCEPT ![t] = mem'[obj[t]]]
                 \/ ctx' = [ctx EXCEPT ![t] = <<>>]
        BY <1>0, <2>1, <2>2, <3>2, SaidMessages DEF HistoryType
      <3> QED
        BY <2>1, <3>1, <3>2 DEF CopySpeaks
    <2> QED
      BY <1>0, <2>1, <2>2, <2>3 DEF HistoryType
  <1>5. ASSUME NEW t \in Threads, NEW m \in Histories, obj[t] \in Objects,
               AppendTo(obj[t], m), fetched' = fetched,
               ctx' = ctx \/ ctx' = [ctx EXCEPT ![t] = @ \o m]
        PROVE  HistoryType'
    <2>1. row' \in Histories /\ mem' \in [Objects -> Histories]
      BY <1>0, <1>5, AppendEffect
    <2>2. ctx' \in [Threads -> Histories]
      BY <1>0, <1>5, CopyEffect DEF HistoryType
    <2> QED
      BY <1>0, <1>5, <2>1, <2>2 DEF HistoryType
  <1>6. ASSUME NEW t \in Threads, ModelCalls(t) \/ StoreResult(t) \/ Pad(t) PROVE HistoryType'
    <2>1. obj[t] \in Objects /\ fetched' = fetched
      BY <1>6 DEF ModelCalls, StoreResult, Pad, AsksModel, Unmoved, FlowInv, SteerInv, Held
    <2>2. \E m \in Histories : /\ AppendTo(obj[t], m)
                               /\ ctx' = ctx \/ ctx' = [ctx EXCEPT ![t] = @ \o m]
      BY <1>6, CallsEffect, ResultEffect, PadEffect
    <2> QED
      BY <1>5, <2>1, <2>2
  <1>7. ASSUME NEW t \in Threads, Compact(t) PROVE HistoryType'
    BY <1>0, <1>7, CompactEffect DEF HistoryType
  <1>8. CASE Rebuild
    BY <1>0, <1>8 DEF Rebuild, NewManager, HistoryType
  <1>9. CASE Crash
    BY <1>0, <1>9, SaidMessages DEF Crash, DropObjects, HistoryType
  <1> QED
    BY <1>1, <1>2, <1>3, <1>4, <1>6, <1>7, <1>8, <1>9 DEF TurnNext, Proceed, PlainStep

\* todo, rounds and the counters keep their types: an iteration is counted only
\* where the loop's bound left one.
LEMMA TodoType ==
  ASSUME FlowInv, [TurnNext]_convVars
  PROVE  todo' \in [Threads -> Seq(Calls)] /\ nextCall' \in Nat
  <1>0. todo \in [Threads -> Seq(Calls)] /\ nextCall \in Nat /\ <<>> \in Seq(Calls)
    BY DEF FlowInv, CountType
  <1>1. CASE UNCHANGED convVars
    BY <1>0, <1>1 DEF convVars, turnVars
  <1>2. ASSUME NEW t \in Threads, \E ok \in BOOLEAN : Arrive(t, ok)
        PROVE  todo' = todo /\ nextCall' = nextCall
    BY <1>2 DEF Arrive
  <1>3. ASSUME NEW t \in Threads, Got(t) \/ PlainStep(t) \/ Pad(t) \/ Compact(t)
        PROVE  todo' \in [Threads -> Seq(Calls)] /\ nextCall' \in Nat
    <2>1. CASE PlainStep(t)
      <3>1. nextCall' = nextCall
        BY <2>1, PlainEffect
      <3>2. todo' = todo \/ todo' = [todo EXCEPT ![t] = <<>>]
        BY <2>1, PlainEffect
      <3>3. todo' \in [Threads -> Seq(Calls)]
        BY <1>0, <3>2
      <3> QED
        BY <1>0, <3>1, <3>3
    <2>2. CASE Got(t) \/ Pad(t) \/ Compact(t)
      <3>1. todo' = todo /\ nextCall' = nextCall
        BY <2>2 DEF Got, Pad, Compact
      <3> QED
        BY <1>0, <3>1
    <2> QED
      BY <1>3, <2>1, <2>2
  <1>4. ASSUME NEW t \in Threads, ModelCalls(t)
        PROVE  todo' \in [Threads -> Seq(Calls)] /\ nextCall' \in Nat
    <2>1. \E s \in Seq(Calls) : todo' = [todo EXCEPT ![t] = s]
      BY <1>4, CallsEffect
    <2>2. nextCall' \in Nat
      BY <1>4, CallsEffect
    <2> QED
      BY <1>0, <2>1, <2>2
  <1>5. ASSUME NEW t \in Threads, StoreResult(t)
        PROVE  todo' \in [Threads -> Seq(Calls)] /\ nextCall' \in Nat
    BY <1>0, <1>5, ResultEffect
  <1>6. CASE Rebuild \/ Crash
    BY <1>0, <1>6 DEF Rebuild, Crash
  <1> QED
    BY <1>0, <1>1, <1>2, <1>3, <1>4, <1>5, <1>6 DEF TurnNext, Proceed, PlainStep

LEMMA RoundsType ==
  ASSUME FlowInv, [TurnNext]_convVars
  PROVE  rounds' \in [Threads -> 0..MaxRounds]
  <1>0. rounds \in [Threads -> 0..MaxRounds] /\ MaxRounds \in Nat /\ 0 \in 0..MaxRounds
    BY Bounds DEF FlowInv, CountType
  <1>1. CASE UNCHANGED rounds
    BY <1>0, <1>1
  <1>2. ASSUME NEW t \in Threads, at[t] \in {"said", "drain"}, rounds' = [rounds EXCEPT ![t] = @ + 1]
        PROVE  rounds' \in [Threads -> 0..MaxRounds]
    <2>1. rounds[t] < MaxRounds
      BY <1>2 DEF FlowInv, Flow, FlowPlace
    <2>2. rounds[t] \in 0..MaxRounds
      BY <1>0
    <2>3. rounds[t] + 1 \in 0..MaxRounds
      BY <1>0, <2>1, <2>2
    <2> QED
      BY <1>0, <1>2, <2>3
  <1>3. ASSUME NEW t \in Threads, AfterAnswer(t) \/ NextRound(t)
        PROVE  rounds' \in [Threads -> 0..MaxRounds]
    <2>1. at[t] \in {"said", "drain"} /\ (UNCHANGED rounds \/ rounds' = [rounds EXCEPT ![t] = @ + 1])
      BY <1>3 DEF AfterAnswer, NextRound
    <2> QED
      BY <1>1, <1>2, <2>1
  <1>4. ASSUME NEW t \in Threads, Finish(t) PROVE rounds' \in [Threads -> 0..MaxRounds]
    BY <1>0, <1>4 DEF Finish
  <1>5. CASE Crash
    BY <1>0, <1>5 DEF Crash
  <1>6. ASSUME NEW t \in Threads, Proceed(t), ~(AfterAnswer(t) \/ NextRound(t)), ~Finish(t)
        PROVE  UNCHANGED rounds
    BY <1>6 DEF Proceed, Got, Begin, Accept, Compact, ModelFails, ModelAnswers, ModelCalls,
                LoopDetected, StoreResult, StreamsAnswer, StreamEnds, FinalAnswer, Pad,
                Steer, Inject
  <1>7. CASE UNCHANGED convVars \/ Rebuild
    BY <1>1, <1>7 DEF convVars, turnVars, Rebuild
  <1>8. ASSUME NEW t \in Threads, NEW ok \in BOOLEAN, Arrive(t, ok)
        PROVE  UNCHANGED rounds
    BY <1>8 DEF Arrive
  <1> QED
    BY <1>1, <1>3, <1>4, <1>5, <1>6, <1>7, <1>8 DEF TurnNext

LEMMA EventType ==
  ASSUME FlowInv, [TurnNext]_convVars
  PROVE  turns' \in 0..MaxTurns /\ events' \in 0..MaxEvents
  <1>0. /\ turns \in 0..MaxTurns /\ events \in 0..MaxEvents
        /\ MaxTurns \in Nat /\ MaxEvents \in Nat
    BY Bounds DEF FlowInv, CountType
  <1>1. (UNCHANGED events \/ Event) => events' \in 0..MaxEvents
    BY <1>0 DEF Event
  <1>2. (UNCHANGED turns \/ (turns < MaxTurns /\ turns' = turns + 1)) => turns' \in 0..MaxTurns
    BY <1>0
  <1>3. ASSUME NEW t \in Threads, NEW ok \in BOOLEAN, Arrive(t, ok)
        PROVE  /\ UNCHANGED events \/ Event
               /\ UNCHANGED turns \/ (turns < MaxTurns /\ turns' = turns + 1)
    BY <1>3 DEF Arrive
  <1>4. ASSUME NEW t \in Threads, Proceed(t)
        PROVE  (UNCHANGED events \/ Event) /\ UNCHANGED turns
    BY <1>4 DEF Proceed, Got, Begin, Accept, Compact, ModelFails, ModelAnswers, AfterAnswer,
                ModelCalls, LoopDetected, StoreResult, NextRound, StreamsAnswer, StreamEnds,
                FinalAnswer, Pad, Finish, Steer, Inject
  <1>5. CASE UNCHANGED convVars \/ Rebuild \/ Crash
    BY <1>1, <1>2, <1>5 DEF convVars, turnVars, Rebuild, Crash
  <1> QED
    BY <1>1, <1>2, <1>3, <1>4, <1>5 DEF TurnNext

LEMMA MarkType ==
  ASSUME FlowInv, [TurnNext]_convVars
  PROVE  marks' \subseteq Marks
  <1>0. marks \subseteq Marks
    BY DEF FlowInv, CountType
  <1>1. CASE UNCHANGED marks
    BY <1>0, <1>1
  <1>2. ASSUME NEW t \in Threads, \/ Got(t) \/ Begin(t) \/ Compact(t) \/ LoopDetected(t)
                                  \/ Inject(t) \/ ModelCalls(t)
        PROVE  marks' \subseteq Marks
    <2>1. CASE Got(t)
      BY <1>0, <2>1 DEF Got, GetAssign, Marks
    <2>2. CASE Begin(t)
      BY <1>0, <2>2 DEF Begin, Overlap, Marks
    <2>3. CASE Compact(t)
      <3>1. marks' \subseteq marks \cup {"lateCut", "cut", "uncut"}
        BY <2>3, CompactEffect
      <3> QED
        BY <1>0, <3>1 DEF Marks
    <2>4. CASE LoopDetected(t) \/ Inject(t)
      <3>1. marks' \subseteq marks \cup {"looped", "injected"}
        BY <2>4 DEF LoopDetected, Inject
      <3> QED
        BY <1>0, <3>1 DEF Marks
    <2>5. CASE ModelCalls(t)
      BY <1>0, <2>5, CallsEffect DEF Marks
    <2> QED
      BY <1>2, <2>1, <2>2, <2>3, <2>4, <2>5
  <1>3. CASE Rebuild \/ Crash
    <2>1. marks' \subseteq marks \cup {"twoObjects", "forgotten", "crashed"}
      BY <1>3 DEF Rebuild, Crash
    <2> QED
      BY <1>0, <2>1 DEF Marks
  <1>4. ASSUME NEW t \in Threads, Proceed(t),
               ~(\/ Got(t) \/ Begin(t) \/ Compact(t) \/ LoopDetected(t) \/ Inject(t)
                 \/ ModelCalls(t))
        PROVE  UNCHANGED marks
    BY <1>4 DEF Proceed, Accept, ModelFails, ModelAnswers, AfterAnswer,
                StoreResult, NextRound, StreamsAnswer, StreamEnds, FinalAnswer, Pad, Finish,
                Steer, Still
  <1>5. ASSUME NEW t \in Threads, NEW ok \in BOOLEAN, Arrive(t, ok)
        PROVE  UNCHANGED marks
    BY <1>5 DEF Arrive, GetQuery
  <1>6. UNCHANGED convVars => UNCHANGED marks
    BY DEF convVars, sessionVars
  <1> QED
    BY <1>1, <1>2, <1>3, <1>4, <1>5, <1>6 DEF TurnNext

LEMMA QueryType ==
  ASSUME FlowInv, [TurnNext]_convVars
  PROVE  holder' \in Threads \cup {Nobody} /\ queryOK' \in BOOLEAN
  <1>0. holder \in Threads \cup {Nobody} /\ queryOK \in BOOLEAN
    BY DEF FlowInv, CountType
  <1>1. ASSUME NEW t \in Threads, NEW ok \in BOOLEAN, Arrive(t, ok)
        PROVE  holder' = t /\ queryOK' = ok
    BY <1>1 DEF Arrive, GetQuery
  <1>2. ASSUME NEW t \in Threads, Got(t) PROVE holder' = Nobody /\ queryOK' = TRUE
    BY <1>2 DEF Got, GetAssign
  <1>3. ASSUME NEW t \in Threads, Proceed(t), ~Got(t)
        PROVE  UNCHANGED <<holder, queryOK>>
    BY <1>3 DEF Proceed, Begin, Accept, Compact, ModelFails, ModelAnswers, AfterAnswer,
                ModelCalls, LoopDetected, StoreResult, NextRound, StreamsAnswer, StreamEnds,
                FinalAnswer, Pad, Finish, Steer, Inject, Unmoved
  <1>4. CASE UNCHANGED convVars \/ Rebuild
    BY <1>0, <1>4 DEF convVars, sessionVars, Rebuild, NewManager
  <1>5. CASE Crash
    BY <1>5 DEF Crash, DropObjects
  <1> QED
    BY <1>0, <1>1, <1>2, <1>3, <1>4, <1>5 DEF TurnNext

LEMMA UnsaveType ==
  ASSUME FlowInv, [TurnNext]_convVars
  PROVE  unsaves' \in 0..MaxUnsaves
  <1>0. unsaves \in 0..MaxUnsaves /\ MaxUnsaves \in Nat
    BY Bounds DEF FlowInv, CountType
  <1>1. CASE UNCHANGED unsaves
    BY <1>0, <1>1
  <1>2. ASSUME NEW ok \in BOOLEAN, Saves(ok) PROVE unsaves' \in 0..MaxUnsaves
    BY <1>0, <1>2 DEF Saves
  <1>3. ASSUME NEW o, NEW m, AppendTo(o, m) PROVE unsaves' \in 0..MaxUnsaves
    <2>1. \E n \in 0..Len(m) : Saves(n = Len(m))
      BY <1>3 DEF AppendTo
    <2> QED
      BY <1>2, <2>1
  <1>4. ASSUME NEW t \in Threads, Proceed(t), ~Compact(t)
        PROVE  UNCHANGED unsaves \/ \E o, m : AppendTo(o, m)
    BY <1>4 DEF Proceed, Got, GetAssign, Begin, Accept, ModelFails, ModelAnswers, AfterAnswer,
                ModelCalls, LoopDetected, StoreResult, NextRound, StreamsAnswer, StreamEnds,
                FinalAnswer, Pad, Finish, Steer, Inject, Add, Still, Unsaid
  <1>5. ASSUME NEW t \in Threads, Compact(t) PROVE unsaves' \in 0..MaxUnsaves
    BY <1>2, <1>5 DEF Compact, Replace
  <1>6. ASSUME NEW t \in Threads, NEW ok \in BOOLEAN, Arrive(t, ok) PROVE UNCHANGED unsaves
    BY <1>6 DEF Arrive, GetQuery
  <1>7. CASE UNCHANGED convVars \/ Rebuild \/ Crash
    BY <1>1, <1>7 DEF convVars, sessionVars, Rebuild, NewManager, Crash
  <1> QED
    BY <1>1, <1>3, <1>4, <1>5, <1>6, <1>7 DEF TurnNext

LEMMA CountStep ==
  ASSUME FlowInv, [TurnNext]_convVars
  PROVE  CountType'
  BY TodoType, RoundsType, EventType, MarkType, QueryType, UnsaveType DEF CountType

LEMMA FlowFrame ==
  ASSUME FlowInv, [TurnNext]_convVars, SteerInv', NEW u \in Threads,
         at'[u] = at[u], obj'[u] = obj[u], reply'[u] = reply[u],
         ctx'[u] = ctx[u], todo'[u] = todo[u], rounds'[u] = rounds[u]
  PROVE  Flow(u)'
  <1>0. /\ marks \subseteq marks' /\ made <= made'
        /\ made \in Nat /\ made' \in Nat /\ obj[u] \in Nat
    <2>1. made \in 0..MaxObjects /\ made' \in 0..MaxObjects /\ obj[u] \in Objects \cup {0}
      BY DEF FlowInv, SteerInv, ObjectType, PlaceType
    <2>2. made \in Nat /\ made' \in Nat /\ obj[u] \in Nat
      BY <2>1, Bounds
    <2>3. marks \subseteq marks' /\ made <= made'
      BY Grows DEF FlowInv, SteerInv
    <2> QED
      BY <2>2, <2>3
  <1>1. Flow(u)
    BY DEF FlowInv
  <1>2. FlowPlace(u)'
    BY <1>0, <1>1 DEF Flow, FlowPlace
  <1>3. FlowTodo(u)'
    BY <1>1 DEF Flow, FlowTodo
  <1>4. FlowCopy(u)'
    BY <1>1 DEF Flow, FlowCopy, Past
  <1> QED
    BY <1>2, <1>3, <1>4 DEF Flow

LEMMA FlowOthers ==
  ASSUME FlowInv, [TurnNext]_convVars, SteerInv', NEW t \in Threads, Flow(t)',
         Proceed(t) \/ \E ok \in BOOLEAN : Arrive(t, ok)
  PROVE  \A u \in Threads : Flow(u)'
  <1>1. Alone(t)
    BY StepAlone DEF FlowInv, SteerInv
  <1>2. ASSUME NEW u \in Threads, u # t PROVE Flow(u)'
    BY <1>1, <1>2, FlowFrame DEF Alone
  <1> QED
    BY <1>2

\* A step that leaves a thread's calls alone keeps what is said of them.
LEMMA TodoStays ==
  ASSUME FlowInv, NEW t \in Threads, todo' = todo
  PROVE  FlowTodo(t)'
  BY DEF FlowInv, Flow, FlowTodo

LEMMA TodoEmpty ==
  ASSUME NEW t \in Threads, todo'[t] = <<>>
  PROVE  FlowTodo(t)'
  BY DEF FlowTodo

LEMMA FlowOutside ==
  ASSUME FlowInv, [TurnNext]_convVars, NEW t \in Threads,
         Got(t) \/ Begin(t) \/ Steer(t) \/ Inject(t) \/ \E ok \in BOOLEAN : Arrive(t, ok)
  PROVE  Flow(t)'
  <1>0. Flow(t) /\ PlaceType /\ made \in 0..MaxObjects /\ HistoryType
    BY DEF FlowInv, SteerInv, ObjectType
  <1>1. /\ at[t] \in Waiting /\ todo' = todo /\ ctx' = ctx
        /\ at'[t] \in {"query", "got", "begun", "idle"}
        /\ at'[t] \in {"idle", "query"} => obj'[t] = 0
        /\ reply'[t] = reply[t] \/ reply'[t] = "streamed"
    <2> USE <1>0 DEF Go, PlaceType, Flow, FlowPlace, Waiting
    <2>1. CASE \E ok \in BOOLEAN : Arrive(t, ok)
      <3>1. PICK ok \in BOOLEAN : Arrive(t, ok)
        BY <2>1
      <3>2. at[t] = "idle" /\ at' = [at EXCEPT ![t] = "query"]
            /\ UNCHANGED <<obj, ctx, todo>>
        BY <3>1 DEF Arrive
      <3>3. reply' = reply \/ reply' = [reply EXCEPT ![t] = "streamed"]
        BY <3>1 DEF Arrive
      <3> QED
        BY <3>2, <3>3
    <2>2. CASE Got(t)
      BY <2>2 DEF Got
    <2>3. CASE Begin(t)
      BY <2>3 DEF Begin
    <2>4. CASE Steer(t) \/ Inject(t)
      BY <2>4 DEF Steer, Inject
    <2> QED
      BY <2>1, <2>2, <2>3, <2>4
  <1>2. FlowTodo(t)'
    BY <1>1, TodoStays
  <1>6. todo'[t] = <<>> /\ ctx'[t] = <<>> /\ reply'[t] # "unsaid"
    BY <1>0, <1>1 DEF Flow, FlowPlace, FlowCopy, Past, Waiting
  <1>3. FlowCopy(t)'
    BY <1>1, <1>6 DEF FlowCopy, Past
  <1>4. obj'[t] <= made'
    <2>1. CASE Got(t)
      <3>1. obj'[t] = Returned /\ made' = IF current # 0 THEN made ELSE made + 1
        BY <1>0, <2>1 DEF Got, GetAssign, PlaceType
      <3>2. current <= made /\ made \in Nat
        BY <1>0, Bounds DEF FlowInv, Fresh
      <3> QED
        BY <3>1, <3>2 DEF Returned
    <2>2. CASE ~Got(t)
      <3>1. made' = made /\ (obj'[t] = obj[t] \/ obj'[t] = 0)
        BY <1>0, <2>2 DEF Begin, Steer, Inject, Arrive, GetQuery, Unmoved, PlaceType
      <3> QED
        BY <1>0, <3>1, Bounds DEF Flow, FlowPlace
    <2> QED
      BY <2>1, <2>2
  <1>5. FlowPlace(t)'
    BY <1>1, <1>4, <1>6 DEF FlowPlace
  <1> QED
    BY <1>2, <1>3, <1>5 DEF Flow

\* Where a thread is decides whether its calls wait.
LEMMA FlowQuiet ==
  ASSUME FlowInv, NEW t \in Threads, NEW p \in Places, at'[t] = p,
         p \notin {"idle", "query", "got", "begun", "called", "results", "cutting"},
         todo'[t] = <<>>, obj'[t] = obj[t], made' = made,
         p \in {"said", "drain"} => rounds'[t] < MaxRounds,
         p = "final" => "looped" \in marks',
         reply'[t] = "unsaid" => p \in {"ending", "closing"}
  PROVE  Flow(t)'
  <1>1. obj[t] <= made
    BY DEF FlowInv, Flow, FlowPlace
  <1>2. FlowPlace(t)'
    BY <1>1 DEF FlowPlace
  <1>3. FlowCopy(t)'
    BY DEF FlowCopy, Past
  <1> QED
    BY <1>2, <1>3, TodoEmpty DEF Flow

LEMMA FlowInside ==
  ASSUME FlowInv, NEW t \in Threads,
         \/ Compact(t) \/ ModelFails(t) \/ ModelAnswers(t) \/ AfterAnswer(t)
         \/ LoopDetected(t) \/ NextRound(t) \/ StreamsAnswer(t) \/ StreamEnds(t)
         \/ FinalAnswer(t) \/ Pad(t)
  PROVE  Flow(t)'
  <1>0. Flow(t) /\ PlaceType /\ todo \in [Threads -> Seq(Calls)] /\ made' = made /\ obj' = obj
    BY DEF FlowInv, SteerInv, CountType, Compact, ModelFails, ModelAnswers, AfterAnswer,
           LoopDetected, NextRound, StreamsAnswer, StreamEnds, FinalAnswer, Pad, Unmoved
  <1> USE <1>0 DEF Go, PlaceType, Flow, FlowPlace, Places
  <1>1. CASE Compact(t)
    <2>1. /\ at'[t] = "model" /\ todo'[t] = <<>> /\ reply'[t] # "unsaid"
      BY <1>1 DEF Compact
    <2> QED
      BY <2>1, FlowQuiet
  <1>2. CASE ModelFails(t) \/ FinalAnswer(t) \/ StreamsAnswer(t)
    <2>1. at'[t] = "ending" /\ todo'[t] = <<>>
      BY <1>2 DEF ModelFails, FinalAnswer, StreamsAnswer, AsksModel
    <2> QED
      BY <2>1, FlowQuiet
  <1>3. CASE ModelAnswers(t)
    <2>1. /\ at'[t] \in {"said", "ending"} /\ todo'[t] = <<>> /\ rounds'[t] < MaxRounds
          /\ reply'[t] = "unsaid" => at'[t] = "ending"
      BY <1>3 DEF ModelAnswers, AsksModel
    <2> QED
      BY <2>1, FlowQuiet
  <1>4. CASE AfterAnswer(t)
    <2>1. at'[t] \in {"model", "ending"} /\ todo'[t] = <<>> /\ reply'[t] # "unsaid"
      BY <1>4 DEF AfterAnswer
    <2> QED
      BY <2>1, FlowQuiet
  <1>5. CASE LoopDetected(t)
    <2>1. /\ at'[t] = "final" /\ todo'[t] = <<>> /\ reply'[t] # "unsaid"
          /\ "looped" \in marks'
      BY <1>5 DEF LoopDetected
    <2> QED
      BY <2>1, FlowQuiet
  <1>6. CASE NextRound(t)
    <2>1. at'[t] = "model" /\ todo'[t] = <<>> /\ reply'[t] # "unsaid"
      BY <1>6 DEF NextRound
    <2> QED
      BY <2>1, FlowQuiet
  <1>7. CASE StreamEnds(t)
    <2>1. at'[t] \in {"ending", "closing"} /\ todo'[t] = <<>>
      BY <1>7 DEF StreamEnds
    <2> QED
      BY <2>1, FlowQuiet
  <1>8. CASE Pad(t)
    <2>1. at'[t] = "closing" /\ todo'[t] = <<>>
      BY <1>8 DEF Pad
    <2> QED
      BY <2>1, FlowQuiet
  <1> QED
    BY <1>1, <1>2, <1>3, <1>4, <1>5, <1>6, <1>7, <1>8

LEMMA FlowAccept ==
  ASSUME FlowInv, NEW t \in Threads, Accept(t)
  PROVE  Flow(t)'
  <1>0. Flow(t) /\ PlaceType /\ HistoryType /\ obj[t] \in Objects
    BY DEF FlowInv, SteerInv, Held, Accept
  <1>1. /\ at[t] = "begun" /\ at'[t] \in {"model", "cutting"} /\ obj' = obj /\ made' = made
        /\ todo' = todo /\ reply' = reply
        /\ AppendTo(obj[t], <<User>>) /\ ctx'[t] = mem'[obj[t]]
    BY <1>0 DEF Accept, Go, PlaceType, Unmoved, HistoryType
  <1> DEFINE h == mem[obj[t]]
  <1>2. ctx'[t] = h \o <<User>> /\ h \in Histories
    BY <1>0, <1>1, SaidMessages, AppendEffect DEF HistoryType
  <1>3. Len(h \o <<User>>) = Len(h) + 1 /\ (h \o <<User>>)[Len(h) + 1] = User
        /\ h \o <<User>> \in Histories
    <2>1. Joined(h \o <<User>>, h, <<User>>) /\ h \o <<User>> \in Histories
      BY <1>2, SaidMessages, Joins
    <2>2. Len(<<User>>) = 1 /\ <<User>>[1] = User
      OBVIOUS
    <2>3. Len(h \o <<User>>) = Len(h) + Len(<<User>>)
      BY <1>2, SaidMessages, ConcatProperties DEF Histories
    <2> DEFINE g == h \o <<User>>
               u == <<User>>
    <2> HIDE DEF h, g, u
    <2>4. g[Len(h) + 1] = u[1]
      <3>1. Len(h) \in Nat
        BY <1>2, Lengths DEF h
      <3>2. Joined(g, h, u) /\ Len(u) = 1
        BY <2>1, <2>2 DEF g, u
      <3>3. Len(h) + 1 \in Len(h) + 1 .. Len(h) + Len(u) /\ Len(h) + 1 - Len(h) = 1
        BY <3>1, <3>2
      <3> QED
        BY <3>2, <3>3 DEF Joined
    <2> QED
      BY <2>1, <2>2, <2>3, <2>4 DEF g, u
  <1> HIDE DEF h
  <1>4. ctx'[t] # <<>> /\ Last(ctx'[t]) = User
    <2>1. Len(h) \in Nat
      BY <1>2, Lengths
    <2>2. Len(ctx'[t]) = Len(h) + 1 /\ ctx'[t][Len(h) + 1] = User
      BY <1>2, <1>3
    <2> QED
      BY <2>1, <2>2 DEF Last
  <1>5. todo'[t] = <<>> /\ reply'[t] # "unsaid" /\ obj'[t] <= made'
    BY <1>0, <1>1 DEF Flow, FlowPlace
  <1>6. FlowPlace(t)'
    BY <1>1, <1>5 DEF FlowPlace
  <1>7. FlowCopy(t)'
    BY <1>1, <1>4 DEF FlowCopy, Past
  <1> QED
    BY <1>5, <1>6, <1>7, TodoEmpty DEF Flow

LEMMA FlowFinish ==
  ASSUME FlowInv, NEW t \in Threads, Finish(t)
  PROVE  Flow(t)'
  <1>0. Flow(t) /\ PlaceType /\ HistoryType /\ made \in 0..MaxObjects
    BY DEF FlowInv, SteerInv, ObjectType
  <1>1. /\ at'[t] = "idle" /\ todo'[t] = <<>> /\ obj'[t] = 0 /\ ctx'[t] = <<>>
        /\ reply'[t] = "whole" /\ made' = made
    BY <1>0 DEF Finish, Go, PlaceType, HistoryType, Flow, FlowPlace, Unmoved
  <1>2. FlowPlace(t)'
    BY <1>0, <1>1, Bounds DEF FlowPlace
  <1>3. FlowCopy(t)'
    BY <1>1 DEF FlowCopy, Past
  <1> QED
    BY <1>1, <1>2, <1>3, TodoEmpty DEF Flow

LEMMA FlowCalls ==
  ASSUME FlowInv, NEW t \in Threads, ModelCalls(t)
  PROVE  Flow(t)'
  <1>0. Flow(t) /\ PlaceType /\ todo \in [Threads -> Seq(Calls)]
    BY DEF FlowInv, SteerInv, CountType
  <1>1. /\ at[t] = "model" /\ rounds[t] < MaxRounds /\ at'[t] = "called"
        /\ obj' = obj /\ made' = made /\ rounds' = rounds /\ reply' = reply
    BY <1>0 DEF ModelCalls, AsksModel, Go, PlaceType, Unmoved
  <1>2. PICK s \in Seq(Calls) :
          /\ s # <<>> /\ \A i, j \in DOMAIN s : s[i] = s[j] => i = j
          /\ todo' = [todo EXCEPT ![t] = s]
    BY CallsEffect
  <1>3. todo'[t] = s
    BY <1>0, <1>2
  <1>4. FlowPlace(t)'
    BY <1>0, <1>1, <1>2, <1>3 DEF Flow, FlowPlace
  <1>5. FlowTodo(t)'
    BY <1>2, <1>3 DEF FlowTodo
  <1>6. FlowCopy(t)'
    BY <1>1 DEF FlowCopy, Past
  <1> QED
    BY <1>4, <1>5, <1>6 DEF Flow

LEMMA FlowResult ==
  ASSUME FlowInv, NEW t \in Threads, StoreResult(t)
  PROVE  Flow(t)'
  <1>0. Flow(t) /\ PlaceType /\ todo \in [Threads -> Seq(Calls)]
    BY DEF FlowInv, SteerInv, CountType
  <1>1. /\ at[t] \in {"called", "results"} /\ obj' = obj /\ made' = made
        /\ at'[t] = IF Len(todo[t]) = 1 THEN "drain" ELSE "results"
        /\ rounds' = rounds /\ reply' = reply
    BY <1>0 DEF StoreResult, Go, PlaceType, Unmoved
  <1> DEFINE s == todo[t]
             r == Tail(todo[t])
             n == Len(todo[t])
  <1>2. /\ todo' = [todo EXCEPT ![t] = r] /\ r \in Seq(Calls)
        /\ n \in Nat \ {0} /\ DOMAIN r = 1..n - 1 /\ DOMAIN s = 1..n
        /\ \A i \in 1..n - 1 : r[i] = s[i + 1]
    BY ResultEffect
  <1>3. todo'[t] = r
    BY <1>0, <1>2
  <1>4. \A i, j \in DOMAIN s : s[i] = s[j] => i = j
    BY <1>0 DEF Flow, FlowTodo
  <1>5. at'[t] = IF n = 1 THEN "drain" ELSE "results"
    BY <1>1
  <1> HIDE DEF s, r, n
  <1>6. n = 1 <=> r = <<>>
    <2>1. CASE n = 1
      <3>1. DOMAIN r = {}
        BY <1>2, <2>1
      <3>2. Len(r) = 0
        BY <1>2, <3>1
      <3> QED
        BY <1>2, <2>1, <3>2
    <2>2. CASE n # 1
      <3>1. 1 \in DOMAIN r
        BY <1>2, <2>2
      <3>2. r # <<>>
        BY <3>1
      <3> QED
        BY <2>2, <3>2
    <2> QED
      BY <2>1, <2>2
  <1>7. \A i, j \in DOMAIN r : r[i] = r[j] => i = j
    <2> SUFFICES ASSUME NEW i \in 1..n - 1, NEW j \in 1..n - 1, r[i] = r[j] PROVE i = j
      BY <1>2
    <2>1. i + 1 \in DOMAIN s /\ j + 1 \in DOMAIN s /\ s[i + 1] = s[j + 1]
      BY <1>2
    <2>2. i + 1 = j + 1
      BY <1>4, <2>1
    <2> QED
      BY <1>2, <2>2
  <1>9. FlowPlace(t)'
    BY <1>0, <1>1, <1>3, <1>5, <1>6 DEF Flow, FlowPlace
  <1>10. FlowTodo(t)'
    BY <1>1, <1>3, <1>7 DEF FlowTodo
  <1>11. FlowCopy(t)'
    BY <1>5 DEF FlowCopy, Past
  <1> QED
    BY <1>9, <1>10, <1>11 DEF Flow

LEMMA FlowStep ==
  ASSUME FlowInv, [TurnNext]_convVars, SteerInv'
  PROVE  \A t \in Threads : Flow(t)'
  <1>1. CASE UNCHANGED convVars
    BY <1>1 DEF convVars, sessionVars, turnVars, FlowInv, Flow, FlowPlace, FlowTodo,
                FlowCopy, Past
  <1>2. ASSUME NEW t \in Threads, NEW ok \in BOOLEAN, Arrive(t, ok)
        PROVE  \A u \in Threads : Flow(u)'
    BY <1>2, FlowOutside, FlowOthers
  <1>3. ASSUME NEW t \in Threads, Proceed(t)
        PROVE  \A u \in Threads : Flow(u)'
    <2>1. Flow(t)'
      BY <1>3, FlowOutside, FlowInside, FlowAccept, FlowFinish, FlowCalls, FlowResult
         DEF Proceed
    <2> QED
      BY <1>3, <2>1, FlowOthers
  <1>4. CASE Rebuild
    <2>1. UNCHANGED <<at, obj, ctx, reply, todo, rounds>>
      BY <1>4 DEF Rebuild
    <2> QED
      BY <2>1, FlowFrame
  <1>5. CASE Crash
    <2> SUFFICES ASSUME NEW t \in Threads PROVE Flow(t)'
      OBVIOUS
    <2>1. /\ at'[t] = "idle" /\ obj'[t] = 0 /\ ctx'[t] = <<>> /\ reply'[t] = "whole"
          /\ todo'[t] = <<>> /\ made' = made /\ made \in 0..MaxObjects
      BY <1>5 DEF Crash, FlowInv, SteerInv, ObjectType
    <2>2. FlowPlace(t)' /\ FlowCopy(t)'
      BY <2>1, Bounds DEF FlowPlace, FlowCopy, Past
    <2> QED
      BY <2>1, <2>2, TodoEmpty DEF Flow
  <1> QED
    BY <1>1, <1>2, <1>3, <1>4, <1>5 DEF TurnNext

\* An object that is not made yet is empty; appends go to objects in use.
LEMMA FreshStep ==
  ASSUME FlowInv, [TurnNext]_convVars
  PROVE  Fresh'
  <1>0. Fresh /\ mem \in [Objects -> Histories] /\ made \in 0..MaxObjects
        /\ current \in Objects \cup {0} /\ \A t \in Threads : obj[t] <= made
    BY DEF FlowInv, HistoryType, SteerInv, ObjectType, Flow, FlowPlace
  <1>1. ASSUME mem' = mem, made' = made, current' = current \/ current' = 0
        PROVE  Fresh'
    BY <1>0, <1>1, Bounds DEF Fresh
  <1>2. ASSUME NEW o \in Objects, o <= made, NEW h, mem' = [mem EXCEPT ![o] = h],
               made' = made, current' = current
        PROVE  Fresh'
    BY <1>0, <1>2, Bounds DEF Fresh
  <1>3. ASSUME NEW t \in Threads, Got(t) PROVE Fresh'
    <2>1. /\ made' = IF current # 0 THEN made ELSE made + 1
          /\ current' = Returned /\ mem' = [mem EXCEPT ![Returned] = Reloaded(Returned)]
      BY <1>3 DEF Got, GetAssign
    <2> DEFINE h == Reloaded(Returned)
    <2> HIDE DEF h
    <2>2. CASE current # 0
      <3>1. Returned = current /\ made' = made /\ current' = current
            /\ mem' = [mem EXCEPT ![current] = h] /\ current \in Objects /\ current <= made
        BY <1>0, <2>1, <2>2 DEF Fresh, Returned, h
      <3> QED
        BY <1>2, <3>1
    <2>3. CASE current = 0
      <3>1. made' = made + 1 /\ current' = made + 1 /\ mem' = [mem EXCEPT ![made + 1] = h]
        BY <2>1, <2>3 DEF Returned, h
      <3> QED
        BY <1>0, <3>1, Bounds DEF Fresh
    <2> QED
      BY <2>2, <2>3
  <1>4. ASSUME NEW t \in Threads, PlainStep(t) PROVE Fresh'
    <2>1. obj[t] \in Objects /\ (mem' = mem \/ \E h : mem' = [mem EXCEPT ![obj[t]] = h])
      BY <1>4, PlainEffect, AppendEffect DEF Keeps, Speaks, FlowInv
    <2>2. made' = made /\ current' = current
      BY <1>4 DEF PlainStep, Begin, Accept, ModelFails, ModelAnswers, AfterAnswer,
                  LoopDetected, NextRound, StreamsAnswer, StreamEnds, FinalAnswer, Finish,
                  Steer, Inject, Unmoved
    <2> QED
      BY <1>0, <1>1, <1>2, <2>1, <2>2
  <1>5. ASSUME NEW t \in Threads, ModelCalls(t) \/ StoreResult(t) \/ Pad(t) \/ Compact(t)
        PROVE  Fresh'
    <2>1. obj[t] \in Objects
      BY <1>5 DEF ModelCalls, StoreResult, Pad, Compact, AsksModel, FlowInv, SteerInv, Held
    <2>2. \E h : mem' = [mem EXCEPT ![obj[t]] = h]
      <3>1. CASE Compact(t)
        BY <3>1 DEF Compact, Replace
      <3>2. CASE ModelCalls(t) \/ StoreResult(t) \/ Pad(t)
        <4>1. \E m \in Histories : AppendTo(obj[t], m)
          BY <3>2, CallsEffect, ResultEffect, PadEffect
        <4> QED
          BY <2>1, <4>1, AppendEffect DEF FlowInv
      <3> QED
        BY <1>5, <3>1, <3>2
    <2>3. made' = made /\ current' = current
      BY <1>5 DEF ModelCalls, StoreResult, Pad, Compact, Unmoved
    <2> QED
      BY <1>0, <1>2, <2>1, <2>2, <2>3
  <1>6. ASSUME NEW t \in Threads, NEW ok \in BOOLEAN, Arrive(t, ok) PROVE Fresh'
    BY <1>1, <1>6 DEF Arrive, GetQuery
  <1>7. CASE UNCHANGED convVars
    BY <1>1, <1>7 DEF convVars, sessionVars
  <1>8. CASE Rebuild \/ Crash
    BY <1>1, <1>8 DEF Rebuild, NewManager, Crash, DropObjects
  <1> QED
    BY <1>3, <1>4, <1>5, <1>6, <1>7, <1>8 DEF TurnNext, Proceed, PlainStep

\* Only PushSteer fills a buffer, and with the user's message.
LEMMA OnlyUsersStep ==
  ASSUME FlowInv, [TurnNext]_convVars
  PROVE  OnlyUsers'
  <1>0. OnlyUsers /\ steerBuf \in [Objects -> Histories]
    BY DEF FlowInv, SteerInv, ObjectType
  <1>1. ASSUME steerBuf' = steerBuf PROVE OnlyUsers'
    BY <1>0, <1>1 DEF OnlyUsers
  <1>2. ASSUME NEW o, steerBuf' = [steerBuf EXCEPT ![o] = <<>>] PROVE OnlyUsers'
    BY <1>0, <1>2 DEF OnlyUsers
  <1>3. ASSUME NEW o \in Objects, steerBuf' = [steerBuf EXCEPT ![o] = Append(@, User)]
        PROVE  OnlyUsers'
    <2> SUFFICES ASSUME NEW p \in Objects, NEW i \in DOMAIN steerBuf'[p]
                 PROVE  steerBuf'[p][i] = User
      BY DEF OnlyUsers
    <2>1. CASE p # o
      BY <1>0, <1>3, <2>1 DEF OnlyUsers
    <2>2. CASE p = o
      <3> DEFINE b == steerBuf[o]
      <3>1. steerBuf'[p] = Append(b, User)
        BY <1>0, <1>3, <2>2
      <3>2. b \in Seq(Message) /\ \A j \in DOMAIN b : b[j] = User
        BY <1>0 DEF OnlyUsers, Histories
      <3>3. User \in Message
        BY DEF User, Said, Message
      <3> HIDE DEF b
      <3>4. i \in DOMAIN Append(b, User)
        BY <3>1
      <3>5. Append(b, User)[i] = User
        BY <3>2, <3>3, <3>4, AppendProperties, LenProperties
      <3> QED
        BY <3>1, <3>5
    <2> QED
      BY <2>1, <2>2
  <1>4. ASSUME NEW t \in Threads, NEW ok \in BOOLEAN, Arrive(t, ok) PROVE OnlyUsers'
    BY <1>1, <1>4 DEF Arrive, GetQuery
  <1>5. ASSUME NEW t \in Threads, Proceed(t) PROVE OnlyUsers'
    <2>1. CASE Steer(t)
      <3>1. obj[t] \in Objects
        BY <2>1 DEF Steer, FlowInv, SteerInv, Held
      <3> QED
        BY <1>1, <1>3, <2>1, <3>1 DEF Steer, PushSteer, Quiet
    <2>2. CASE Finish(t)
      <3>1. \/ steerBuf' = steerBuf \/ steerBuf' = [steerBuf EXCEPT ![obj[t]] = <<>>]
            \/ steerBuf' = [steerBuf EXCEPT ![obj[t]] = steerBuf[obj[t]]]
        BY <2>2 DEF Finish, EndTurn, Quiet
      <3>2. steerBuf' = [steerBuf EXCEPT ![obj[t]] = steerBuf[obj[t]]] => steerBuf' = steerBuf
        BY <1>0
      <3> QED
        BY <1>1, <1>2, <3>1, <3>2
    <2>3. CASE AfterAnswer(t) \/ NextRound(t)
      BY <1>1, <1>2, <2>3 DEF AfterAnswer, NextRound, DrainSteer, Quiet
    <2>4. CASE Got(t) \/ Begin(t)
      BY <1>1, <2>4 DEF Got, GetAssign, Begin, BeginTurn, Quiet
    <2>5. CASE ~(Steer(t) \/ Finish(t) \/ AfterAnswer(t) \/ NextRound(t) \/ Got(t) \/ Begin(t))
      <3>1. Quiet
        BY <1>5, <2>5 DEF Proceed, Accept, Compact, ModelFails, ModelAnswers, ModelCalls,
              LoopDetected, StoreResult, StreamsAnswer, StreamEnds, FinalAnswer, Pad, Inject
      <3> QED
        BY <1>1, <3>1 DEF Quiet
    <2> QED
      BY <2>1, <2>2, <2>3, <2>4, <2>5
  <1>6. CASE Rebuild
    BY <1>1, <1>6 DEF Rebuild, NewManager
  <1>7. CASE Crash
    BY <1>7 DEF Crash, DropObjects, OnlyUsers
  <1>8. CASE UNCHANGED convVars
    BY <1>1, <1>8 DEF convVars, sessionVars
  <1> QED
    BY <1>4, <1>5, <1>6, <1>7, <1>8 DEF TurnNext

LEMMA FlowInit ==
  ASSUME TurnInit
  PROVE  FlowInv
  <1>1. SteerInv
    BY SteerInit
  <1>2. HistoryType
    BY SaidMessages DEF TurnInit, SessionInit, HistoryType
  <1>3. CountType
    BY Bounds DEF TurnInit, SessionInit, CountType
  <1>4. ASSUME NEW t \in Threads PROVE Flow(t)
    <2>1. /\ at[t] = "idle" /\ obj[t] = 0 /\ ctx[t] = <<>> /\ reply[t] = "whole"
          /\ todo[t] = <<>> /\ made = 0
      BY DEF TurnInit, SessionInit
    <2>2. FlowTodo(t)
      BY <2>1 DEF FlowTodo
    <2> QED
      BY <2>1, <2>2 DEF Flow, FlowPlace, FlowCopy, Past
  <1>5. Fresh
    BY DEF TurnInit, SessionInit, Fresh
  <1>6. OnlyUsers
    BY DEF TurnInit, SessionInit, OnlyUsers
  <1> QED
    BY <1>1, <1>2, <1>3, <1>4, <1>5, <1>6 DEF FlowInv

LEMMA FlowInvStep ==
  ASSUME FlowInv, [TurnNext]_convVars
  PROVE  FlowInv'
  <1>1. SteerInv'
    BY SteerStep DEF FlowInv
  <1> QED
    BY <1>1, HistoryStep, CountStep, FlowStep, FreshStep, OnlyUsersStep DEF FlowInv

LEMMA FlowAlways == TurnSpec => []FlowInv
  <1>1. TurnInit => FlowInv
    BY FlowInit
  <1>2. FlowInv /\ [TurnNext]_convVars => FlowInv'
    BY FlowInvStep
  <1> QED
    BY <1>1, <1>2, PTL DEF TurnSpec

\* The variables of a conversation keep their types: the loop counts no round
\* beyond maxToolIterations, and what is appended is a message (loop.go,
\* manager.go).
THEOREM TurnTypeTheorem == TurnSpec => []TurnType
  <1>1. FlowInv => TurnType
    BY TurnTypeParts DEF FlowInv, SteerInv
  <1> QED
    BY <1>1, FlowAlways, PTL
-----------------------------------------------------------------------------
(* The stored history grows.                                               *)

\* A step leaves the row and the objects alone, reads the row back, compacts, or
\* appends to the object of its thread.
Appends(t) == /\ obj[t] \in Objects /\ current' = current
              /\ \E m \in Histories : AppendTo(obj[t], m)

LEMMA HistoryMoves ==
  ASSUME FlowInv, [TurnNext]_convVars
  PROVE  \/ Keeps /\ current' \in {current, 0}
         \/ \E t \in Threads : Got(t) \/ Compact(t) \/ Appends(t)
  <1>1. ASSUME NEW t \in Threads, PlainStep(t)
        PROVE  (Keeps /\ current' = current) \/ Appends(t)
    <2>1. current' = current
      BY <1>1 DEF PlainStep, Begin, Accept, ModelFails, ModelAnswers, AfterAnswer,
                  LoopDetected, NextRound, StreamsAnswer, StreamEnds, FinalAnswer, Finish,
                  Steer, Inject, Unmoved
    <2>2. obj[t] \in Objects /\ (Keeps \/ Speaks(t))
      BY <1>1, PlainEffect
    <2> QED
      BY <2>1, <2>2 DEF Speaks, Appends
  <1>2. ASSUME NEW t \in Threads, ModelCalls(t) \/ StoreResult(t) \/ Pad(t)
        PROVE  Appends(t)
    <2>1. obj[t] \in Objects /\ current' = current
      BY <1>2 DEF ModelCalls, StoreResult, Pad, AsksModel, Unmoved, FlowInv, SteerInv, Held
    <2>2. \E m \in Histories : AppendTo(obj[t], m)
      BY <1>2, CallsEffect, ResultEffect, PadEffect
    <2> QED
      BY <2>1, <2>2 DEF Appends
  <1>3. ASSUME NEW t \in Threads, NEW ok \in BOOLEAN, Arrive(t, ok)
        PROVE  Keeps /\ current' \in {current, 0}
    BY <1>3 DEF Arrive, GetQuery, Keeps
  <1>4. CASE Rebuild \/ Crash
    BY <1>4 DEF Rebuild, NewManager, Crash, DropObjects, Keeps
  <1>5. CASE UNCHANGED convVars
    BY <1>5 DEF convVars, sessionVars, Keeps
  <1> QED
    BY <1>1, <1>2, <1>3, <1>4, <1>5 DEF TurnNext, Proceed, PlainStep

\* While the manager was not replaced under a thread, all threads hold the
\* object of its map; while nothing was lost, that object holds at least the row.
OneObject == "twoObjects" \notin marks => \A t \in Threads : obj[t] \in {0, current}
RowHeld   == marks \cap Losses = {} /\ current # 0 => IsPrefix(row, mem[current])

LossInv == FlowInv /\ OneObject /\ RowHeld

LEMMA OneObjectStep ==
  ASSUME FlowInv, OneObject, [TurnNext]_convVars
  PROVE  OneObject'
  <1>0. obj \in [Threads -> Objects \cup {0}] /\ marks \subseteq marks'
    BY Grows DEF FlowInv, SteerInv, PlaceType, ObjectType, CountType
  <1> SUFFICES ASSUME "twoObjects" \notin marks', NEW u \in Threads
               PROVE  obj'[u] \in {0, current'}
    BY DEF OneObject
  <1>1. obj[u] \in {0, current}
    BY <1>0 DEF OneObject
  <1>2. ASSUME current' = current, obj'[u] \in {obj[u], 0} PROVE obj'[u] \in {0, current'}
    BY <1>1, <1>2
  <1>3. ASSUME NEW t \in Threads, Got(t) PROVE obj'[u] \in {0, current'}
    <2>1. current' = Returned /\ obj' = [obj EXCEPT ![t] = Returned]
      BY <1>3 DEF Got, GetAssign
    <2>2. current # 0 => Returned = current
      BY DEF Returned
    <2> QED
      BY <1>0, <1>1, <2>1, <2>2
  <1>4. ASSUME NEW t \in Threads, NEW ok \in BOOLEAN, Arrive(t, ok)
        PROVE  obj'[u] \in {0, current'}
    BY <1>2, <1>4 DEF Arrive, GetQuery
  <1>5. ASSUME NEW t \in Threads, Finish(t) \/ Steer(t) \/ Inject(t)
        PROVE  obj'[u] \in {0, current'}
    <2>1. current' = current /\ obj' = [obj EXCEPT ![t] = 0]
      BY <1>5 DEF Finish, Steer, Inject, Unmoved
    <2> QED
      BY <1>0, <1>2, <2>1
  <1>6. ASSUME NEW t \in Threads, Proceed(t), ~(Got(t) \/ Finish(t) \/ Steer(t) \/ Inject(t))
        PROVE  obj'[u] \in {0, current'}
    <2>1. current' = current /\ obj' = obj
      BY <1>6 DEF Proceed, Begin, Accept, Compact, ModelFails, ModelAnswers, AfterAnswer,
                  ModelCalls, LoopDetected, StoreResult, NextRound, StreamsAnswer,
                  StreamEnds, FinalAnswer, Pad, Unmoved
    <2> QED
      BY <1>2, <2>1
  <1>7. CASE Rebuild
    <2>1. at[u] = "idle" /\ obj' = obj
      BY <1>7 DEF Rebuild
    <2>2. obj[u] = 0
      BY <2>1 DEF FlowInv, Flow, FlowPlace
    <2> QED
      BY <2>1, <2>2
  <1>8. CASE Crash
    BY <1>8 DEF Crash
  <1>9. CASE UNCHANGED convVars
    BY <1>2, <1>9 DEF convVars, sessionVars, turnVars
  <1> QED
    BY <1>3, <1>4, <1>5, <1>6, <1>7, <1>8, <1>9 DEF TurnNext

\* Where nothing was lost, an append goes to the object that holds the row.
LEMMA AppendsToRow ==
  ASSUME LossInv, marks \cap Losses = {}, NEW t \in Threads, obj[t] \in Objects
  PROVE  obj[t] = current /\ IsPrefix(row, mem[obj[t]])
  <1>1. obj[t] # 0
    BY Bounds
  <1>2. obj[t] = current
    BY <1>1 DEF LossInv, OneObject, Losses
  <1> QED
    BY <1>1, <1>2 DEF LossInv, RowHeld

LEMMA RowHeldStep ==
  ASSUME LossInv, [TurnNext]_convVars
  PROVE  RowHeld'
  <1>0. /\ FlowInv /\ mem \in [Objects -> Histories] /\ marks \subseteq marks'
        /\ HistoryType /\ Objects \subseteq Nat /\ 0 \notin Objects /\ row \in Histories
        /\ IsPrefix(row, row)
    BY Grows, Bounds, JoinedPrefix DEF LossInv, FlowInv, SteerInv, HistoryType
  <1> SUFFICES ASSUME marks' \cap Losses = {}, current' # 0
               PROVE  IsPrefix(row', mem'[current'])
    BY DEF RowHeld
  <1>1. marks \cap Losses = {}
    BY <1>0
  <1>2. CASE Keeps /\ current' \in {current, 0}
    BY <1>1, <1>2 DEF Keeps, LossInv, RowHeld
  <1>3. ASSUME NEW t \in Threads, Appends(t) PROVE IsPrefix(row', mem'[current'])
    <2>1. obj[t] = current /\ IsPrefix(row, mem[current]) /\ obj[t] \in Objects
      BY <1>1, <1>3, AppendsToRow DEF Appends
    <2>2. PICK m \in Histories : AppendTo(obj[t], m)
      BY <1>3 DEF Appends
    <2>3. /\ mem'[current] = mem[current] \o m /\ mem[current] \in Histories
          /\ row' = row \/ IsPrefix(row', mem'[current])
      BY <1>0, <2>1, <2>2, AppendEffect
    <2>4. IsPrefix(mem[current], mem[current] \o m) /\ mem[current] \o m \in Histories
      BY <2>3, JoinedPrefix, Joins
    <2>5. IsPrefix(row, mem[current] \o m)
      BY <1>0, <2>1, <2>3, <2>4, PrefixChain
    <2> QED
      BY <1>3, <2>3, <2>5 DEF Appends
  <1>4. ASSUME NEW t \in Threads, Compact(t) PROVE IsPrefix(row', mem'[current'])
    <2>0. PICK g \in Histories :
            /\ obj[t] \in Objects /\ mem' = [mem EXCEPT ![obj[t]] = g]
            /\ row' = g \/ (row' = row /\ "uncut" \in marks')
      BY <1>0, <1>4, CompactEffect
    <2>1. obj[t] \in Objects /\ current' = current
      BY <1>4, <2>0 DEF Compact, Unmoved
    <2>2. obj[t] = current
      BY <1>1, <2>1, AppendsToRow
    <2>3. row' = g /\ mem'[current'] = g
      BY <1>0, <2>0, <2>1, <2>2 DEF Losses
    <2> QED
      BY <2>3, JoinedPrefix
  <1>5. ASSUME NEW t \in Threads, Got(t) PROVE IsPrefix(row', mem'[current'])
    <2>1. /\ Returned \in Objects /\ row' = row /\ current' = Returned
          /\ mem' = [mem EXCEPT ![Returned] = Reloaded(Returned)]
      BY <1>0, <1>5, GotObject
    <2>2. mem'[current'] = Reloaded(Returned)
      BY <1>0, <2>1
    <2>3. queryOK => fetched = row
      BY <1>5 DEF Got, GetAssign, Losses
    <2>4. current = 0 /\ ~queryOK => row = <<>>
      BY <1>5 DEF Got, GetAssign, Losses
    <2>5. CASE queryOK
      BY <1>0, <2>1, <2>2, <2>3, <2>5 DEF Reloaded
    <2>6. CASE ~queryOK /\ current # 0
      BY <1>1, <2>1, <2>2, <2>6 DEF Reloaded, Returned, LossInv, RowHeld
    <2>7. CASE ~queryOK /\ current = 0
      <3>1. Returned = made + 1 /\ made \in Nat
        BY <1>0, <2>7, Bounds DEF Returned, FlowInv, SteerInv, ObjectType
      <3>2. mem[Returned] = <<>>
        BY <1>0, <2>1, <3>1 DEF FlowInv, Fresh
      <3> QED
        BY <1>0, <2>1, <2>2, <2>4, <2>7, <3>2 DEF Reloaded
    <2> QED
      BY <2>5, <2>6, <2>7
  <1> QED
    BY <1>0, <1>2, <1>3, <1>4, <1>5, HistoryMoves

LEMMA LossAlways == TurnSpec => []LossInv
  <1>1. TurnInit => LossInv
    BY FlowInit DEF TurnInit, SessionInit, LossInv, OneObject, RowHeld
  <1>2. LossInv /\ [TurnNext]_convVars => LossInv'
    BY FlowInvStep, OneObjectStep, RowHeldStep DEF LossInv
  <1> QED
    BY <1>1, <1>2, PTL DEF TurnSpec

\* What a compaction leaves ends with what was said last.
LEMMA CompressedLast ==
  ASSUME NEW h \in Histories, h # <<>>, Last(h) = User
  PROVE  Last(Compressed(h)) = Last(h)
  <1> DEFINE g == Compressed(h)
             c == Cutoff(h)
             n == Len(h)
  <1>1. g \in Histories /\ (g = h \/ Cut(g, h, c)) /\ c \in 0..n /\ n \in Nat
    BY CompressedCut, CutoffAt, Lengths, Bounds
  <1>2. Len(g) \in Nat /\ DOMAIN g = 1..Len(g) /\ h[n] = User
    BY <1>1, Lengths DEF Last
  <1> HIDE DEF g, c
  <1>3. ASSUME Cut(g, h, c) PROVE Last(g) = Last(h)
    <2>1. Len(g) = n - c + 1 /\ g[1] = User /\ \A k \in 2..n - c + 1 : g[k] = h[k - 1 + c]
      BY <1>1, <1>2, <1>3 DEF Cut
    <2>2. CASE c = n
      BY <1>1, <1>2, <2>1, <2>2 DEF Last
    <2>3. CASE c # n
      <3> HIDE DEF n
      <3>1. Len(g) \in 2..n - c + 1 /\ Len(g) - 1 + c = n
        BY <1>1, <1>2, <2>1, <2>3
      <3>2. g[Len(g)] = h[n]
        BY <2>1, <3>1
      <3> QED
        BY <3>2 DEF Last, n
    <2> QED
      BY <2>2, <2>3
  <1> QED
    BY <1>1, <1>3 DEF g

\* While no turn reads back a row older than the object, starts empty, goes on
\* in an object that was replaced or leaves a compaction unsaved, nothing that
\* was stored is lost, by whichever goroutine and however many saves fail
\* (Session.Append, manager.go:455-480; CompactMessages, loop.go).
THEOREM HistoryGrowsTheorem == TurnSpec => HistoryGrows
  <1> DEFINE Grown == marks' \cap Losses = {}
         => \/ IsPrefix(row, row')
            \/ \E t \in Threads :
                  /\ Compact(t)
                  /\ "lateCut" \in marks' \/ Last(row') = Last(mem[obj[t]])
  <1>1. LossInv /\ [TurnNext]_convVars => Grown
    <2> SUFFICES ASSUME LossInv, [TurnNext]_convVars, marks' \cap Losses = {}
                 PROVE  \/ IsPrefix(row, row')
                        \/ \E t \in Threads :
                              /\ Compact(t)
                              /\ "lateCut" \in marks' \/ Last(row') = Last(mem[obj[t]])
      OBVIOUS
    <2>0. FlowInv /\ HistoryType /\ row \in Histories /\ marks \cap Losses = {}
      BY Grows DEF LossInv, FlowInv, SteerInv, HistoryType
    <2>1. CASE row' = row
      BY <2>0, <2>1, JoinedPrefix
    <2>2. ASSUME NEW t \in Threads, Appends(t) PROVE IsPrefix(row, row')
      <3>1. PICK m \in Histories : AppendTo(obj[t], m)
        BY <2>2 DEF Appends
      <3>2. obj[t] \in Objects /\ IsPrefix(row, mem[obj[t]]) /\ mem[obj[t]] \in Histories
        BY <2>0, <2>2, AppendsToRow DEF Appends, HistoryType
      <3>3. row' \in Histories /\ (row' = row \/ IsPrefix(mem[obj[t]], row'))
        BY <2>0, <3>1, <3>2, AppendEffect
      <3> QED
        BY <2>0, <3>2, <3>3, JoinedPrefix, PrefixChain
    <2>3. ASSUME NEW t \in Threads, Compact(t)
          PROVE  "lateCut" \in marks' \/ Last(row') = Last(mem[obj[t]])
      <3>1. PICK g \in Histories :
               /\ g \in {ctx[t], Compressed(ctx[t])} /\ ctx[t] \in Histories
               /\ row' = g \/ "uncut" \in marks'
               /\ mem[obj[t]] # ctx[t] => "lateCut" \in marks'
        BY <2>0, <2>3, CompactEffect
      <3>2. row' = g
        BY <3>1 DEF Losses
      <3>3. ctx[t] # <<>> /\ Last(ctx[t]) = User
        BY <2>0, <2>3 DEF Compact, FlowInv, Flow, FlowCopy
      <3> QED
        BY <3>1, <3>2, <3>3, CompressedLast
    <2> QED
      BY <2>0, <2>1, <2>2, <2>3, HistoryMoves, GotObject DEF Keeps
  <1>2. [][Grown]_convVars <=> HistoryGrows
    BY DEF HistoryGrows
  <1> HIDE DEF Grown
  <1>3. TurnSpec => [][Grown]_convVars
    BY <1>1, LossAlways, PTL DEF TurnSpec
  <1> QED
    BY <1>2, <1>3
-----------------------------------------------------------------------------
(* Turns that do not get tangled.                                          *)

\* The calls that await their results.
Pending == UNION {ToSet(todo[t]) : t \in Threads}

\* The conversation that the turns go on from: what the object has, or the row
\* before one is loaded; and the turns' copies of it.
Text == IF current = 0 \/ mem[current] = <<>> THEN row ELSE mem[current]
Live == {Text} \cup {ctx[t] : t \in Threads}

\* One turn works at a time, on an object that has its message at least; the row
\* and every history are regular; and until an identifier is given twice, each
\* call is made once, before its result.
OneTurn        == \A t, u \in Threads : Working(t) /\ Working(u) => t = u
HasText        == \A t \in Threads : Past(t) => current # 0 /\ mem[current] # <<>>
RegularCopies  == Once(row) /\ \A h \in Live : Regular(h, Pending)
DistinctCopies == SingleUse(row) /\ \A h \in Live : SingleUse(h)

CalmInv ==
    /\ LossInv
    /\ ~Tangled => /\ OneTurn /\ HasText /\ RegularCopies
                   /\ "reissued" \notin marks => DistinctCopies

LEMMA TangledStays ==
  ASSUME FlowInv, [TurnNext]_convVars, ~Tangled'
  PROVE  ~Tangled
  <1>1. marks \subseteq marks'
    BY Grows DEF FlowInv, SteerInv
  <1> QED
    BY <1>1 DEF Tangled

LEMMA PastWorks ==
  ASSUME FlowInv, NEW t \in Threads, Past(t) \/ todo[t] # <<>>
  PROVE  Working(t) /\ obj[t] \in Objects /\ Past(t)
  <1>1. Past(t)
    BY DEF FlowInv, Flow, FlowPlace, Past
  <1> QED
    BY <1>1 DEF Past, Working, FlowInv, SteerInv, Held, SidesWait, Waiting

\* A turn begins to work, with Begin, where no other works.
LEMMA OneTurnStep ==
  ASSUME FlowInv, OneTurn, [TurnNext]_convVars, ~Tangled'
  PROVE  OneTurn'
  <1>0. PlaceType /\ HistoryType /\ CountType
    BY DEF FlowInv, SteerInv
  <1>1. ASSUME \A u \in Threads : Working(u)' => Working(u) PROVE OneTurn'
    BY <1>1 DEF OneTurn
  <1>2. ASSUME NEW t \in Threads, Begin(t) PROVE OneTurn'
    <2>1. Alone(t) /\ ~Breaks(t)
      BY <1>0, <1>2, StepAlone DEF Proceed, Begin, Overlap, Tangled
    <2>2. ASSUME NEW u \in Threads \ {t} PROVE ~Working(u)'
      <3>1. ~Working(u)
        BY <2>1, Bounds DEF Breaks, FlowInv, SteerInv, Held, Working
      <3> QED
        BY <2>1, <3>1 DEF Alone, Working
    <2> QED
      BY <2>2 DEF OneTurn
  <1>3. ASSUME NEW t \in Threads, Proceed(t), ~Begin(t) PROVE OneTurn'
    <2>1. Alone(t)
      BY <1>0, <1>3, StepAlone
    <2>2. Working(t)' => Working(t)
      BY <1>0, <1>3 DEF FlowInv, SteerInv, SidesWait, Waiting, PlaceType, Proceed,
         Got, Accept, Compact, ModelFails, ModelAnswers, AfterAnswer, ModelCalls,
         LoopDetected, StoreResult, NextRound, StreamsAnswer, StreamEnds, FinalAnswer,
         Pad, Finish, Steer, Inject, Working, Go, AsksModel
    <2>3. \A u \in Threads \ {t} : Working(u)' => Working(u)
      BY <2>1 DEF Alone, Working
    <2> QED
      BY <1>1, <2>2, <2>3
  <1>4. ASSUME NEW t \in Threads, NEW ok \in BOOLEAN, Arrive(t, ok) PROVE OneTurn'
    <2>1. at' = [at EXCEPT ![t] = "query"]
      BY <1>4 DEF Arrive, Go
    <2> QED
      BY <1>0, <1>1, <2>1 DEF Working, PlaceType
  <1>5. CASE Rebuild \/ Crash
    BY <1>1, <1>5 DEF Rebuild, Crash, Working
  <1>6. CASE UNCHANGED convVars
    BY <1>1, <1>6 DEF convVars, turnVars, Working
  <1> QED
    BY <1>2, <1>3, <1>4, <1>5, <1>6 DEF TurnNext

\* Who is past its message was so, or stores it now.
LEMMA PastWas ==
  ASSUME FlowInv, [TurnNext]_convVars, NEW u \in Threads, Past(u)'
  PROVE  Past(u) \/ Accept(u)
  <1>0. PlaceType /\ HistoryType /\ CountType
    BY DEF FlowInv, SteerInv
  <1>1. ASSUME NEW t \in Threads, Proceed(t) PROVE Past(u) \/ Accept(u)
    <2>1. Alone(t)
      BY <1>0, <1>1, StepAlone
    <2>2. CASE u # t
      BY <2>1, <2>2 DEF Alone, Past
    <2>3. CASE u = t
      BY <1>0, <1>1, <2>3 DEF PlaceType, Proceed, Flow, FlowInv, FlowPlace,
         Got, Begin, Compact, ModelFails, ModelAnswers, AfterAnswer, ModelCalls,
         LoopDetected, StoreResult, NextRound, StreamsAnswer, StreamEnds, FinalAnswer,
         Pad, Finish, Steer, Inject, Past, Go, AsksModel
    <2> QED
      BY <2>2, <2>3
  <1>2. ASSUME NEW t \in Threads, NEW ok \in BOOLEAN, Arrive(t, ok)
        PROVE  Past(u) \/ Accept(u)
    <2>1. at' = [at EXCEPT ![t] = "query"]
      BY <1>2 DEF Arrive, Go
    <2> QED
      BY <1>0, <2>1 DEF Past, PlaceType
  <1>3. CASE Rebuild \/ Crash
    BY <1>3 DEF Rebuild, Crash, Past
  <1>4. CASE UNCHANGED convVars
    BY <1>4 DEF convVars, turnVars, Past
  <1> QED
    BY <1>1, <1>2, <1>3, <1>4 DEF TurnNext

\* A thread past its Get holds the object of the manager's map.
LEMMA HoldsCurrent ==
  ASSUME LossInv, ~Tangled, NEW t \in Threads, obj[t] \in Objects
  PROVE  obj[t] = current /\ current # 0
  <1>1. obj[t] # 0 /\ "twoObjects" \notin marks
    BY Bounds DEF Tangled
  <1> QED
    BY <1>1 DEF LossInv, OneObject

LEMMA JoinedSome ==
  ASSUME NEW h \in Histories, NEW m \in Histories, h # <<>> \/ m # <<>>
  PROVE  h \o m # <<>>
  <1>1. /\ Len(h) \in Nat /\ Len(m) \in Nat /\ Len(h \o m) = Len(h) + Len(m)
        /\ Len(h) # 0 \/ Len(m) # 0
    BY ConcatProperties, EmptySeq, Lengths DEF Histories
  <1>2. Len(h \o m) # 0
    BY <1>1
  <1> QED
    BY <1>2

\* An append changes the text only: by the messages, or it starts the text where
\* the object was empty; what is saved of it is a prefix.
LEMMA TextAppended ==
  ASSUME LossInv, ~Tangled, NEW t \in Threads, obj[t] \in Objects, current' = current,
         NEW m \in Histories, AppendTo(obj[t], m)
  PROVE  /\ obj[t] = current /\ mem[obj[t]] \in {Text, <<>>}
         /\ mem'[obj[t]] = mem[obj[t]] \o m
         /\ Text' = Text \/ Text' = mem[obj[t]] \o m
         /\ mem[obj[t]] # <<>> => mem[obj[t]] = Text /\ Text' = Text \o m
         /\ row' = row \/ IsPrefix(row', Text')
  <1>1. obj[t] = current /\ current # 0
    BY HoldsCurrent
  <1>2. HistoryType /\ mem[current] \in Histories
    BY <1>1 DEF LossInv, FlowInv, HistoryType
  <1>3. /\ mem'[current] = mem[current] \o m
        /\ row' = row \/ IsPrefix(row', mem'[current])
        /\ m = <<>> => row' = row /\ mem' = mem
    BY <1>1, <1>2, AppendEffect
  <1>4. CASE mem[current] # <<>>
    <2>1. mem'[current] # <<>>
      BY <1>2, <1>3, <1>4, JoinedSome
    <2> QED
      BY <1>1, <1>3, <1>4, <2>1 DEF Text
  <1>5. CASE mem[current] = <<>> /\ m = <<>>
    BY <1>1, <1>3, <1>5 DEF Text
  <1>6. CASE mem[current] = <<>> /\ m # <<>>
    <2>1. mem'[current] # <<>>
      BY <1>2, <1>3, <1>6, JoinedSome
    <2> QED
      BY <1>1, <1>3, <1>6, <2>1 DEF Text
  <1> QED
    BY <1>4, <1>5, <1>6

\* A compaction leaves something.
LEMMA CompressedSome ==
  ASSUME NEW h \in Histories, h # <<>>
  PROVE  Compressed(h) # <<>>
  <1> DEFINE g == Compressed(h)
             c == Cutoff(h)
  <1>1. g \in Histories /\ (g = h \/ Cut(g, h, c)) /\ c \in 0..Len(h) /\ Len(h) \in Nat
    BY CompressedCut, CutoffAt, Lengths, Bounds
  <1> HIDE DEF g, c
  <1>2. ASSUME Cut(g, h, c) PROVE g # <<>>
    <2>1. 1 \in DOMAIN g
      BY <1>1, <1>2 DEF Cut
    <2> QED
      BY <2>1
  <1> QED
    BY <1>1, <1>2 DEF g

LEMMA TextCompacted ==
  ASSUME LossInv, ~Tangled, NEW t \in Threads, Compact(t)
  PROVE  \E g \in Histories :
            /\ g \in {ctx[t], Compressed(ctx[t])} /\ g # <<>>
            /\ Text' = g /\ mem'[current'] = g /\ row' \in {row, g}
            /\ ctx' = [ctx EXCEPT ![t] = g] /\ todo' = todo
            /\ g # ctx[t] => "cut" \in marks'
            /\ "reissued" \in marks' => "reissued" \in marks
  <1>0. FlowInv /\ HistoryType
    BY DEF LossInv, FlowInv
  <1>1. PICK g \in Histories :
            /\ g \in {ctx[t], Compressed(ctx[t])}
            /\ ctx[t] \in Histories /\ obj[t] \in Objects
            /\ mem' = [mem EXCEPT ![obj[t]] = g]
            /\ row' = g \/ row' = row
            /\ ctx' = [ctx EXCEPT ![t] = g] /\ todo' = todo
            /\ g # ctx[t] => "cut" \in marks'
            /\ marks' \subseteq marks \cup {"lateCut", "cut", "uncut"}
    BY <1>0, CompactEffect
  <1>2. obj[t] = current /\ current # 0 /\ current' = current
    BY <1>1, HoldsCurrent DEF Compact, Unmoved
  <1>3. ctx[t] # <<>>
    BY <1>0 DEF Compact, FlowInv, Flow, FlowCopy
  <1>4. g # <<>>
    BY <1>1, <1>3, CompressedSome
  <1>5. mem'[current'] = g
    BY <1>0, <1>1, <1>2 DEF HistoryType
  <1>6. Text' = g
    BY <1>2, <1>4, <1>5 DEF Text
  <1> QED
    BY <1>1, <1>4, <1>5, <1>6

\* A Get under a turn takes nothing back.
LEMMA GotQuietly ==
  ASSUME FlowInv, NEW t \in Threads, Got(t), ~Tangled'
  PROVE  /\ queryOK => fetched = row
         /\ \A u \in Threads : Past(u) => u # t /\ (queryOK => ~Unsaved(row))
         /\ (\E u \in Threads : Past(u)) \/ ~(queryOK /\ Unsaved(row)) \/ "forgotten" \in marks'
  <1>1. queryOK => fetched = row
    BY DEF Got, GetAssign, Tangled
  <1>2. ASSUME queryOK, Unsaved(row) PROVE ~Breaks(t) /\ "forgotten" \in marks'
    BY <1>1, <1>2 DEF Got, GetAssign, Tangled
  <1>3. ASSUME NEW u \in Threads, Past(u) PROVE u # t /\ Breaks(t)
    <2>1. u # t
      BY <1>3 DEF Past, Got
    <2>2. Working(u) /\ obj[u] \in Objects
      BY <1>3, PastWorks
    <2> QED
      BY <2>1, <2>2, Bounds DEF Breaks
  <1> QED
    BY <1>1, <1>2, <1>3

LEMMA HasTextStep ==
  ASSUME LossInv, LossInv', HasText, [TurnNext]_convVars, ~Tangled'
  PROVE  HasText'
  <1>0. FlowInv /\ ~Tangled /\ HistoryType
    BY TangledStays DEF LossInv, FlowInv
  <1> SUFFICES ASSUME NEW u \in Threads, Past(u)'
               PROVE  current' # 0 /\ mem'[current'] # <<>>
    BY DEF HasText
  <1>1. current' # 0
    <2>1. Held'
      BY DEF LossInv, FlowInv, SteerInv
    <2>2. obj'[u] \in Objects
      BY <2>1 DEF Held, Past
    <2>3. "twoObjects" \notin marks' /\ OneObject'
      BY DEF Tangled, LossInv
    <2> QED
      BY <2>2, <2>3, Bounds DEF OneObject
  <1>2. CASE Accept(u)
    <2>1. obj[u] \in Objects /\ AppendTo(obj[u], <<User>>) /\ current' = current
      BY <1>0, <1>2 DEF Accept, Unmoved, FlowInv, SteerInv, Held
    <2>2. obj[u] = current /\ mem[current] \in Histories
      BY <1>0, <2>1, HoldsCurrent DEF HistoryType
    <2>3. mem'[current] = mem[current] \o <<User>> /\ <<User>> \in Histories
      BY <1>0, <2>1, <2>2, AppendEffect, SaidMessages
    <2>4. mem[current] \o <<User>> # <<>>
      BY <2>2, <2>3, JoinedSome
    <2> QED
      BY <1>1, <2>1, <2>3, <2>4
  <1>3. CASE ~Accept(u)
    <2>1. Past(u)
      BY <1>0, <1>3, PastWas
    <2>2. current # 0 /\ mem[current] # <<>>
      BY <2>1 DEF HasText
    <2>3. CASE Keeps /\ current' \in {current, 0}
      BY <1>1, <2>2, <2>3 DEF Keeps
    <2>4. ASSUME NEW t \in Threads, Got(t) PROVE mem'[current'] # <<>>
      <3>1. /\ Returned = current /\ current' = current
            /\ mem' = [mem EXCEPT ![current] = Reloaded(current)] /\ current \in Objects
        BY <1>0, <2>2, <2>4, GotObject DEF Returned
      <3>2. mem'[current] = Reloaded(current)
        BY <1>0, <3>1 DEF HistoryType
      <3>3. queryOK => fetched = row /\ ~Unsaved(row)
        BY <1>0, <2>1, <2>4, GotQuietly
      <3>4. Reloaded(current) = mem[current]
        BY <2>2, <3>3 DEF Reloaded, Unsaved
      <3> QED
        BY <2>2, <3>1, <3>2, <3>4
    <2>5. ASSUME NEW t \in Threads, Compact(t) PROVE mem'[current'] # <<>>
      BY <1>0, <2>5, TextCompacted
    <2>6. ASSUME NEW t \in Threads, Appends(t) PROVE mem'[current'] # <<>>
      <3>1. PICK m \in Histories : AppendTo(obj[t], m)
        BY <2>6 DEF Appends
      <3>2. obj[t] = current /\ current' = current /\ mem[current] \in Histories
        BY <1>0, <2>6, HoldsCurrent DEF Appends, HistoryType
      <3>3. mem'[current] = mem[current] \o m
        BY <1>0, <2>6, <3>1, <3>2, AppendEffect DEF Appends
      <3>4. mem[current] \o m # <<>>
        BY <2>2, <3>2, JoinedSome
      <3> QED
        BY <3>2, <3>3, <3>4
    <2> QED
      BY <1>0, <1>1, <2>3, <2>4, <2>5, <2>6, HistoryMoves
  <1> QED
    BY <1>2, <1>3

\* What is saved is the text's beginning, or was saved before.
LEMMA RowSaved ==
  ASSUME LossInv, [TurnNext]_convVars, ~Tangled'
  PROVE  row' = row \/ IsPrefix(row', Text')
  <1>0. FlowInv /\ ~Tangled
    BY TangledStays DEF LossInv
  <1>1. ASSUME NEW t \in Threads, Compact(t) PROVE row' = row \/ IsPrefix(row', Text')
    BY <1>0, <1>1, TextCompacted, JoinedPrefix
  <1>2. ASSUME NEW t \in Threads, Appends(t) PROVE row' = row \/ IsPrefix(row', Text')
    BY <1>0, <1>2, TextAppended DEF Appends
  <1> QED
    BY <1>0, <1>1, <1>2, HistoryMoves, GotObject DEF Keeps

LEMMA NothingSaid ==
  ASSUME NEW P
  PROVE  /\ <<>> \in Histories /\ Regular(<<>>, P) /\ SingleUse(<<>>) /\ Once(<<>>)
         /\ Paired(<<>>, P) /\ Declared(<<>>)
  BY SaidMessages DEF Regular, Once, SingleUse, After, DeclaredOnce, NoResult, Paired, Adjacent,
                  Served, Declared

LEMMA CopiesType ==
  ASSUME HistoryType, current \in Objects \cup {0}, NEW h \in Live
  PROVE  h \in Histories
  BY DEF HistoryType, Live, Text

\* While a turn is past its message, the other threads have neither a copy nor
\* calls that wait.
LEMMA TurnAlone ==
  ASSUME CalmInv, ~Tangled, NEW t \in Threads, Past(t)
  PROVE  /\ \A u \in Threads \ {t} : ctx[u] = <<>> /\ todo[u] = <<>>
         /\ Pending = ToSet(todo[t])
         /\ obj[t] \in Objects /\ mem[obj[t]] # <<>> /\ mem[obj[t]] = Text
  <1>0. FlowInv /\ LossInv /\ OneTurn /\ HasText
    BY DEF CalmInv, LossInv
  <1>1. Working(t) /\ obj[t] \in Objects
    BY <1>0, PastWorks
  <1>2. ASSUME NEW u \in Threads \ {t} PROVE ctx[u] = <<>> /\ todo[u] = <<>>
    <2>1. ~Working(u)
      BY <1>0, <1>1 DEF OneTurn
    <2>2. ~Past(u) /\ todo[u] = <<>>
      BY <1>0, <2>1, PastWorks
    <2> QED
      BY <1>0, <2>2 DEF FlowInv, Flow, FlowCopy
  <1>3. \A u \in Threads \ {t} : ToSet(todo[u]) = {}
    BY <1>2 DEF ToSet
  <1>4. Pending = ToSet(todo[t])
    BY <1>3 DEF Pending
  <1>5. mem[obj[t]] # <<>> /\ mem[obj[t]] = Text
    BY <1>0, <1>1, HoldsCurrent DEF HasText, Text
  <1> QED
    BY <1>1, <1>2, <1>4, <1>5

\* ... and the histories after a step of that turn are the text and its copy.
LEMMA TurnStepsAlone ==
  ASSUME CalmInv, ~Tangled, NEW t \in Threads, Past(t), Proceed(t), HistoryType'
  PROVE  /\ \A u \in Threads \ {t} : ctx'[u] = <<>> /\ todo'[u] = <<>>
         /\ Pending' = ToSet(todo'[t])
         /\ \A h \in Live' : h \in {Text', ctx'[t], <<>>}
  <1>1. Alone(t)
    BY StepAlone DEF CalmInv, LossInv, FlowInv, SteerInv
  <1>2. \A u \in Threads \ {t} : ctx'[u] = <<>> /\ todo'[u] = <<>>
    BY <1>1, TurnAlone DEF Alone
  <1>3. \A u \in Threads \ {t} : ToSet(todo'[u]) = {}
    BY <1>2 DEF ToSet
  <1>4. Pending' = ToSet(todo'[t])
    BY <1>3 DEF Pending
  <1> QED
    BY <1>2, <1>4 DEF Live

\* Plain steps leave a history, start one, or add plain messages to one.
LEMMA PlainCopies ==
  ASSUME CalmInv, ~Tangled, NEW t \in Threads, PlainStep(t), NEW h \in Live'
  PROVE  \/ h \in Live \cup {<<>>}
         \/ \E g \in Live \cup {<<>>}, m \in Histories : Plain(m) /\ h = g \o m
  <1>0. FlowInv /\ LossInv /\ HistoryType
    BY DEF CalmInv, LossInv, FlowInv
  <1>1. /\ obj[t] \in Objects /\ (Keeps \/ Speaks(t)) /\ CopySpeaks(t)
        /\ current' = current
    BY <1>0, PlainEffect
       DEF PlainStep, Begin, Accept, ModelFails, ModelAnswers, AfterAnswer,
           LoopDetected, NextRound, StreamsAnswer, StreamEnds, FinalAnswer, Finish,
           Steer, Inject, Unmoved
  <1>2. mem[obj[t]] \in Live \cup {<<>>}
    BY <1>0, <1>1, HoldsCurrent DEF Text, Live
  <1>3. /\ mem'[obj[t]] = mem[obj[t]] \/ \E m \in Histories : Plain(m) /\ mem'[obj[t]] = mem[obj[t]] \o m
        /\ Text' = Text \/ \E m \in Histories : Plain(m) /\ Text' = mem[obj[t]] \o m
    <2>1. CASE Keeps
      BY <1>1, <2>1 DEF Keeps, Text
    <2>2. CASE Speaks(t)
      BY <1>0, <1>1, <2>2, TextAppended DEF Speaks
    <2> QED
      BY <1>1, <2>1, <2>2
  <1>4. CASE h = Text'
    BY <1>2, <1>3, <1>4 DEF Live
  <1>5. ASSUME NEW u \in Threads, h = ctx'[u]
        PROVE  \/ h \in Live \cup {<<>>}
               \/ \E g \in Live \cup {<<>>}, m \in Histories : Plain(m) /\ h = g \o m
    <2>1. CASE \E m \in Histories : Plain(m) /\ ctx' = [ctx EXCEPT ![t] = @ \o m]
      BY <1>0, <1>5, <2>1 DEF Live, HistoryType
    <2>2. CASE ctx' = ctx \/ ctx' = [ctx EXCEPT ![t] = <<>>]
      BY <1>0, <1>5, <2>2 DEF Live, HistoryType
    <2>3. CASE ctx' = [ctx EXCEPT ![t] = mem'[obj[t]]]
      <3>1. h = ctx[u] \/ h = mem'[obj[t]]
        BY <1>0, <1>5, <2>3 DEF HistoryType
      <3>2. ctx[u] \in Live
        BY DEF Live
      <3> QED
        BY <1>2, <1>3, <3>1, <3>2
    <2> QED
      BY <1>1, <2>1, <2>2, <2>3 DEF CopySpeaks
  <1> QED
    BY <1>4, <1>5 DEF Live

LEMMA PlainPending ==
  ASSUME FlowInv, NEW t \in Threads, PlainStep(t)
  PROVE  Pending' \subseteq Pending
  <1>1. todo' = todo \/ todo' = [todo EXCEPT ![t] = <<>>]
    BY PlainEffect
  <1>2. ASSUME NEW u \in Threads PROVE ToSet(todo'[u]) \subseteq ToSet(todo[u])
    <2>1. todo \in [Threads -> Seq(Calls)]
      BY DEF FlowInv, CountType
    <2>2. todo'[u] \in {todo[u], <<>>}
      BY <1>1, <2>1
    <2> QED
      BY <2>2 DEF ToSet
  <1> QED
    BY <1>1, <1>2 DEF Pending

LEMMA NoneWait == ToSet(<<>>) = {}
  BY DEF ToSet

LEMMA Singletons ==
  ASSUME NEW c \in Calls
  PROVE  /\ <<c>> \in Seq(Calls) /\ DOMAIN <<c>> = {1} /\ <<c>>[1] = c
         /\ Results(<<c>>) = <<Result(c)>>
  BY DEF Results

\* The steps of the loop that call, answer and pad, while turns take turns.
LEMMA CallsTalk ==
  ASSUME CalmInv, ~Tangled, NEW t \in Threads, ModelCalls(t), HistoryType'
  PROVE  \E C \in SUBSET Calls :
            /\ <<Calling(C)>> \in Histories
            /\ Text' = Text \o <<Calling(C)>> /\ ctx'[t] = ctx[t] \o <<Calling(C)>>
            /\ Pending = {} /\ Pending' = C /\ ToSet(todo'[t]) = C
            /\ "reissued" \notin marks' => C \cap (Known(Text) \cup Known(ctx[t])) = {}
            /\ marks \subseteq marks'
  <1>0. FlowInv /\ LossInv /\ HistoryType /\ todo \in [Threads -> Seq(Calls)]
    BY DEF CalmInv, LossInv, FlowInv, CountType
  <1>1. /\ Past(t) /\ Proceed(t) /\ obj[t] \in Objects /\ todo[t] = <<>> /\ current' = current
    BY <1>0, PastWorks DEF ModelCalls, AsksModel, Past, Proceed, FlowInv, Flow, FlowPlace,
       Unmoved
  <1>2. PICK s \in Seq(Calls) :
           /\ ToSet(s) \in SUBSET Calls
           /\ <<Calling(ToSet(s))>> \in Histories
           /\ AppendTo(obj[t], <<Calling(ToSet(s))>>)
           /\ ctx' = [ctx EXCEPT ![t] = @ \o <<Calling(ToSet(s))>>]
           /\ todo' = [todo EXCEPT ![t] = s]
           /\ "reissued" \notin marks' =>
                 ToSet(s) \cap (Known(mem[obj[t]]) \cup Known(ctx[t])) = {}
           /\ marks \subseteq marks'
    BY <1>0, CallsEffect
  <1> DEFINE C == ToSet(s)
             m == <<Calling(C)>>
  <1>3. mem[obj[t]] = Text /\ mem[obj[t]] # <<>>
    BY <1>1, TurnAlone
  <1>4. Text' = Text \o m
    <2>1. m \in Histories /\ AppendTo(obj[t], m)
      BY <1>2
    <2> HIDE DEF m
    <2> QED
      BY <1>0, <1>1, <1>3, <2>1, TextAppended
  <1>5. ctx'[t] = ctx[t] \o m
    BY <1>0, <1>2, CopyEffect
  <1>6. Pending = {} /\ Pending' = C /\ ToSet(todo'[t]) = C
    BY <1>0, <1>1, <1>2, TurnAlone, TurnStepsAlone, NoneWait
  <1>7. "reissued" \notin marks' => C \cap (Known(Text) \cup Known(ctx[t])) = {}
    BY <1>2, <1>3
  <1> HIDE DEF m
  <1> QED
    BY <1>2, <1>4, <1>5, <1>6, <1>7 DEF m

LEMMA ResultTalk ==
  ASSUME CalmInv, ~Tangled, NEW t \in Threads, StoreResult(t), HistoryType'
  PROVE  \E c \in Calls :
            /\ <<Result(c)>> \in Histories
            /\ Text' = Text \o <<Result(c)>> /\ ctx'[t] = ctx[t] \o <<Result(c)>>
            /\ Pending = ToSet(todo[t]) /\ Pending' = ToSet(todo'[t])
            /\ Pending' \subseteq Pending /\ Pending \subseteq Pending' \cup {c}
            /\ c \in Pending /\ c \notin Pending' /\ marks' = marks
  <1>0. FlowInv /\ LossInv /\ HistoryType /\ todo \in [Threads -> Seq(Calls)] /\ FlowTodo(t)
    BY DEF CalmInv, LossInv, FlowInv, CountType, Flow
  <1> DEFINE c == Head(todo[t])
             m == <<Result(c)>>
             r == Tail(todo[t])
  <1>1. Past(t) /\ Proceed(t) /\ obj[t] \in Objects /\ current' = current
    BY <1>0, PastWorks DEF StoreResult, Past, Proceed, Unmoved
  <1>2. /\ c \in Calls /\ c = todo[t][1] /\ m \in Histories /\ AppendTo(obj[t], m)
        /\ ctx' = [ctx EXCEPT ![t] = @ \o m] /\ todo' = [todo EXCEPT ![t] = r]
        /\ r \in Seq(Calls) /\ Len(todo[t]) \in Nat \ {0} /\ DOMAIN r = 1..Len(todo[t]) - 1
        /\ DOMAIN todo[t] = 1..Len(todo[t])
        /\ \A i \in 1..Len(todo[t]) - 1 : r[i] = todo[t][i + 1]
        /\ marks' = marks
    BY <1>0, ResultEffect
  <1>3. Text' = Text \o m
    <2>1. m \in Histories /\ AppendTo(obj[t], m)
      BY <1>2
    <2>2. mem[obj[t]] # <<>>
      BY <1>1, TurnAlone
    <2> HIDE DEF m
    <2> QED
      BY <1>0, <1>1, <2>1, <2>2, TextAppended
  <1>4. ctx'[t] = ctx[t] \o m
    BY <1>0, <1>2, CopyEffect
  <1>5. Pending = ToSet(todo[t]) /\ Pending' = ToSet(r) /\ todo'[t] = r
    BY <1>0, <1>1, <1>2, TurnAlone, TurnStepsAlone
  <1>6. c \in Pending
    BY <1>0, <1>2, <1>5 DEF ToSet, FlowTodo
  <1>7. Pending' \subseteq Pending /\ c \notin Pending'
    <2>1. ASSUME NEW i \in DOMAIN r PROVE r[i] \in Pending /\ r[i] # c
      <3>1. i + 1 \in DOMAIN todo[t] /\ r[i] = todo[t][i + 1] /\ 1 \in DOMAIN todo[t] /\ i + 1 # 1
        BY <1>2
      <3> QED
        BY <1>0, <1>2, <1>5, <3>1 DEF ToSet, FlowTodo
    <2> QED
      BY <1>5, <2>1 DEF ToSet
  <1>8. Pending \subseteq Pending' \cup {c}
    <2>1. ASSUME NEW i \in DOMAIN todo[t] PROVE todo[t][i] \in ToSet(r) \cup {c}
      <3>1. CASE i = 1
        BY <1>2, <3>1
      <3>2. CASE i # 1
        <4>1. i - 1 \in DOMAIN r /\ i - 1 \in 1..Len(todo[t]) - 1 /\ (i - 1) + 1 = i
          BY <1>2, <3>2
        <4>2. r[i - 1] = todo[t][i]
          BY <1>2, <4>1
        <4> QED
          BY <4>1, <4>2 DEF ToSet
      <3> QED
        BY <3>1, <3>2
    <2> HIDE DEF c, r
    <2> QED
      BY <1>5, <2>1 DEF ToSet
  <1> HIDE DEF c, r
  <1>10. Pending' = ToSet(todo'[t])
    BY <1>5
  <1> QED
    BY <1>2, <1>3, <1>4, <1>5, <1>6, <1>7, <1>8, <1>10

LEMMA PadTalk ==
  ASSUME CalmInv, ~Tangled, NEW t \in Threads, Pad(t), HistoryType'
  PROVE  \E s \in Seq(Calls) :
            /\ \A i, j \in DOMAIN s : s[i] = s[j] => i = j
            /\ ToSet(s) = Unanswered(Text)
            /\ Results(s) \in Histories
            /\ Text' = Text \o Results(s) /\ ctx' = ctx
            /\ Pending = {} /\ Pending' = {} /\ marks' = marks
            /\ \A u \in Threads : todo'[u] = <<>>
  <1>0. FlowInv /\ LossInv /\ HistoryType
    BY DEF CalmInv, LossInv, FlowInv
  <1>1. Past(t) /\ Proceed(t) /\ obj[t] \in Objects /\ current' = current
    BY <1>0, PastWorks DEF Pad, Past, Proceed, Unmoved
  <1>2. PICK s \in Seq(Calls) :
           /\ \A i, j \in DOMAIN s : s[i] = s[j] => i = j
           /\ ToSet(s) = Unanswered(mem[obj[t]])
           /\ Results(s) \in Histories
           /\ AppendTo(obj[t], Results(s))
           /\ ctx' = ctx /\ todo' = todo /\ marks' = marks
    BY <1>0, PadEffect
  <1>3. mem[obj[t]] = Text /\ mem[obj[t]] # <<>>
    BY <1>1, TurnAlone
  <1>4. Text' = Text \o Results(s)
    BY <1>0, <1>1, <1>2, <1>3, TextAppended
  <1>5. todo[t] = <<>>
    BY <1>0 DEF Pad, FlowInv, Flow, FlowPlace
  <1>6. Pending = {} /\ Pending' = {} /\ \A u \in Threads : todo'[u] = <<>>
    <2>1. Pending = ToSet(todo[t]) /\ Pending' = ToSet(todo'[t])
      BY <1>1, TurnAlone, TurnStepsAlone
    <2>2. \A u \in Threads \ {t} : todo'[u] = <<>>
      BY <1>1, TurnStepsAlone
    <2> QED
      BY <1>2, <1>5, <2>1, <2>2, NoneWait
  <1> QED
    BY <1>2, <1>3, <1>4, <1>6

\* Where a turn calls or stores a result, the histories are these.
LEMMA TalkCopies ==
  ASSUME CalmInv, ~Tangled, NEW t \in Threads, ModelCalls(t) \/ StoreResult(t), HistoryType'
  PROVE  /\ \A h \in Live' : h \in {Text', ctx'[t], <<>>}
         /\ Text \in Live /\ ctx[t] \in Live
         /\ \A u \in Threads \ {t} : todo'[u] = <<>>
  <1>1. Past(t) /\ Proceed(t)
    BY DEF ModelCalls, StoreResult, AsksModel, Past, Proceed
  <1> QED
    BY <1>1, TurnStepsAlone DEF Live

\* What a compaction leaves: the copy, or the copy cut where no result starts.
CutFrom(g, h) == \E c \in Nat : /\ c <= Len(h) /\ Cut(g, h, c)
                                /\ c = Len(h) \/ ~Tool(h, c + 1)

LEMMA CompactCut ==
  ASSUME CalmInv, ~Tangled, NEW t \in Threads, Compact(t), HistoryType'
  PROVE  /\ \E g \in {h \in Histories : h = ctx[t] \/ ("cut" \in marks' /\ CutFrom(h, ctx[t]))} :
               row' \in {row, g} /\ \A h \in Live' : h \in {g, <<>>}
         /\ Pending' = {} /\ Pending = {}
         /\ \A u \in Threads : todo'[u] = <<>>
         /\ "reissued" \in marks' => "reissued" \in marks
  <1>0. FlowInv /\ LossInv /\ HistoryType /\ todo \in [Threads -> Seq(Calls)]
    BY DEF CalmInv, LossInv, FlowInv, CountType
  <1>1. Past(t) /\ Proceed(t)
    BY DEF Compact, Past, Proceed
  <1>2. PICK g \in Histories :
            /\ g \in {ctx[t], Compressed(ctx[t])}
            /\ Text' = g /\ row' \in {row, g}
            /\ ctx' = [ctx EXCEPT ![t] = g] /\ todo' = todo
            /\ g # ctx[t] => "cut" \in marks'
            /\ "reissued" \in marks' => "reissued" \in marks
    BY <1>0, TextCompacted
  <1>3. todo[t] = <<>>
    BY <1>0 DEF Compact, FlowInv, Flow, FlowPlace
  <1>4. Pending' = {} /\ Pending = {} /\ \A u \in Threads : todo'[u] = <<>>
    <2>1. Pending = ToSet(todo[t]) /\ Pending' = ToSet(todo'[t])
      BY <1>1, TurnAlone, TurnStepsAlone
    <2>2. \A u \in Threads \ {t} : todo'[u] = <<>>
      BY <1>1, TurnStepsAlone
    <2> QED
      BY <1>2, <1>3, <2>1, <2>2, NoneWait
  <1>5. \A h \in Live' : h \in {g, <<>>}
    <2>1. \A h \in Live' : h \in {Text', ctx'[t], <<>>}
      BY <1>1, TurnStepsAlone
    <2>2. ctx'[t] = g
      BY <1>0, <1>2 DEF HistoryType
    <2> QED
      BY <1>2, <2>1, <2>2
  <1> DEFINE n == Len(ctx[t])
             c == Cutoff(ctx[t])
  <1>6. /\ c \in Nat /\ c <= n
        /\ c = n \/ ~Tool(ctx[t], c + 1)
        /\ Compressed(ctx[t]) = ctx[t] \/ Cut(Compressed(ctx[t]), ctx[t], c)
    <2>1. n \in Nat /\ ctx[t] \in Histories
      BY <1>0, Lengths DEF HistoryType
    <2>2. /\ c \in 0..n
          /\ c = n \/ ~Tool(ctx[t], c + 1)
          /\ Compressed(ctx[t]) = ctx[t] \/ Cut(Compressed(ctx[t]), ctx[t], c)
      BY <2>1, CompressedCut, CutoffAt, Bounds
    <2> HIDE DEF c, n
    <2> QED
      BY <2>1, <2>2
  <1> HIDE DEF c
  <1>7. ASSUME g # ctx[t] PROVE "cut" \in marks' /\ CutFrom(g, ctx[t])
    <2>1. Cut(g, ctx[t], c)
      BY <1>2, <1>6, <1>7
    <2> QED
      BY <1>2, <1>6, <1>7, <2>1 DEF CutFrom
  <1>8. g \in {h \in Histories : h = ctx[t] \/ ("cut" \in marks' /\ CutFrom(h, ctx[t]))}
    BY <1>2, <1>7
  <1> QED
    BY <1>2, <1>4, <1>5, <1>8

\* Steps that touch no history, or after which the conversation is what was saved.
Untouched ==
    /\ row' = row /\ ("reissued" \in marks' => "reissued" \in marks)
    /\ \/ Text' = Text /\ ctx' = ctx /\ todo' = todo
       \/ /\ Text' = row /\ Displaced'
          /\ \A t \in Threads : todo'[t] = <<>> /\ ctx'[t] = <<>>

LEMMA NoneWorks ==
  ASSUME FlowInv, \A u \in Threads : ~Past(u)
  PROVE  \A u \in Threads : todo[u] = <<>> /\ ctx[u] = <<>>
  BY PastWorks DEF FlowInv, Flow, FlowCopy

LEMMA OtherSteps ==
  ASSUME LossInv, [TurnNext]_convVars, ~Tangled'
  PROVE  \/ Untouched
         \/ \E t \in Threads : \/ PlainStep(t) \/ ModelCalls(t) \/ StoreResult(t)
                               \/ Pad(t) \/ Compact(t)
  <1>0. FlowInv /\ HistoryType
    BY DEF LossInv, FlowInv
  <1>1. ASSUME NEW t \in Threads, NEW ok \in BOOLEAN, Arrive(t, ok) PROVE Untouched
    BY <1>1 DEF Arrive, GetQuery, Untouched, Text
  <1>2. ASSUME NEW t \in Threads, Got(t) PROVE Untouched
    <2>1. /\ Returned \in Objects /\ row' = row /\ ctx' = ctx /\ todo' = todo
          /\ mem' = [mem EXCEPT ![Returned] = Reloaded(Returned)] /\ current' = Returned
          /\ "reissued" \in marks' => "reissued" \in marks
      BY <1>0, <1>2, GotObject
    <2>2. mem'[current'] = Reloaded(Returned) /\ current' # 0
      BY <1>0, <2>1, Bounds DEF HistoryType
    <2>3. queryOK => fetched = row
      BY <1>0, <1>2, GotQuietly
    <2>4. CASE current = 0
      <3>1. Returned = made + 1 /\ made \in Nat
        BY <1>0, <2>4, Bounds DEF Returned, FlowInv, SteerInv, ObjectType
      <3>2. mem[Returned] = <<>>
        BY <1>0, <2>1, <3>1 DEF FlowInv, Fresh
      <3>3. Reloaded(Returned) \in {row, <<>>}
        BY <2>3, <3>2 DEF Reloaded
      <3>4. Text' = Text
        BY <2>1, <2>2, <2>4, <3>3 DEF Text
      <3> QED
        BY <2>1, <3>4 DEF Untouched
    <2>5. CASE current # 0 /\ ~(queryOK /\ Unsaved(row))
      <3>1. Returned = current
        BY <2>5 DEF Returned
      <3>2. Reloaded(Returned) \in {mem[current], row} /\ Reloaded(Returned) # mem[current]
              => mem[current] = <<>>
        BY <2>3, <2>5, <3>1 DEF Reloaded, Unsaved
      <3>3. Reloaded(Returned) \in {mem[current], row}
        BY <2>3, <3>1 DEF Reloaded
      <3>4. Text' = Text
        BY <2>1, <2>2, <2>5, <3>2, <3>3 DEF Text
      <3> QED
        BY <2>1, <3>4 DEF Untouched
    <2>6. CASE current # 0 /\ queryOK /\ Unsaved(row)
      <3>1. Returned = current /\ Reloaded(Returned) = row
        BY <2>3, <2>6 DEF Returned, Reloaded
      <3>2. \A u \in Threads : ~Past(u)
        BY <1>0, <1>2, <2>6, GotQuietly
      <3>3. "forgotten" \in marks'
        BY <1>0, <1>2, <2>6, <3>2, GotQuietly
      <3>4. Text' = row /\ Displaced'
        BY <2>1, <2>2, <3>1, <3>3 DEF Text, Displaced
      <3> QED
        BY <1>0, <2>1, <3>2, <3>4, NoneWorks DEF Untouched
    <2> QED
      BY <2>4, <2>5, <2>6
  <1>3. CASE Rebuild
    <2>1. /\ row' = row /\ mem' = mem /\ ctx' = ctx /\ todo' = todo /\ current' = 0 /\ current # 0
          /\ \A t \in Threads : at[t] = "idle"
          /\ Unsaved(row) => "forgotten" \in marks'
          /\ "reissued" \in marks' => "reissued" \in marks
      BY <1>3 DEF Rebuild, NewManager, Tangled
    <2>2. Text' = row
      BY <2>1 DEF Text
    <2>3. CASE Unsaved(row)
      <3>1. \A u \in Threads : todo[u] = <<>> /\ ctx[u] = <<>>
        BY <1>0, <2>1, NoneWorks DEF Past
      <3> QED
        BY <2>1, <2>2, <2>3, <3>1 DEF Untouched, Displaced
    <2>4. CASE ~Unsaved(row)
      BY <2>1, <2>2, <2>4 DEF Untouched, Unsaved, Text
    <2> QED
      BY <2>3, <2>4
  <1>4. CASE Crash
    <2>1. row' = row /\ current' = 0 /\ marks' = marks \cup {"crashed"}
          /\ \A t \in Threads : todo'[t] = <<>> /\ ctx'[t] = <<>>
      BY <1>4 DEF Crash, DropObjects
    <2> QED
      BY <2>1 DEF Untouched, Text, Displaced
  <1>5. CASE UNCHANGED convVars
    BY <1>5 DEF convVars, sessionVars, turnVars, Untouched, Text
  <1> QED
    BY <1>1, <1>2, <1>3, <1>4, <1>5 DEF TurnNext, Proceed, PlainStep

\* Every step leaves the histories sound.
LEMMA CopiesSound ==
  ASSUME CalmInv, ~Tangled, NEW h \in Live \cup {<<>>}
  PROVE  h \in Histories /\ Regular(h, Pending) /\ (DistinctCopies => SingleUse(h))
  <1>1. HistoryType /\ current \in Objects \cup {0} /\ RegularCopies
    BY DEF CalmInv, LossInv, FlowInv, SteerInv, ObjectType
  <1> QED
    BY <1>1, CopiesType, NothingSaid DEF RegularCopies, DistinctCopies

LEMMA SoundPlainStep ==
  ASSUME CalmInv, ~Tangled, NEW t \in Threads, PlainStep(t), NEW h \in Live'
  PROVE  Regular(h, Pending') /\ (DistinctCopies => SingleUse(h))
  <1>1. Pending' \subseteq Pending
    BY PlainPending DEF CalmInv, LossInv
  <1>2. ASSUME NEW g \in Live \cup {<<>>}
        PROVE  g \in Histories /\ Regular(g, Pending') /\ (DistinctCopies => SingleUse(g))
    BY <1>1, CopiesSound, RegularFewer
  <1>3. ASSUME NEW g \in Live \cup {<<>>}, NEW m \in Histories, Plain(m)
        PROVE  Regular(g \o m, Pending') /\ (DistinctCopies => SingleUse(g \o m))
    <2>1. Joined(g \o m, g, m) /\ \A i \in DOMAIN m : m[i].calls = {}
      BY <1>2, <1>3, Joins DEF Plain
    <2> QED
      BY <1>2, <1>3, <2>1, RegularPlain, DistinctPlain
  <1> QED
    BY <1>2, <1>3, PlainCopies

LEMMA SoundCallsStep ==
  ASSUME CalmInv, ~Tangled, NEW t \in Threads, ModelCalls(t), HistoryType', NEW h \in Live'
  PROVE  Regular(h, Pending') /\ ("reissued" \notin marks' /\ DistinctCopies => SingleUse(h))
  <1>1. PICK C \in SUBSET Calls :
            /\ <<Calling(C)>> \in Histories
            /\ Text' = Text \o <<Calling(C)>> /\ ctx'[t] = ctx[t] \o <<Calling(C)>>
            /\ Pending' = C
            /\ "reissued" \notin marks' => C \cap (Known(Text) \cup Known(ctx[t])) = {}
    BY CallsTalk
  <1>2. ASSUME NEW g \in Live PROVE g \in Histories /\ Joined(g \o <<Calling(C)>>, g, <<Calling(C)>>)
    BY <1>1, CopiesSound, Joins
  <1>3. ASSUME NEW g \in Live PROVE Regular(g \o <<Calling(C)>>, Pending')
    BY <1>1, <1>2, CopiesSound, RegularCalling
  <1>4. ASSUME NEW g \in {Text, ctx[t]}, g \in Live, "reissued" \notin marks', DistinctCopies
        PROVE  SingleUse(g \o <<Calling(C)>>)
    <2>1. C \cap Known(g) = {}
      BY <1>1, <1>4
    <2>2. g \in Histories /\ SingleUse(g)
      BY <1>4, CopiesSound
    <2> QED
      BY <1>1, <1>2, <1>4, <2>1, <2>2, DistinctCalling
  <1>5. h \in {Text', ctx'[t], <<>>} /\ Text \in Live /\ ctx[t] \in Live
    BY TalkCopies
  <1>6. CASE h = <<>>
    BY <1>6, NothingSaid
  <1>7. CASE h = Text'
    <2>1. h = Text \o <<Calling(C)>>
      BY <1>1, <1>7
    <2> QED
      BY <1>3, <1>4, <1>5, <2>1
  <1>8. CASE h = ctx'[t]
    <2>1. h = ctx[t] \o <<Calling(C)>>
      BY <1>1, <1>8
    <2> QED
      BY <1>3, <1>4, <1>5, <2>1
  <1> QED
    BY <1>5, <1>6, <1>7, <1>8

LEMMA SoundResultStep ==
  ASSUME CalmInv, ~Tangled, NEW t \in Threads, StoreResult(t), HistoryType', NEW h \in Live'
  PROVE  Regular(h, Pending') /\ (DistinctCopies => SingleUse(h))
  <1>1. PICK c \in Calls :
            /\ <<Result(c)>> \in Histories
            /\ Text' = Text \o <<Result(c)>> /\ ctx'[t] = ctx[t] \o <<Result(c)>>
            /\ Pending' \subseteq Pending
            /\ c \in Pending /\ c \notin Pending'
    BY ResultTalk
  <1> DEFINE m == <<Result(c)>>
             s == <<c>>
  <1>2. s \in Seq(Calls) /\ DOMAIN s = {1} /\ s[1] = c /\ Results(s) = m
    BY Singletons
  <1>3. m \in Histories /\ \A i \in DOMAIN m : m[i].calls = {}
    <2>1. DOMAIN m = {1} /\ m[1] = Result(c)
      OBVIOUS
    <2>2. Result(c).calls = {}
      BY DEF Result
    <2> QED
      BY <1>1, <2>1, <2>2
  <1> HIDE DEF s, m
  <1>4. ToSet(s) = {c}
    BY <1>2 DEF ToSet
  <1>5. ASSUME NEW g \in Live
        PROVE  Regular(g \o m, Pending') /\ (DistinctCopies => SingleUse(g \o m))
    <2>1. g \in Histories /\ Regular(g, Pending)
      BY CopiesSound
    <2>2. Joined(g \o m, g, m) /\ Joined(g \o m, g, Results(s))
      BY <1>2, <1>3, <2>1, Joins
    <2>3. NoResult(g, ToSet(s))
      BY <1>1, <1>4, <2>1 DEF Regular, NoResult
    <2>4. /\ \A i, j \in DOMAIN s : s[i] = s[j] => i = j
          /\ \A i \in DOMAIN s : s[i] \notin Pending'
      BY <1>1, <1>2
    <2>5. Regular(g \o m, Pending')
      BY <1>1, <1>2, <2>1, <2>2, <2>3, <2>4, RegularResults
    <2>6. DistinctCopies => SingleUse(g \o m)
      BY <1>3, <2>1, <2>2, CopiesSound, DistinctPlain
    <2> QED
      BY <2>5, <2>6
  <1>6. h \in {Text \o m, ctx[t] \o m, <<>>} /\ Text \in Live /\ ctx[t] \in Live
    BY <1>1, TalkCopies DEF m
  <1> QED
    BY <1>5, <1>6, NothingSaid

LEMMA SoundPadStep ==
  ASSUME CalmInv, ~Tangled, NEW t \in Threads, Pad(t), HistoryType', NEW h \in Live'
  PROVE  Regular(h, Pending') /\ (DistinctCopies => SingleUse(h))
  <1>1. PICK s \in Seq(Calls) :
            /\ \A i, j \in DOMAIN s : s[i] = s[j] => i = j
            /\ ToSet(s) = Unanswered(Text)
            /\ Results(s) \in Histories
            /\ Text' = Text \o Results(s) /\ ctx' = ctx
            /\ Pending = {} /\ Pending' = {}
    BY PadTalk
  <1>2. Text \in Histories /\ Regular(Text, {}) /\ (DistinctCopies => SingleUse(Text))
    BY <1>1, CopiesSound DEF Live
  <1>3. Joined(Text', Text, Results(s))
    BY <1>1, <1>2, Joins
  <1>4. NoResult(Text, ToSet(s))
    BY <1>1, <1>2, UnansweredNew
  <1>5. Regular(Text', {})
    BY <1>1, <1>2, <1>3, <1>4, RegularResults
  <1>6. DistinctCopies => SingleUse(Text')
    <2>1. \A i \in DOMAIN Results(s) : Results(s)[i].calls = {}
      BY ResultsType
    <2> QED
      BY <1>1, <1>2, <1>3, <2>1, DistinctPlain
  <1>7. h = Text' \/ h \in Live
    BY <1>1 DEF Live
  <1> QED
    BY <1>1, <1>5, <1>6, <1>7, CopiesSound

LEMMA SoundCompactStep ==
  ASSUME CalmInv, ~Tangled, NEW t \in Threads, Compact(t), HistoryType', NEW h \in Live'
  PROVE  Regular(h, Pending') /\ (DistinctCopies => SingleUse(h))
  <1>1. PICK g \in {k \in Histories : k = ctx[t] \/ ("cut" \in marks' /\ CutFrom(k, ctx[t]))} :
           h \in {g, <<>>}
    BY CompactCut
  <1>2. ctx[t] \in Histories /\ Regular(ctx[t], {}) /\ (DistinctCopies => SingleUse(ctx[t]))
    <2>1. ctx[t] \in Live \cup {<<>>}
      BY DEF Live
    <2>2. Pending = {}
      BY CompactCut
    <2> QED
      BY <2>1, <2>2, CopiesSound
  <1>3. ASSUME NEW c \in Nat, c <= Len(ctx[t]), Cut(g, ctx[t], c)
        PROVE  Once(g) /\ (DistinctCopies => SingleUse(g))
    <2>1. c \in 0..Len(ctx[t])
      BY <1>2, <1>3, Lengths
    <2> QED
      BY <1>2, <1>3, <2>1, SoundCut DEF Regular
  <1>4. Once(g) /\ (DistinctCopies => SingleUse(g))
    BY <1>1, <1>2, <1>3 DEF CutFrom, Regular
  <1>5. Pending' = {} /\ Regular(g, {})
    BY <1>4, CompactCut DEF Regular, NoResult
  <1> QED
    BY <1>1, <1>4, <1>5, NothingSaid

\* What is said of the text's beginnings holds of the row.
LEMMA SoundRow ==
  ASSUME LossInv, [TurnNext]_convVars, HistoryType', current' \in Objects \cup {0}, ~Tangled'
  PROVE  /\ Once(row) /\ Once(Text') => Once(row')
         /\ SingleUse(row) /\ SingleUse(Text') => SingleUse(row')
         /\ Declared(row) /\ Declared(Text') => Declared(row')
  <1>1. row' = row \/ IsPrefix(row', Text')
    BY RowSaved
  <1>2. row' \in Histories /\ Text' \in Histories
    BY DEF HistoryType, Text
  <1>3. CASE row' = row
    BY <1>3
  <1>4. CASE IsPrefix(row', Text')
    BY <1>2, <1>4, PrefixSound
  <1> QED
    BY <1>1, <1>3, <1>4

LEMMA SoundStep ==
  ASSUME CalmInv, [TurnNext]_convVars, HistoryType', current' \in Objects \cup {0}, ~Tangled'
  PROVE  RegularCopies' /\ ("reissued" \notin marks' => DistinctCopies')
  <1>0. LossInv /\ RegularCopies /\ ~Tangled /\ ("reissued" \notin marks => DistinctCopies)
    BY TangledStays DEF CalmInv, LossInv
  <1>1. "reissued" \notin marks' => DistinctCopies
    <2>1. marks \subseteq marks'
      BY Grows DEF CalmInv, LossInv, FlowInv, SteerInv
    <2> QED
      BY <1>0, <2>1
  <1>2. ASSUME NEW h \in Live'
        PROVE  Regular(h, Pending') /\ ("reissued" \notin marks' => SingleUse(h))
    <2>1. CASE Untouched
      <3>1. CASE Text' = Text /\ ctx' = ctx /\ todo' = todo
        <4>1. h \in Live /\ Pending' = Pending
          BY <3>1 DEF Live, Pending
        <4> QED
          BY <1>0, <1>1, <4>1, CopiesSound
      <3>2. CASE Text' = row /\ \A t \in Threads : todo'[t] = <<>> /\ ctx'[t] = <<>>
        <4>1. \A t \in Threads : ToSet(todo'[t]) = {}
          BY <3>2 DEF ToSet
        <4>2. Pending' = {}
          BY <4>1 DEF Pending
        <4>3. Regular(row, {}) /\ ("reissued" \notin marks' => SingleUse(row))
          BY <1>0, <1>1 DEF RegularCopies, DistinctCopies, Regular, NoResult
        <4>4. h \in {row, <<>>}
          BY <3>2 DEF Live
        <4> QED
          BY <4>2, <4>3, <4>4, NothingSaid
      <3> QED
        BY <2>1, <3>1, <3>2 DEF Untouched
    <2> QED
      BY <1>0, <1>1, <2>1, OtherSteps, SoundPlainStep, SoundCallsStep, SoundResultStep,
         SoundPadStep, SoundCompactStep
  <1>3. Text' \in Live'
    BY DEF Live
  <1>4. Once(row')
    BY <1>0, <1>2, <1>3, SoundRow DEF RegularCopies, Regular
  <1>5. "reissued" \notin marks' => SingleUse(row')
    BY <1>0, <1>1, <1>2, <1>3, SoundRow DEF DistinctCopies
  <1> QED
    BY <1>2, <1>4, <1>5 DEF RegularCopies, DistinctCopies

LEMMA CalmInit ==
  ASSUME TurnInit
  PROVE  CalmInv
  <1>1. LossInv
    BY FlowInit DEF TurnInit, SessionInit, LossInv, OneObject, RowHeld
  <1>2. OneTurn /\ HasText
    BY DEF TurnInit, SessionInit, OneTurn, HasText, Working, Past
  <1>3. row = <<>> /\ \A h \in Live : h = <<>>
    BY DEF TurnInit, SessionInit, Live, Text
  <1>4. RegularCopies /\ DistinctCopies
    BY <1>3, NothingSaid DEF RegularCopies, DistinctCopies
  <1> QED
    BY <1>1, <1>2, <1>4 DEF CalmInv

LEMMA CalmStep ==
  ASSUME CalmInv, [TurnNext]_convVars
  PROVE  CalmInv' /\ HistoryType' /\ current' \in Objects \cup {0}
  <1>1. LossInv' /\ HistoryType' /\ LossInv /\ current' \in Objects \cup {0}
    BY FlowInvStep, OneObjectStep, RowHeldStep
       DEF CalmInv, LossInv, FlowInv, SteerInv, ObjectType
  <1>2. ASSUME ~Tangled'
        PROVE  OneTurn' /\ HasText' /\ RegularCopies' /\ ("reissued" \notin marks' => DistinctCopies')
    <2>1. ~Tangled /\ OneTurn /\ HasText
      BY <1>1, <1>2, TangledStays DEF CalmInv, LossInv
    <2>2. OneTurn' /\ HasText'
      BY <1>1, <1>2, <2>1, OneTurnStep, HasTextStep DEF LossInv
    <2> QED
      BY <1>1, <1>2, <2>2, SoundStep
  <1> QED
    BY <1>1, <1>2 DEF CalmInv

LEMMA CalmAlways == TurnSpec => []CalmInv
  <1>1. TurnInit => CalmInv
    BY CalmInit
  <1>2. CalmInv /\ [TurnNext]_convVars => CalmInv'
    BY CalmStep
  <1> QED
    BY <1>1, <1>2, PTL DEF TurnSpec

\* A call has one result in the stored conversation each time it is made, however
\* a turn that was cut off was padded by a later one (padOrphanToolResults,
\* loop.go), saves failed, and the model's text repeated an identifier
\* (tool_recovery.go), while turns take turns.
THEOREM OneResultPerCallTheorem == TurnSpec => []OneResultPerCall
  <1>1. CalmInv => OneResultPerCall
    BY DEF CalmInv, RegularCopies, Once, Tool, OneResultPerCall
  <1> QED
    BY <1>1, CalmAlways, PTL
-----------------------------------------------------------------------------
(* Requests fit.                                                           *)

\* While nothing came between a call and its results: they are together, and
\* the turn that stores them finds its calls last.
PairedCopies == \A h \in Live : Paired(h, Pending)
OpenCalls    == \A t \in Threads : todo[t] # <<>>
                   => Open(Text, ToSet(todo[t])) /\ Open(ctx[t], ToSet(todo[t]))

PairInv == CalmInv /\ (~Tangled /\ ~Displaced => PairedCopies /\ OpenCalls)

LEMMA DisplacedStays ==
  ASSUME FlowInv, [TurnNext]_convVars, ~Displaced'
  PROVE  ~Displaced
  <1>1. marks \subseteq marks'
    BY Grows DEF FlowInv, SteerInv
  <1> QED
    BY <1>1 DEF Displaced

\* A plain step of a turn that awaits no results, beside none that does, unless
\* it says nothing.
LEMMA PlainApart ==
  ASSUME CalmInv, ~Tangled, NEW t \in Threads, PlainStep(t), ~Displaced'
  PROVE  /\ todo' = todo /\ todo[t] = <<>>
         /\ \A u \in Threads : todo[u] # <<>> => Text' = Text /\ ctx' = ctx
  <1>0. FlowInv /\ OneTurn
    BY DEF CalmInv, LossInv
  <1>1. ~LoopDetected(t)
    BY DEF LoopDetected, Displaced
  <1>2. todo' = todo
    BY <1>0, <1>1, PlainEffect
  <1>3. at[t] \notin {"called", "results"}
    BY <1>0, <1>1 DEF FlowInv, Flow, FlowPlace, PlainStep, Begin, Accept, ModelFails,
       ModelAnswers, AfterAnswer, NextRound, StreamsAnswer, StreamEnds, FinalAnswer, Finish,
       Steer, Inject, AsksModel
  <1>4. todo[t] = <<>>
    BY <1>0, <1>3 DEF FlowInv, Flow, FlowPlace
  <1>5. ASSUME NEW u \in Threads, todo[u] # <<>> PROVE Text' = Text /\ ctx' = ctx
    <2>1. u # t /\ Working(u) /\ obj[u] \in Objects
      BY <1>0, <1>4, <1>5, PastWorks
    <2>2. ~Working(t)
      BY <1>0, <2>1 DEF OneTurn
    <2>3. Begin(t) \/ Steer(t) \/ Inject(t)
      BY <1>0, <1>1, <2>2 DEF FlowInv, SteerInv, SidesWait, Waiting, Flow, FlowPlace,
         PlainStep, Accept, ModelFails, ModelAnswers, AfterAnswer, NextRound,
         StreamsAnswer, StreamEnds, FinalAnswer, Finish, AsksModel, Working
    <2>4. ~Inject(t)
      <3>1. Breaks(t)
        BY <2>1, Bounds DEF Breaks
      <3> QED
        BY <3>1 DEF Inject, Displaced
    <2>5. row' = row /\ mem' = mem /\ current' = current /\ ctx' = ctx
      BY <2>3, <2>4 DEF Begin, Steer, Still, Unsaid, Unmoved
    <2> QED
      BY <2>5 DEF Text
  <1> QED
    BY <1>2, <1>4, <1>5

LEMMA PairedPlainStep ==
  ASSUME CalmInv, ~Tangled, PairedCopies, OpenCalls, NEW t \in Threads, PlainStep(t),
         ~Displaced'
  PROVE  PairedCopies' /\ OpenCalls'
  <1>0. todo' = todo
    BY PlainApart
  <1>1. Pending' = Pending
    BY <1>0 DEF Pending
  <1>2. CASE \E u \in Threads : todo[u] # <<>>
    <2>1. Text' = Text /\ ctx' = ctx
      BY <1>2, PlainApart
    <2> QED
      BY <1>0, <1>1, <2>1 DEF PairedCopies, OpenCalls, Live
  <1>3. CASE \A u \in Threads : todo[u] = <<>>
    <2>1. \A u \in Threads : ToSet(todo[u]) = {}
      BY <1>3 DEF ToSet
    <2>2. Pending = {}
      BY <2>1 DEF Pending
    <2>3. \A g \in Live \cup {<<>>} : g \in Histories /\ Paired(g, {})
      BY <2>2, CopiesSound, NothingSaid DEF PairedCopies
    <2>4. ASSUME NEW g \in Live \cup {<<>>}, NEW m \in Histories, Plain(m)
          PROVE  Paired(g \o m, {})
      <3>1. Joined(g \o m, g, m)
        BY <2>3, Joins
      <3>2. \A i \in DOMAIN m : ~Tool(m, i) /\ m[i].calls = {}
        BY <2>4 DEF Plain, Tool
      <3>3. \A i \in DOMAIN m : /\ ~Tool(m, i) /\ m[i].calls \subseteq {}
                                /\ m[i].calls # {} => \A j \in DOMAIN m : j <= i
        BY <3>2
      <3> QED
        BY <2>3, <3>1, <3>3, PairedJoined
    <2>5. \A h \in Live' : Paired(h, {})
      BY <2>3, <2>4, PlainCopies
    <2> QED
      BY <1>0, <1>1, <1>3, <2>2, <2>5 DEF PairedCopies, OpenCalls
  <1> QED
    BY <1>2, <1>3

LEMMA PairedCallsStep ==
  ASSUME CalmInv, ~Tangled, PairedCopies, NEW t \in Threads, ModelCalls(t), HistoryType'
  PROVE  PairedCopies' /\ OpenCalls'
  <1>1. PICK C \in SUBSET Calls :
            /\ <<Calling(C)>> \in Histories
            /\ Text' = Text \o <<Calling(C)>> /\ ctx'[t] = ctx[t] \o <<Calling(C)>>
            /\ Pending = {} /\ Pending' = C /\ ToSet(todo'[t]) = C
    BY CallsTalk
  <1> DEFINE m == <<Calling(C)>>
  <1>2. /\ m \in Histories
        /\ \A i \in DOMAIN m : /\ ~Tool(m, i) /\ m[i].calls \subseteq C
                               /\ m[i].calls # {} => \A j \in DOMAIN m : j <= i
    <2>1. DOMAIN m = {1} /\ m[1] = Calling(C)
      OBVIOUS
    <2>2. Calling(C).role # "tool" /\ Calling(C).calls = C
      BY DEF Calling
    <2> HIDE DEF m
    <2>3. ~Tool(m, 1) /\ m[1].calls \subseteq C
      BY <2>1, <2>2 DEF Tool
    <2>4. m \in Histories
      BY <1>1 DEF m
    <2> QED
      BY <2>1, <2>3, <2>4
  <1>3. ASSUME NEW g \in Live PROVE Paired(g \o m, C) /\ Open(g \o m, C)
    <2>1. g \in Histories /\ Paired(g, {})
      BY <1>1, CopiesSound DEF PairedCopies
    <2>2. Joined(g \o m, g, m)
      BY <1>2, <2>1, Joins
    <2>3. Open(g \o m, C)
      BY <1>1, <2>1, <2>2, OpenCalling
    <2> HIDE DEF m
    <2>4. Paired(g \o m, C)
      BY <1>2, <2>1, <2>2, PairedJoined
    <2> QED
      BY <2>3, <2>4
  <1>4. PairedCopies'
    <2>1. ASSUME NEW h \in Live' PROVE Paired(h, C)
      <3>1. h \in {Text \o m, ctx[t] \o m, <<>>} /\ Text \in Live /\ ctx[t] \in Live
        BY <1>1, TalkCopies
      <3> HIDE DEF m
      <3> QED
        BY <1>3, <3>1, NothingSaid
    <2> QED
      BY <1>1, <2>1 DEF PairedCopies
  <1>5. OpenCalls'
    <2>1. SUFFICES ASSUME NEW u \in Threads, todo'[u] # <<>>
          PROVE  Open(Text', ToSet(todo'[u])) /\ Open(ctx'[u], ToSet(todo'[u]))
      BY DEF OpenCalls
    <2>2. u = t /\ Text \in Live /\ ctx[t] \in Live
      BY <2>1, TalkCopies
    <2> HIDE DEF m
    <2>3. Text' = Text \o m /\ ctx'[t] = ctx[t] \o m /\ ToSet(todo'[t]) = C
      BY <1>1 DEF m
    <2> QED
      BY <1>3, <2>2, <2>3
  <1> QED
    BY <1>4, <1>5

LEMMA PairedResultStep ==
  ASSUME CalmInv, ~Tangled, PairedCopies, OpenCalls, NEW t \in Threads, StoreResult(t),
         HistoryType'
  PROVE  PairedCopies' /\ OpenCalls'
  <1>0. todo[t] # <<>>
    BY ResultEffect DEF CalmInv, LossInv
  <1>1. PICK c \in Calls :
            /\ <<Result(c)>> \in Histories
            /\ Text' = Text \o <<Result(c)>> /\ ctx'[t] = ctx[t] \o <<Result(c)>>
            /\ Pending = ToSet(todo[t]) /\ Pending' = ToSet(todo'[t])
            /\ Pending' \subseteq Pending /\ Pending \subseteq Pending' \cup {c}
            /\ c \in Pending
    BY ResultTalk
  <1>2. Open(Text, Pending) /\ Open(ctx[t], Pending)
    BY <1>0, <1>1 DEF OpenCalls
  <1>3. ASSUME NEW g \in Live, Open(g, Pending)
        PROVE  Paired(g \o <<Result(c)>>, Pending') /\ Open(g \o <<Result(c)>>, Pending')
    <2>1. g \in Histories /\ Paired(g, Pending)
      BY CopiesSound DEF PairedCopies
    <2>2. Joined(g \o <<Result(c)>>, g, <<Result(c)>>)
      BY <1>1, <2>1, Joins
    <2>3. Paired(g \o <<Result(c)>>, Pending') /\ Open(g \o <<Result(c)>>, Pending)
      BY <1>1, <1>3, <2>1, <2>2, PairedResult
    <2> QED
      BY <1>1, <2>3, FewerCalls
  <1>4. \A h \in Live' : Paired(h, Pending')
    BY <1>1, <1>2, <1>3, TalkCopies, NothingSaid
  <1>5. OpenCalls'
    BY <1>1, <1>2, <1>3, TalkCopies DEF OpenCalls
  <1> QED
    BY <1>4, <1>5 DEF PairedCopies

\* Every call has its result: padOrphanToolResults has nothing to add.
LEMMA PairedPadStep ==
  ASSUME CalmInv, ~Tangled, PairedCopies, NEW t \in Threads, Pad(t), HistoryType'
  PROVE  PairedCopies' /\ OpenCalls'
  <1>1. PICK s \in Seq(Calls) :
            /\ ToSet(s) = Unanswered(Text)
            /\ Results(s) \in Histories
            /\ Text' = Text \o Results(s) /\ ctx' = ctx
            /\ Pending = {} /\ Pending' = {}
            /\ \A u \in Threads : todo'[u] = <<>>
    BY PadTalk
  <1>2. Text \in Histories /\ Paired(Text, {})
    BY <1>1, CopiesSound DEF PairedCopies, Live
  <1>3. ToSet(s) = {}
    BY <1>1, <1>2, NoneUnanswered DEF Paired
  <1>4. DOMAIN Results(s) = {}
    BY <1>3, ResultsType DEF ToSet
  <1> DEFINE m == Results(s)
  <1>5. Joined(Text', Text, m) /\ m \in Histories
    BY <1>1, <1>2, Joins
  <1>6. \A i \in DOMAIN m : /\ ~Tool(m, i) /\ m[i].calls \subseteq {}
                            /\ m[i].calls # {} => \A j \in DOMAIN m : j <= i
    BY <1>4
  <1> HIDE DEF m
  <1>7. Paired(Text', {})
    BY <1>2, <1>5, <1>6, PairedJoined
  <1>8. \A h \in Live' : h = Text' \/ h \in Live
    BY <1>1 DEF Live
  <1>9. \A h \in Live' : Paired(h, {})
    BY <1>1, <1>7, <1>8 DEF PairedCopies
  <1> QED
    BY <1>1, <1>9 DEF PairedCopies, OpenCalls

LEMMA PairedCompactStep ==
  ASSUME CalmInv, ~Tangled, PairedCopies, NEW t \in Threads, Compact(t), HistoryType'
  PROVE  PairedCopies' /\ OpenCalls'
  <1>1. ctx[t] \in Histories /\ Paired(ctx[t], {}) /\ Pending = {} /\ Pending' = {}
    <2>1. ctx[t] \in Live
      BY DEF Live
    <2> QED
      BY <2>1, CopiesSound, CompactCut DEF PairedCopies
  <1>2. ASSUME NEW h \in Live' PROVE Paired(h, {})
    <2>1. PICK g \in {k \in Histories : k = ctx[t] \/ ("cut" \in marks' /\ CutFrom(k, ctx[t]))} :
             h \in {g, <<>>}
      BY CompactCut
    <2>2. CutFrom(g, ctx[t]) => Paired(g, {})
      BY <1>1, PairedCut DEF CutFrom
    <2> QED
      BY <1>1, <2>1, <2>2, NothingSaid
  <1>3. \A u \in Threads : todo'[u] = <<>>
    BY CompactCut
  <1> QED
    BY <1>1, <1>2, <1>3 DEF PairedCopies, OpenCalls

LEMMA PairStep ==
  ASSUME PairInv, [TurnNext]_convVars, HistoryType', ~Tangled', ~Displaced'
  PROVE  PairedCopies' /\ OpenCalls'
  <1>0. LossInv /\ CalmInv /\ ~Tangled /\ ~Displaced /\ PairedCopies /\ OpenCalls
    BY TangledStays, DisplacedStays DEF PairInv, CalmInv, LossInv
  <1>1. CASE Untouched
    <2>1. Text' = Text /\ ctx' = ctx /\ todo' = todo
      BY <1>1 DEF Untouched
    <2> QED
      BY <1>0, <2>1 DEF PairedCopies, OpenCalls, Live, Pending
  <1>2. ASSUME NEW t \in Threads, PlainStep(t) PROVE PairedCopies' /\ OpenCalls'
    BY <1>0, <1>2, PairedPlainStep
  <1>3. ASSUME NEW t \in Threads, ModelCalls(t) \/ StoreResult(t) \/ Pad(t) \/ Compact(t)
        PROVE  PairedCopies' /\ OpenCalls'
    BY <1>0, <1>3, PairedCallsStep, PairedResultStep, PairedPadStep, PairedCompactStep
  <1> QED
    BY <1>0, <1>1, <1>2, <1>3, OtherSteps

LEMMA PairInit ==
  ASSUME TurnInit
  PROVE  PairInv /\ row = <<>> /\ (\A h \in Live : h = <<>>) /\ \A t \in Threads : todo[t] = <<>>
  <1>1. row = <<>> /\ (\A h \in Live : h = <<>>) /\ \A t \in Threads : todo[t] = <<>>
    BY DEF TurnInit, SessionInit, Live, Text
  <1>2. PairedCopies /\ OpenCalls
    BY <1>1, NothingSaid DEF PairedCopies, OpenCalls
  <1> QED
    BY <1>1, <1>2, CalmInit DEF PairInv

LEMMA PairAlways == TurnSpec => []PairInv
  <1>1. PairInv /\ [TurnNext]_convVars => PairInv'
    BY CalmStep, PairStep DEF PairInv
  <1>2. TurnInit => PairInv
    BY PairInit
  <1> QED
    BY <1>1, <1>2, PTL DEF TurnSpec

\* What the OpenAI client sends of a turn's copy is what the API demands, as long
\* as turns take turns and nothing came between a call and its results: the
\* results follow their calls through rounds, steers, cuts, saves that fail and
\* identifiers that come again (openai.go:86-188, loop.go).
THEOREM OpenAITheorem == TurnSpec => []OpenAIAccepts
  <1>1. ASSUME PairInv PROVE OpenAIAccepts
    <2> SUFFICES ASSUME ~Tangled, ~Displaced, NEW t \in Turners
                 PROVE  WellFormed(ctx[t], KeptByOpenAI(ctx[t]))
      BY DEF OpenAIAccepts
    <2>1. t \in Threads /\ ctx[t] \in Live
      BY Bounds DEF Live
    <2>2. ctx[t] \in Histories /\ Once(ctx[t]) /\ Adjacent(ctx[t])
      BY <1>1, <2>1, CopiesSound DEF PairInv, PairedCopies, Regular, Paired
    <2> QED
      BY <2>2, OpenAIFits
  <1> QED
    BY <1>1, PairAlways, PTL

\* Every result has its call, unless a compaction cut between a call and a result
\* that was displaced, or a call was repeated beside one.
DeclaredCopies == Declared(row) /\ \A h \in Live : Declared(h)
AnnouncedCalls == \A t \in Threads : todo[t] # <<>>
                     => Announced(Text, ToSet(todo[t])) /\ Announced(ctx[t], ToSet(todo[t]))

Estranged == Displaced /\ marks \cap {"cut", "reissued"} # {}

DeclInv == PairInv /\ (~Tangled /\ ~Estranged => DeclaredCopies /\ AnnouncedCalls)

LEMMA EstrangedStays ==
  ASSUME FlowInv, [TurnNext]_convVars, ~Estranged'
  PROVE  ~Estranged
  <1>1. marks \subseteq marks'
    BY Grows DEF FlowInv, SteerInv
  <1> QED
    BY <1>1 DEF Estranged, Displaced

\* After a plain step its thread awaits no results; the others' calls stay.
LEMMA PlainWaits ==
  ASSUME FlowInv, FlowInv', NEW t \in Threads, PlainStep(t)
  PROVE  /\ todo'[t] = <<>> /\ current' = current
         /\ \A u \in Threads \ {t} : todo'[u] = todo[u] /\ ctx'[u] = ctx[u]
  <1>0. PlaceType /\ HistoryType /\ CountType
    BY DEF FlowInv, SteerInv
  <1>1. at'[t] \notin {"called", "results"}
    <2>1. CASE StreamEnds(t)
      BY <2>1 DEF StreamEnds, FlowInv, Flow, FlowPlace
    <2>2. CASE ~StreamEnds(t)
      BY <1>0, <2>2 DEF PlaceType, PlainStep, Begin, Accept, ModelFails, ModelAnswers,
         AfterAnswer, LoopDetected, NextRound, StreamsAnswer, FinalAnswer, Finish, Steer,
         Inject, Go
    <2> QED
      BY <2>1, <2>2
  <1>2. todo'[t] = <<>>
    BY <1>1 DEF FlowInv, Flow, FlowPlace
  <1>3. Alone(t)
    BY <1>0, StepAlone DEF PlainStep, Proceed
  <1>4. current' = current
    BY DEF PlainStep, Begin, Accept, ModelFails, ModelAnswers, AfterAnswer, LoopDetected,
           NextRound, StreamsAnswer, StreamEnds, FinalAnswer, Finish, Steer, Inject, Unmoved
  <1> QED
    BY <1>2, <1>3, <1>4 DEF Alone

LEMMA DeclaredPlainStep ==
  ASSUME CalmInv, FlowInv', ~Tangled, DeclaredCopies, AnnouncedCalls, NEW t \in Threads,
         PlainStep(t)
  PROVE  (\A h \in Live' : Declared(h)) /\ AnnouncedCalls'
  <1>0. FlowInv /\ HistoryType /\ LossInv /\ HasText
    BY DEF CalmInv, LossInv, FlowInv
  <1>1. ASSUME NEW h \in Live' PROVE Declared(h)
    <2>1. \A g \in Live \cup {<<>>} : g \in Histories /\ Declared(g)
      BY CopiesSound, NothingSaid DEF DeclaredCopies
    <2>2. ASSUME NEW g \in Live \cup {<<>>}, NEW m \in Histories, Plain(m)
          PROVE  Declared(g \o m)
      BY <2>1, <2>2, Joins, PlainAnswers, DeclaredJoined
    <2> QED
      BY <2>1, <2>2, PlainCopies
  <1>2. ASSUME NEW u \in Threads, todo'[u] # <<>>
        PROVE  Announced(Text', ToSet(todo'[u])) /\ Announced(ctx'[u], ToSet(todo'[u]))
    <2>1. u # t /\ todo'[u] = todo[u] /\ ctx'[u] = ctx[u] /\ current' = current
      BY <1>0, <1>2, PlainWaits
    <2>2. Announced(Text, ToSet(todo[u])) /\ Announced(ctx[u], ToSet(todo[u]))
      BY <1>2, <2>1 DEF AnnouncedCalls
    <2>3. mem[current] # <<>>
      BY <1>0, <1>2, <2>1, PastWorks DEF HasText
    <2>4. obj[t] \in Objects /\ (Keeps \/ Speaks(t)) /\ Text \in Histories
      BY <1>0, PlainEffect, CopiesSound DEF Live
    <2>5. mem[obj[t]] # <<>>
      BY <1>0, <2>3, <2>4, HoldsCurrent
    <2>6. Text' = Text \/ \E m \in Histories : Text' = Text \o m
      <3>1. CASE Keeps
        BY <2>1, <3>1 DEF Keeps, Text
      <3>2. CASE Speaks(t)
        BY <1>0, <2>1, <2>4, <2>5, <3>2, TextAppended DEF Speaks
      <3> QED
        BY <2>4, <3>1, <3>2
    <2>7. Announced(Text', ToSet(todo[u]))
      BY <2>2, <2>4, <2>6, Joins, AnnouncedJoined
    <2> QED
      BY <2>1, <2>2, <2>7
  <1> QED
    BY <1>1, <1>2 DEF AnnouncedCalls

LEMMA DeclaredCallsStep ==
  ASSUME CalmInv, ~Tangled, DeclaredCopies, NEW t \in Threads, ModelCalls(t), HistoryType'
  PROVE  (\A h \in Live' : Declared(h)) /\ AnnouncedCalls'
  <1>1. PICK C \in SUBSET Calls :
            /\ <<Calling(C)>> \in Histories
            /\ Text' = Text \o <<Calling(C)>> /\ ctx'[t] = ctx[t] \o <<Calling(C)>>
            /\ ToSet(todo'[t]) = C
    BY CallsTalk
  <1> DEFINE m == <<Calling(C)>>
  <1>2. ASSUME NEW g \in Live PROVE Declared(g \o m) /\ Announced(g \o m, C)
    <2>1. g \in Histories /\ Declared(g)
      BY CopiesSound DEF DeclaredCopies
    <2>2. Joined(g \o m, g, m)
      BY <1>1, <2>1, Joins
    <2>3. Announced(g \o m, C)
      BY <1>1, <2>1, <2>2, OpenCalling, OpenAnnounced
    <2>4. Answering(g, m) /\ m \in Histories
      BY <1>1 DEF Answering, Tool, Calling
    <2> HIDE DEF m
    <2>5. Declared(g \o m)
      BY <2>1, <2>2, <2>4, DeclaredJoined
    <2> QED
      BY <2>3, <2>5
  <1>3. \A h \in Live' : Declared(h)
    BY <1>1, <1>2, TalkCopies, NothingSaid
  <1>4. AnnouncedCalls'
    BY <1>1, <1>2, TalkCopies DEF AnnouncedCalls
  <1> QED
    BY <1>3, <1>4

LEMMA DeclaredResultStep ==
  ASSUME CalmInv, ~Tangled, DeclaredCopies, AnnouncedCalls, NEW t \in Threads,
         StoreResult(t), HistoryType'
  PROVE  (\A h \in Live' : Declared(h)) /\ AnnouncedCalls'
  <1>0. todo[t] # <<>>
    BY ResultEffect DEF CalmInv, LossInv
  <1>1. PICK c \in Calls :
            /\ <<Result(c)>> \in Histories
            /\ Text' = Text \o <<Result(c)>> /\ ctx'[t] = ctx[t] \o <<Result(c)>>
            /\ Pending = ToSet(todo[t]) /\ Pending' = ToSet(todo'[t])
            /\ Pending' \subseteq Pending /\ c \in Pending
    BY ResultTalk
  <1> DEFINE m == <<Result(c)>>
  <1>2. ASSUME NEW g \in Live, Announced(g, Pending)
        PROVE  Declared(g \o m) /\ Announced(g \o m, Pending')
    <2>1. g \in Histories /\ Declared(g)
      BY CopiesSound DEF DeclaredCopies
    <2>2. Joined(g \o m, g, m) /\ m \in Histories
      BY <1>1, <2>1, Joins
    <2>3. Answering(g, m)
      <3>1. \E j \in DOMAIN g : c \in g[j].calls
        BY <1>1, <1>2 DEF Announced
      <3>2. DOMAIN m = {1} /\ m[1].answers = c
        BY DEF Result
      <3> HIDE DEF m
      <3> QED
        BY <3>1, <3>2 DEF Answering
    <2> HIDE DEF m
    <2>4. Declared(g \o m) /\ Announced(g \o m, Pending)
      BY <1>2, <2>1, <2>2, <2>3, DeclaredJoined, AnnouncedJoined
    <2>5. Pending' \subseteq Pending
      BY <1>1
    <2>6. Announced(g \o m, Pending')
      BY <2>4, <2>5, FewerCalls
    <2> QED
      BY <2>4, <2>6 DEF m
  <1>3. Announced(Text, Pending) /\ Announced(ctx[t], Pending)
    BY <1>0, <1>1 DEF AnnouncedCalls
  <1>4. \A h \in Live' : Declared(h)
    BY <1>1, <1>2, <1>3, TalkCopies, NothingSaid
  <1>5. AnnouncedCalls'
    <2>1. Text \in Live /\ ctx[t] \in Live /\ \A u \in Threads \ {t} : todo'[u] = <<>>
      BY TalkCopies
    <2>2. Announced(Text \o m, Pending') /\ Announced(ctx[t] \o m, Pending')
      BY <1>2, <1>3, <2>1
    <2>3. Announced(Text', ToSet(todo'[t])) /\ Announced(ctx'[t], ToSet(todo'[t]))
      BY <1>1, <2>2
    <2> QED
      BY <2>1, <2>3 DEF AnnouncedCalls
  <1> QED
    BY <1>4, <1>5

LEMMA DeclaredPadStep ==
  ASSUME CalmInv, ~Tangled, DeclaredCopies, NEW t \in Threads, Pad(t), HistoryType'
  PROVE  (\A h \in Live' : Declared(h)) /\ AnnouncedCalls'
  <1>1. PICK s \in Seq(Calls) :
            /\ ToSet(s) = Unanswered(Text)
            /\ Results(s) \in Histories
            /\ Text' = Text \o Results(s) /\ ctx' = ctx
            /\ \A u \in Threads : todo'[u] = <<>>
    BY PadTalk
  <1>2. Text \in Histories /\ Declared(Text)
    BY CopiesSound DEF DeclaredCopies, Live
  <1>3. Answering(Text, Results(s))
    <2> SUFFICES ASSUME NEW i \in DOMAIN s
                 PROVE  \E j \in DOMAIN Text : Results(s)[i].answers \in Text[j].calls
      BY ResultsType DEF Answering
    <2>1. s[i] \in Unanswered(Text) /\ Results(s)[i].answers = s[i]
      BY <1>1, ResultsType DEF ToSet
    <2> QED
      BY <1>2, <2>1, UnansweredFacts
  <1>4. Declared(Text')
    BY <1>1, <1>2, <1>3, Joins, DeclaredJoined
  <1> QED
    BY <1>1, <1>4 DEF DeclaredCopies, AnnouncedCalls, Live

\* A cut takes a call from a result only where results were displaced.
LEMMA DeclaredCompactStep ==
  ASSUME PairInv, ~Tangled, ~Estranged', ~Estranged, DeclaredCopies, NEW t \in Threads,
         Compact(t), HistoryType'
  PROVE  (\A h \in Live' : Declared(h)) /\ AnnouncedCalls'
  <1>0. CalmInv /\ ctx[t] \in Live
    BY DEF PairInv, Live
  <1>1. ASSUME NEW h \in Live' PROVE Declared(h)
    <2>1. PICK g \in {k \in Histories : k = ctx[t] \/ ("cut" \in marks' /\ CutFrom(k, ctx[t]))} :
             h \in {g, <<>>}
      BY <1>0, CompactCut
    <2>2. ASSUME "cut" \in marks', CutFrom(g, ctx[t]) PROVE Declared(g)
      <3>1. ~Displaced
        <4>1. marks \subseteq marks'
          BY DEF Compact
        <4> QED
          BY <2>2, <4>1 DEF Estranged, Displaced
      <3>2. Paired(ctx[t], {}) /\ ctx[t] \in Histories
        BY <1>0, <3>1, CopiesSound, CompactCut DEF PairInv, PairedCopies
      <3>3. Paired(g, {})
        BY <2>2, <3>2, PairedCut DEF CutFrom
      <3> QED
        BY <2>1, <3>3, AdjacentDeclared DEF Paired
    <2> QED
      BY <1>0, <2>1, <2>2, NothingSaid DEF DeclaredCopies
  <1>2. \A u \in Threads : todo'[u] = <<>>
    BY <1>0, CompactCut
  <1> QED
    BY <1>1, <1>2 DEF AnnouncedCalls

LEMMA DeclStep ==
  ASSUME DeclInv, [TurnNext]_convVars, FlowInv', ~Tangled', ~Estranged'
  PROVE  DeclaredCopies' /\ AnnouncedCalls'
  <1>0. /\ LossInv /\ CalmInv /\ PairInv /\ HistoryType' /\ ~Tangled
        /\ ~Estranged /\ DeclaredCopies /\ AnnouncedCalls /\ current' \in Objects \cup {0}
    BY TangledStays, EstrangedStays
       DEF DeclInv, PairInv, CalmInv, LossInv, FlowInv, SteerInv, ObjectType
  <1>1. (\A h \in Live' : Declared(h)) /\ AnnouncedCalls'
    <2>1. CASE Untouched
      <3>1. CASE Text' = Text /\ ctx' = ctx /\ todo' = todo
        BY <1>0, <3>1 DEF DeclaredCopies, AnnouncedCalls, Live
      <3>2. CASE Text' = row /\ \A t \in Threads : todo'[t] = <<>> /\ ctx'[t] = <<>>
        <4>1. \A h \in Live' : h \in {row, <<>>}
          BY <3>2 DEF Live
        <4> QED
          BY <1>0, <3>2, <4>1, NothingSaid DEF DeclaredCopies, AnnouncedCalls
      <3> QED
        BY <2>1, <3>1, <3>2 DEF Untouched
    <2>2. ASSUME NEW t \in Threads, PlainStep(t)
          PROVE  (\A h \in Live' : Declared(h)) /\ AnnouncedCalls'
      BY <1>0, <2>2, DeclaredPlainStep
    <2>3. ASSUME NEW t \in Threads, ModelCalls(t) \/ StoreResult(t) \/ Pad(t) \/ Compact(t)
          PROVE  (\A h \in Live' : Declared(h)) /\ AnnouncedCalls'
      BY <1>0, <2>3, DeclaredCallsStep, DeclaredResultStep, DeclaredPadStep,
         DeclaredCompactStep
    <2> QED
      BY <1>0, <2>1, <2>2, <2>3, OtherSteps
  <1>2. Declared(row')
    <2>1. Text' \in Live'
      BY DEF Live
    <2> QED
      BY <1>0, <1>1, <2>1, SoundRow DEF DeclaredCopies
  <1> QED
    BY <1>1, <1>2 DEF DeclaredCopies

LEMMA DeclAlways == TurnSpec => []DeclInv
  <1>1. TurnInit => DeclInv
    BY PairInit, NothingSaid DEF DeclInv, DeclaredCopies, AnnouncedCalls
  <1>2. DeclInv /\ [TurnNext]_convVars => DeclInv'
    <2> SUFFICES ASSUME DeclInv, [TurnNext]_convVars PROVE DeclInv'
      OBVIOUS
    <2>1. CalmInv' /\ HistoryType' /\ FlowInv'
      BY CalmStep DEF DeclInv, PairInv, CalmInv, LossInv
    <2>2. PairInv'
      BY <2>1, PairStep DEF DeclInv, PairInv
    <2> QED
      BY <2>1, <2>2, DeclStep DEF DeclInv
  <1> QED
    BY <1>1, <1>2, PTL DEF TurnSpec

\* What the Anthropic client sends is what the API demands, also of a
\* conversation that a detected loop, a group message, a crash or a save that
\* failed left with holes, or that a compaction cut: its sweep takes out what has
\* lost its call's results, and every result that stays has its call
\* (anthropic.go:61-150).
THEOREM AnthropicTheorem == TurnSpec => []AnthropicAccepts
  <1>1. ASSUME DeclInv PROVE AnthropicAccepts
    <2> SUFFICES ASSUME ~Tangled, ~Estranged, NEW t \in Turners, AtModel(t)
                 PROVE  WellFormed(ctx[t], KeptByAnthropic(ctx[t]))
      BY DEF AnthropicAccepts, Estranged
    <2>0. t \in Threads /\ CalmInv /\ PairInv /\ ctx[t] \in Live
      BY <1>1, Bounds DEF DeclInv, PairInv, Live
    <2>1. ctx[t] \in Histories /\ Once(ctx[t]) /\ (DistinctCopies => SingleUse(ctx[t]))
      BY <2>0, CopiesSound DEF Regular
    <2>2. CASE Displaced
      <3>1. "reissued" \notin marks
        BY <2>2 DEF Estranged
      <3>2. SingleUse(ctx[t])
        BY <2>0, <2>1, <3>1 DEF CalmInv
      <3>3. Declared(ctx[t])
        BY <1>1, <2>0 DEF DeclInv, DeclaredCopies
      <3> QED
        BY <2>1, <3>2, <3>3, AnthropicFits
    <2>3. CASE ~Displaced
      <3>1. Past(t) /\ todo[t] = <<>>
        BY <2>0 DEF AtModel, Past, CalmInv, LossInv, FlowInv, Flow, FlowPlace
      <3>2. Pending = {}
        BY <2>0, <3>1, TurnAlone, NoneWait
      <3>3. Paired(ctx[t], {})
        BY <2>0, <2>3, <3>2 DEF PairInv, PairedCopies
      <3> QED
        BY <2>1, <3>3, AnthropicPaired
    <2> QED
      BY <2>2, <2>3
  <1> QED
    BY <1>1, DeclAlways, PTL
=============================================================================
