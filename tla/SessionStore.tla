---------------------------- MODULE SessionStore ----------------------------
(***************************************************************************)
(* internal/session/manager.go with the sessions table it writes through:  *)
(* one conversation.  The Manager keeps a Session object per key; every    *)
(* change of the object's messages is saved as a whole to its row, and     *)
(* every Get reads the row back into the object.  A save that fails is not *)
(* reported: the object goes on ahead of its row.  Get holds Manager.mu    *)
(* through its query; the other operations hold Session.mu only, so they   *)
(* may come between the query and the assignment.                          *)
(*                                                                         *)
(* A Manager belongs to an agent object.  When the agent is rebuilt (its   *)
(* user space was evicted or reloaded) a turn that is running keeps its    *)
(* old Session object, and the next Get makes another one for the key.     *)
(***************************************************************************)
EXTENDS WireFormat, SequencesExt, FiniteSets

CONSTANTS
    Threads,       \* goroutines that use the conversation
    Nobody,        \* not a thread
    MaxObjects,    \* Session objects made in a behaviour
    MaxUnsaves      \* bound on the steps whose saves fail

ASSUME SessionAssumption ==
    Nobody \notin Threads /\ MaxObjects \in Nat \ {0} /\ MaxUnsaves \in Nat

Objects == 1..MaxObjects

VARIABLES
    row,        \* sessions.messages
    mem,        \* Session.Messages of each object
    current,    \* the object in Manager.sessions, or 0
    made,       \* objects made so far
    depth,      \* Session.turnDepth
    steerBuf,   \* Session.steerBuf
    holder,     \* the thread inside getByKey, or Nobody
    fetched,    \* what its query returned
    queryOK,    \* the query did not fail
    unsaves,     \* steps so far whose saves failed
    marks       \* what happened that the history does not survive, see Mark

sessionVars == <<row, mem, current, made, depth, steerBuf, holder, fetched, queryOK,
                 unsaves, marks>>

\* The marks tell the properties apart; no action reads them.
\*   stale      a Get assigned an answer older than the row
\*   unloaded   a Get could not load the row and started empty
\*   twoObjects the manager was replaced while threads held the old object
\*   lateCut    a compaction replaced messages it had not seen
\*   cut        a compaction summarised messages
\*   uncut      its result was not saved
\*   undone     a Get took messages that were not saved back, under a turn
\*   forgotten  ... or while none worked
\*   looped, injected, overlapped, crashed, reissued: see AgentTurn
Marks == {"stale", "unloaded", "twoObjects", "lateCut", "cut", "uncut", "undone",
          "forgotten", "looped", "injected", "overlapped", "crashed", "reissued"}

SessionType ==
    /\ row \in Histories
    /\ mem \in [Objects -> Histories]
    /\ current \in Objects \cup {0}
    /\ made \in 0..MaxObjects
    /\ depth \in [Objects -> Nat]
    /\ steerBuf \in [Objects -> Histories]
    /\ holder \in Threads \cup {Nobody}
    /\ fetched \in Histories
    /\ queryOK \in BOOLEAN
    /\ unsaves \in 0..MaxUnsaves
    /\ marks \subseteq Marks

SessionInit ==
    /\ row = <<>>
    /\ mem = [o \in Objects |-> <<>>]
    /\ current = 0
    /\ made = 0
    /\ depth = [o \in Objects |-> 0]
    /\ steerBuf = [o \in Objects |-> <<>>]
    /\ holder = Nobody
    /\ fetched = <<>>
    /\ queryOK = TRUE
    /\ unsaves = 0
    /\ marks = {}
-----------------------------------------------------------------------------
\* getByKey up to the answer of its query.  A query that fails leaves the
\* messages of a cached object alone and starts a new one empty.
GetQuery(t, ok) ==
    /\ holder = Nobody
    /\ holder' = t
    /\ queryOK' = ok
    /\ fetched' = IF ok THEN row ELSE <<>>
    /\ UNCHANGED <<row, mem, current, made, depth, steerBuf, unsaves, marks>>

\* The object getByKey returns.
Returned == IF current # 0 THEN current ELSE made + 1

\* What getByKey leaves in the object: a failed query changes nothing there.
\* (mutant: a failed query empties it)
ReloadedAnyway(o) == fetched
Reloaded(o) == IF queryOK THEN fetched ELSE mem[o]

\* Messages of the cached object that the row h has not.
Unsaved(h) == current # 0 /\ mem[current] \notin {<<>>, h}

\* ... and its rest: the answer goes into the cached object, or into a new one;
\* busy says that a turn works on the object.
GetAssign(t, busy) ==
    /\ holder = t
    /\ Returned <= MaxObjects
    /\ holder' = Nobody
    /\ current' = Returned
    /\ made' = IF current # 0 THEN made ELSE made + 1
    /\ mem' = [mem EXCEPT ![Returned] = Reloaded(Returned)]
    /\ marks' = marks
         \cup (IF queryOK /\ fetched # row THEN {"stale"} ELSE {})
         \cup (IF current = 0 /\ ~queryOK /\ row # <<>> THEN {"unloaded"} ELSE {})
         \cup (IF queryOK /\ Unsaved(fetched)
               THEN {IF busy THEN "undone" ELSE "forgotten"} ELSE {})
    /\ fetched' = <<>>
    /\ queryOK' = TRUE
    /\ UNCHANGED <<row, depth, steerBuf, unsaves>>

\* The error of SaveSession is dropped.
Saves(ok) == IF ok THEN UNCHANGED unsaves ELSE unsaves < MaxUnsaves /\ unsaves' = unsaves + 1

\* Session.Append on object o, of a message or of several one after the other.
\* Each call saves all of the object's messages: the row has them up to the
\* last one whose save went through, the n-th.
AppendTo(o, msgs) ==
    /\ mem' = [mem EXCEPT ![o] = @ \o msgs]
    /\ \E n \in 0..Len(msgs) :
          /\ row' = IF n = 0 THEN row ELSE mem[o] \o SubSeq(msgs, 1, n)
          /\ Saves(n = Len(msgs))

\* Session.ReplaceMessages; ok says that its save went through.
Replace(o, msgs, ok) ==
    /\ mem' = [mem EXCEPT ![o] = msgs]
    /\ row' = IF ok THEN msgs ELSE row
    /\ Saves(ok)

BeginTurn(o) ==
    /\ depth' = [depth EXCEPT ![o] = @ + 1]
    /\ UNCHANGED steerBuf

\* What EndTurn hands back for a fresh turn: nothing before the last turn ends.
Leftovers(o) == IF depth[o] > 1 THEN <<>> ELSE steerBuf[o]

EndTurn(o) ==
    /\ depth' = [depth EXCEPT ![o] = IF @ > 0 THEN @ - 1 ELSE 0]
    /\ steerBuf' = [steerBuf EXCEPT ![o] = IF depth[o] > 1 THEN @ ELSE <<>>]

\* PushSteerIfActive: accepted while a turn runs on the object.
\* (mutant: accepted always)
PushSteerAlways(o, m) ==
    /\ steerBuf' = [steerBuf EXCEPT ![o] = Append(@, m)]
    /\ UNCHANGED depth
PushSteer(o, m) ==
    /\ depth[o] > 0
    /\ steerBuf' = [steerBuf EXCEPT ![o] = Append(@, m)]
    /\ UNCHANGED depth

DrainSteer(o) ==
    /\ steerBuf' = [steerBuf EXCEPT ![o] = <<>>]
    /\ UNCHANGED depth
-----------------------------------------------------------------------------
\* The agent was rebuilt: its manager starts with no objects.
NewManager ==
    /\ holder = Nobody
    /\ current # 0
    /\ made < MaxObjects
    /\ current' = 0
    /\ UNCHANGED <<row, mem, made, depth, steerBuf, holder, fetched, queryOK, unsaves>>

\* The process died; its objects and their steers are gone.
DropObjects ==
    /\ current' = 0
    /\ depth' = [o \in Objects |-> 0]
    /\ steerBuf' = [o \in Objects |-> <<>>]
    /\ holder' = Nobody
    /\ fetched' = <<>>
    /\ queryOK' = TRUE
=============================================================================
