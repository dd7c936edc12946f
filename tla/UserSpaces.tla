----------------------------- MODULE UserSpaces -----------------------------
(***************************************************************************)
(* The user spaces of one process (internal/gateway/userspace.go,          *)
(* reload.go): the cached configuration and agents of each user, loaded on *)
(* first use, dropped when idle, when settings change and when the sandbox *)
(* pool is rebuilt.  One agent is followed.  Its owner's space is loaded   *)
(* with it; the space of another user, who chats with it as well, attaches *)
(* it on first use (EnsureAgent).  A turn keeps the space it was given.    *)
(*                                                                         *)
(* Settings are a version number; what else a space holds is left out.     *)
(***************************************************************************)
EXTENDS Integers, FiniteSets, Sequences

CONSTANTS
    Users, AgentOwner,  \* AgentOwner is one of Users
    Turns,              \* turns at a time
    Admins,             \* requests that change settings, at a time
    NoUser,             \* not a user
    MaxSpaces,          \* bound on the spaces loaded
    MaxSettings,        \* bound on versions of the settings
    MaxPools            \* bound on sandbox pools

Spaces == 1..MaxSpaces
Unattached == -1

ASSUME SpaceAssumption ==
    /\ AgentOwner \in Users
    /\ NoUser \notin Users
    /\ {MaxSpaces, MaxSettings, MaxPools} \subseteq Nat \ {0}

VARIABLES
    settings,     \* the version in the database
    sandboxes,    \* the current sandbox pool
    registered,   \* userSpaceRegistry.spaces: the space of each user, or 0
    loading,      \* the turn that holds the registry's lock to load, or 0
    spaceUser, spacePool, spaceAgent,  \* of each space made
    dropped,      \* spaces that were taken out of the registry
    guests,       \* the turns
    admins,       \* the requests that change settings
    laggard       \* an attach finished that an invalidation had passed by

spaceVars == <<settings, sandboxes, registered, loading, spaceUser, spacePool,
               spaceAgent, dropped, guests, admins, laggard>>

NoLoad == <<>>
Made == DOMAIN spaceUser
\* A turn's visit; pool is the sandbox pool that was current when it asked.
Visit == [at |-> "idle", user |-> NoUser, space |-> 0, read |-> 0, pool |-> 0]

SpacesType ==
    /\ settings \in 1..MaxSettings
    /\ sandboxes \in 1..MaxPools
    /\ registered \in [Users -> 0..Cardinality(Made)]
    /\ loading \in {NoLoad} \cup {<<t>> : t \in Turns}
    /\ Made = 1..Cardinality(Made)
    /\ \A s \in Made : /\ spaceUser[s] \in Users
                       /\ spacePool[s] \in 1..MaxPools
                       /\ spaceAgent[s] \in 1..MaxSettings \cup {Unattached}
    /\ dropped \subseteq Made
    /\ guests \in [Turns -> [at : {"idle", "found", "missed", "loading", "has",
                                   "attaching", "running"},
                             user : Users \cup {NoUser}, space : Spaces \cup {0},
                             read : 0..MaxSettings, pool : 0..MaxPools]]
    /\ admins \in [Admins -> [at : {"idle", "wrote", "walking"}, todo : SUBSET Spaces]]
    /\ laggard \in BOOLEAN

SpacesInit ==
    /\ settings = 1 /\ sandboxes = 1
    /\ registered = [u \in Users |-> 0]
    /\ loading = NoLoad
    /\ spaceUser = <<>> /\ spacePool = <<>> /\ spaceAgent = <<>>
    /\ dropped = {}
    /\ guests = [t \in Turns |-> Visit]
    /\ admins = [a \in Admins |-> [at |-> "idle", todo |-> {}]]
    /\ laggard = FALSE

TurnGoes(t, new) == guests' = [guests EXCEPT ![t] = new]
SpacesSame == UNCHANGED <<spaceUser, spacePool, spaceAgent>>
World == <<settings, sandboxes, admins>>
Unlocked == loading = NoLoad
-----------------------------------------------------------------------------
\* getOrLoad looks for the space of u under the read lock.
Lookup(t, u) ==
    /\ guests[t] = Visit /\ Unlocked
    /\ TurnGoes(t, [Visit EXCEPT !.user = u, !.space = registered[u], !.pool = sandboxes,
                       !.at = IF registered[u] # 0 THEN "found" ELSE "missed"])
    /\ SpacesSame
    /\ UNCHANGED <<World, registered, loading, dropped, laggard>>

\* A found space is stamped under the write lock, in the registry or no more:
\* between the two locks it may be dropped and its sandbox pool closed.
Stamp(t) ==
    /\ guests[t].at = "found" /\ Unlocked
    /\ TurnGoes(t, [guests[t] EXCEPT !.at = "has"])
    /\ SpacesSame
    /\ UNCHANGED <<World, registered, loading, dropped, laggard>>

\* One that was missed is looked for again under the write lock,
LookAgain(t) ==
    /\ guests[t].at = "missed" /\ Unlocked
    /\ registered[guests[t].user] # 0
    /\ TurnGoes(t, [guests[t] EXCEPT !.at = "has", !.space = registered[guests[t].user]])
    /\ SpacesSame
    /\ UNCHANGED <<World, registered, loading, dropped, laggard>>

\* and loaded under it: everybody else waits while the database is read,
StartLoad(t) ==
    /\ guests[t].at = "missed" /\ Unlocked
    /\ registered[guests[t].user] = 0
    /\ loading' = <<t>>
    /\ TurnGoes(t, [guests[t] EXCEPT !.at = "loading", !.read = settings])
    /\ SpacesSame
    /\ UNCHANGED <<World, registered, dropped, laggard>>

\* which succeeds or fails.
Loaded(t) ==
    /\ guests[t].at = "loading"
    /\ Cardinality(Made) < MaxSpaces
    /\ LET s == Cardinality(Made) + 1
           u == guests[t].user
       IN /\ spaceUser' = Append(spaceUser, u)
          /\ spacePool' = Append(spacePool, sandboxes)
          /\ spaceAgent' = Append(spaceAgent,
                              IF u = AgentOwner THEN guests[t].read ELSE Unattached)
          /\ registered' = [registered EXCEPT ![u] = s]
          /\ TurnGoes(t, [guests[t] EXCEPT !.at = "has", !.space = s, !.read = 0])
    /\ loading' = NoLoad
    /\ UNCHANGED <<World, dropped, laggard>>

LoadFails(t) ==
    /\ guests[t].at = "loading"
    /\ loading' = NoLoad
    /\ TurnGoes(t, Visit)
    /\ SpacesSame
    /\ UNCHANGED <<World, registered, dropped, laggard>>

\* EnsureAgent, under the space's own lock: the agent's rows are read,
Attach(t) ==
    /\ guests[t].at = "has" /\ spaceAgent[guests[t].space] = Unattached
    /\ \A v \in Turns : guests[v].at = "attaching" => guests[v].space # guests[t].space
    /\ TurnGoes(t, [guests[t] EXCEPT !.at = "attaching", !.read = settings])
    /\ SpacesSame
    /\ UNCHANGED <<World, registered, loading, dropped, laggard>>

\* An invalidation that is under way will still come by this space.
Awaited(s) == \E a \in Admins : admins[a].at = "wrote" \/ s \in admins[a].todo

\* and the agent is built from them and added.
Attached(t) ==
    /\ guests[t].at = "attaching"
    /\ spaceAgent' = [spaceAgent EXCEPT ![guests[t].space] = guests[t].read]
    /\ TurnGoes(t, [guests[t] EXCEPT !.at = "running", !.read = 0])
    /\ laggard' = (laggard \/ (guests[t].read # settings /\ ~Awaited(guests[t].space)))
    /\ UNCHANGED <<World, registered, loading, spaceUser, spacePool, dropped>>

\* The agent is there, and the turn runs with it.
TurnRuns(t) ==
    /\ guests[t].at = "has" /\ spaceAgent[guests[t].space] # Unattached
    /\ TurnGoes(t, [guests[t] EXCEPT !.at = "running"])
    /\ SpacesSame
    /\ UNCHANGED <<World, registered, loading, dropped, laggard>>

TurnEnds(t) ==
    /\ guests[t].at = "running"
    /\ TurnGoes(t, Visit)
    /\ SpacesSame
    /\ UNCHANGED <<World, registered, loading, dropped, laggard>>
-----------------------------------------------------------------------------
Drop(u) ==
    /\ registered' = [registered EXCEPT ![u] = 0]
    /\ dropped' = dropped \cup ({registered[u]} \ {0})

\* An admin's request writes the agent's settings,
WriteSettings(a) ==
    /\ admins[a].at = "idle" /\ settings < MaxSettings
    /\ settings' = settings + 1
    /\ admins' = [admins EXCEPT ![a].at = "wrote"]
    /\ SpacesSame
    /\ UNCHANGED <<sandboxes, registered, loading, dropped, guests, laggard>>

\* then InvalidateAgent lists the spaces,
ListSpaces(a) ==
    /\ admins[a].at = "wrote" /\ Unlocked
    /\ admins' = [admins EXCEPT ![a] =
           [at |-> "walking", todo |-> {registered[u] : u \in Users} \ {0}]]
    /\ SpacesSame
    /\ UNCHANGED <<settings, sandboxes, registered, loading, dropped, guests, laggard>>

\* looks at one after the other, and drops the user's space, whichever it is
\* by now, if the one it listed has the agent.  (mutant: its owner's only)
InvalidateOwner(a, s) ==
    /\ s \in admins[a].todo /\ Unlocked
    /\ admins' = [admins EXCEPT ![a].todo = @ \ {s}]
    /\ IF spaceUser[s] = AgentOwner THEN Drop(AgentOwner)
                                     ELSE UNCHANGED <<registered, dropped>>
    /\ SpacesSame
    /\ UNCHANGED <<settings, sandboxes, loading, guests, laggard>>
Invalidate(a, s) ==
    /\ s \in admins[a].todo /\ Unlocked
    /\ admins' = [admins EXCEPT ![a].todo = @ \ {s}]
    /\ IF spaceAgent[s] # Unattached THEN Drop(spaceUser[s])
                                     ELSE UNCHANGED <<registered, dropped>>
    /\ SpacesSame
    /\ UNCHANGED <<settings, sandboxes, loading, guests, laggard>>

AdminDone(a) ==
    /\ admins[a].at = "walking" /\ admins[a].todo = {}
    /\ admins' = [admins EXCEPT ![a].at = "idle"]
    /\ SpacesSame
    /\ UNCHANGED <<settings, sandboxes, registered, loading, dropped, guests, laggard>>

\* evictIdle: the last lookup is long ago, whether or not its turn still runs.
EvictSpace(u) ==
    /\ Unlocked /\ registered[u] # 0
    /\ Drop(u)
    /\ SpacesSame
    /\ UNCHANGED <<World, loading, guests, laggard>>

\* ReloadSandbox: setSystemSandboxPool swaps the pool and drops every space.
ReloadSandbox ==
    /\ Unlocked /\ sandboxes < MaxPools
    /\ sandboxes' = sandboxes + 1
    /\ dropped' = dropped \cup ({registered[u] : u \in Users} \ {0})
    /\ registered' = [u \in Users |-> 0]
    /\ SpacesSame
    /\ UNCHANGED <<settings, admins, loading, guests, laggard>>

SpacesNext ==
    \/ \E t \in Turns :
          \/ \E u \in Users : Lookup(t, u)
          \/ Stamp(t) \/ LookAgain(t) \/ StartLoad(t) \/ Loaded(t) \/ LoadFails(t)
          \/ Attach(t) \/ Attached(t) \/ TurnRuns(t) \/ TurnEnds(t)
    \/ \E a \in Admins : \/ WriteSettings(a) \/ ListSpaces(a) \/ AdminDone(a)
                         \/ \E s \in Spaces : Invalidate(a, s)
    \/ \E u \in Users : EvictSpace(u)
    \/ ReloadSandbox

SpacesSpec == SpacesInit /\ [][SpacesNext]_spaceVars
-----------------------------------------------------------------------------
\* Once a change of settings has been announced to every space, the space a
\* lookup finds has it, the user's own or one that shares the agent
\* (reload.go:24-43: "so non-owner viewers don't keep stale rc.Model"), unless
\* an attach that read before the change finished after it.  A space a lookup
\* finds has the current sandbox pool, and what a user is handed in the end, at
\* once, after waiting for somebody's load or by his own, has the pool that was
\* current when he asked, or a later one (reload.go:63-84).  It may be closed by
\* then: getOrLoad lets go of the registry between finding a space and stamping
\* it (userspace.go:994-1003).  The turns of a user share one space until it is
\* dropped: two that miss it at once do not both load one.
SpacesAreCurrent ==
    /\ \A u \in Users : registered[u] # 0
          => /\ spacePool[registered[u]] = sandboxes
             /\ \/ laggard \/ Awaited(registered[u])
                \/ spaceAgent[registered[u]] \in {settings, Unattached}
    /\ \A t \in Turns : guests[t].space # 0
          => /\ guests[t].space \in dropped \cup {registered[guests[t].user]}
             /\ spacePool[guests[t].space] >= guests[t].pool
=============================================================================
