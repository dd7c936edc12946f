--------------------------- MODULE ChannelRegistry --------------------------
(***************************************************************************)
(* One bot account of a chat platform in one process: its row in the       *)
(* channels table, the dashboard requests that write it                    *)
(* (internal/setup/handlers_agent_channels.go, handlers_scoped.go), the    *)
(* adapters started for it (internal/channels/manager.go,                  *)
(* internal/gateway/channels.go), and what they receive and answer         *)
(* (internal/gateway/routing.go, dedup.go).                                *)
(*                                                                         *)
(* A route is the adapter that answers for the account.  Unregistering     *)
(* takes the route away but cannot stop an adapter that polls, and a       *)
(* request writes its row, reads it back and registers in separate steps.  *)
(* A row that cannot be read back, or whose adapter cannot be made (the    *)
(* telegram one asks the platform), leaves the route as it was, with a     *)
(* log line and a request that succeeds.                                   *)
(* The check that an account is not connected elsewhere asks the old       *)
(* configs table, which always answers "not found": the upsert of the row  *)
(* then gives the account to whoever connects last.                        *)
(***************************************************************************)
EXTENDS Integers, FiniteSets

CONSTANTS
    Owners,        \* (user, agent) pairs that a row can bind the account to
    Tokens,        \* bot tokens of the account
    Platforms,     \* platforms to choose from: "telegram", "wechat", "line"
    NoRow,         \* no row
    Requests,      \* requests at a time
    MaxRequests, MaxAdapters, MaxPosts,  \* bounds
    MaxRestarts    \* bound on restarts and on expired tokens

Adapters == 1..MaxAdapters
Posts    == 1..MaxPosts
Rows     == [owner : Owners, token : Tokens]

ASSUME RegistryAssumption ==
    /\ NoRow \notin Rows
    /\ {MaxRequests, MaxAdapters, MaxPosts, MaxRestarts} \subseteq Nat
    /\ MaxAdapters > 0

VARIABLES
    platform,    \* of the account
    binding,     \* its row in the channels table
    route,       \* the adapter in Manager.channels, or 0
    claimed,     \* Manager.tgTokens
    adapter,     \* the adapters made: the token of each
    polling,     \* adapters whose Start runs (under the lease, for wechat)
    retrying,    \* adapters that have exited and wait in the lease loop
    request,     \* each request: what it does, where it is and what it read
    started,     \* requests so far
    restarts,
    posted,      \* messages the platform has
    received,    \* those that each adapter was given
    inbound,     \* those on the bus, once per adapter
    remembered,  \* Gateway.dedup
    forgotten,   \* how often each was dropped from it, 60 seconds later
    handled,     \* how often each was routed to an agent
    mishaps      \* what the route did not survive, and requests that crossed

registryVars == <<platform, binding, route, claimed, adapter, polling, retrying,
                  request, started, restarts, posted, received, inbound,
                  remembered, forgotten, handled, mishaps>>

Idle == [op |-> "none", at |-> "idle", row |-> NoRow]

RegistryType ==
    /\ platform \in Platforms
    /\ binding \in Rows \cup {NoRow}
    /\ route \in Adapters \cup {0}
    /\ claimed \subseteq Tokens
    /\ \A a \in DOMAIN adapter : a \in Adapters /\ adapter[a] \in Tokens
    /\ polling \cup retrying \subseteq DOMAIN adapter /\ polling \cap retrying = {}
    /\ request \in [Requests -> [op : {"none", "connect", "disconnect", "update"},
                                 at : {"idle", "saved", "read", "deleted"},
                                 row : Rows \cup {NoRow}]]
    /\ started \in 0..MaxRequests /\ restarts \in 0..MaxRestarts
    /\ posted \in 0..MaxPosts
    /\ received \in [Adapters -> SUBSET Posts]
    /\ inbound \in [Posts -> Nat]
    /\ remembered \subseteq Posts
    /\ forgotten \in [Posts -> Nat]
    /\ handled \in [Posts -> Nat]
    /\ mishaps \subseteq {"reclaimed", "unbuilt", "expired", "crossed"}

RegistryInit ==
    /\ platform \in Platforms
    /\ binding = NoRow
    /\ route = 0
    /\ claimed = {}
    /\ adapter = [a \in {} |-> 0]
    /\ polling = {} /\ retrying = {}
    /\ request = [q \in Requests |-> Idle]
    /\ started = 0 /\ restarts = 0 /\ posted = 0
    /\ received = [a \in Adapters |-> {}]
    /\ inbound = [p \in Posts |-> 0]
    /\ remembered = {}
    /\ forgotten = [p \in Posts |-> 0]
    /\ handled = [p \in Posts |-> 0]
    /\ mishaps = {}

Polls == platform \in {"telegram", "wechat"}
Traffic == <<posted, received, inbound, remembered, forgotten, handled>>
Machines == <<route, claimed, adapter, polling, retrying>>

RequestGoesOn(q, new) == request' = [request EXCEPT ![q] = new]

\* A request starts; another one that is under way may cross it.
RequestStarts(q, new) ==
    /\ request[q] = Idle
    /\ started < MaxRequests
    /\ started' = started + 1
    /\ RequestGoesOn(q, new)
    /\ mishaps' = IF \E p \in Requests : request[p] # Idle
                  THEN mishaps \cup {"crossed"} ELSE mishaps
-----------------------------------------------------------------------------
\* A bot is connected: the row of the account is written over,
ConnectSaves(q, row) ==
    /\ RequestStarts(q, [op |-> "connect", at |-> "saved", row |-> row])
    /\ binding' = row
    /\ UNCHANGED <<platform, restarts, Machines, Traffic>>

\* A new adapter takes the route, and starts to poll: also beside an older
\* one, whose lease is the same process's.  (mutant: the older keeps the route)
NewAdapterBeside(token) ==
    /\ Cardinality(DOMAIN adapter) < MaxAdapters
    /\ LET a == Cardinality(DOMAIN adapter) + 1
       IN /\ adapter' = [b \in DOMAIN adapter \cup {a} |->
                            IF b = a THEN token ELSE adapter[b]]
          /\ route' = IF route = 0 THEN a ELSE route
          /\ polling' = IF Polls THEN polling \cup {a} ELSE polling
    /\ UNCHANGED retrying
NewAdapter(token) ==
    /\ Cardinality(DOMAIN adapter) < MaxAdapters
    /\ LET a == Cardinality(DOMAIN adapter) + 1
       IN /\ adapter' = [b \in DOMAIN adapter \cup {a} |->
                            IF b = a THEN token ELSE adapter[b]]
          /\ route' = a
          /\ polling' = IF Polls THEN polling \cup {a} ELSE polling
    /\ UNCHANGED retrying

\* A telegram token is claimed before its adapter is made, for as long as the
\* process lives.
Claiming(token) == IF platform = "telegram" THEN claimed \cup {token} ELSE claimed

\* The route is not the row's, and why.
Misses(why) == IF route = 0 \/ adapter[route] # binding.token
               THEN mishaps \cup {why} ELSE mishaps

\* read back, and registered.  A telegram token that this process has claimed
\* before is skipped, whether or not an adapter of it was made and still has
\* the route.
ConnectRegisters(q) ==
    /\ request[q].op = "connect"
    /\ RequestGoesOn(q, Idle)
    /\ \/ /\ binding = NoRow
          /\ UNCHANGED <<Machines, mishaps>>
       \/ /\ binding # NoRow   \* the row is not read, or the adapter not made
          /\ claimed' \in {claimed, Claiming(binding.token)}
          /\ mishaps' = Misses("unbuilt")
          /\ UNCHANGED <<route, adapter, polling, retrying>>
       \/ /\ binding # NoRow
          /\ platform = "telegram" /\ binding.token \in claimed
          /\ mishaps' = Misses("reclaimed")
          /\ UNCHANGED Machines
       \/ /\ binding # NoRow
          /\ ~(platform = "telegram" /\ binding.token \in claimed)
          /\ NewAdapter(binding.token)
          /\ claimed' = Claiming(binding.token)
          /\ mishaps' = mishaps \cap {"crossed"}
    /\ UNCHANGED <<platform, binding, started, restarts, Traffic>>

\* The row's owner disconnects the account, or changes a setting of its row:
\* the row is read,
RequestReads(q, op) ==
    /\ binding # NoRow
    /\ RequestStarts(q, [op |-> op, at |-> "read", row |-> binding])
    /\ UNCHANGED <<platform, binding, restarts, Machines, Traffic>>

\* and deleted (an upsert keeps the id, so this finds the account's row
\* whoever has it now),
DisconnectDeletes(q) ==
    /\ request[q].op = "disconnect" /\ request[q].at = "read"
    /\ binding' = NoRow
    /\ RequestGoesOn(q, [request[q] EXCEPT !.at = "deleted"])
    /\ UNCHANGED <<platform, started, restarts, mishaps, Machines, Traffic>>

\* and the route is dropped; or
DisconnectUnregisters(q) ==
    /\ request[q].at = "deleted"
    /\ route' = 0
    /\ RequestGoesOn(q, Idle)
    /\ UNCHANGED <<platform, binding, claimed, adapter, polling, retrying, started,
                   restarts, mishaps, Traffic>>

\* saved as a whole, which brings back what was written over or deleted since.
UpdateSaves(q) ==
    /\ request[q].op = "update"
    /\ binding' = request[q].row
    /\ RequestGoesOn(q, Idle)
    /\ UNCHANGED <<platform, started, restarts, mishaps, Machines, Traffic>>

\* A new process registers what the table holds, and warns when it cannot read
\* the table or make the adapter.
RestartGateway(built) ==
    /\ restarts < MaxRestarts /\ restarts' = restarts + 1
    /\ request' = [q \in Requests |-> Idle]
    /\ LET up == built /\ binding # NoRow
       IN /\ adapter' = IF up THEN [a \in {1} |-> binding.token] ELSE [a \in {} |-> 0]
          /\ route' = IF up THEN 1 ELSE 0
          /\ polling' = IF up /\ Polls THEN {1} ELSE {}
          /\ claimed' \in SUBSET (IF binding # NoRow /\ platform = "telegram"
                                  THEN {binding.token} ELSE {})
          /\ up /\ platform = "telegram" => claimed' # {}
    /\ mishaps' = IF binding = NoRow \/ built THEN {} ELSE {"unbuilt"}
    /\ retrying' = {}
    /\ received' = [a \in Adapters |-> {}]
    /\ inbound' = [p \in Posts |-> 0]
    /\ remembered' = {}
    /\ forgotten' = [p \in Posts |-> 0]
    /\ handled' = [p \in Posts |-> 0]
    /\ UNCHANGED <<platform, binding, started, posted>>
-----------------------------------------------------------------------------
PlatformPosts ==
    /\ posted < MaxPosts
    /\ posted' = posted + 1
    /\ UNCHANGED <<platform, binding, request, started, restarts, mishaps, Machines,
                   received, inbound, remembered, forgotten, handled>>

\* An adapter receives a message, by its poll or by a webhook, and puts it on
\* the bus.  Two adapters of one account may both be given it.
AdapterReceives(a, p) ==
    /\ a \in polling \/ (~Polls /\ a = route)
    /\ p <= posted /\ p \notin received[a]
    /\ received' = [received EXCEPT ![a] = @ \cup {p}]
    /\ inbound' = [inbound EXCEPT ![p] = @ + 1]
    /\ UNCHANGED <<platform, binding, request, started, restarts, mishaps, Machines,
                   posted, remembered, forgotten, handled>>

\* isDuplicate.  (mutant: nothing is)
NoDuplicate(p) == FALSE
Duplicate(p) == p \in remembered

\* processInbound: dropped while no row tells the owner; else remembered by
\* its message id, and routed unless it was remembered.
RouteInbound(p) ==
    /\ inbound[p] > 0
    /\ inbound' = [inbound EXCEPT ![p] = @ - 1]
    /\ \/ binding = NoRow /\ UNCHANGED <<remembered, handled>>
       \/ binding # NoRow /\ Duplicate(p) /\ UNCHANGED <<remembered, handled>>
       \/ /\ binding # NoRow /\ ~Duplicate(p)
          /\ remembered' = remembered \cup {p}
          /\ handled' = [handled EXCEPT ![p] = @ + 1]
    /\ UNCHANGED <<platform, binding, request, started, restarts, mishaps, Machines,
                   posted, received, forgotten>>

\* cleanupDedup: an entry is dropped when it is older than the window.
CleanupDedup(p) ==
    /\ p \in remembered
    /\ remembered' = remembered \ {p}
    /\ forgotten' = [forgotten EXCEPT ![p] = @ + 1]
    /\ UNCHANGED <<platform, binding, request, started, restarts, mishaps, Machines,
                   posted, received, inbound, handled>>

\* WeChat says often enough that the token is dead: the adapter drops the
\* route of its account and exits.  The purge of its row looks in the configs
\* table, where the row is not.
TokenExpires(a) ==
    /\ platform = "wechat" /\ a \in polling
    /\ restarts < MaxRestarts /\ restarts' = restarts + 1
    /\ route' = 0
    /\ polling' = polling \ {a}
    /\ retrying' = retrying \cup {a}
    /\ mishaps' = mishaps \cup {"expired"}
    /\ UNCHANGED <<platform, binding, claimed, adapter, request, started, Traffic>>

\* The lease loop starts an adapter that exited again.
LeaseRestarts(a) ==
    /\ a \in retrying
    /\ retrying' = retrying \ {a}
    /\ polling' = polling \cup {a}
    /\ UNCHANGED <<platform, binding, route, claimed, adapter, request, started,
                   restarts, mishaps, Traffic>>

RegistryNext ==
    \/ \E q \in Requests :
          \/ \E row \in Rows : ConnectSaves(q, row)
          \/ ConnectRegisters(q)
          \/ \E op \in {"disconnect", "update"} : RequestReads(q, op)
          \/ DisconnectDeletes(q) \/ DisconnectUnregisters(q)
          \/ UpdateSaves(q)
    \/ \E built \in BOOLEAN : RestartGateway(built)
    \/ PlatformPosts
    \/ \E a \in DOMAIN adapter : \/ \E p \in Posts : AdapterReceives(a, p)
                                 \/ TokenExpires(a) \/ LeaseRestarts(a)
    \/ \E p \in Posts : RouteInbound(p) \/ CleanupDedup(p)

RegistrySpec == RegistryInit /\ [][RegistryNext]_registryVars
-----------------------------------------------------------------------------
\* When the requests are done, an account with a row has a route, whose
\* adapter speaks with the row's token, and one without a row has none: what
\* agents answer goes out.  It holds from each adapter that is made for the row
\* (handlers_agent_channels.go:315) until one cannot be made or its token was
\* claimed before in this process, until a token expires, or requests cross;
\* and a registration that fails takes no route away that fits the row.
ConnectedIsRoutable ==
    mishaps = {} /\ (\A q \in Requests : request[q] = Idle)
        => IF binding = NoRow THEN route = 0
           ELSE route # 0 /\ adapter[route] = binding.token

\* A message of the platform is routed to an agent once, although adapters that
\* were never stopped receive it as well (dedup.go:31-37, "an orphaned poller"),
\* and once more at most for each time that the process has forgotten it.
RoutedOnce == \A p \in Posts : handled[p] <= 1 + forgotten[p]
=============================================================================
