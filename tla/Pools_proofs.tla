---------------------------- MODULE Pools_proofs ----------------------------
(***************************************************************************)
(* Proofs about what a gateway keeps for its accounts, users and chats.    *)
(*                                                                         *)
(* ChannelRegistry, for any number of owners, tokens, requests, adapters   *)
(* and messages: whose route an account has when the requests are done,    *)
(* and how often a message reaches an agent.                               *)
(*                                                                         *)
(* UserSpaces, for any number of users, turns, requests, spaces, versions  *)
(* of the settings and sandbox pools: what is cached is current, up to     *)
(* what is still being announced.                                          *)
(*                                                                         *)
(* SandboxPool, for any set of deployments and sizes and any number of     *)
(* calls, writes, executors and mishaps: what a call wrote is what the     *)
(* next one finds, unless one of the named harms came to pass.             *)
(***************************************************************************)
EXTENDS ChannelRegistry, UserSpaces, SandboxPool, SequenceTheorems,
        FiniteSetTheorems, TLAPS

-----------------------------------------------------------------------------
(***************************************************************************)
(* Channels.                                                               *)
(***************************************************************************)
-----------------------------------------------------------------------------
(* Messages.                                                               *)

DedupType ==
    /\ remembered \subseteq Posts
    /\ forgotten \in [Posts -> Nat]
    /\ handled \in [Posts -> Nat]

\* A message was routed for each time it was forgotten, and is remembered for
\* the one time more.
Tallied == \A p \in Posts : handled[p] = forgotten[p] + (IF p \in remembered THEN 1 ELSE 0)

DedupInv == DedupType /\ Tallied

LEMMA DedupStep ==
  ASSUME DedupInv, [RegistryNext]_registryVars
  PROVE  DedupInv'
  <1> USE DEF DedupInv, DedupType, Tallied
  <1>1. CASE UNCHANGED <<remembered, forgotten, handled>>
    BY <1>1
  <1>2. ASSUME NEW p \in Posts, RouteInbound(p) PROVE DedupInv'
    <2>1. CASE UNCHANGED <<remembered, handled>>
      BY <1>2, <2>1 DEF RouteInbound
    <2>2. CASE /\ p \notin remembered /\ remembered' = remembered \cup {p}
               /\ handled' = [handled EXCEPT ![p] = @ + 1]
      BY <1>2, <2>2 DEF RouteInbound
    <2> QED
      BY <1>2, <2>1, <2>2 DEF RouteInbound, Duplicate
  <1>3. ASSUME NEW p \in Posts, CleanupDedup(p) PROVE DedupInv'
    BY <1>3 DEF CleanupDedup
  <1>4. ASSUME NEW built \in BOOLEAN, RestartGateway(built) PROVE DedupInv'
    BY <1>4 DEF RestartGateway
  <1>5. CASE UNCHANGED registryVars
    BY <1>1, <1>5 DEF registryVars
  <1>6. ASSUME NEW q \in Requests,
               \/ \E rw \in Rows : ConnectSaves(q, rw)
               \/ ConnectRegisters(q)
               \/ \E op \in {"disconnect", "update"} : RequestReads(q, op)
               \/ DisconnectDeletes(q) \/ DisconnectUnregisters(q) \/ UpdateSaves(q)
        PROVE  DedupInv'
    <2>1. UNCHANGED Traffic
      BY <1>6 DEF ConnectSaves, ConnectRegisters, RequestReads, DisconnectDeletes,
                  DisconnectUnregisters, UpdateSaves
    <2> QED
      BY <1>1, <2>1 DEF Traffic
  <1>7. ASSUME NEW a, (\E p \in Posts : AdapterReceives(a, p)) \/ TokenExpires(a) \/ LeaseRestarts(a)
        PROVE  DedupInv'
    BY <1>1, <1>7 DEF AdapterReceives, TokenExpires, LeaseRestarts, Traffic
  <1>8. CASE PlatformPosts
    BY <1>1, <1>8 DEF PlatformPosts
  <1> QED
    BY <1>2, <1>3, <1>4, <1>5, <1>6, <1>7, <1>8 DEF RegistryNext

\* However many adapters receive a message, it reaches an agent once, and once
\* more at most for each time that cleanupDedup forgot it (dedup.go:31-37,
\* isDuplicate).
THEOREM RoutedOnceTheorem == RegistrySpec => []RoutedOnce
  <1>1. RegistryInit => DedupInv
    BY DEF RegistryInit, DedupInv, DedupType, Tallied
  <1>2. DedupInv /\ [RegistryNext]_registryVars => DedupInv'
    BY DedupStep
  <1>3. DedupInv => RoutedOnce
    BY DEF DedupInv, DedupType, Tallied, RoutedOnce
  <1> QED
    BY <1>1, <1>2, <1>3, PTL DEF RegistrySpec
-----------------------------------------------------------------------------
(* Routes.                                                                 *)

\* The requests under way, and what each of them relies on.
Connecting(rw)      == [op |-> "connect", at |-> "saved", row |-> rw]
Reading(op, rw)     == [op |-> op, at |-> "read", row |-> rw]
Disconnecting(rw)   == [op |-> "disconnect", at |-> "deleted", row |-> rw]

RequestType ==
    /\ request \in [Requests ->
          {Idle} \cup {Connecting(rw) : rw \in Rows}
                 \cup {Reading(op, rw) : op \in {"disconnect", "update"}, rw \in Rows}
                 \cup {Disconnecting(rw) : rw \in Rows}]
    /\ IsFiniteSet(DOMAIN adapter)
    /\ binding \in Rows \cup {NoRow}

Routable == IF binding = NoRow THEN route = 0
            ELSE route # 0 /\ adapter[route] = binding.token

Uncrossed == "crossed" \notin mishaps
            => \A p, q \in Requests : request[p] # Idle /\ request[q] # Idle => p = q

\* Until something crosses, a request finds the row as it left it, and the
\* route fits the row but while the row has changed and the route has not.
Settled == mishaps = {} =>
    /\ (\A q \in Requests : request[q] = Idle) => Routable
    /\ \A q \in Requests :
          /\ request[q].op = "connect" => binding # NoRow
          /\ request[q].at = "read" => Routable /\ binding = request[q].row
          /\ request[q].at = "deleted" => binding = NoRow

RouteInv == RequestType /\ Uncrossed /\ Settled

LEMMA RouteInit ==
  ASSUME RegistryInit
  PROVE  RouteInv
  <1>1. RequestType
    BY FS_EmptySet DEF RegistryInit, RequestType
  <1>2. Uncrossed /\ Settled
    BY DEF RegistryInit, Uncrossed, Settled, Routable, Idle
  <1> QED
    BY <1>1, <1>2 DEF RouteInv

\* What touches neither requests, row nor route leaves them settled.
LEMMA RouteStays ==
  ASSUME RouteInv, UNCHANGED <<binding, route, adapter, request, mishaps>>
  PROVE  RouteInv'
  BY DEF RouteInv, RequestType, Uncrossed, Settled, Routable

\* A request that starts is alone, or has crossed another.
LEMMA RequestStartsAlone ==
  ASSUME RouteInv, NEW q \in Requests, NEW new, RequestStarts(q, new), new # Idle,
         mishaps' = {}
  PROVE  /\ mishaps = {} /\ Routable
         /\ \A p \in Requests : request[p] = Idle
         /\ \A p \in Requests : p # q => request'[p] = Idle
         /\ request'[q] = new
  <1>1. /\ \A p \in Requests : request[p] = Idle
        /\ mishaps = {}
    BY DEF RequestStarts
  <1>2. Routable
    BY <1>1 DEF RouteInv, Settled
  <1> QED
    BY <1>1, <1>2 DEF RequestStarts, RequestGoesOn, RouteInv, RequestType

LEMMA UncrossedWhenStarted ==
  ASSUME RouteInv, NEW q \in Requests, NEW new, RequestStarts(q, new)
  PROVE  Uncrossed'
  <1>1. CASE \E p \in Requests : request[p] # Idle
    BY <1>1 DEF RequestStarts, Uncrossed
  <1>2. CASE \A p \in Requests : request[p] = Idle
    BY <1>2 DEF RequestStarts, RequestGoesOn, RouteInv, RequestType, Uncrossed
  <1> QED
    BY <1>1, <1>2

\* When a request goes on or is done, those that were idle still are.
LEMMA UncrossedGoesOn ==
  ASSUME RouteInv, NEW q \in Requests, request[q] # Idle, NEW new,
         RequestGoesOn(q, new), "crossed" \in mishaps => "crossed" \in mishaps'
  PROVE  Uncrossed'
  BY DEF RouteInv, Uncrossed, RequestGoesOn, RequestType

LEMMA RouteConnectSaves ==
  ASSUME RouteInv, NEW q \in Requests, NEW rw \in Rows, ConnectSaves(q, rw)
  PROVE  RouteInv'
  <1> DEFINE new == Connecting(rw)
  <1>1. RequestStarts(q, new) /\ binding' = rw /\ UNCHANGED <<route, adapter>>
    BY DEF ConnectSaves, Machines, Connecting
  <1>2. new # Idle
    BY DEF Idle, Connecting
  <1>3. RequestType'
    BY <1>1 DEF RouteInv, RequestType, RequestStarts, RequestGoesOn
  <1>4. Uncrossed'
    BY <1>1, UncrossedWhenStarted
  <1>5. ASSUME mishaps' = {} PROVE Settled'
    <2>1. /\ \A p \in Requests : p # q => request'[p] = Idle
          /\ request'[q] = new
      BY <1>1, <1>2, <1>5, RequestStartsAlone
    <2>2. binding' # NoRow
      BY <1>1, RegistryAssumption
    <2> QED
      BY <1>2, <2>1, <2>2 DEF Settled, Idle, Connecting
  <1> QED
    BY <1>3, <1>4, <1>5 DEF RouteInv, Settled

LEMMA RouteRequestReads ==
  ASSUME RouteInv, NEW q \in Requests, NEW op \in {"disconnect", "update"},
         RequestReads(q, op)
  PROVE  RouteInv'
  <1> DEFINE new == Reading(op, binding)
  <1>1. RequestStarts(q, new) /\ binding # NoRow /\ UNCHANGED <<binding, route, adapter>>
    BY DEF RequestReads, Machines, Reading
  <1>2. new # Idle
    BY DEF Idle, Reading
  <1>3. RequestType'
    BY <1>1 DEF RouteInv, RequestType, RequestStarts, RequestGoesOn
  <1>4. Uncrossed'
    BY <1>1, UncrossedWhenStarted
  <1>5. ASSUME mishaps' = {} PROVE Settled'
    <2>1. /\ Routable /\ \A p \in Requests : p # q => request'[p] = Idle
          /\ request'[q] = new
      BY <1>1, <1>2, <1>5, RequestStartsAlone
    <2>2. Routable'
      BY <1>1, <2>1 DEF Routable
    <2> QED
      BY <1>1, <1>2, <2>1, <2>2 DEF Settled, Idle, Reading
  <1> QED
    BY <1>3, <1>4, <1>5 DEF RouteInv, Settled

\* The last step of the one request that is under way.
LEMMA RouteRequestDone ==
  ASSUME RouteInv, NEW q \in Requests, request[q] # Idle, RequestGoesOn(q, Idle),
         "crossed" \in mishaps => "crossed" \in mishaps',
         IsFiniteSet(DOMAIN adapter'), binding' \in Rows \cup {NoRow},
         mishaps' = {} => Routable'
  PROVE  RouteInv'
  <1>1. RequestType'
    BY DEF RouteInv, RequestType, RequestGoesOn
  <1>2. Uncrossed'
    BY UncrossedGoesOn
  <1>3. ASSUME mishaps' = {} PROVE Settled'
    <2>1. \A p \in Requests : p # q => request[p] = Idle
      BY <1>3 DEF RouteInv, Uncrossed
    <2>2. \A p \in Requests : request'[p] = Idle
      BY <2>1 DEF RequestGoesOn, RouteInv, RequestType
    <2> QED
      BY <1>3, <2>2 DEF Settled, Idle
  <1> QED
    BY <1>1, <1>2, <1>3 DEF RouteInv, Settled

LEMMA RouteConnectRegisters ==
  ASSUME RouteInv, NEW q \in Requests, ConnectRegisters(q)
  PROVE  RouteInv'
  <1>1. /\ request[q].op = "connect" /\ RequestGoesOn(q, Idle) /\ binding' = binding
    BY DEF ConnectRegisters
  <1>2. request[q] # Idle
    BY <1>1 DEF Idle
  <1>3. "crossed" \in mishaps => "crossed" \in mishaps'
    BY DEF ConnectRegisters, Misses
  <1>4. mishaps = {} => binding # NoRow
    BY <1>1 DEF RouteInv, Settled
  <1>5. binding' \in Rows \cup {NoRow}
    BY <1>1 DEF RouteInv, RequestType
  <1>6. CASE /\ binding # NoRow /\ adapter' = adapter /\ route' = route
             /\ mishaps' = Misses("unbuilt") \/ mishaps' = Misses("reclaimed")
    <2>1. mishaps' = {} => Routable'
      BY <1>1, <1>6 DEF Routable, Misses
    <2> QED
      BY <1>1, <1>2, <1>3, <1>5, <1>6, <2>1, RouteRequestDone DEF RouteInv, RequestType
  <1>7. CASE binding # NoRow /\ NewAdapter(binding.token)
    <2> DEFINE a == Cardinality(DOMAIN adapter) + 1
    <2>1. /\ adapter' = [b \in DOMAIN adapter \cup {a} |->
                            IF b = a THEN binding.token ELSE adapter[b]]
          /\ route' = a
      BY <1>7 DEF NewAdapter
    <2>2. Cardinality(DOMAIN adapter) \in Nat
      BY FS_CardinalityType DEF RouteInv, RequestType
    <2>3. IsFiniteSet(DOMAIN adapter')
      BY <2>1, FS_AddElement DEF RouteInv, RequestType
    <2> HIDE DEF a
    <2>4. a # 0
      BY <2>2 DEF a
    <2>5. Routable'
      BY <1>1, <1>7, <2>1, <2>4 DEF Routable
    <2> QED
      BY <1>1, <1>2, <1>3, <1>5, <2>3, <2>5, RouteRequestDone
  <1>8. CASE binding = NoRow /\ UNCHANGED <<adapter, route, mishaps>>
    BY <1>1, <1>2, <1>3, <1>4, <1>5, <1>8, RouteRequestDone DEF RouteInv, RequestType
  <1> QED
    BY <1>6, <1>7, <1>8 DEF ConnectRegisters, Machines

LEMMA RouteDisconnectDeletes ==
  ASSUME RouteInv, NEW q \in Requests, DisconnectDeletes(q)
  PROVE  RouteInv'
  <1> DEFINE new == Disconnecting(request[q].row)
  <1>1. /\ request[q].op = "disconnect" /\ request[q].at = "read" /\ binding' = NoRow
        /\ request' = [request EXCEPT ![q] = [request[q] EXCEPT !.at = "deleted"]]
        /\ UNCHANGED <<route, adapter, mishaps>>
    BY DEF DisconnectDeletes, RequestGoesOn, Machines
  <1>2. request[q] # Idle
    BY <1>1 DEF Idle
  <1>3. PICK rw \in Rows : request[q] = Reading("disconnect", rw)
    BY <1>1 DEF RouteInv, RequestType, Idle, Connecting, Reading, Disconnecting
  <1>4. request' = [request EXCEPT ![q] = Disconnecting(rw)]
    <2>1. [Reading("disconnect", rw) EXCEPT !.at = "deleted"] = Disconnecting(rw)
      BY DEF Reading, Disconnecting
    <2> QED
      BY <1>1, <1>3, <2>1
  <1>5. RequestType'
    BY <1>1, <1>4 DEF RouteInv, RequestType
  <1>6. Uncrossed'
    BY <1>1, <1>2, <1>4, UncrossedGoesOn DEF RequestGoesOn
  <1>7. ASSUME mishaps' = {} PROVE Settled'
    <2>1. /\ \A p \in Requests : p # q => request'[p] = Idle
          /\ request'[q] = Disconnecting(rw)
      BY <1>1, <1>2, <1>4, <1>7 DEF RouteInv, Uncrossed, RequestType
    <2> QED
      BY <1>1, <2>1 DEF Settled, Idle, Disconnecting
  <1> QED
    BY <1>5, <1>6, <1>7 DEF RouteInv, Settled

LEMMA RouteDisconnectUnregisters ==
  ASSUME RouteInv, NEW q \in Requests, DisconnectUnregisters(q)
  PROVE  RouteInv'
  <1>1. /\ request[q].at = "deleted" /\ RequestGoesOn(q, Idle) /\ route' = 0
        /\ UNCHANGED <<binding, adapter, mishaps>>
    BY DEF DisconnectUnregisters
  <1>2. request[q] # Idle
    BY <1>1 DEF Idle
  <1>3. mishaps = {} => Routable'
    BY <1>1 DEF RouteInv, Settled, Routable
  <1> QED
    BY <1>1, <1>2, <1>3, RouteRequestDone DEF RouteInv, RequestType

LEMMA RouteUpdateSaves ==
  ASSUME RouteInv, NEW q \in Requests, UpdateSaves(q)
  PROVE  RouteInv'
  <1>1. /\ request[q].op = "update" /\ RequestGoesOn(q, Idle)
        /\ binding' = request[q].row /\ UNCHANGED <<route, adapter, mishaps>>
    BY DEF UpdateSaves, Machines
  <1>2. PICK rw \in Rows : request[q] = Reading("update", rw)
    BY <1>1 DEF RouteInv, RequestType, Idle, Connecting, Reading, Disconnecting
  <1>3. request[q] # Idle /\ request[q].at = "read" /\ request[q].row \in Rows
    BY <1>2 DEF Reading, Idle
  <1>4. mishaps = {} => Routable'
    BY <1>1, <1>3 DEF RouteInv, Settled, Routable
  <1> QED
    BY <1>1, <1>3, <1>4, RouteRequestDone DEF RouteInv, RequestType

\* A new process has the row's adapter or a mishap, and no requests.
LEMMA RouteRestart ==
  ASSUME RouteInv, NEW built \in BOOLEAN, RestartGateway(built)
  PROVE  RouteInv'
  <1> DEFINE up == built /\ binding # NoRow
  <1>1. /\ request' = [q \in Requests |-> Idle] /\ binding' = binding
        /\ adapter' = IF up THEN [a \in {1} |-> binding.token] ELSE [a \in {} |-> 0]
        /\ route' = IF up THEN 1 ELSE 0
        /\ mishaps' = IF binding = NoRow \/ built THEN {} ELSE {"unbuilt"}
    BY DEF RestartGateway
  <1>2. IsFiniteSet(DOMAIN adapter')
    <2>1. DOMAIN adapter' = {} \/ DOMAIN adapter' = {1}
      <3>1. CASE up
        BY <1>1, <3>1
      <3>2. CASE ~up
        BY <1>1, <3>2
      <3> QED
        BY <3>1, <3>2
    <2>2. IsFiniteSet({})
      BY FS_EmptySet
    <2>3. IsFiniteSet({1})
      BY FS_Singleton
    <2> QED
      BY <2>1, <2>2, <2>3
  <1>3. RequestType'
    BY <1>1, <1>2 DEF RouteInv, RequestType
  <1>4. mishaps' = {} => Routable'
    BY <1>1 DEF Routable
  <1> QED
    BY <1>1, <1>3, <1>4 DEF RouteInv, Uncrossed, Settled, Idle

LEMMA RouteStep ==
  ASSUME RouteInv, [RegistryNext]_registryVars
  PROVE  RouteInv'
  <1>1. CASE UNCHANGED registryVars
    BY <1>1, RouteStays DEF registryVars
  <1>2. ASSUME NEW built \in BOOLEAN, RestartGateway(built) PROVE RouteInv'
    BY <1>2, RouteRestart
  <1>3. CASE PlatformPosts \/ \E p \in Posts : RouteInbound(p) \/ CleanupDedup(p)
    BY <1>3, RouteStays DEF PlatformPosts, RouteInbound, CleanupDedup, Machines
  <1>4. ASSUME NEW a, (\E p \in Posts : AdapterReceives(a, p)) \/ LeaseRestarts(a)
        PROVE  RouteInv'
    BY <1>4, RouteStays DEF AdapterReceives, LeaseRestarts, Machines
  <1>5. ASSUME NEW a, TokenExpires(a) PROVE RouteInv'
    <2>1. mishaps' # {} /\ ("crossed" \in mishaps => "crossed" \in mishaps')
          /\ UNCHANGED <<binding, adapter, request>>
      BY <1>5 DEF TokenExpires
    <2> QED
      BY <2>1 DEF RouteInv, RequestType, Uncrossed, Settled
  <1>6. ASSUME NEW q \in Requests,
               \/ \E rw \in Rows : ConnectSaves(q, rw)
               \/ ConnectRegisters(q)
               \/ \E op \in {"disconnect", "update"} : RequestReads(q, op)
               \/ DisconnectDeletes(q) \/ DisconnectUnregisters(q) \/ UpdateSaves(q)
        PROVE  RouteInv'
    BY <1>6, RouteConnectSaves, RouteConnectRegisters, RouteRequestReads,
       RouteDisconnectDeletes, RouteDisconnectUnregisters, RouteUpdateSaves
  <1> QED
    BY <1>1, <1>2, <1>3, <1>4, <1>5, <1>6 DEF RegistryNext

\* Requests that did not cross leave an account with a row reachable through an
\* adapter of the row's token, and one without a row without a route, whatever
\* process and platform (handlers_agent_channels.go, channels/manager.go), from
\* each adapter that is made until one could not be made, or a token was claimed
\* before or has expired.
THEOREM ConnectedIsRoutableTheorem == RegistrySpec => []ConnectedIsRoutable
  <1>1. RegistryInit => RouteInv
    BY RouteInit
  <1>2. RouteInv /\ [RegistryNext]_registryVars => RouteInv'
    BY RouteStep
  <1>3. RouteInv => ConnectedIsRoutable
    BY DEF RouteInv, Settled, Routable, ConnectedIsRoutable
  <1> QED
    BY <1>1, <1>2, <1>3, PTL DEF RegistrySpec
-----------------------------------------------------------------------------
(* The adapters, and the other types of the account.                       *)

\* Adapters are numbered as they are made.
MachineType ==
    /\ \E n \in 0..MaxAdapters : DOMAIN adapter = 1..n
    /\ \A a \in DOMAIN adapter : adapter[a] \in Tokens
    /\ route \in Adapters \cup {0}
    /\ claimed \subseteq Tokens
    /\ polling \cup retrying \subseteq DOMAIN adapter
    /\ polling \cap retrying = {}

TallyType ==
    /\ platform \in Platforms
    /\ started \in 0..MaxRequests /\ restarts \in 0..MaxRestarts
    /\ posted \in 0..MaxPosts
    /\ received \in [Adapters -> SUBSET Posts]
    /\ inbound \in [Posts -> Nat]
    /\ mishaps \subseteq {"reclaimed", "unbuilt", "expired", "crossed"}

LEMMA IntervalCount ==
  ASSUME NEW n \in Nat
  PROVE  Cardinality(1..n) = n
  <1>1. Cardinality(1..n) = IF 1 > n THEN 0 ELSE n - 1 + 1
    BY FS_Interval
  <1> QED
    BY <1>1

\* The next adapter gets the next number, and the route.
LEMMA MachineMade ==
  ASSUME MachineType, NEW token \in Tokens, NewAdapter(token), claimed' \subseteq Tokens
  PROVE  MachineType'
  <1>1. PICK n \in 0..MaxAdapters : DOMAIN adapter = 1..n
    BY DEF MachineType
  <1>2. Cardinality(DOMAIN adapter) = n /\ n \in Nat /\ MaxAdapters \in Nat
    BY <1>1, IntervalCount, RegistryAssumption DEF RegistryAssumption
  <1>3. /\ n < MaxAdapters
        /\ adapter' = [b \in (1..n) \cup {n + 1} |-> IF b = n + 1 THEN token ELSE adapter[b]]
        /\ route' = n + 1 /\ UNCHANGED retrying
        /\ polling' = polling \/ polling' = polling \cup {n + 1}
    BY <1>1, <1>2 DEF NewAdapter
  <1>4. (1..n) \cup {n + 1} = 1..n + 1 /\ n + 1 \in 0..MaxAdapters /\ n + 1 \in Adapters
        /\ n + 1 \notin 1..n
    BY <1>2, <1>3 DEF Adapters
  <1>5. DOMAIN adapter' = 1..n + 1 /\ \A a \in DOMAIN adapter' : adapter'[a] \in Tokens
    BY <1>1, <1>3, <1>4 DEF MachineType
  <1>6. polling' \cup retrying' \subseteq DOMAIN adapter' /\ polling' \cap retrying' = {}
    BY <1>1, <1>3, <1>4, <1>5 DEF MachineType
  <1> QED
    BY <1>3, <1>4, <1>5, <1>6 DEF MachineType

\* A new process has the one adapter of the row, if one was made.
LEMMA MachineRestarts ==
  ASSUME RequestType, NEW built \in BOOLEAN, RestartGateway(built)
  PROVE  MachineType'
  <1> DEFINE up == built /\ binding # NoRow
  <1>1. /\ adapter' = IF up THEN [a \in {1} |-> binding.token] ELSE [a \in {} |-> 0]
        /\ route' = IF up THEN 1 ELSE 0
        /\ polling' \subseteq (IF up THEN {1} ELSE {}) /\ retrying' = {}
        /\ claimed' \subseteq (IF binding # NoRow THEN {binding.token} ELSE {})
    BY DEF RestartGateway
  <1>2. 1 \in Adapters /\ 1 \in 0..MaxAdapters /\ 0 \in 0..MaxAdapters
        /\ 1..1 = {1} /\ 1..0 = {}
    BY RegistryAssumption DEF RegistryAssumption, Adapters
  <1>3. binding # NoRow => binding.token \in Tokens
    BY DEF RequestType, Rows
  <1>4. claimed' \subseteq Tokens
    BY <1>1, <1>3
  <1>5. CASE up
    <2>1. DOMAIN adapter' = 1..1 /\ \A a \in DOMAIN adapter' : adapter'[a] \in Tokens
      BY <1>1, <1>2, <1>3, <1>5
    <2> QED
      BY <1>1, <1>2, <1>4, <1>5, <2>1 DEF MachineType
  <1>6. CASE ~up
    <2>1. DOMAIN adapter' = 1..0 /\ \A a \in DOMAIN adapter' : adapter'[a] \in Tokens
      BY <1>1, <1>2, <1>6
    <2> QED
      BY <1>1, <1>2, <1>4, <1>6, <2>1 DEF MachineType
  <1> QED
    BY <1>5, <1>6

LEMMA MachineStep ==
  ASSUME RequestType, MachineType, [RegistryNext]_registryVars
  PROVE  MachineType'
  <1>1. ASSUME UNCHANGED Machines PROVE MachineType'
    BY <1>1 DEF Machines, MachineType
  <1>2. ASSUME NEW q \in Requests, ConnectRegisters(q) PROVE MachineType'
    <2>1. CASE UNCHANGED Machines
      BY <1>1, <2>1
    <2>2. CASE binding # NoRow /\ claimed' \in {claimed, Claiming(binding.token)}
      <3>1. binding.token \in Tokens /\ claimed' \subseteq claimed \cup {binding.token}
        BY <2>2 DEF RequestType, Rows, Claiming
      <3>2. CASE NewAdapter(binding.token)
        BY <3>1, <3>2, MachineMade DEF MachineType
      <3>3. CASE UNCHANGED <<route, adapter, polling, retrying>>
        BY <3>1, <3>3 DEF MachineType
      <3> QED
        BY <1>2, <2>1, <3>2, <3>3 DEF ConnectRegisters
    <2> QED
      BY <1>2, <2>1, <2>2 DEF ConnectRegisters
  <1>3. ASSUME NEW q \in Requests,
               \/ \E row \in Rows : ConnectSaves(q, row)
               \/ \E op \in {"disconnect", "update"} : RequestReads(q, op)
               \/ DisconnectDeletes(q) \/ UpdateSaves(q)
        PROVE  MachineType'
    <2>1. UNCHANGED Machines
      BY <1>3 DEF ConnectSaves, RequestReads, DisconnectDeletes, UpdateSaves
    <2> QED
      BY <1>1, <2>1
  <1>4. ASSUME NEW q \in Requests, DisconnectUnregisters(q) PROVE MachineType'
    BY <1>4 DEF DisconnectUnregisters, MachineType
  <1>5. ASSUME NEW a \in DOMAIN adapter, TokenExpires(a) \/ LeaseRestarts(a) PROVE MachineType'
    BY <1>5 DEF TokenExpires, LeaseRestarts, MachineType
  <1>6. CASE PlatformPosts \/ UNCHANGED registryVars
    BY <1>1, <1>6 DEF PlatformPosts, registryVars, Machines
  <1>7. ASSUME NEW p \in Posts, \/ \E a \in DOMAIN adapter : AdapterReceives(a, p)
                                \/ RouteInbound(p) \/ CleanupDedup(p)
        PROVE  MachineType'
    <2>1. UNCHANGED Machines
      BY <1>7 DEF AdapterReceives, RouteInbound, CleanupDedup
    <2> QED
      BY <1>1, <2>1
  <1> QED
    BY <1>2, <1>3, <1>4, <1>5, <1>6, <1>7, MachineRestarts DEF RegistryNext

LEMMA TallyStep ==
  ASSUME MachineType, TallyType, [RegistryNext]_registryVars
  PROVE  TallyType'
  <1>0. {MaxRequests, MaxAdapters, MaxPosts, MaxRestarts} \subseteq Nat
    BY RegistryAssumption DEF RegistryAssumption
  <1>1. ASSUME UNCHANGED <<platform, started, restarts, posted, received, inbound>>,
               mishaps' \subseteq mishaps \cup {"reclaimed", "unbuilt", "crossed"}
        PROVE  TallyType'
    BY <1>1 DEF TallyType
  <1>2. ASSUME NEW q \in Requests, NEW new, RequestStarts(q, new),
               UNCHANGED <<platform, restarts, Traffic>>
        PROVE  TallyType'
    BY <1>0, <1>2 DEF RequestStarts, Traffic, TallyType
  <1>3. ASSUME NEW q \in Requests,
               \/ \E row \in Rows : ConnectSaves(q, row)
               \/ \E op \in {"disconnect", "update"} : RequestReads(q, op)
        PROVE  TallyType'
    BY <1>2, <1>3 DEF ConnectSaves, RequestReads
  <1>4. ASSUME NEW q \in Requests,
               \/ ConnectRegisters(q) \/ DisconnectDeletes(q)
               \/ DisconnectUnregisters(q) \/ UpdateSaves(q)
        PROVE  TallyType'
    BY <1>1, <1>4 DEF ConnectRegisters, Misses, DisconnectDeletes, DisconnectUnregisters,
                      UpdateSaves, Traffic
  <1>5. ASSUME NEW built \in BOOLEAN, RestartGateway(built) PROVE TallyType'
    BY <1>0, <1>5 DEF RestartGateway, TallyType
  <1>6. CASE PlatformPosts
    BY <1>0, <1>6 DEF PlatformPosts, TallyType
  <1>7. ASSUME NEW a \in DOMAIN adapter, NEW p \in Posts, AdapterReceives(a, p)
        PROVE  TallyType'
    <2>1. /\ received' = [received EXCEPT ![a] = @ \cup {p}]
          /\ inbound' = [inbound EXCEPT ![p] = @ + 1]
          /\ UNCHANGED <<platform, started, restarts, posted, mishaps>>
      BY <1>7 DEF AdapterReceives
    <2>2. received' \in [Adapters -> SUBSET Posts]
      BY <2>1 DEF TallyType
    <2>3. inbound' \in [Posts -> Nat]
      BY <2>1 DEF TallyType
    <2> QED
      BY <2>1, <2>2, <2>3 DEF TallyType
  <1>8. ASSUME NEW a, TokenExpires(a) PROVE TallyType'
    BY <1>0, <1>8 DEF TokenExpires, Traffic, TallyType
  <1>9. ASSUME NEW a, LeaseRestarts(a) PROVE TallyType'
    BY <1>1, <1>9 DEF LeaseRestarts, Traffic
  <1>10. ASSUME NEW p \in Posts, RouteInbound(p) PROVE TallyType'
    <2>1. inbound[p] \in Nat /\ inbound[p] > 0
      BY <1>10 DEF RouteInbound, TallyType
    <2>2. inbound[p] - 1 \in Nat
      BY <2>1
    <2> QED
      BY <1>10, <2>2 DEF RouteInbound, TallyType
  <1>11. ASSUME NEW p \in Posts, CleanupDedup(p) PROVE TallyType'
    BY <1>1, <1>11 DEF CleanupDedup
  <1>12. CASE UNCHANGED registryVars
    BY <1>1, <1>12 DEF registryVars
  <1> QED
    BY <1>3, <1>4, <1>5, <1>6, <1>7, <1>8, <1>9, <1>10, <1>11, <1>12 DEF RegistryNext

\* The variables of the account keep their types: no adapter polls and waits for
\* its restart at once, and what polls was made by this process (manager.go).
THEOREM RegistryTypeTheorem == RegistrySpec => []RegistryType
  <1> DEFINE Inv == DedupInv /\ RouteInv /\ MachineType /\ TallyType
  <1>1. RegistryInit => Inv
    <2> SUFFICES ASSUME RegistryInit PROVE Inv
      OBVIOUS
    <2>1. {MaxRequests, MaxAdapters, MaxPosts, MaxRestarts} \subseteq Nat /\ 1..0 = {}
      BY RegistryAssumption DEF RegistryAssumption
    <2>2. DedupInv
      BY DEF RegistryInit, DedupInv, DedupType, Tallied
    <2>3. MachineType
      <3>1. DOMAIN adapter = 1..0 /\ 0 \in 0..MaxAdapters
        BY <2>1 DEF RegistryInit
      <3> QED
        BY <3>1 DEF RegistryInit, MachineType
    <2>4. TallyType
      BY <2>1 DEF RegistryInit, TallyType
    <2> QED
      BY <2>2, <2>3, <2>4, RouteInit
  <1>2. Inv /\ [RegistryNext]_registryVars => Inv'
    BY DedupStep, RouteStep, MachineStep, TallyStep DEF RouteInv
  <1>3. Inv => RegistryType
    <2> SUFFICES ASSUME Inv PROVE RegistryType
      OBVIOUS
    <2>1. \A a \in DOMAIN adapter : a \in Adapters /\ adapter[a] \in Tokens
      <3>1. PICK n \in 0..MaxAdapters : DOMAIN adapter = 1..n
        BY DEF MachineType
      <3>2. MaxAdapters \in Nat
        BY RegistryAssumption DEF RegistryAssumption
      <3>3. 1..n \subseteq Adapters
        BY <3>2 DEF Adapters
      <3> QED
        BY <3>1, <3>3 DEF MachineType
    <2>2. request \in [Requests -> [op : {"none", "connect", "disconnect", "update"},
                                    at : {"idle", "saved", "read", "deleted"},
                                    row : Rows \cup {NoRow}]]
      BY DEF RouteInv, RequestType, Idle, Connecting, Reading, Disconnecting
    <2>3. binding \in Rows \cup {NoRow}
      BY DEF RouteInv, RequestType
    <2> QED
      BY <2>1, <2>2, <2>3 DEF MachineType, TallyType, DedupInv, DedupType, RegistryType
  <1> QED
    BY <1>1, <1>2, <1>3, PTL DEF RegistrySpec
-----------------------------------------------------------------------------
(***************************************************************************)
(* User spaces.                                                            *)
(***************************************************************************)
\* The types that the invariant rests on, and the lock of the registry.
Guests == [at : {"idle", "found", "missed", "loading", "has", "attaching", "running"},
           user : Users \cup {NoUser}, space : Nat, read : Nat, pool : Nat]
CacheType ==
    /\ settings \in Nat /\ sandboxes \in Nat
    /\ registered \in [Users -> Nat]
    /\ guests \in [Turns -> Guests]
    /\ admins \in [Admins -> [at : {"idle", "wrote", "walking"}, todo : SUBSET Nat]]
    /\ laggard \in BOOLEAN
ShelfType ==
    /\ spaceUser \in Seq(Users)
    /\ spacePool \in Seq(Nat)
    /\ spaceAgent \in Seq(Int)
    /\ Len(spacePool) = Len(spaceUser) /\ Len(spaceAgent) = Len(spaceUser)

\* A registered space exists, is its user's and has the current pool.
Owned == \A u \in Users : registered[u] # 0
            => /\ registered[u] \in 1..Len(spaceUser)
               /\ spaceUser[registered[u]] = u
               /\ spacePool[registered[u]] = sandboxes

\* Its agent has the current settings, or an announcement will come by.
SoonCurrent == \A u \in Users : registered[u] # 0
            => \/ laggard \/ Awaited(registered[u])
               \/ spaceAgent[registered[u]] \in {settings, Unattached}

\* A turn that loads holds the lock, its user has no space, and what it read is
\* current or an announcement has not begun yet: that one waits for the lock.
Loading == \A t \in Turns : guests[t].at = "loading"
            => /\ loading = <<t>> /\ guests[t].user \in Users
               /\ registered[guests[t].user] = 0
               /\ \/ guests[t].read = settings
                  \/ \E a \in Admins : admins[a].at = "wrote"
Missing == \A t \in Turns : guests[t].at = "missed" => guests[t].user \in Users

Shared == \A t \in Turns : guests[t].space # 0
            => /\ guests[t].user \in Users
               /\ guests[t].space \in dropped \cup {registered[guests[t].user]}

SpaceInv == /\ CacheType /\ ShelfType /\ Owned /\ SoonCurrent /\ Loading /\ Missing
            /\ Shared

-----------------------------------------------------------------------------
LEMMA MadeCount ==
  ASSUME ShelfType
  PROVE  Cardinality(Made) = Len(spaceUser)
  <1>1. Len(spaceUser) \in Nat /\ Made = 1..Len(spaceUser)
    BY DEF ShelfType, Made
  <1>2. ASSUME NEW n \in Nat PROVE Cardinality(1..n) = n
    <2>1. Cardinality(1..n) = IF 1 > n THEN 0 ELSE n - 1 + 1
      BY FS_Interval
    <2> QED
      BY <2>1
  <1> QED
    BY <1>1, <1>2

LEMMA SpaceInitial ==
  ASSUME SpacesInit
  PROVE  SpaceInv
  <1>1. CacheType
    BY DEF SpacesInit, CacheType, Visit, Guests
  <1>2. ShelfType
    BY DEF SpacesInit, ShelfType
  <1>3. Owned /\ SoonCurrent /\ Loading /\ Missing /\ Shared
    BY DEF SpacesInit, Visit, Owned, SoonCurrent, Loading, Missing, Shared
  <1> QED
    BY <1>1, <1>2, <1>3 DEF SpaceInv

\* A turn goes on, and nothing else does but the lock it takes or leaves.
LEMMA SpaceTurnGoes ==
  ASSUME SpaceInv, NEW t \in Turns, NEW new \in Guests, TurnGoes(t, new),
         UNCHANGED <<settings, sandboxes, admins, registered, dropped, laggard>>,
         SpacesSame,
         new.at = "missed" => new.user \in Users,
         new.space # 0 => /\ new.user \in Users
                          /\ new.space \in dropped \cup {registered[new.user]},
         \/ new.at # "loading" /\ (loading' = loading \/ guests[t].at = "loading")
         \/ /\ new.at = "loading" /\ loading = NoLoad /\ loading' = <<t>>
            /\ new.user \in Users /\ registered[new.user] = 0 /\ new.read = settings
  PROVE  SpaceInv'
  <1> USE DEF SpaceInv, TurnGoes
  <1>1. CacheType'
    BY DEF CacheType
  <1>2. ShelfType'
    BY DEF ShelfType, SpacesSame
  <1>3. Owned' /\ SoonCurrent'
    BY DEF Owned, SoonCurrent, Awaited, SpacesSame
  <1>4. Loading'
    BY DEF Loading, CacheType, NoLoad
  <1>5. Missing' /\ Shared'
    BY DEF Missing, Shared, CacheType
  <1> QED
    BY <1>1, <1>2, <1>3, <1>4, <1>5

LEMMA SpaceLookup ==
  ASSUME SpaceInv, NEW t \in Turns,
         \/ \E u \in Users : Lookup(t, u)
         \/ Stamp(t) \/ LookAgain(t) \/ StartLoad(t) \/ LoadFails(t)
         \/ Attach(t) \/ TurnRuns(t) \/ TurnEnds(t)
  PROVE  SpaceInv'
  <1> USE DEF World
  <1>0. guests[t] \in Guests /\ registered \in [Users -> Nat] /\ settings \in Nat
        /\ sandboxes \in Nat
    BY DEF SpaceInv, CacheType
  <1>1. ASSUME NEW u \in Users, Lookup(t, u) PROVE SpaceInv'
    <2> DEFINE new == [Visit EXCEPT !.user = u, !.space = registered[u], !.pool = sandboxes,
                          !.at = IF registered[u] # 0 THEN "found" ELSE "missed"]
    <2>1. /\ new \in Guests /\ new.user = u /\ new.space = registered[u]
          /\ new.at # "loading"
      BY <1>0 DEF Visit, Guests
    <2>2. TurnGoes(t, new)
      BY <1>1 DEF Lookup
    <2> HIDE DEF new
    <2> QED
      BY <1>1, <2>1, <2>2, SpaceTurnGoes DEF Lookup
  <1>2. ASSUME NEW p \in {"has", "running"}, guests[t].at # "missed",
               TurnGoes(t, [guests[t] EXCEPT !.at = p]),
               UNCHANGED <<World, registered, loading, dropped, laggard>>, SpacesSame
        PROVE  SpaceInv'
    <2> DEFINE new == [guests[t] EXCEPT !.at = p]
    <2>1. /\ new \in Guests /\ new.user = guests[t].user /\ new.space = guests[t].space
          /\ new.at = p
      BY <1>0 DEF Guests
    <2>2. new.space # 0 => /\ new.user \in Users
                           /\ new.space \in dropped \cup {registered[new.user]}
      BY <2>1 DEF SpaceInv, Shared
    <2>3. TurnGoes(t, new)
      BY <1>2
    <2> HIDE DEF new
    <2> QED
      BY <1>2, <2>1, <2>2, <2>3, SpaceTurnGoes
  <1>3. CASE LookAgain(t)
    <2> DEFINE new == [guests[t] EXCEPT !.at = "has", !.space = registered[guests[t].user]]
    <2>1. guests[t].user \in Users
      BY <1>3 DEF LookAgain, SpaceInv, Missing
    <2>2. /\ new \in Guests /\ new.user = guests[t].user
          /\ new.space = registered[guests[t].user] /\ new.at = "has"
      BY <1>0, <2>1 DEF Guests
    <2>3. TurnGoes(t, new)
      BY <1>3 DEF LookAgain
    <2> HIDE DEF new
    <2> QED
      BY <1>3, <2>1, <2>2, <2>3, SpaceTurnGoes DEF LookAgain
  <1>4. CASE StartLoad(t)
    <2> DEFINE new == [guests[t] EXCEPT !.at = "loading", !.read = settings]
    <2>1. guests[t].user \in Users
      BY <1>4 DEF StartLoad, SpaceInv, Missing
    <2>2. /\ new \in Guests /\ new.user = guests[t].user /\ new.read = settings
          /\ new.space = guests[t].space /\ new.at = "loading"
      BY <1>0 DEF Guests
    <2>3. new.space # 0 => new.space \in dropped \cup {registered[new.user]}
      BY <2>2 DEF SpaceInv, Shared
    <2>4. TurnGoes(t, new)
      BY <1>4 DEF StartLoad
    <2> HIDE DEF new
    <2> QED
      BY <1>4, <2>1, <2>2, <2>3, <2>4, SpaceTurnGoes DEF StartLoad, Unlocked
  <1>5. CASE LoadFails(t) \/ TurnEnds(t)
    <2>1. Visit \in Guests /\ Visit.space = 0 /\ Visit.at = "idle"
      BY DEF Visit, Guests
    <2>2. TurnGoes(t, Visit)
      BY <1>5 DEF LoadFails, TurnEnds
    <2> QED
      BY <1>5, <2>1, <2>2, SpaceTurnGoes DEF LoadFails, TurnEnds
  <1>6. CASE Attach(t)
    <2> DEFINE new == [guests[t] EXCEPT !.at = "attaching", !.read = settings]
    <2>1. /\ new \in Guests /\ new.user = guests[t].user
          /\ new.space = guests[t].space /\ new.at = "attaching"
      BY <1>0 DEF Guests
    <2>2. new.space # 0 => /\ new.user \in Users
                           /\ new.space \in dropped \cup {registered[new.user]}
      BY <2>1 DEF SpaceInv, Shared
    <2>3. TurnGoes(t, new)
      BY <1>6 DEF Attach
    <2> HIDE DEF new
    <2> QED
      BY <1>6, <2>1, <2>2, <2>3, SpaceTurnGoes DEF Attach
  <1>7. CASE Stamp(t)
    BY <1>2, <1>7 DEF Stamp
  <1>8. CASE TurnRuns(t)
    BY <1>2, <1>8 DEF TurnRuns
  <1> QED
    BY <1>1, <1>3, <1>4, <1>5, <1>6, <1>7, <1>8

\* The new space is current, and nobody who holds the lock's user had another.
LEMMA SpaceLoaded ==
  ASSUME SpaceInv, NEW t \in Turns, Loaded(t)
  PROVE  SpaceInv'
  <1> DEFINE n == Len(spaceUser)
             u == guests[t].user
             s == n + 1
             g == guests[t].read
             new == [guests[t] EXCEPT !.at = "has", !.space = s, !.read = 0]
  <1>1. /\ n \in Nat /\ Cardinality(Made) = n /\ s \in Nat /\ s # 0
    BY MadeCount DEF SpaceInv, ShelfType
  <1>2. /\ u \in Users /\ registered[u] = 0 /\ loading = <<t>> /\ guests[t] \in Guests
        /\ \/ g = settings \/ \E a \in Admins : admins[a].at = "wrote"
    BY DEF Loaded, SpaceInv, Loading, CacheType
  <1>3. /\ spaceUser' = Append(spaceUser, u)
        /\ spacePool' = Append(spacePool, sandboxes)
        /\ spaceAgent' = Append(spaceAgent, IF u = AgentOwner THEN g ELSE Unattached)
        /\ registered' = [registered EXCEPT ![u] = s]
        /\ TurnGoes(t, new)
        /\ loading' = NoLoad
        /\ UNCHANGED <<settings, sandboxes, admins, dropped, laggard>>
    BY <1>1 DEF Loaded, World
  <1>4. /\ new \in Guests /\ new.user = u /\ new.space = s /\ new.at = "has"
    BY <1>1, <1>2 DEF Guests
  <1> HIDE DEF new, s
  <1>5. CacheType'
    BY <1>1, <1>2, <1>3, <1>4 DEF SpaceInv, CacheType, TurnGoes
  <1>6. g \in Nat
    BY <1>2 DEF Guests
  <1>7. ShelfType'
    BY <1>2, <1>3, <1>6 DEF SpaceInv, CacheType, ShelfType, Unattached
  <1>8. /\ Len(spaceUser') = s
        /\ \A i \in 1..n : /\ spaceUser'[i] = spaceUser[i] /\ spacePool'[i] = spacePool[i]
                           /\ spaceAgent'[i] = spaceAgent[i]
        /\ spaceUser'[s] = u /\ spacePool'[s] = sandboxes
        /\ spaceAgent'[s] = IF u = AgentOwner THEN g ELSE Unattached
    BY <1>2, <1>3, <1>6 DEF s, SpaceInv, CacheType, ShelfType, Unattached
  <1>9. ASSUME NEW v \in Users, registered'[v] # 0
        PROVE  \E i \in 1..Len(spaceUser') :
                  /\ registered'[v] = i
                  /\ spaceUser'[i] = v /\ spacePool'[i] = sandboxes
                  /\ laggard \/ Awaited(i) \/ spaceAgent'[i] \in {settings, Unattached}
    <2>1. CASE v = u
      <3>1. registered'[v] = s
        BY <1>3, <2>1 DEF SpaceInv, CacheType
      <3>2. s \in 1..Len(spaceUser')
        BY <1>1, <1>8
      <3>3. Awaited(s) \/ spaceAgent'[s] \in {settings, Unattached}
        BY <1>2, <1>3, <1>8 DEF Awaited
      <3> QED
        BY <1>8, <2>1, <3>1, <3>2, <3>3
    <2>2. CASE v # u
      <3>1. registered'[v] = registered[v] /\ registered[v] # 0
        BY <1>3, <1>9, <2>2 DEF SpaceInv, CacheType
      <3>2. /\ registered[v] \in 1..n /\ spaceUser[registered[v]] = v
            /\ spacePool[registered[v]] = sandboxes
        BY <3>1 DEF SpaceInv, Owned
      <3>3. \/ laggard \/ Awaited(registered[v])
            \/ spaceAgent[registered[v]] \in {settings, Unattached}
        BY <3>1 DEF SpaceInv, SoonCurrent
      <3>4. registered[v] \in 1..Len(spaceUser')
        BY <1>1, <1>8, <3>2 DEF s
      <3> QED
        BY <1>8, <3>1, <3>2, <3>3, <3>4
    <2> QED
      BY <2>1, <2>2
  <1>10. Owned'
    <2> SUFFICES ASSUME NEW v \in Users, registered'[v] # 0
                 PROVE  /\ registered'[v] \in 1..Len(spaceUser')
                        /\ spaceUser'[registered'[v]] = v
                        /\ spacePool'[registered'[v]] = sandboxes
      BY <1>3 DEF Owned
    <2> QED
      BY <1>9
  <1>11. SoonCurrent'
    <2> SUFFICES ASSUME NEW v \in Users, registered'[v] # 0
                 PROVE  \/ laggard
                        \/ \E b \in Admins : \/ admins[b].at = "wrote"
                                            \/ registered'[v] \in admins[b].todo
                        \/ spaceAgent'[registered'[v]] \in {settings, Unattached}
      BY <1>3 DEF SoonCurrent, Awaited
    <2> QED
      BY <1>9 DEF Awaited
  <1>12. Loading'
    BY <1>2, <1>3, <1>4 DEF SpaceInv, CacheType, TurnGoes, Loading
  <1>13. Missing'
    BY <1>3, <1>4 DEF SpaceInv, CacheType, TurnGoes, Missing
  <1>14. Shared'
    BY <1>1, <1>2, <1>3, <1>4 DEF SpaceInv, CacheType, TurnGoes, Shared
  <1> QED
    BY <1>5, <1>7, <1>10, <1>11, <1>12, <1>13, <1>14 DEF SpaceInv

\* What was read late is marked.
LEMMA SpaceAttached ==
  ASSUME SpaceInv, NEW t \in Turns, Attached(t)
  PROVE  SpaceInv'
  <1> DEFINE p == guests[t].space
             g == guests[t].read
             new == [guests[t] EXCEPT !.at = "running", !.read = 0]
  <1>1. /\ spaceAgent' = [spaceAgent EXCEPT ![p] = g]
        /\ TurnGoes(t, new)
        /\ laggard' = (laggard \/ (g # settings /\ ~Awaited(p)))
        /\ UNCHANGED <<settings, sandboxes, admins, registered, loading, spaceUser,
                       spacePool, dropped>>
    BY DEF Attached, World
  <1>2. guests[t] \in Guests /\ g \in Nat
    BY DEF SpaceInv, CacheType, Guests
  <1>3. /\ new \in Guests /\ new.user = guests[t].user /\ new.space = p
        /\ new.at = "running"
    BY <1>2 DEF Guests
  <1> HIDE DEF new
  <1>4. CacheType'
    BY <1>1, <1>3 DEF SpaceInv, CacheType, TurnGoes
  <1>5. ShelfType' /\ DOMAIN spaceAgent = 1..Len(spaceUser)
    <2>1. spaceAgent \in Seq(Int) /\ Len(spaceAgent) = Len(spaceUser)
      BY DEF SpaceInv, ShelfType
    <2>2. spaceAgent' \in Seq(Int) /\ Len(spaceAgent') = Len(spaceAgent)
      <3>1. CASE p \in 1..Len(spaceAgent)
        BY <1>1, <1>2, <2>1, <3>1, ExceptSeq
      <3>2. CASE p \notin 1..Len(spaceAgent)
        <4>1. spaceAgent' = spaceAgent
          BY <1>1, <2>1, <3>2
        <4> QED
          BY <2>1, <4>1
      <3> QED
        BY <3>1, <3>2
    <2> QED
      BY <1>1, <2>1, <2>2 DEF SpaceInv, ShelfType
  <1>6. Owned'
    BY <1>1 DEF SpaceInv, Owned
  <1>7. ASSUME NEW v \in Users, registered[v] # 0
        PROVE  \/ laggard' \/ Awaited(registered[v])'
               \/ spaceAgent'[registered[v]] \in {settings, Unattached}
    <2>1. registered[v] \in DOMAIN spaceAgent
      BY <1>5, <1>7 DEF SpaceInv, Owned
    <2>2. Awaited(registered[v]) <=> Awaited(registered[v])'
      BY <1>1 DEF Awaited
    <2>3. CASE registered[v] = p
      <3>1. spaceAgent'[p] = g
        BY <1>1, <2>1, <2>3
      <3> QED
        BY <1>1, <2>2, <2>3, <3>1
    <2>4. CASE registered[v] # p
      <3>1. spaceAgent'[registered[v]] = spaceAgent[registered[v]]
        BY <1>1, <2>1, <2>4
      <3> QED
        BY <1>1, <1>7, <2>2, <3>1 DEF SpaceInv, SoonCurrent
    <2> QED
      BY <2>3, <2>4
  <1>8. SoonCurrent'
    BY <1>1, <1>7 DEF SoonCurrent
  <1>9. Loading' /\ Missing'
    BY <1>1, <1>3 DEF SpaceInv, CacheType, TurnGoes, Loading, Missing
  <1>10. Shared'
    BY <1>1, <1>3 DEF SpaceInv, CacheType, TurnGoes, Shared
  <1> QED
    BY <1>4, <1>5, <1>6, <1>8, <1>9, <1>10 DEF SpaceInv

\* A space that is dropped is nobody's current one.
LEMMA SpaceDrop ==
  ASSUME SpaceInv, NEW u \in Users, Drop(u), UNCHANGED <<guests>>
  PROVE  /\ registered' \in [Users -> Nat]
         /\ \A v \in Users : registered'[v] # 0 => registered'[v] = registered[v]
         /\ registered'[u] = 0
         /\ Shared'
  BY DEF SpaceInv, CacheType, Drop, Shared

\* The settings change: an announcement of the change is to come.
LEMMA SpaceWrites ==
  ASSUME SpaceInv, NEW a \in Admins, WriteSettings(a)
  PROVE  SpaceInv'
  <1>1. /\ settings' = settings + 1 /\ admins' = [admins EXCEPT ![a].at = "wrote"]
        /\ SpacesSame
        /\ UNCHANGED <<sandboxes, registered, loading, dropped, guests, laggard>>
    BY DEF WriteSettings
  <1>2. /\ admins'[a].at = "wrote"
        /\ admins' \in [Admins -> [at : {"idle", "wrote", "walking"}, todo : SUBSET Nat]]
    BY <1>1 DEF SpaceInv, CacheType
  <1>3. CacheType' /\ ShelfType'
    <2>1. settings' \in Nat
      BY <1>1 DEF SpaceInv, CacheType
    <2>2. UNCHANGED <<sandboxes, registered, guests, laggard, spaceUser, spacePool, spaceAgent>>
      BY <1>1 DEF SpacesSame
    <2>3. CacheType'
      BY <1>2, <2>1, <2>2 DEF SpaceInv, CacheType
    <2>4. ShelfType'
      BY <2>2 DEF SpaceInv, ShelfType
    <2> QED
      BY <2>3, <2>4
  <1>4. Owned'
    BY <1>1 DEF SpaceInv, Owned, SpacesSame
  <1>5. SoonCurrent' /\ Loading'
    BY <1>1, <1>2 DEF SpaceInv, SoonCurrent, Awaited, Loading
  <1>6. Missing' /\ Shared'
    BY <1>1 DEF SpaceInv, Missing, Shared
  <1> QED
    BY <1>3, <1>4, <1>5, <1>6 DEF SpaceInv

\* The announcement lists every space that is registered; none is being loaded.
LEMMA SpaceLists ==
  ASSUME SpaceInv, NEW a \in Admins, ListSpaces(a)
  PROVE  SpaceInv'
  <1> DEFINE list == {registered[u] : u \in Users} \ {0}
  <1>1. /\ admins' = [admins EXCEPT ![a] = [at |-> "walking", todo |-> list]]
        /\ loading = NoLoad /\ SpacesSame
        /\ UNCHANGED <<settings, sandboxes, registered, loading, dropped, guests, laggard>>
    BY DEF ListSpaces, Unlocked
  <1>2. list \in SUBSET Nat
    BY DEF SpaceInv, CacheType
  <1>3. CacheType' /\ ShelfType'
    <2> HIDE DEF list
    <2>1. admins' \in [Admins -> [at : {"idle", "wrote", "walking"}, todo : SUBSET Nat]]
      BY <1>1, <1>2 DEF SpaceInv, CacheType
    <2>2. UNCHANGED <<settings, sandboxes, registered, guests, laggard, spaceUser,
                      spacePool, spaceAgent>>
      BY <1>1 DEF SpacesSame
    <2>3. CacheType'
      BY <2>1, <2>2 DEF SpaceInv, CacheType
    <2>4. ShelfType'
      BY <2>2 DEF SpaceInv, ShelfType
    <2> QED
      BY <2>3, <2>4
  <1>4. Owned'
    BY <1>1 DEF SpaceInv, Owned, SpacesSame
  <1>5. ASSUME NEW u \in Users, registered[u] # 0
        PROVE  \E b \in Admins : registered[u] \in admins'[b].todo
    <2>1. admins'[a].todo = list
      BY <1>1 DEF SpaceInv, CacheType
    <2> QED
      BY <1>5, <2>1
  <1>6. SoonCurrent'
    BY <1>1, <1>5 DEF SoonCurrent, Awaited
  <1>7. \A t \in Turns : guests[t].at # "loading"
    BY <1>1 DEF SpaceInv, Loading, NoLoad
  <1>8. Loading' /\ Missing' /\ Shared'
    BY <1>1, <1>7 DEF SpaceInv, Loading, Missing, Shared
  <1> QED
    BY <1>3, <1>4, <1>6, <1>8 DEF SpaceInv

\* It drops the space it looks at, or that has no agent.
LEMMA SpaceInvalidates ==
  ASSUME SpaceInv, NEW a \in Admins, NEW s \in Spaces, Invalidate(a, s)
  PROVE  SpaceInv'
  <1>1. /\ s \in admins[a].todo /\ loading = NoLoad /\ SpacesSame
        /\ admins' = [admins EXCEPT ![a].todo = @ \ {s}]
        /\ UNCHANGED <<settings, sandboxes, loading, guests, laggard>>
    BY DEF Invalidate, Unlocked
  <1>2. /\ admins' \in [Admins -> [at : {"idle", "wrote", "walking"}, todo : SUBSET Nat]]
        /\ \A b \in Admins : /\ admins'[b].at = admins[b].at
                             /\ \A z \in admins[b].todo : z # s => z \in admins'[b].todo
    BY <1>1 DEF SpaceInv, CacheType
  <1>3. \A t \in Turns : guests[t].at # "loading"
    BY <1>1 DEF SpaceInv, Loading, NoLoad
  <1>4. /\ registered' \in [Users -> Nat] /\ Shared'
        /\ \A v \in Users : registered'[v] # 0 =>
              /\ registered'[v] = registered[v]
              /\ registered[v] = s => spaceAgent[s] = Unattached
    <2>1. CASE spaceAgent[s] # Unattached /\ \E u \in Users : u = spaceUser[s]
      <3>1. Drop(spaceUser[s])
        BY <2>1 DEF Invalidate
      <3>2. \A v \in Users : registered[v] = s /\ registered[v] # 0 => spaceUser[s] = v
        BY DEF SpaceInv, Owned
      <3> QED
        BY <1>1, <2>1, <3>1, <3>2, SpaceDrop
    <2>2. CASE spaceAgent[s] # Unattached /\ ~\E u \in Users : u = spaceUser[s]
      <3>1. Drop(spaceUser[s])
        BY <2>2 DEF Invalidate
      <3>2. registered' = registered
        BY <2>2, <3>1 DEF Drop, SpaceInv, CacheType
      <3>3. dropped \subseteq dropped'
        BY <3>1 DEF Drop
      <3>4. \A v \in Users : registered[v] # s \/ registered[v] = 0
        BY <2>2 DEF SpaceInv, Owned
      <3> QED
        BY <1>1, <3>2, <3>3, <3>4 DEF SpaceInv, CacheType, Shared
    <2>3. CASE spaceAgent[s] = Unattached
      <3>1. UNCHANGED <<registered, dropped>>
        BY <2>3 DEF Invalidate
      <3> QED
        BY <1>1, <2>3, <3>1 DEF SpaceInv, CacheType, Shared
    <2> QED
      BY <2>1, <2>2, <2>3
  <1>5. CacheType' /\ ShelfType'
    BY <1>1, <1>2, <1>4 DEF SpaceInv, CacheType, ShelfType, SpacesSame
  <1>6. Owned'
    BY <1>1, <1>4 DEF SpaceInv, Owned, SpacesSame
  <1>7. SoonCurrent'
    <2> SUFFICES ASSUME NEW v \in Users, registered'[v] # 0
                 PROVE  \/ laggard
                        \/ \E b \in Admins : \/ admins'[b].at = "wrote"
                                            \/ registered'[v] \in admins'[b].todo
                        \/ spaceAgent[registered'[v]] \in {settings, Unattached}
      BY <1>1 DEF SoonCurrent, Awaited, SpacesSame
    <2>1. registered'[v] = registered[v] /\ registered[v] # 0
          /\ (registered[v] = s => spaceAgent[s] = Unattached)
      BY <1>4
    <2>2. \/ laggard
          \/ \E b \in Admins : \/ admins[b].at = "wrote"
                              \/ registered[v] \in admins[b].todo
          \/ spaceAgent[registered[v]] \in {settings, Unattached}
      BY <2>1 DEF SpaceInv, SoonCurrent, Awaited
    <2> QED
      BY <1>2, <2>1, <2>2
  <1>8. Loading' /\ Missing'
    BY <1>1, <1>3 DEF SpaceInv, Loading, Missing
  <1> QED
    BY <1>4, <1>5, <1>6, <1>7, <1>8 DEF SpaceInv

LEMMA SpaceAdminDone ==
  ASSUME SpaceInv, NEW a \in Admins, AdminDone(a)
  PROVE  SpaceInv'
  <1>1. /\ admins[a].at = "walking" /\ admins[a].todo = {} /\ SpacesSame
        /\ admins' = [admins EXCEPT ![a].at = "idle"]
        /\ UNCHANGED <<settings, sandboxes, registered, loading, dropped, guests, laggard>>
    BY DEF AdminDone
  <1>2. CacheType' /\ ShelfType'
    BY <1>1 DEF SpaceInv, CacheType, ShelfType, SpacesSame
  <1>3. Owned'
    BY <1>1 DEF SpaceInv, Owned, SpacesSame
  <1>4. \A b \in Admins : /\ admins[b].at = "wrote" => admins'[b].at = "wrote"
                         /\ admins'[b].todo = admins[b].todo
    BY <1>1 DEF SpaceInv, CacheType
  <1>5. SoonCurrent' /\ Loading'
    BY <1>1, <1>4 DEF SpaceInv, SoonCurrent, Awaited, Loading, SpacesSame
  <1>6. Missing' /\ Shared'
    BY <1>1 DEF SpaceInv, Missing, Shared
  <1> QED
    BY <1>2, <1>3, <1>5, <1>6 DEF SpaceInv

LEMMA SpaceEvict ==
  ASSUME SpaceInv, NEW u \in Users, EvictSpace(u)
  PROVE  SpaceInv'
  <1>1. /\ Drop(u) /\ SpacesSame /\ loading = NoLoad
        /\ UNCHANGED <<settings, sandboxes, admins, loading, guests, laggard>>
    BY DEF EvictSpace, World, Unlocked
  <1>2. /\ registered' \in [Users -> Nat] /\ Shared'
        /\ \A v \in Users : registered'[v] # 0 => registered'[v] = registered[v]
    BY <1>1, SpaceDrop
  <1>3. CacheType' /\ ShelfType'
    BY <1>1, <1>2 DEF SpaceInv, CacheType, ShelfType, SpacesSame
  <1>4. Owned' /\ SoonCurrent'
    BY <1>1, <1>2 DEF SpaceInv, Owned, SoonCurrent, Awaited, SpacesSame
  <1>5. Loading' /\ Missing'
    BY <1>1 DEF SpaceInv, Loading, Missing, NoLoad
  <1> QED
    BY <1>2, <1>3, <1>4, <1>5 DEF SpaceInv

\* The pool and all spaces go together, under one lock.
LEMMA SpaceReload ==
  ASSUME SpaceInv, ReloadSandbox
  PROVE  SpaceInv'
  <1>1. /\ loading = NoLoad /\ sandboxes' = sandboxes + 1
        /\ dropped' = dropped \cup ({registered[u] : u \in Users} \ {0})
        /\ registered' = [u \in Users |-> 0] /\ SpacesSame
        /\ UNCHANGED <<settings, admins, loading, guests, laggard>>
    BY DEF ReloadSandbox, Unlocked
  <1>2. CacheType' /\ ShelfType'
    BY <1>1 DEF SpaceInv, CacheType, ShelfType, SpacesSame
  <1>3. Owned' /\ SoonCurrent'
    BY <1>1 DEF Owned, SoonCurrent
  <1>4. Loading' /\ Missing' /\ Shared'
    BY <1>1 DEF SpaceInv, Loading, Missing, Shared, NoLoad
  <1> QED
    BY <1>2, <1>3, <1>4 DEF SpaceInv

LEMMA SpaceStep ==
  ASSUME SpaceInv, [SpacesNext]_spaceVars
  PROVE  SpaceInv'
  <1>1. CASE UNCHANGED spaceVars
    BY <1>1 DEF spaceVars, SpaceInv, CacheType, ShelfType, Owned, SoonCurrent, Awaited,
                Loading, Missing, Shared
  <1>2. CASE SpacesNext
    BY <1>2, SpaceLookup, SpaceLoaded, SpaceAttached, SpaceWrites, SpaceLists,
       SpaceInvalidates, SpaceAdminDone, SpaceEvict, SpaceReload DEF SpacesNext
  <1> QED
    BY <1>1, <1>2

\* Nobody asked later than now, and who has a space has the pool of when he
\* asked or a later one.
PoolFits(g) == /\ g.pool <= sandboxes
               /\ g.space # 0 => /\ g.space \in 1..Len(spacePool)
                                 /\ spacePool[g.space] >= g.pool
PoolAsked == \A t \in Turns : PoolFits(guests[t])

LEMMA AskedInitial ==
  ASSUME SpacesInit
  PROVE  PoolAsked
  BY DEF SpacesInit, Visit, PoolAsked, PoolFits

LEMMA AskedGoes ==
  ASSUME CacheType, PoolAsked, NEW t \in Turns, NEW new, TurnGoes(t, new),
         UNCHANGED <<sandboxes, spacePool>>, PoolFits(new)
  PROVE  PoolAsked'
  <1> SUFFICES ASSUME NEW v \in Turns PROVE PoolFits(guests[v])'
    BY DEF PoolAsked
  <1>1. guests'[v] = IF v = t THEN new ELSE guests[v]
    BY DEF TurnGoes, CacheType
  <1>2. PoolFits(guests[v])
    BY DEF PoolAsked
  <1> QED
    BY <1>1, <1>2 DEF PoolFits

LEMMA AskedStep ==
  ASSUME SpaceInv, PoolAsked, [SpacesNext]_spaceVars
  PROVE  PoolAsked'
  <1>0. /\ CacheType /\ sandboxes \in Nat /\ registered \in [Users -> Nat]
        /\ \A t \in Turns : guests[t] \in Guests /\ PoolFits(guests[t])
    BY DEF SpaceInv, CacheType, PoolAsked
  <1>s. spacePool \in Seq(Nat) /\ Len(spacePool) \in Nat /\ Len(spaceUser) = Len(spacePool)
    BY DEF SpaceInv, ShelfType
  <1>r. ASSUME NEW u \in Users, registered[u] # 0
        PROVE  registered[u] \in 1..Len(spacePool) /\ spacePool[registered[u]] = sandboxes
    BY <1>r, <1>s DEF SpaceInv, Owned
  \* The turns stay as they are, and so does every space.
  <1>1. ASSUME UNCHANGED <<guests, spacePool>>, sandboxes' \in {sandboxes, sandboxes + 1}
        PROVE  PoolAsked'
    <2> SUFFICES ASSUME NEW t \in Turns PROVE PoolFits(guests[t])'
      BY DEF PoolAsked
    <2>1. guests[t].pool \in Nat /\ PoolFits(guests[t])
      BY <1>0 DEF Guests
    <2> QED
      BY <1>0, <1>1, <2>1 DEF PoolFits
  \* A turn goes on with the space it had.
  <1>2. ASSUME NEW t \in Turns, NEW p \in {"has", "loading", "attaching", "running"},
               NEW d,
               \/ TurnGoes(t, [guests[t] EXCEPT !.at = p])
               \/ TurnGoes(t, [guests[t] EXCEPT !.at = p, !.read = d]),
               UNCHANGED <<sandboxes, spacePool>>
        PROVE  PoolAsked'
    <2>1. PICK new : /\ TurnGoes(t, new)
                     /\ \/ new = [guests[t] EXCEPT !.at = p]
                        \/ new = [guests[t] EXCEPT !.at = p, !.read = d]
      BY <1>2
    <2>2. new.pool = guests[t].pool /\ new.space = guests[t].space
      BY <1>0, <2>1 DEF Guests
    <2>3. PoolFits(new)
      BY <1>0, <2>2 DEF PoolFits
    <2> QED
      BY <1>0, <1>2, <2>1, <2>3, AskedGoes DEF PoolAsked
  <1>3. ASSUME NEW t \in Turns, NEW u \in Users, Lookup(t, u) PROVE PoolAsked'
    <2> DEFINE new == [Visit EXCEPT !.user = u, !.space = registered[u], !.pool = sandboxes,
                          !.at = IF registered[u] # 0 THEN "found" ELSE "missed"]
    <2>1. new.space = registered[u] /\ new.pool = sandboxes
      BY DEF Visit
    <2>2. TurnGoes(t, new) /\ UNCHANGED <<sandboxes, spacePool>>
      BY <1>3 DEF Lookup, World, SpacesSame
    <2> HIDE DEF new
    <2>3. PoolFits(new)
      BY <1>0, <1>r, <2>1 DEF PoolFits
    <2> QED
      BY <1>0, <2>2, <2>3, AskedGoes DEF PoolAsked
  <1>4. ASSUME NEW t \in Turns, LookAgain(t) PROVE PoolAsked'
    <2> DEFINE u == guests[t].user
               new == [guests[t] EXCEPT !.at = "has", !.space = registered[u]]
    <2>1. u \in Users /\ registered[u] # 0
      BY <1>4 DEF LookAgain, SpaceInv, Missing
    <2>2. TurnGoes(t, new) /\ UNCHANGED <<sandboxes, spacePool>>
      BY <1>4 DEF LookAgain, World, SpacesSame
    <2>3. new.space = registered[u] /\ new.pool = guests[t].pool
      BY <1>0 DEF Guests
    <2> HIDE DEF new, u
    <2>4. PoolFits(new)
      BY <1>0, <1>r, <2>1, <2>3 DEF PoolFits
    <2> QED
      BY <1>0, <2>2, <2>4, AskedGoes DEF PoolAsked
  <1>5. ASSUME NEW t \in Turns, LoadFails(t) \/ TurnEnds(t) PROVE PoolAsked'
    <2>1. PoolFits(Visit)
      BY <1>0 DEF PoolFits, Visit
    <2> QED
      BY <1>0, <1>5, <2>1, AskedGoes DEF PoolAsked, LoadFails, TurnEnds, SpacesSame, World
  \* The new space has the current pool.
  <1>6. ASSUME NEW t \in Turns, Loaded(t) PROVE PoolAsked'
    <2> DEFINE n == Len(spacePool)
    <2>1. /\ spacePool' = Append(spacePool, sandboxes) /\ sandboxes' = sandboxes
          /\ guests' = [guests EXCEPT ![t] =
                [guests[t] EXCEPT !.at = "has", !.space = n + 1, !.read = 0]]
      BY <1>6, <1>s, MadeCount DEF Loaded, World, TurnGoes, SpaceInv
    <2>2. /\ Len(spacePool') = n + 1 /\ spacePool'[n + 1] = sandboxes
          /\ \A s \in 1..n : spacePool'[s] = spacePool[s]
      BY <1>0, <1>s, <2>1
    <2> SUFFICES ASSUME NEW v \in Turns PROVE PoolFits(guests[v])'
      BY DEF PoolAsked
    <2>3. guests[v] \in Guests /\ PoolFits(guests[v]) /\ guests \in [Turns -> Guests]
      BY <1>0 DEF CacheType
    <2>4. CASE v = t
      <3>1. guests'[v].pool = guests[v].pool /\ guests'[v].space = n + 1
        BY <2>1, <2>3, <2>4 DEF Guests
      <3> QED
        BY <1>s, <2>1, <2>2, <2>3, <3>1 DEF PoolFits
    <2>5. CASE v # t
      <3>1. guests'[v] = guests[v]
        BY <2>1, <2>3, <2>5
      <3> QED
        BY <1>s, <2>1, <2>2, <2>3, <3>1 DEF PoolFits
    <2> QED
      BY <2>4, <2>5
  <1>7. ASSUME NEW t \in Turns,
               Stamp(t) \/ StartLoad(t) \/ Attach(t) \/ Attached(t) \/ TurnRuns(t)
        PROVE  PoolAsked'
    BY <1>2, <1>7 DEF Stamp, StartLoad, Attach, Attached, TurnRuns, World, SpacesSame
  <1>8. ASSUME \/ \E a \in Admins : \/ WriteSettings(a) \/ ListSpaces(a) \/ AdminDone(a)
                                    \/ \E s \in Spaces : Invalidate(a, s)
               \/ \E u \in Users : EvictSpace(u)
               \/ ReloadSandbox
        PROVE  PoolAsked'
    BY <1>1, <1>8 DEF WriteSettings, ListSpaces, AdminDone, Invalidate, EvictSpace,
                      ReloadSandbox, World, SpacesSame
  <1>9. CASE UNCHANGED spaceVars
    BY <1>1, <1>9 DEF spaceVars
  <1> QED
    BY <1>3, <1>4, <1>5, <1>6, <1>7, <1>8, <1>9 DEF SpacesNext

\* The space a lookup finds has the announced settings and the current sandbox
\* pool, what a user is handed has the pool that was current when he asked or a
\* later one, and the turns of a user share one space until it is dropped: from
\* the lock of the registry, under which spaces are loaded and dropped
\* (userspace.go), and from every change being announced to all spaces after it
\* was written (reload.go:24-43).
THEOREM SpacesAreCurrentTheorem == SpacesSpec => []SpacesAreCurrent
  <1>1. SpacesInit => SpaceInv /\ PoolAsked
    BY SpaceInitial, AskedInitial
  <1>2. SpaceInv /\ PoolAsked /\ [SpacesNext]_spaceVars => SpaceInv' /\ PoolAsked'
    BY SpaceStep, AskedStep
  <1>3. SpaceInv /\ PoolAsked => SpacesAreCurrent
    BY DEF SpaceInv, Owned, SoonCurrent, Shared, PoolAsked, PoolFits, SpacesAreCurrent
  <1> QED
    BY <1>1, <1>2, <1>3, PTL DEF SpacesSpec
-----------------------------------------------------------------------------
(* The ranges of what is numbered.                                         *)

WorldRange ==
    /\ settings \in 1..MaxSettings /\ sandboxes \in 1..MaxPools
    /\ loading \in {NoLoad} \cup {<<t>> : t \in Turns}
ShelfRange ==
    /\ Len(spaceUser) <= MaxSpaces
    /\ \A s \in 1..Len(spaceUser) : /\ spacePool[s] \in 1..MaxPools
                                    /\ spaceAgent[s] \in 1..MaxSettings \cup {Unattached}
\* What is registered, dropped, listed or held was made.
NumberRange ==
    /\ \A u \in Users : registered[u] \in 0..Len(spaceUser)
    /\ dropped \subseteq 1..Len(spaceUser)
    /\ \A a \in Admins : admins[a].todo \subseteq 1..Len(spaceUser)
    /\ \A t \in Turns : guests[t].space \in 0..Len(spaceUser)
\* A turn that loads or attaches has read the settings.
ReadRange ==
    \A t \in Turns : /\ guests[t].read \in 0..MaxSettings
                     /\ guests[t].at \in {"loading", "attaching"} => guests[t].read # 0

RangeInv == WorldRange /\ ShelfRange /\ NumberRange /\ ReadRange

LEMMA SpaceBounds ==
  ASSUME SpaceInv
  PROVE  /\ {MaxSpaces, MaxSettings, MaxPools} \subseteq Nat \ {0}
         /\ Len(spaceUser) \in Nat /\ Cardinality(Made) = Len(spaceUser)
         /\ Made = 1..Len(spaceUser)
  BY SpaceAssumption, MadeCount DEF SpaceAssumption, SpaceInv, ShelfType, Made

\* A turn goes on with a space that is registered, or the one it had.
LEMMA RangeTurnGoes ==
  ASSUME SpaceInv, RangeInv, NEW t \in Turns, NEW new, TurnGoes(t, new),
         SpacesSame, UNCHANGED <<settings, sandboxes, admins, registered, dropped>>,
         loading' \in {loading, NoLoad, <<t>>},
         new.space \in {0, guests[t].space} \cup {registered[u] : u \in Users},
         new.read \in {0, settings} \/ new.read = guests[t].read,
         new.at \in {"loading", "attaching"} => new.read = settings
  PROVE  RangeInv'
  <1>1. WorldRange' /\ ShelfRange'
    BY DEF SpacesSame, RangeInv, WorldRange, ShelfRange
  <1>2. \A v \in Turns : guests'[v] = IF v = t THEN new ELSE guests[v]
    BY DEF TurnGoes, SpaceInv, CacheType
  <1>3. new.space \in 0..Len(spaceUser)
    BY SpaceBounds DEF RangeInv, NumberRange
  <1>4. NumberRange'
    BY <1>2, <1>3 DEF SpacesSame, RangeInv, NumberRange
  <1>5. settings \in 0..MaxSettings /\ settings # 0 /\ 0 \in 0..MaxSettings
    BY SpaceBounds DEF RangeInv, WorldRange
  <1>6. new.read \in 0..MaxSettings /\ (new.at \in {"loading", "attaching"} => new.read # 0)
    BY <1>5 DEF RangeInv, ReadRange
  <1>7. ReadRange'
    BY <1>2, <1>6 DEF RangeInv, ReadRange
  <1> QED
    BY <1>1, <1>4, <1>7 DEF RangeInv

LEMMA RangeTurn ==
  ASSUME SpaceInv, RangeInv, NEW t \in Turns,
         \/ \E u \in Users : Lookup(t, u)
         \/ Stamp(t) \/ LookAgain(t) \/ StartLoad(t) \/ LoadFails(t)
         \/ Attach(t) \/ TurnRuns(t) \/ TurnEnds(t)
  PROVE  RangeInv'
  <1> DEFINE g == guests[t]
  <1>0. g \in Guests
    BY DEF SpaceInv, CacheType
  <1>1. ASSUME NEW u \in Users, Lookup(t, u) PROVE RangeInv'
    <2> DEFINE new == [Visit EXCEPT !.user = u, !.space = registered[u], !.pool = sandboxes,
                          !.at = IF registered[u] # 0 THEN "found" ELSE "missed"]
    <2>1. new.space = registered[u] /\ new.read = 0 /\ new.at \in {"found", "missed"}
      BY DEF Visit
    <2>2. TurnGoes(t, new) /\ SpacesSame /\ loading' = loading
          /\ UNCHANGED <<settings, sandboxes, admins, registered, dropped>>
      BY <1>1 DEF Lookup, World
    <2> HIDE DEF new
    <2> QED
      BY <2>1, <2>2, RangeTurnGoes
  <1>2. CASE Stamp(t) \/ TurnRuns(t)
    <2> DEFINE new(p) == [g EXCEPT !.at = p]
    <2>1. \A p \in {"has", "running"} :
             new(p).space = g.space /\ new(p).read = g.read /\ new(p).at = p
      BY <1>0 DEF Guests
    <2>2. PICK p \in {"has", "running"} : TurnGoes(t, new(p))
      BY <1>2 DEF Stamp, TurnRuns
    <2>3. SpacesSame /\ loading' = loading
          /\ UNCHANGED <<settings, sandboxes, admins, registered, dropped>>
      BY <1>2 DEF Stamp, TurnRuns, World
    <2> HIDE DEF new
    <2> QED
      BY <2>1, <2>2, <2>3, RangeTurnGoes
  <1>3. CASE LookAgain(t)
    <2> DEFINE new == [g EXCEPT !.at = "has", !.space = registered[g.user]]
    <2>1. new.space = registered[g.user] /\ new.read = g.read /\ new.at = "has"
      BY <1>0 DEF Guests
    <2>2. g.user \in Users
      BY <1>3 DEF LookAgain, SpaceInv, Missing
    <2>3. TurnGoes(t, new) /\ SpacesSame /\ loading' = loading
          /\ UNCHANGED <<settings, sandboxes, admins, registered, dropped>>
      BY <1>3 DEF LookAgain, World
    <2> HIDE DEF new
    <2> QED
      BY <2>1, <2>2, <2>3, RangeTurnGoes
  <1>4. CASE StartLoad(t) \/ Attach(t)
    <2> DEFINE new(p) == [g EXCEPT !.at = p, !.read = settings]
    <2>1. \A p \in {"loading", "attaching"} :
             new(p).space = g.space /\ new(p).read = settings /\ new(p).at = p
      BY <1>0 DEF Guests
    <2>2. PICK p \in {"loading", "attaching"} : TurnGoes(t, new(p))
      BY <1>4 DEF StartLoad, Attach
    <2>3. SpacesSame /\ loading' \in {loading, <<t>>}
          /\ UNCHANGED <<settings, sandboxes, admins, registered, dropped>>
      BY <1>4 DEF StartLoad, Attach, World
    <2> HIDE DEF new
    <2> QED
      BY <2>1, <2>2, <2>3, RangeTurnGoes
  <1>5. CASE LoadFails(t) \/ TurnEnds(t)
    <2>1. Visit.space = 0 /\ Visit.read = 0 /\ Visit.at = "idle"
      BY DEF Visit
    <2>2. TurnGoes(t, Visit) /\ SpacesSame /\ loading' \in {loading, NoLoad}
          /\ UNCHANGED <<settings, sandboxes, admins, registered, dropped>>
      BY <1>5 DEF LoadFails, TurnEnds, World
    <2> QED
      BY <2>1, <2>2, RangeTurnGoes
  <1> QED
    BY <1>1, <1>2, <1>3, <1>4, <1>5

\* The next space gets the next number.
LEMMA RangeLoaded ==
  ASSUME SpaceInv, RangeInv, NEW t \in Turns, Loaded(t)
  PROVE  RangeInv'
  <1> DEFINE n == Len(spaceUser)
             u == guests[t].user
             agent == IF u = AgentOwner THEN guests[t].read ELSE Unattached
             new == [guests[t] EXCEPT !.at = "has", !.space = n + 1, !.read = 0]
  <1>1. /\ guests[t] \in Guests /\ guests[t].at = "loading" /\ u \in Users /\ n < MaxSpaces
        /\ spaceUser' = Append(spaceUser, u)
        /\ spacePool' = Append(spacePool, sandboxes)
        /\ spaceAgent' = Append(spaceAgent, agent)
        /\ registered' = [registered EXCEPT ![u] = n + 1]
        /\ TurnGoes(t, new) /\ loading' = NoLoad
        /\ UNCHANGED <<settings, sandboxes, admins, dropped>>
    BY SpaceBounds DEF Loaded, World, SpaceInv, CacheType, Loading
  <1>2. new.space = n + 1 /\ new.read = 0 /\ new.at = "has"
    BY <1>1 DEF Guests
  <1> HIDE DEF new
  <1>3. guests[t].read \in 1..MaxSettings /\ agent \in 1..MaxSettings \cup {Unattached}
    BY <1>1, SpaceBounds DEF RangeInv, ReadRange
  <1>4. sandboxes \in 1..MaxPools /\ sandboxes \in Nat /\ agent \in Int
    BY <1>3, SpaceBounds DEF RangeInv, WorldRange, Unattached
  <1> HIDE DEF agent
  <1>5. /\ Len(spaceUser') = n + 1 /\ spacePool'[n + 1] = sandboxes /\ spaceAgent'[n + 1] = agent
        /\ \A s \in 1..n : spacePool'[s] = spacePool[s] /\ spaceAgent'[s] = spaceAgent[s]
    <2>1. /\ spaceUser \in Seq(Users) /\ spacePool \in Seq(Nat) /\ spaceAgent \in Seq(Int)
          /\ Len(spacePool) = n /\ Len(spaceAgent) = n
      BY DEF SpaceInv, ShelfType
    <2>2. Len(spaceUser') = n + 1
      BY <1>1, <2>1, AppendProperties
    <2>3. spacePool'[n + 1] = sandboxes /\ \A s \in 1..n : spacePool'[s] = spacePool[s]
      BY <1>1, <1>4, <2>1, AppendProperties
    <2>4. spaceAgent'[n + 1] = agent /\ \A s \in 1..n : spaceAgent'[s] = spaceAgent[s]
      BY <1>1, <1>4, <2>1, AppendProperties
    <2> QED
      BY <2>2, <2>3, <2>4
  <1>6. n \in Nat /\ MaxSpaces \in Nat
    BY SpaceBounds
  <1>7. \A v \in Turns : guests'[v] = IF v = t THEN new ELSE guests[v]
    BY <1>1 DEF TurnGoes, SpaceInv, CacheType
  <1>8. \A v \in Users : registered'[v] = IF v = u THEN n + 1 ELSE registered[v]
    BY <1>1 DEF SpaceInv, CacheType
  <1>9. 1..n + 1 = (1..n) \cup {n + 1} /\ 0..n + 1 = (0..n) \cup {n + 1}
    BY <1>6
  <1> HIDE DEF n, u
  <1>10. WorldRange'
    BY <1>1 DEF RangeInv, WorldRange
  <1>11. ShelfRange'
    <2>1. n + 1 <= MaxSpaces
      BY <1>1, <1>6
    <2> QED
      BY <1>3, <1>4, <1>5, <1>9, <2>1 DEF n, RangeInv, ShelfRange
  <1>12. NumberRange'
    <2>1. \A v \in Users : registered'[v] \in 0..Len(spaceUser')
      BY <1>5, <1>8, <1>9 DEF n, RangeInv, NumberRange
    <2>2. \A v \in Turns : guests'[v].space \in 0..Len(spaceUser')
      BY <1>2, <1>5, <1>7, <1>9 DEF n, RangeInv, NumberRange
    <2>3. 1..Len(spaceUser) \subseteq 1..Len(spaceUser')
      BY <1>5, <1>9 DEF n
    <2> QED
      BY <1>1, <2>1, <2>2, <2>3 DEF RangeInv, NumberRange
  <1>13. ReadRange'
    <2>1. 0 \in 0..MaxSettings
      BY SpaceBounds
    <2> QED
      BY <1>2, <1>7, <2>1 DEF RangeInv, ReadRange
  <1> QED
    BY <1>10, <1>11, <1>12, <1>13 DEF RangeInv

LEMMA RangeAttached ==
  ASSUME SpaceInv, RangeInv, NEW t \in Turns, Attached(t)
  PROVE  RangeInv'
  <1> DEFINE new == [guests[t] EXCEPT !.at = "running", !.read = 0]
             z == guests[t].space
  <1>1. /\ guests[t] \in Guests /\ guests[t].at = "attaching"
        /\ spaceAgent' = [spaceAgent EXCEPT ![z] = guests[t].read]
        /\ TurnGoes(t, new)
        /\ UNCHANGED <<settings, sandboxes, admins, registered, loading, spaceUser,
                       spacePool, dropped>>
    BY DEF Attached, World, SpaceInv, CacheType
  <1>2. new.space = z /\ new.read = 0 /\ new.at = "running"
    BY <1>1 DEF Guests
  <1> HIDE DEF new
  <1>3. guests[t].read \in 1..MaxSettings /\ 0 \in 0..MaxSettings
    BY <1>1, SpaceBounds DEF RangeInv, ReadRange
  <1>4. \A v \in Turns : guests'[v] = IF v = t THEN new ELSE guests[v]
    BY <1>1 DEF TurnGoes, SpaceInv, CacheType
  <1>5. \A s \in 1..Len(spaceUser) : spaceAgent'[s] \in {spaceAgent[s], guests[t].read}
    <2>1. DOMAIN spaceAgent = 1..Len(spaceUser)
      BY LenProperties DEF SpaceInv, ShelfType
    <2> QED
      BY <1>1, <2>1
  <1>6. WorldRange' /\ ShelfRange'
    BY <1>1, <1>3, <1>5 DEF RangeInv, WorldRange, ShelfRange
  <1>7. NumberRange' /\ ReadRange'
    BY <1>1, <1>2, <1>3, <1>4 DEF RangeInv, NumberRange, ReadRange
  <1> QED
    BY <1>6, <1>7 DEF RangeInv

\* Spaces are listed and dropped.
LEMMA RangeOthers ==
  ASSUME SpaceInv, RangeInv, SpacesSame, UNCHANGED <<loading, guests>>,
         settings' \in 1..MaxSettings, sandboxes' \in 1..MaxPools,
         \A u \in Users : registered'[u] \in {0, registered[u]},
         \A s \in dropped' : s \in dropped \/ \E u \in Users : s = registered[u] /\ s # 0,
         \A a \in Admins : \A s \in admins'[a].todo :
            s \in admins[a].todo \/ \E u \in Users : s = registered[u] /\ s # 0
  PROVE  RangeInv'
  <1>1. WorldRange' /\ ShelfRange' /\ ReadRange'
    BY DEF SpacesSame, RangeInv, WorldRange, ShelfRange, ReadRange
  <1>2. \A u \in Users : registered[u] # 0 => registered[u] \in 1..Len(spaceUser)
    BY SpaceBounds DEF RangeInv, NumberRange
  <1>3. 0 \in 0..Len(spaceUser)
    BY SpaceBounds
  <1>4. spaceUser' = spaceUser /\ guests' = guests
    BY DEF SpacesSame
  <1>5. /\ \A u \in Users : registered'[u] \in 0..Len(spaceUser)
        /\ \A t \in Turns : guests[t].space \in 0..Len(spaceUser)
    BY <1>3 DEF RangeInv, NumberRange
  <1>6. dropped' \subseteq 1..Len(spaceUser)
    BY <1>2 DEF RangeInv, NumberRange
  <1>7. \A a \in Admins : admins'[a].todo \subseteq 1..Len(spaceUser)
    BY <1>2 DEF RangeInv, NumberRange
  <1>8. NumberRange'
    BY <1>4, <1>5, <1>6, <1>7 DEF NumberRange
  <1> QED
    BY <1>1, <1>8 DEF RangeInv

LEMMA RangeAdmin ==
  ASSUME SpaceInv, RangeInv, NEW a \in Admins,
         \/ WriteSettings(a) \/ ListSpaces(a) \/ AdminDone(a)
         \/ \E s \in Spaces : Invalidate(a, s)
  PROVE  RangeInv'
  <1>0. /\ settings \in 1..MaxSettings /\ sandboxes \in 1..MaxPools
        /\ admins \in [Admins -> [at : {"idle", "wrote", "walking"}, todo : SUBSET Nat]]
        /\ registered \in [Users -> Nat]
    BY DEF RangeInv, WorldRange, SpaceInv, CacheType
  <1>1. CASE WriteSettings(a)
    <2>1. /\ settings' \in 1..MaxSettings
          /\ UNCHANGED <<sandboxes, registered, loading, dropped, guests>> /\ SpacesSame
      BY <1>0, <1>1, SpaceBounds DEF WriteSettings
    <2>2. \A b \in Admins : admins'[b].todo = admins[b].todo
      BY <1>0, <1>1 DEF WriteSettings
    <2> QED
      BY <1>0, <2>1, <2>2, RangeOthers
  <1>2. CASE ListSpaces(a)
    <2>1. UNCHANGED <<settings, sandboxes, registered, loading, dropped, guests>> /\ SpacesSame
      BY <1>2 DEF ListSpaces
    <2>2. \A b \in Admins : admins'[b].todo \in
             {admins[b].todo, {registered[u] : u \in Users} \ {0}}
      BY <1>0, <1>2 DEF ListSpaces
    <2>3. \A b \in Admins : \A s \in admins'[b].todo :
             s \in admins[b].todo \/ \E u \in Users : s = registered[u] /\ s # 0
      BY <2>2
    <2> QED
      BY <1>0, <2>1, <2>3, RangeOthers
  <1>3. CASE AdminDone(a)
    <2>1. UNCHANGED <<settings, sandboxes, registered, loading, dropped, guests>> /\ SpacesSame
      BY <1>3 DEF AdminDone
    <2>2. \A b \in Admins : admins'[b].todo = admins[b].todo
      BY <1>0, <1>3 DEF AdminDone
    <2> QED
      BY <1>0, <2>1, <2>2, RangeOthers
  <1>4. ASSUME NEW s \in Spaces, Invalidate(a, s) PROVE RangeInv'
    <2>1. UNCHANGED <<settings, sandboxes, loading, guests>> /\ SpacesSame
      BY <1>4 DEF Invalidate
    <2>2. \A b \in Admins : admins'[b].todo \subseteq admins[b].todo
      BY <1>0, <1>4 DEF Invalidate
    <2>3. spaceUser[s] \in Users
      <3>1. s \in 1..Len(spaceUser) /\ spaceUser \in Seq(Users)
        BY <1>4 DEF Invalidate, RangeInv, NumberRange, SpaceInv, ShelfType
      <3> QED
        BY <3>1, ElementOfSeq
    <2>4. UNCHANGED <<registered, dropped>> \/ Drop(spaceUser[s])
      BY <1>4 DEF Invalidate
    <2>5. /\ \A u \in Users : registered'[u] \in {0, registered[u]}
          /\ \A z \in dropped' : z \in dropped \/ \E u \in Users : z = registered[u] /\ z # 0
      BY <1>0, <2>3, <2>4 DEF Drop
    <2> QED
      BY <1>0, <2>1, <2>2, <2>5, RangeOthers
  <1> QED
    BY <1>1, <1>2, <1>3, <1>4

LEMMA RangeEvicts ==
  ASSUME SpaceInv, RangeInv, ReloadSandbox \/ \E u \in Users : EvictSpace(u)
  PROVE  RangeInv'
  <1>0. /\ settings \in 1..MaxSettings /\ sandboxes \in 1..MaxPools
        /\ registered \in [Users -> Nat]
    BY DEF RangeInv, WorldRange, SpaceInv, CacheType
  <1>1. ASSUME NEW u \in Users, EvictSpace(u) PROVE RangeInv'
    <2>1. /\ UNCHANGED <<settings, sandboxes, admins, loading, guests>> /\ SpacesSame
          /\ registered' = [registered EXCEPT ![u] = 0]
          /\ dropped' = dropped \cup ({registered[u]} \ {0})
      BY <1>1 DEF EvictSpace, World, Drop
    <2>2. /\ \A v \in Users : registered'[v] \in {0, registered[v]}
          /\ \A z \in dropped' : z \in dropped \/ \E v \in Users : z = registered[v] /\ z # 0
      BY <1>0, <2>1
    <2> QED
      BY <1>0, <2>1, <2>2, RangeOthers
  <1>2. CASE ReloadSandbox
    <2>1. /\ UNCHANGED <<settings, admins, loading, guests>> /\ SpacesSame
          /\ sandboxes' \in 1..MaxPools
          /\ registered' = [u \in Users |-> 0]
          /\ dropped' = dropped \cup ({registered[u] : u \in Users} \ {0})
      BY <1>0, <1>2, SpaceBounds DEF ReloadSandbox
    <2>2. /\ \A v \in Users : registered'[v] \in {0, registered[v]}
          /\ \A z \in dropped' : z \in dropped \/ \E v \in Users : z = registered[v] /\ z # 0
      BY <2>1
    <2> QED
      BY <1>0, <2>1, <2>2, RangeOthers
  <1> QED
    BY <1>1, <1>2

LEMMA RangeStep ==
  ASSUME SpaceInv, RangeInv, [SpacesNext]_spaceVars
  PROVE  RangeInv'
  <1>1. CASE UNCHANGED spaceVars
    BY <1>1 DEF spaceVars, RangeInv, WorldRange, ShelfRange, NumberRange, ReadRange
  <1>2. ASSUME NEW t \in Turns,
               \/ \E u \in Users : Lookup(t, u)
               \/ Stamp(t) \/ LookAgain(t) \/ StartLoad(t) \/ Loaded(t) \/ LoadFails(t)
               \/ Attach(t) \/ Attached(t) \/ TurnRuns(t) \/ TurnEnds(t)
        PROVE  RangeInv'
    BY <1>2, RangeTurn, RangeLoaded, RangeAttached
  <1> QED
    BY <1>1, <1>2, RangeAdmin, RangeEvicts DEF SpacesNext

\* The variables of the user spaces keep their types: what the registry, a turn
\* or an announcement holds is a space that was made, and a turn attaches an
\* agent only from settings it has read (userspace.go).
THEOREM SpacesTypeTheorem == SpacesSpec => []SpacesType
  <1>1. SpacesInit => SpaceInv /\ RangeInv /\ PoolAsked
    <2> SUFFICES ASSUME SpacesInit PROVE RangeInv
      BY SpaceInitial, AskedInitial
    <2>1. {MaxSpaces, MaxSettings, MaxPools} \subseteq Nat \ {0} /\ Len(<<>>) = 0
      BY SpaceAssumption DEF SpaceAssumption
    <2>2. WorldRange /\ ShelfRange
      BY <2>1 DEF SpacesInit, WorldRange, ShelfRange
    <2>3. NumberRange /\ ReadRange
      BY <2>1 DEF SpacesInit, Visit, NumberRange, ReadRange
    <2> QED
      BY <2>2, <2>3 DEF RangeInv
  <1>2. SpaceInv /\ RangeInv /\ PoolAsked /\ [SpacesNext]_spaceVars
           => SpaceInv' /\ RangeInv' /\ PoolAsked'
    BY SpaceStep, RangeStep, AskedStep
  <1>3. SpaceInv /\ RangeInv /\ PoolAsked => SpacesType
    <2> SUFFICES ASSUME SpaceInv, RangeInv, PoolAsked PROVE SpacesType
      OBVIOUS
    <2>1. Made = 1..Cardinality(Made) /\ Cardinality(Made) = Len(spaceUser)
          /\ Len(spaceUser) \in Nat /\ MaxSpaces \in Nat
      BY SpaceBounds
    <2>2. registered \in [Users -> 0..Cardinality(Made)] /\ dropped \subseteq Made
      BY <2>1 DEF SpaceInv, CacheType, RangeInv, NumberRange
    <2>3. \A s \in Made : /\ spaceUser[s] \in Users /\ spacePool[s] \in 1..MaxPools
                          /\ spaceAgent[s] \in 1..MaxSettings \cup {Unattached}
      BY <2>1, ElementOfSeq DEF SpaceInv, ShelfType, RangeInv, ShelfRange
    <2>4. 1..Len(spaceUser) \subseteq Spaces /\ 0..Len(spaceUser) \subseteq Spaces \cup {0}
      BY <2>1 DEF RangeInv, ShelfRange, Spaces
    <2>5. guests \in [Turns -> [at : {"idle", "found", "missed", "loading", "has",
                                      "attaching", "running"},
                                user : Users \cup {NoUser}, space : Spaces \cup {0},
                                read : 0..MaxSettings, pool : 0..MaxPools]]
      <3>1. \A t \in Turns : guests[t].space \in Spaces \cup {0}
        BY <2>4 DEF RangeInv, NumberRange
      <3>2. \A t \in Turns : guests[t].read \in 0..MaxSettings
        BY DEF RangeInv, ReadRange
      <3>3. ASSUME NEW t \in Turns PROVE guests[t].pool \in 0..MaxPools
        <4>1. guests[t].pool \in Nat /\ guests[t].pool <= sandboxes
          BY DEF SpaceInv, CacheType, Guests, PoolAsked, PoolFits
        <4> QED
          BY <4>1, SpaceBounds DEF RangeInv, WorldRange
      <3> QED
        BY <3>1, <3>2, <3>3 DEF SpaceInv, CacheType, Guests
    <2>6. admins \in [Admins -> [at : {"idle", "wrote", "walking"}, todo : SUBSET Spaces]]
      <3>1. \A a \in Admins : admins[a].todo \subseteq Spaces
        BY <2>4 DEF RangeInv, NumberRange
      <3> QED
        BY <3>1 DEF SpaceInv, CacheType
    <2>7. laggard \in BOOLEAN
      BY DEF SpaceInv, CacheType
    <2> QED
      BY <2>1, <2>2, <2>3, <2>5, <2>6, <2>7 DEF RangeInv, WorldRange, SpacesType
  <1> QED
    BY <1>1, <1>2, <1>3, PTL DEF SpacesSpec
-----------------------------------------------------------------------------
(***************************************************************************)
(* Sandboxes.                                                              *)
(***************************************************************************)
(* The sandbox of a chat: types.                                           *)

CallPlaces == {"idle", "entering", "hydrating", "copying", "ready",
               "gone", "retried", "snapping", "syncing", "mirroring"}
CallRecords(n) == [at : CallPlaces, box : 0..n, fresh : BOOLEAN, file : Contents]
Sweeps == [at : {"idle", "flushing", "putting", "releasing"}, file : Contents]

CopyType  == backing \in Backings /\ {stored, onHost, newest} \subseteq Contents
             /\ inBox \in [Boxes -> Contents]
PoolType  == boxes \in 0..MaxBoxes /\ live \subseteq 1..boxes /\ pooled \in 0..boxes
CallsType == calls \in [Callers -> CallRecords(boxes)]
RestType  == /\ tracked \in BOOLEAN /\ hydrated \in BOOLEAN
             /\ evictor \in Sweeps
             /\ setbacks \in 0..MaxMishaps
             /\ harm \subseteq Harms

\* A call past getInner has an executor.
Placed(c) == calls[c].at \notin {"idle", "entering"}
CallBoxes == \A c \in Callers : Placed(c) => calls[c].box # 0

PoolInv == CopyType /\ PoolType /\ CallsType /\ RestType /\ CallBoxes

LEMMA PoolInvType ==
  ASSUME PoolInv
  PROVE  SandboxType
  BY DEF PoolInv, CopyType, PoolType, CallsType, RestType, SandboxType, CallRecords,
         CallPlaces, Sweeps

LEMMA AbsentContent == Absent \in Contents
  BY DEF Contents

\* A call at rest, and one that enters.
LEMMA RestingTyped ==
  ASSUME NEW n \in Nat
  PROVE  Resting \in CallRecords(n) /\ Resting.at = "idle"
  <1>1. 0 \in 0..n /\ "idle" \in CallPlaces /\ FALSE \in BOOLEAN
    BY DEF CallPlaces
  <1> QED
    BY <1>1, AbsentContent DEF Resting, CallRecords

Entering(b) == [Resting EXCEPT !.at = "entering", !.fresh = b]

LEMMA EnteringTyped ==
  ASSUME NEW n \in Nat, NEW b, b \in {TRUE, FALSE}
  PROVE  Entering(b) \in CallRecords(n) /\ Entering(b).at = "entering"
  <1>1. ASSUME NEW A, NEW B, NEW F, NEW C, NEW p \in A, b \in F,
               NEW r \in [at : A, box : B, fresh : F, file : C]
        PROVE  /\ [r EXCEPT !.at = p, !.fresh = b] \in [at : A, box : B, fresh : F, file : C]
               /\ [r EXCEPT !.at = p, !.fresh = b].at = p
    BY <1>1
  <1>2. Resting \in CallRecords(n) /\ "entering" \in CallPlaces /\ b \in BOOLEAN
    BY RestingTyped DEF CallPlaces
  <1> QED
    BY <1>1, <1>2 DEF Entering, CallRecords

LEMMA NewContent ==
  ASSUME NEW c \in Contents, NEW size \in Sizes, c.write < MaxWrites
  PROVE  [write |-> c.write + 1, size |-> size] \in Contents
  BY SandboxAssumption DEF Contents, Absent

\* The records a call moves to: another place, and file or executor.
At(r, p)       == [r EXCEPT !.at = p]
AtWith(r, p, f) == [r EXCEPT !.at = p, !.file = f]
AtIn(r, p, b)  == [r EXCEPT !.box = b, !.at = p]

LEMMA RecordMoves ==
  ASSUME NEW n, NEW r \in CallRecords(n), NEW p \in CallPlaces, NEW f \in Contents
  PROVE  /\ At(r, p) \in CallRecords(n) /\ At(r, p).box = r.box
         /\ AtWith(r, p, f) \in CallRecords(n) /\ AtWith(r, p, f).box = r.box
  <1>1. ASSUME NEW B
        PROVE  LET R == [at : CallPlaces, box : B, fresh : BOOLEAN, file : Contents]
               IN r \in R => /\ At(r, p) \in R /\ At(r, p).box = r.box
                             /\ AtWith(r, p, f) \in R /\ AtWith(r, p, f).box = r.box
    BY DEF At, AtWith
  <1> QED
    BY <1>1 DEF CallRecords

LEMMA RecordBoxed ==
  ASSUME NEW n, NEW r \in CallRecords(n), NEW p \in CallPlaces, NEW b \in 0..n
  PROVE  AtIn(r, p, b) \in CallRecords(n) /\ AtIn(r, p, b).box = b
  <1>1. ASSUME NEW B, b \in B
        PROVE  LET R == [at : CallPlaces, box : B, fresh : BOOLEAN, file : Contents]
               IN r \in R => AtIn(r, p, b) \in R /\ AtIn(r, p, b).box = b
    BY <1>1 DEF AtIn
  <1> QED
    BY <1>1 DEF CallRecords

\* A call that moves to a record of the pool as it is then.
LEMMA CallTyped ==
  ASSUME PoolInv, NEW c \in Callers, NEW new, CallGoes(c, new), boxes' \in Nat,
         boxes <= boxes', new \in CallRecords(boxes'),
         new.at \notin {"idle", "entering"} => new.box # 0
  PROVE  CallsType' /\ CallBoxes'
  <1>1. ASSUME NEW r \in CallRecords(boxes)
        PROVE  r \in CallRecords(boxes')
    BY <1>1 DEF CallRecords, PoolInv, PoolType
  <1>2. calls' = [calls EXCEPT ![c] = new]
    BY DEF CallGoes
  <1>3. calls \in [Callers -> CallRecords(boxes)]
    BY DEF PoolInv, CallsType
  <1>4. ASSUME NEW d \in Callers
        PROVE  calls'[d] \in CallRecords(boxes')
    BY <1>1, <1>2, <1>3
  <1>5. CallsType'
    BY <1>2, <1>3, <1>4 DEF CallsType
  <1>6. CallBoxes'
    BY <1>2, <1>3 DEF PoolInv, CallBoxes, Placed
  <1> QED
    BY <1>5, <1>6

\* Calls that stay, in a pool that does not shrink.
LEMMA CallsStay ==
  ASSUME PoolInv, calls' = calls, boxes' \in Nat, boxes <= boxes'
  PROVE  CallsType' /\ CallBoxes'
  <1>1. ASSUME NEW r \in CallRecords(boxes)
        PROVE  r \in CallRecords(boxes')
    BY <1>1 DEF CallRecords, PoolInv, PoolType
  <1>2. CallsType'
    BY <1>1 DEF PoolInv, CallsType
  <1>3. CallBoxes'
    BY DEF PoolInv, CallBoxes, Placed
  <1> QED
    BY <1>2, <1>3

LEMMA CallOfType ==
  ASSUME PoolInv, NEW c \in Callers
  PROVE  /\ calls[c] \in CallRecords(boxes)
         /\ calls[c].at \in CallPlaces /\ calls[c].box \in 0..boxes
         /\ calls[c].fresh \in BOOLEAN /\ calls[c].file \in Contents
         /\ Placed(c) => calls[c].box \in 1..boxes /\ calls[c].box \in Boxes
  <1>1. calls[c] \in CallRecords(boxes)
    BY DEF PoolInv, CallsType
  <1>2. boxes \in 0..MaxBoxes /\ MaxBoxes \in Nat
    BY SandboxAssumption DEF PoolInv, PoolType
  <1>3. calls[c].box \in 0..boxes
    BY <1>1 DEF CallRecords
  <1>4. Placed(c) => calls[c].box \in 1..boxes /\ calls[c].box \in Boxes
    BY <1>2, <1>3 DEF PoolInv, CallBoxes, Boxes
  <1> QED
    BY <1>1, <1>3, <1>4 DEF CallRecords

\* The pool's Get.
LEMMA PoolGets ==
  ASSUME PoolInv, NEW b \in Boxes, PoolGet(b)
  PROVE  /\ PoolType' /\ boxes' \in Nat /\ boxes <= boxes'
         /\ inBox' \in [Boxes -> Contents]
         /\ b = pooled' /\ b \in 1..boxes'
  <1>1. MaxBoxes \in Nat
    BY SandboxAssumption
  <1>a. boxes \in 0..MaxBoxes /\ live \subseteq 1..boxes /\ pooled \in 0..boxes
    BY DEF PoolInv, PoolType
  <1>2. PoolType' /\ boxes' \in Nat /\ boxes <= boxes' /\ b = pooled' /\ b \in 1..boxes'
    <2>1. CASE b = pooled /\ pooled # 0 /\ PoolSame
      BY <1>1, <1>a, <2>1 DEF PoolType, PoolSame
    <2>2. CASE /\ b = boxes + 1 /\ b \in Boxes
               /\ boxes' = b /\ pooled' = b /\ live' = live \cup {b}
      <3>1. boxes' \in 0..MaxBoxes /\ pooled' \in 0..boxes' /\ boxes <= boxes'
        BY <1>1, <1>a, <2>2 DEF Boxes
      <3>2. live' \subseteq 1..boxes'
        BY <1>1, <1>a, <2>2
      <3> QED
        BY <1>1, <1>a, <2>2, <3>1, <3>2 DEF PoolType
    <2> QED
      BY <2>1, <2>2 DEF PoolGet
  <1>3. inBox' \in [Boxes -> Contents]
    BY DEF PoolGet, PoolInv, CopyType
  <1> QED
    BY <1>2, <1>3

\* A write through an executor.
LEMMA WriteTyped ==
  ASSUME PoolInv, NEW b \in Boxes, NEW new \in Contents, WriteInto(b, new)
  PROVE  {stored', onHost'} \subseteq Contents /\ inBox' \in [Boxes -> Contents]
  BY DEF PoolInv, CopyType, WriteInto

LEMMA SetbackTyped ==
  ASSUME PoolInv, Setback
  PROVE  setbacks' \in 0..MaxMishaps
  <1>1. MaxMishaps \in Nat /\ setbacks \in 0..MaxMishaps
    BY SandboxAssumption DEF PoolInv, RestType
  <1> QED
    BY <1>1 DEF Setback

LEMMA CopyTyped ==
  ASSUME PoolInv, NEW file \in Contents, CopyBack(file) \/ CopyFails
  PROVE  stored' \in Contents /\ setbacks' \in 0..MaxMishaps /\ harm' \subseteq Harms
  <1>1. CASE CopyBack(file)
    BY <1>1 DEF PoolInv, CopyType, RestType, CopyBack, Harms
  <1>2. CASE CopyFails
    BY <1>2, SetbackTyped DEF PoolInv, CopyType, RestType, CopyFails, Harms
  <1> QED
    BY <1>1, <1>2

\* The steps of a call.
LEMMA CallTypes ==
  ASSUME PoolInv, NEW c \in Callers,
         \/ CallEnters(c) \/ CallGetsNone(c) \/ HydrateReads(c) \/ CallReads(c)
         \/ CallMisses(c) \/ CallSnaps(c)
  PROVE  PoolInv'
  <1>0. MaxBoxes \in Nat /\ boxes \in 0..MaxBoxes /\ boxes' = boxes
    BY SandboxAssumption
       DEF PoolInv, PoolType, PoolSame, CallEnters, CallGetsNone, HydrateReads, CallReads,
           CallMisses, CallSnaps
  <1>1. CopyType' /\ PoolType'
    BY DEF PoolInv, CopyType, PoolType, Copies, PoolSame, CallEnters, CallGetsNone,
           HydrateReads, CallReads, CallMisses, CallSnaps
  <1>2. RestType'
    <2>1. CASE CallGetsNone(c)
      BY <2>1, SetbackTyped DEF CallGetsNone, PoolInv, RestType, Harms
    <2>2. CASE ~CallGetsNone(c)
      BY <2>2 DEF PoolInv, RestType, Harms, MapsSame, CallEnters, HydrateReads, CallReads,
                  CallMisses, CallSnaps
    <2> QED
      BY <2>1, <2>2
  <1>3. \E new \in CallRecords(boxes) :
          /\ CallGoes(c, new)
          /\ new.at \notin {"idle", "entering"} => new.box # 0
    <2>0. boxes \in Nat
      BY <1>0
    <2>1. Resting \in CallRecords(boxes)
      BY <2>0, RestingTyped
    <2>2. /\ calls[c] \in CallRecords(boxes)
          /\ calls[c].at \in CallPlaces /\ calls[c].box \in 0..boxes
          /\ calls[c].fresh \in BOOLEAN /\ calls[c].file \in Contents
          /\ Placed(c) => calls[c].box \in 1..boxes /\ calls[c].box \in Boxes
      BY CallOfType
    <2>3. CASE CallEnters(c)
      <3>1. (~hydrated) \in {TRUE, FALSE}
        OBVIOUS
      <3>2. /\ Entering(~hydrated) \in CallRecords(boxes)
            /\ Entering(~hydrated).at = "entering"
        BY <2>0, <3>1, EnteringTyped
      <3>3. CallGoes(c, Entering(~hydrated))
        BY <2>3 DEF CallEnters, Entering
      <3> QED
        BY <3>2, <3>3
    <2>4. CASE CallGetsNone(c)
      BY <2>1, <2>4 DEF CallGetsNone, Resting
    <2>5. ASSUME NEW p \in CallPlaces, NEW f \in Contents, Placed(c)
          PROVE  /\ AtWith(calls[c], p, f) \in CallRecords(boxes)
                 /\ At(calls[c], p) \in CallRecords(boxes)
                 /\ AtWith(calls[c], p, f).box # 0
                 /\ At(calls[c], p).box # 0
      <3>1. calls[c].box # 0
        BY <2>0, <2>2, <2>5
      <3> QED
        BY <2>2, <3>1, RecordMoves
    <2>6. CASE HydrateReads(c)
      <3>1. Placed(c) /\ "copying" \in CallPlaces /\ stored \in Contents
        BY <2>6 DEF HydrateReads, Placed, CallPlaces, PoolInv, CopyType
      <3>2. CallGoes(c, AtWith(calls[c], "copying", stored))
        BY <2>6 DEF HydrateReads, AtWith
      <3> QED
        BY <2>5, <3>1, <3>2
    <2>a. Resting.at = "idle" /\ Absent \in Contents
      BY AbsentContent DEF Resting
    <2>7. CASE CallReads(c)
      <3>1. Placed(c)
        BY <2>7 DEF CallReads, Placed
      <3>2. At(calls[c], "snapping") \in CallRecords(boxes)
            /\ At(calls[c], "snapping").box # 0
        BY <2>5, <2>a, <3>1 DEF CallPlaces
      <3> QED
        BY <2>1, <2>7, <2>a, <3>2 DEF CallReads, At
    <2>8. CASE CallMisses(c)
      <3>1. Placed(c)
        BY <2>8 DEF CallMisses, Placed
      <3>2. At(calls[c], "gone") \in CallRecords(boxes)
            /\ At(calls[c], "gone").box # 0
        BY <2>5, <2>a, <3>1 DEF CallPlaces
      <3> QED
        BY <2>1, <2>8, <2>a, <3>2 DEF CallMisses, At
    <2>9. CASE CallSnaps(c)
      <3>1. Placed(c) /\ calls[c].box \in Boxes
        BY <2>2, <2>9 DEF CallSnaps, Placed
      <3>2. Sees(calls[c].box) \in Contents
        BY <3>1, SandboxAssumption DEF Sees, PoolInv, CopyType
      <3> QED
        BY <2>1, <2>5, <2>9, <3>1, <3>2 DEF CallSnaps, CallPlaces, Resting, AtWith
    <2> QED
      BY <2>3, <2>4, <2>6, <2>7, <2>8, <2>9
  <1>4. CallsType' /\ CallBoxes'
    BY <1>0, <1>3, CallTyped
  <1> QED
    BY <1>1, <1>2, <1>4 DEF PoolInv

LEMMA CallChanges ==
  ASSUME PoolInv, NEW c \in Callers,
         \/ CallGetsBox(c) \/ HydrateWrites(c) \/ CallWrites(c) \/ CallRecreates(c)
         \/ CallPuts(c)
  PROVE  PoolInv'
  <1>0. /\ MaxBoxes \in Nat /\ boxes \in 0..MaxBoxes /\ live \subseteq 1..boxes
        /\ pooled \in 0..boxes
    BY SandboxAssumption DEF PoolInv, PoolType
  <1>1. /\ calls[c] \in CallRecords(boxes)
        /\ calls[c].at \in CallPlaces /\ calls[c].box \in 0..boxes
        /\ calls[c].fresh \in BOOLEAN /\ calls[c].file \in Contents
        /\ Placed(c) => calls[c].box \in 1..boxes /\ calls[c].box \in Boxes
    BY CallOfType
  <1>a. boxes \in Nat
    BY <1>0
  <1>2. Resting \in CallRecords(boxes) /\ Resting.at = "idle"
    BY <1>a, RestingTyped
  <1>3. ASSUME NEW p \in CallPlaces, NEW f \in Contents, Placed(c)
        PROVE  /\ AtWith(calls[c], p, f) \in CallRecords(boxes)
               /\ At(calls[c], p) \in CallRecords(boxes)
               /\ AtWith(calls[c], p, f).box # 0
               /\ At(calls[c], p).box # 0
    <2>1. calls[c].box # 0
      BY <1>a, <1>1, <1>3
    <2> QED
      BY <1>1, <2>1, RecordMoves
  <1>4. Absent \in Contents
    BY AbsentContent
  <1>5. CASE CallGetsBox(c)
    <2>1. PICK b \in Boxes :
            /\ PoolGet(b)
            /\ CallGoes(c, [calls[c] EXCEPT !.box = b,
                   !.at = IF calls[c].fresh /\ backing # "remote" /\ stored # Absent
                          THEN "hydrating" ELSE "ready"])
      BY <1>5 DEF CallGetsBox
    <2>2. /\ PoolType' /\ boxes' \in Nat /\ boxes <= boxes'
          /\ inBox' \in [Boxes -> Contents] /\ b \in 1..boxes'
      BY <2>1, PoolGets
    <2>3. ASSUME NEW p \in CallPlaces
          PROVE  /\ AtIn(calls[c], p, b) \in CallRecords(boxes')
                 /\ AtIn(calls[c], p, b).box # 0
      <3>1. calls[c] \in CallRecords(boxes')
        BY <1>0, <1>1, <2>2 DEF CallRecords
      <3>2. b \in 0..boxes' /\ b # 0
        BY <2>2
      <3> QED
        BY <2>3, <3>1, <3>2, RecordBoxed
    <2>4. CallsType' /\ CallBoxes'
      BY <2>1, <2>2, <2>3, CallTyped DEF CallPlaces, AtIn
    <2>5. CopyType' /\ RestType'
      BY <1>5, <2>2 DEF CallGetsBox, PoolInv, CopyType, RestType, MapsSame
    <2> QED
      BY <2>2, <2>4, <2>5 DEF PoolInv
  <1>6. CASE HydrateWrites(c)
    <2>1. Placed(c)
      BY <1>6 DEF HydrateWrites, Placed
    <2>2. \E new \in CallRecords(boxes) : CallGoes(c, new) /\ new.box # 0
      <3>1. "ready" \in CallPlaces
        BY DEF CallPlaces
      <3> QED
        BY <1>3, <1>4, <1>6, <2>1, <3>1 DEF HydrateWrites, AtWith
    <2>3. CallsType' /\ CallBoxes'
      BY <1>0, <1>6, <2>2, CallTyped DEF HydrateWrites, PoolSame
    <2>4. {stored', onHost'} \subseteq Contents /\ inBox' \in [Boxes -> Contents]
      <3>1. CASE WriteInto(calls[c].box, calls[c].file)
        BY <1>1, <2>1, <3>1, WriteTyped
      <3>2. CASE UNCHANGED Copies
        BY <3>2 DEF Copies, PoolInv, CopyType
      <3> QED
        BY <1>6, <3>1, <3>2 DEF HydrateWrites
    <2>5. CopyType' /\ PoolType' /\ RestType'
      BY <1>6, <2>4 DEF HydrateWrites, PoolInv, CopyType, PoolType, RestType, PoolSame,
                        MapsSame
    <2> QED
      BY <2>3, <2>5 DEF PoolInv
  <1>7. CASE CallWrites(c)
    <2>1. Placed(c) /\ PoolSame /\ MapsSame
      BY <1>7 DEF CallWrites, Placed
    <2>2. PICK size \in Sizes, then \in {"snapping", "mirroring"} :
            /\ WriteInto(calls[c].box, [write |-> newest.write + 1, size |-> size])
            /\ newest' = [write |-> newest.write + 1, size |-> size]
            /\ CallGoes(c, IF backing # "remote" THEN Resting
                           ELSE [calls[c] EXCEPT !.at = then,
                                    !.file = IF then = "mirroring" THEN newest' ELSE Absent])
      BY <1>7 DEF CallWrites
    <2>3. newest \in Contents /\ newest.write < MaxWrites
      BY <1>7 DEF CallWrites, PoolInv, CopyType
    <2>4. newest' \in Contents
      BY <2>2, <2>3, NewContent
    <2>5. {stored', onHost'} \subseteq Contents /\ inBox' \in [Boxes -> Contents]
      BY <1>1, <2>1, <2>2, <2>4, WriteTyped
    <2>6. \E new \in CallRecords(boxes) :
            CallGoes(c, new) /\ (new.at = "idle" \/ new.box # 0)
      <3>1. /\ then \in CallPlaces
            /\ (IF then = "mirroring" THEN newest' ELSE Absent) \in Contents
        BY <1>4, <2>4 DEF CallPlaces
      <3> QED
        BY <1>2, <1>3, <2>1, <2>2, <3>1 DEF AtWith
    <2>7. CallsType' /\ CallBoxes'
      BY <1>0, <2>1, <2>6, CallTyped DEF PoolSame
    <2>8. CopyType' /\ PoolType' /\ RestType'
      BY <1>7, <2>1, <2>4, <2>5
         DEF CallWrites, PoolInv, CopyType, PoolType, RestType, PoolSame, MapsSame, Raced, Harms
    <2> QED
      BY <2>7, <2>8 DEF PoolInv
  <1>8. CASE CallRecreates(c)
    <2>1. Placed(c) /\ MapsSame
      BY <1>8 DEF CallRecreates, Placed
    <2>2. \E new \in CallRecords(boxes) : CallGoes(c, new) /\ new.box # 0
      <3>1. "retried" \in CallPlaces
        BY DEF CallPlaces
      <3> QED
        BY <1>3, <1>4, <1>8, <2>1, <3>1 DEF CallRecreates, At
    <2>3. CallsType' /\ CallBoxes'
      BY <1>0, <1>8, <2>2, CallTyped DEF CallRecreates
    <2>4. CopyType' /\ PoolType' /\ RestType'
      BY <1>1, <1>8, <2>1
         DEF CallRecreates, PoolInv, CopyType, PoolType, RestType, MapsSame, Harms
    <2> QED
      BY <2>3, <2>4 DEF PoolInv
  <1>9. CASE CallPuts(c)
    <2>1. stored' \in Contents /\ setbacks' \in 0..MaxMishaps /\ harm' \subseteq Harms
      <3>1. CASE CopyBack(calls[c].file) \/ CopyFails
        BY <1>1, <3>1, CopyTyped
      <3>2. CASE stored' = calls[c].file /\ UNCHANGED <<setbacks, harm>>
        BY <1>1, <3>2 DEF PoolInv, RestType
      <3> QED
        BY <1>9, <3>1, <3>2 DEF CallPuts
    <2>2. CallsType' /\ CallBoxes'
      BY <1>0, <1>2, <1>9, CallTyped DEF CallPuts, PoolSame
    <2>3. CopyType' /\ PoolType' /\ RestType'
      BY <1>9, <2>1 DEF CallPuts, PoolInv, CopyType, PoolType, RestType, PoolSame, MapsSame
    <2> QED
      BY <2>2, <2>3 DEF PoolInv
  <1> QED
    BY <1>5, <1>6, <1>7, <1>8, <1>9

\* The steps of the evictor, of the file tools and of the provider.
LEMMA OtherTypes ==
  ASSUME PoolInv,
         \/ EvictIdle \/ EvictSnaps \/ EvictPuts \/ EvictReleases \/ ReleaseChat
         \/ FileToolPuts \/ \E b \in Boxes : Expires(b)
  PROVE  PoolInv'
  <1>0. /\ MaxBoxes \in Nat /\ boxes \in 0..MaxBoxes /\ live \subseteq 1..boxes
        /\ pooled \in 0..boxes /\ evictor \in Sweeps
    BY SandboxAssumption DEF PoolInv, PoolType, RestType
  <1>1. NoSweep \in Sweeps /\ Absent \in Contents
    BY AbsentContent DEF NoSweep, Sweeps
  <1>2. ASSUME calls' = calls, boxes' = boxes PROVE CallsType' /\ CallBoxes'
    BY <1>0, <1>2, CallsStay
  <1>3. CASE EvictIdle
    <2>1. CopyType' /\ PoolType' /\ RestType'
      BY <1>1, <1>3 DEF EvictIdle, InUse, PoolInv, CopyType, PoolType, RestType, PoolSame,
                        Copies, Sweeps, Harms
    <2> QED
      BY <1>2, <1>3, <2>1 DEF EvictIdle, PoolSame, PoolInv
  <1>4. CASE EvictSnaps
    <2>1. PICK b \in Boxes :
            /\ PoolGet(b)
            /\ evictor' = IF b \in live' \/ backing # "remote"
                          THEN [at |-> "putting",
                                file |-> IF backing = "remote" THEN inBox'[b] ELSE Sees(b)]
                          ELSE [NoSweep EXCEPT !.at = "releasing"]
      BY <1>4 DEF EvictSnaps
    <2>2. /\ PoolType' /\ boxes' \in Nat /\ boxes <= boxes'
          /\ inBox' \in [Boxes -> Contents] /\ b \in 1..boxes'
      BY <2>1, PoolGets
    <2>3. Sees(b) \in Contents /\ inBox'[b] \in Contents
      BY <2>2, SandboxAssumption DEF Sees, PoolInv, CopyType
    <2>4. evictor' \in Sweeps
      BY <1>1, <2>1, <2>3 DEF Sweeps, NoSweep
    <2>5. CallsType' /\ CallBoxes'
      BY <1>4, <2>2, CallsStay DEF EvictSnaps
    <2>6. CopyType' /\ RestType'
      BY <1>4, <2>2, <2>4 DEF EvictSnaps, PoolInv, CopyType, RestType, MapsSame
    <2> QED
      BY <2>2, <2>5, <2>6 DEF PoolInv
  <1>5. CASE EvictPuts
    <2>1. stored' \in Contents /\ setbacks' \in 0..MaxMishaps /\ harm' \subseteq Harms
      <3>1. evictor.file \in Contents
        BY <1>0 DEF Sweeps
      <3> QED
        BY <1>5, <3>1, CopyTyped DEF EvictPuts
    <2>2. CopyType' /\ PoolType' /\ RestType'
      BY <1>1, <1>5, <2>1 DEF EvictPuts, PoolInv, CopyType, PoolType, RestType, PoolSame,
                              MapsSame, Sweeps, NoSweep
    <2> QED
      BY <1>2, <1>5, <2>2 DEF EvictPuts, PoolSame, PoolInv
  <1>6. CASE EvictReleases
    <2>1. PoolType'
      BY <1>0, <1>6 DEF EvictReleases, PoolType
    <2>2. CopyType' /\ RestType'
      BY <1>1, <1>6 DEF EvictReleases, InUse, PoolInv, CopyType, RestType, MapsSame, Copies,
                        Harms
    <2> QED
      BY <1>2, <1>6, <2>1, <2>2 DEF EvictReleases, PoolInv
  <1>7. CASE ReleaseChat
    <2>1. CopyType' /\ PoolType' /\ RestType'
      BY <1>1, <1>7, SetbackTyped
         DEF ReleaseChat, InUse, Unflushed, PoolInv, CopyType, PoolType, RestType, PoolSame,
             Copies, Sweeps, Harms
    <2> QED
      BY <1>2, <1>7, <2>1 DEF ReleaseChat, PoolSame, PoolInv
  <1>8. CASE FileToolPuts
    <2>1. newest' \in Contents /\ stored' = newest'
      BY <1>8, NewContent DEF FileToolPuts, PoolInv, CopyType
    <2>2. CopyType' /\ PoolType'
      BY <1>8, <2>1 DEF FileToolPuts, PoolInv, CopyType, PoolType, PoolSame
    <2>3. RestType'
      BY <1>8, SetbackTyped DEF FileToolPuts, PoolInv, RestType, MapsSame, Harms
    <2> QED
      BY <1>2, <1>8, <2>2, <2>3 DEF FileToolPuts, PoolSame, PoolInv
  <1>9. CASE \E b \in Boxes : Expires(b)
    <2>1. CopyType' /\ PoolType'
      BY <1>0, <1>9 DEF Expires, PoolInv, CopyType, PoolType, Copies
    <2>2. RestType'
      BY <1>9, SetbackTyped DEF Expires, InUse, PoolInv, RestType, MapsSame, Harms
    <2> QED
      BY <1>2, <1>9, <2>1, <2>2 DEF Expires, PoolInv
  <1> QED
    BY <1>3, <1>4, <1>5, <1>6, <1>7, <1>8, <1>9

LEMMA RestartTypes ==
  ASSUME PoolInv, RestartPool
  PROVE  PoolInv'
  <1>0. MaxBoxes \in Nat /\ boxes \in 0..MaxBoxes /\ boxes' = boxes
    BY SandboxAssumption DEF RestartPool, PoolInv, PoolType
  <1>1. Resting \in CallRecords(boxes) /\ NoSweep \in Sweeps
    BY <1>0, AbsentContent DEF Resting, CallRecords, CallPlaces, NoSweep, Sweeps
  <1>2. CopyType' /\ PoolType'
    BY <1>0 DEF RestartPool, PoolInv, CopyType, PoolType, Copies
  <1>3. RestType'
    BY <1>1, SetbackTyped DEF RestartPool, InUse, Unflushed, PoolInv, RestType, Harms
  <1>4. CallsType' /\ CallBoxes'
    BY <1>0, <1>1 DEF RestartPool, CallsType, CallBoxes, Placed, Resting
  <1> QED
    BY <1>2, <1>3, <1>4 DEF PoolInv

LEMMA PoolInitial ==
  ASSUME SandboxInit
  PROVE  PoolInv
  <1>0. {MaxBoxes, MaxMishaps} \subseteq Nat
    BY SandboxAssumption
  <1>1. Resting \in CallRecords(boxes) /\ NoSweep \in Sweeps /\ Absent \in Contents
    BY <1>0, AbsentContent DEF Resting, CallRecords, CallPlaces, NoSweep, Sweeps, SandboxInit
  <1>2. PoolType
    BY <1>0 DEF SandboxInit, PoolType
  <1>5. CopyType
    BY <1>1 DEF SandboxInit, CopyType
  <1>4. RestType
    <2>1. 0 \in 0..MaxMishaps
      BY <1>0
    <2> QED
      BY <1>1, <2>1 DEF SandboxInit, RestType
  <1>3. CallsType /\ CallBoxes
    BY <1>0, <1>1 DEF SandboxInit, CallsType, CallBoxes, Placed, Resting
  <1> QED
    BY <1>2, <1>3, <1>4, <1>5 DEF PoolInv

LEMMA PoolStep ==
  ASSUME PoolInv, [SandboxNext]_sandboxVars
  PROVE  PoolInv'
  <1>1. CASE UNCHANGED sandboxVars
    BY <1>1 DEF sandboxVars, PoolInv, CopyType, PoolType, CallsType, RestType, CallBoxes, Placed
  <1> QED
    BY <1>1, CallTypes, CallChanges, OtherTypes, RestartTypes DEF SandboxNext

\* Every state of the pools, the copies and the calls is of its type; a call
\* past getInner holds an executor that was made, also when its sandbox is gone
\* (recreate, e2b_executor.go and boxlite_executor.go).
THEOREM SandboxTypeTheorem == SandboxSpec => []SandboxType
  <1>1. SandboxInit => PoolInv
    BY PoolInitial
  <1>2. PoolInv /\ [SandboxNext]_sandboxVars => PoolInv'
    BY PoolStep
  <1>3. PoolInv => SandboxType
    BY PoolInvType
  <1> QED
    BY <1>1, <1>2, <1>3, PTL DEF SandboxSpec
-----------------------------------------------------------------------------
(* The work in it.                                                         *)

\* The calls that fill a mounted directory, and those that copy a remote
\* sandbox back.
Filling(c)  == \/ calls[c].at \in {"hydrating", "copying"}
               \/ calls[c].at = "entering" /\ calls[c].fresh
Carrying(c) == calls[c].at \in {"snapping", "syncing", "mirroring"}
BeingFilled == \E c \in Callers : Filling(c)
Backed      == \E c \in Callers : Carrying(c)

\* The store, or the directory while the store has no such file, is up to date.
StoreCurrent == (IF stored = Absent THEN onHost ELSE stored) = newest

\* Without a harm no eviction runs beside a call, and no call outlives its
\* executor.
Undisturbed ==
    /\ evictor.at # "idle" => ~Busy(Callers) /\ ~hydrated
    /\ ~hydrated => ~Busy(Callers)
    /\ \A c \in Callers : Placed(c) => calls[c].box = pooled /\ pooled # 0
    /\ newest = Absent => stored = Absent

Local ==
    backing # "remote" =>
      /\ pooled # 0 => pooled \in live
      /\ \A c \in Callers :
            calls[c].at \in {"idle", "entering", "hydrating", "copying", "ready"}

Mounted ==
    backing = "mounted" =>
      /\ stored = newest
      /\ \A c \in Callers : calls[c].at = "copying" => calls[c].file = stored
      /\ evictor.at = "putting" => evictor.file = stored

\* The directory is empty or up to date; so is the store while the chat is not
\* hydrated, or not yet.
Docker ==
    backing = "docker" =>
      /\ onHost \in {Absent, newest}
      /\ onHost = newest \/ StoreCurrent
      /\ BeingFilled \/ (~hydrated /\ evictor.at \in {"idle", "releasing"}) => StoreCurrent
      /\ hydrated /\ ~BeingFilled => onHost = newest /\ pooled # 0
      /\ \A c \in Callers : calls[c].at \in {"hydrating", "copying"} => stored # Absent
      /\ \A c \in Callers : calls[c].at = "copying" => calls[c].file = stored
      /\ evictor.at = "putting" => evictor.file = onHost

\* The sandbox is up to date; so is the store, unless a call still carries the
\* work there.
Remote ==
    backing = "remote" =>
      /\ pooled \in live => inBox[pooled] = newest
      /\ stored = newest \/ (pooled \in live /\ Backed)
      /\ \A c \in Callers :
            /\ calls[c].at \notin {"hydrating", "copying"}
            /\ Carrying(c) \/ calls[c].at = "retried" => pooled \in live
            /\ calls[c].at \in {"syncing", "mirroring"} => calls[c].file = newest
      /\ evictor.at = "putting" => evictor.file = newest

Sound == Undisturbed /\ Local /\ Mounted /\ Docker /\ Remote
WorkInv == PoolInv /\ (harm = {} => Sound)


\* A call that marks the chat as hydrated finds no other, or leaves it as it is.
LEMMA SoundEnters ==
  ASSUME PoolInv, Sound, NEW c \in Callers, CallEnters(c), harm' = {}
  PROVE  Sound'
  <1>1. /\ calls[c] = Resting /\ evictor.at = "idle"
        /\ tracked' = TRUE /\ hydrated' = TRUE
        /\ UNCHANGED <<boxes, live, pooled, backing, stored, onHost, inBox, evictor, newest>>
    BY DEF CallEnters, PoolSame, Copies
  <1>2. /\ calls'[c] = [Resting EXCEPT !.at = "entering", !.fresh = ~hydrated]
        /\ \A d \in Callers \ {c} : calls'[d] = calls[d]
    BY DEF CallEnters, CallGoes, PoolInv, CallsType
  <1>3. calls'[c].at = "entering" /\ calls'[c].fresh = ~hydrated
    BY <1>2 DEF Resting
  <1>4. calls[c].at = "idle"
    BY <1>1 DEF Resting
  <1>5. Undisturbed'
    BY <1>1, <1>2, <1>3, <1>4 DEF Sound, Undisturbed, Busy, Placed
  <1>6. Local'
    BY <1>1, <1>2, <1>3, <1>4 DEF Sound, Local
  <1>7. Mounted'
    BY <1>1, <1>2, <1>3, <1>4 DEF Sound, Mounted
  <1>8. Docker'
    <2>1. \A d \in Callers : calls'[d].at \in {"hydrating", "copying"} =>
             calls[d].at = calls'[d].at /\ calls'[d].file = calls[d].file
      BY <1>2, <1>3
    <2>2. \A d \in Callers \ {c} : Filling(d)' <=> Filling(d)
      BY <1>2 DEF Filling
    <2>3. ~Filling(c) /\ (Filling(c)' <=> ~hydrated)
      BY <1>3, <1>4 DEF Filling
    <2>4. BeingFilled' <=> BeingFilled \/ ~hydrated
      BY <2>2, <2>3 DEF BeingFilled
    <2>5. StoreCurrent' <=> StoreCurrent
      BY <1>1 DEF StoreCurrent
    <2> HIDE DEF Filling, BeingFilled, StoreCurrent
    <2> QED
      BY <1>1, <2>1, <2>4, <2>5 DEF Sound, Docker
  <1>9. Remote'
    <2>1. \A d \in Callers : Carrying(d)' <=> Carrying(d)
      BY <1>2, <1>3, <1>4 DEF Carrying
    <2>2. \A d \in Callers : d # c => calls'[d] = calls[d]
      BY <1>2
    <2> QED
      BY <1>1, <1>3, <2>1, <2>2 DEF Sound, Remote, Backed
  <1> QED
    BY <1>5, <1>6, <1>7, <1>8, <1>9 DEF Sound

\* A call that enters a pool with an executor finds it as the last one left it;
\* a new one is filled from the store, or by the hydration that follows.
LEMMA SoundGetsBox ==
  ASSUME PoolInv, Sound, NEW c \in Callers, CallGetsBox(c), harm' = {}
  PROVE  Sound'
  <1>1. PICK b \in Boxes :
          /\ PoolGet(b)
          /\ CallGoes(c, [calls[c] EXCEPT !.box = b,
                 !.at = IF calls[c].fresh /\ backing # "remote" /\ stored # Absent
                        THEN "hydrating" ELSE "ready"])
    BY DEF CallGetsBox
  <1>2. /\ calls[c].at = "entering"
        /\ UNCHANGED <<backing, stored, onHost, hydrated, evictor, newest>>
    BY DEF CallGetsBox, MapsSame
  <1>3. calls \in [Callers -> CallRecords(boxes)]
    BY DEF PoolInv, CallsType
  <1>4. /\ calls'[c] = AtIn(calls[c], IF calls[c].fresh /\ backing # "remote" /\ stored # Absent
                                      THEN "hydrating" ELSE "ready", b)
        /\ \A d \in Callers \ {c} : calls'[d] = calls[d]
    BY <1>1, <1>3 DEF CallGoes, AtIn
  <1>5. /\ calls'[c].at = IF calls[c].fresh /\ backing # "remote" /\ stored # Absent
                          THEN "hydrating" ELSE "ready"
        /\ calls'[c].box = b
    <2>1. calls[c] \in CallRecords(boxes)
      BY <1>3
    <2> QED
      BY <1>4, <2>1 DEF AtIn, CallRecords
  <1>6. b = pooled' /\ b # 0
    BY <1>1, PoolGets
  <1>7. \/ pooled # 0 /\ pooled' = pooled /\ live' = live /\ inBox' = inBox
        \/ /\ pooled = 0 /\ live' = live \cup {b}
           /\ inBox' = IF backing = "remote" THEN [inBox EXCEPT ![b] = stored] ELSE inBox
    BY <1>1 DEF PoolGet, PoolSame
  <1>8. live \subseteq 1..boxes /\ 0 \notin live /\ inBox \in [Boxes -> Contents]
    BY SandboxAssumption DEF PoolInv, PoolType, CopyType
  <1>9. Undisturbed'
    BY <1>2, <1>4, <1>5, <1>6, <1>7 DEF Sound, Undisturbed, Busy, Placed
  <1>10. Local'
    BY <1>2, <1>4, <1>5, <1>6, <1>7 DEF Sound, Local
  <1>11. Mounted'
    BY <1>2, <1>4, <1>5 DEF Sound, Mounted
  <1>12. Docker'
    BY <1>2, <1>4, <1>5, <1>6 DEF Sound, Docker, Undisturbed, Busy, BeingFilled, Filling, StoreCurrent
  <1>13. Remote'
    BY <1>2, <1>4, <1>5, <1>6, <1>7, <1>8 DEF Sound, Remote, Backed, Carrying
  <1> QED
    BY <1>9, <1>10, <1>11, <1>12, <1>13 DEF Sound

\* An error takes the hydration back, which has not begun.
LEMMA SoundGetsNone ==
  ASSUME PoolInv, Sound, NEW c \in Callers, CallGetsNone(c), harm' = {}
  PROVE  Sound'
  <1>1. /\ calls[c].at = "entering" /\ pooled = 0 /\ ~Busy(Callers \ {c})
        /\ hydrated' = FALSE
        /\ UNCHANGED <<boxes, live, pooled, backing, stored, onHost, inBox, evictor, newest>>
    BY DEF CallGetsNone, PoolSame, Copies
  <1>2. calls'[c].at = "idle" /\ \A d \in Callers \ {c} : calls'[d] = calls[d]
    BY DEF CallGetsNone, CallGoes, PoolInv, CallsType, Resting
  <1>3. \A d \in Callers \ {c} : calls[d].at = "idle"
    BY <1>1 DEF Busy
  <1>4. Undisturbed'
    BY <1>1, <1>2, <1>3 DEF Sound, Undisturbed, Busy, Placed
  <1>5. Local'
    BY <1>1, <1>2 DEF Sound, Local
  <1>6. Mounted'
    BY <1>1, <1>2 DEF Sound, Mounted
  <1>7. Docker'
    BY <1>1, <1>2, <1>3 DEF Sound, Docker, Undisturbed, Busy, BeingFilled, Filling, StoreCurrent
  <1>8. Remote'
    BY <1>1, <1>2 DEF Sound, Remote, Backed, Carrying
  <1> QED
    BY <1>4, <1>5, <1>6, <1>7, <1>8 DEF Sound

\* A hydration copies a store that is up to date.
LEMMA SoundHydrates ==
  ASSUME PoolInv, Sound, NEW c \in Callers, HydrateReads(c) \/ HydrateWrites(c), harm' = {}
  PROVE  Sound'
  <1>0. calls[c] \in CallRecords(boxes) /\ inBox \in [Boxes -> Contents]
    BY CallOfType DEF PoolInv, CopyType
  <1>1. CASE HydrateReads(c)
    <2>1. /\ calls[c].at = "hydrating"
          /\ UNCHANGED <<boxes, live, pooled, hydrated, backing, stored, onHost, inBox,
                         evictor, newest>>
      BY <1>1 DEF HydrateReads, PoolSame, MapsSame, Copies
    <2>2. calls'[c] = AtWith(calls[c], "copying", stored)
          /\ \A d \in Callers \ {c} : calls'[d] = calls[d]
      BY <1>1 DEF HydrateReads, CallGoes, PoolInv, CallsType, AtWith
    <2>3. calls'[c].at = "copying" /\ calls'[c].file = stored /\ calls'[c].box = calls[c].box
      BY <1>0, <2>2 DEF AtWith, CallRecords
    <2>4. Undisturbed'
      BY <2>1, <2>2, <2>3 DEF Sound, Undisturbed, Busy, Placed
    <2>5. Local' /\ Mounted'
      BY <2>1, <2>2, <2>3 DEF Sound, Local, Mounted
    <2>6. Docker'
      BY <2>1, <2>2, <2>3 DEF Sound, Docker, BeingFilled, Filling, StoreCurrent
    <2>7. Remote'
      BY <2>1, <2>2, <2>3 DEF Sound, Remote, Backed, Carrying
    <2> QED
      BY <2>4, <2>5, <2>6, <2>7 DEF Sound
  <1>2. CASE HydrateWrites(c)
    <2>1. /\ calls[c].at = "copying"
          /\ UNCHANGED <<boxes, live, pooled, hydrated, backing, evictor, newest>>
      BY <1>2 DEF HydrateWrites, PoolSame, MapsSame
    <2>2. calls'[c] = AtWith(calls[c], "ready", Absent)
          /\ \A d \in Callers \ {c} : calls'[d] = calls[d]
      BY <1>2 DEF HydrateWrites, CallGoes, PoolInv, CallsType, AtWith
    <2>3. calls'[c].at = "ready" /\ calls'[c].box = calls[c].box
      BY <1>0, <2>2 DEF AtWith, CallRecords
    <2>4. backing # "remote" /\ calls[c].box = pooled /\ pooled # 0 /\ pooled \in live
      BY <2>1 DEF Sound, Undisturbed, Local, Remote, Placed
    <2>5. /\ stored' = IF backing = "mounted" THEN calls[c].file ELSE stored
          /\ onHost' = IF backing = "docker" THEN calls[c].file ELSE onHost
      BY <1>2, <2>4 DEF HydrateWrites, WriteInto
    <2>6. stored' = stored
      BY <2>1, <2>5 DEF Sound, Mounted
    <2>7. backing = "docker" => onHost' = newest /\ StoreCurrent
      <3>1. SUFFICES ASSUME backing = "docker" PROVE onHost' = newest /\ StoreCurrent
        OBVIOUS
      <3>2. StoreCurrent /\ stored # Absent /\ calls[c].file = stored
        BY <2>1, <3>1 DEF Sound, Docker, BeingFilled, Filling
      <3> QED
        BY <2>5, <3>1, <3>2 DEF StoreCurrent
    <2>8. Undisturbed'
      BY <2>1, <2>2, <2>3, <2>4, <2>6 DEF Sound, Undisturbed, Busy, Placed
    <2>9. Local' /\ Mounted'
      BY <2>1, <2>2, <2>3, <2>6 DEF Sound, Local, Mounted
    <2>10. Docker'
      <3>1. SUFFICES ASSUME backing = "docker" PROVE Docker'
        BY <2>1 DEF Docker
      <3>2. stored # Absent /\ stored = newest /\ evictor.at = "idle"
        BY <2>1, <2>7, <3>1 DEF Sound, Docker, StoreCurrent, Undisturbed, Busy
      <3>3. StoreCurrent'
        BY <2>1, <2>6, <2>7, <3>1, <3>2 DEF StoreCurrent
      <3> QED
        BY <2>1, <2>2, <2>3, <2>4, <2>6, <2>7, <3>1, <3>2, <3>3 DEF Sound, Docker
    <2>11. Remote'
      BY <2>1, <2>4 DEF Remote
    <2> QED
      BY <2>8, <2>9, <2>10, <2>11 DEF Sound
  <1> QED
    BY <1>1, <1>2

\* Nothing else fills or carries while a call writes; what it wrote is in its
\* executor, and the call carries it on if that is remote.
LEMMA SoundWrites ==
  ASSUME PoolInv, Sound, NEW c \in Callers, CallWrites(c), harm' = {}
  PROVE  Sound'
  <1>0. /\ calls[c] \in CallRecords(boxes) /\ inBox \in [Boxes -> Contents]
        /\ newest \in Contents
    BY CallOfType DEF PoolInv, CopyType
  <1>1. /\ calls[c].at \in {"ready", "retried"} /\ calls[c].box \in live
        /\ UNCHANGED <<boxes, live, pooled, hydrated, backing, evictor>>
        /\ Raced(c) = {}
    BY DEF CallWrites, PoolSame, MapsSame
  <1>2. PICK size \in Sizes, then \in {"snapping", "mirroring"} :
          /\ WriteInto(calls[c].box, [write |-> newest.write + 1, size |-> size])
          /\ newest' = [write |-> newest.write + 1, size |-> size]
          /\ CallGoes(c, IF backing # "remote" THEN Resting
                         ELSE [calls[c] EXCEPT !.at = then,
                                  !.file = IF then = "mirroring" THEN newest' ELSE Absent])
    BY DEF CallWrites
  <1>3. newest' # Absent
    <2>1. newest.write \in Nat
      BY <1>0, SandboxAssumption DEF Contents, Absent
    <2> QED
      BY <1>2, <2>1 DEF Absent
  <1>4. calls[c].box = pooled /\ pooled # 0 /\ pooled \in live /\ pooled \in Boxes
    BY <1>1, CallOfType DEF Sound, Undisturbed, Placed
  <1>5. /\ stored' = IF backing = "mounted" THEN newest' ELSE stored
        /\ onHost' = IF backing = "docker" THEN newest' ELSE onHost
        /\ inBox'  = IF backing = "remote" THEN [inBox EXCEPT ![pooled] = newest'] ELSE inBox
    BY <1>2, <1>4 DEF WriteInto
  <1>6. ASSUME NEW d \in Callers \ {c}
        PROVE  /\ calls'[d] = calls[d]
               /\ calls[d].at \notin {"hydrating", "copying", "syncing", "mirroring"}
               /\ ~(calls[d].at = "entering" /\ calls[d].fresh)
    <2>1. calls'[d] = calls[d]
      BY <1>2 DEF CallGoes, PoolInv, CallsType
    <2> QED
      BY <1>1, <1>6, <2>1 DEF Raced
  <1>7. /\ backing # "remote" => calls'[c].at = "idle"
        /\ backing = "remote" => /\ calls'[c].at = then /\ calls'[c].box = calls[c].box
                                 /\ then = "mirroring" => calls'[c].file = newest'
    <2>1. backing = "remote" =>
            calls'[c] = AtWith(calls[c], then, IF then = "mirroring" THEN newest' ELSE Absent)
      BY <1>2 DEF CallGoes, PoolInv, CallsType, AtWith
    <2>2. backing # "remote" => calls'[c] = Resting
      BY <1>2 DEF CallGoes, PoolInv, CallsType
    <2>3. backing # "remote" => calls'[c].at = "idle"
      BY <2>2 DEF Resting
    <2>4. ASSUME NEW f
          PROVE  /\ AtWith(calls[c], then, f).at = then
                 /\ AtWith(calls[c], then, f).box = calls[c].box
                 /\ AtWith(calls[c], then, f).file = f
      BY <1>0 DEF AtWith, CallRecords
    <2> QED
      BY <2>1, <2>3, <2>4
  <1>8. evictor.at = "idle" /\ hydrated
    BY <1>1 DEF Sound, Undisturbed, Busy
  <1>9. Undisturbed'
    BY <1>1, <1>3, <1>4, <1>6, <1>7, <1>8 DEF Sound, Undisturbed, Busy, Placed
  <1>10. Local'
    BY <1>1, <1>6, <1>7 DEF Sound, Local
  <1>11. Mounted'
    BY <1>1, <1>5, <1>6, <1>7, <1>8 DEF Sound, Mounted
  <1>12. Docker'
    <2>1. SUFFICES ASSUME backing = "docker" PROVE Docker'
      BY <1>1 DEF Docker
    <2>2. ~BeingFilled'
      BY <1>1, <1>6, <1>7, <2>1 DEF BeingFilled, Filling
    <2> QED
      BY <1>1, <1>4, <1>5, <1>6, <1>7, <1>8, <2>1, <2>2 DEF Docker
  <1>13. Remote'
    <2>1. SUFFICES ASSUME backing = "remote" PROVE Remote'
      BY <1>1 DEF Remote
    <2>2. Backed'
      BY <1>7, <2>1 DEF Backed, Carrying
    <2>3. inBox'[pooled'] = newest' /\ pooled' \in live'
      BY <1>0, <1>1, <1>4, <1>5, <2>1
    <2> QED
      BY <1>1, <1>6, <1>7, <1>8, <2>1, <2>2, <2>3 DEF Sound, Remote, Carrying
  <1> QED
    BY <1>9, <1>10, <1>11, <1>12, <1>13 DEF Sound

\* A command that writes nothing, and a call that finds its sandbox gone.
LEMMA SoundReads ==
  ASSUME PoolInv, Sound, NEW c \in Callers, CallReads(c) \/ CallMisses(c), harm' = {}
  PROVE  Sound'
  <1>0. calls[c] \in CallRecords(boxes)
    BY CallOfType
  <1>1. /\ calls[c].at \in {"ready", "retried"}
        /\ UNCHANGED <<boxes, live, pooled, hydrated, backing, stored, onHost, inBox,
                       evictor, newest>>
    BY DEF CallReads, CallMisses, PoolSame, MapsSame, Copies
  <1>2. calls[c].box = pooled /\ pooled # 0
    BY <1>1 DEF Sound, Undisturbed, Placed
  <1>3. \A d \in Callers \ {c} : calls'[d] = calls[d]
    BY DEF CallReads, CallMisses, CallGoes, PoolInv, CallsType
  <1>4. \/ backing # "remote" /\ calls'[c].at = "idle"
        \/ /\ backing = "remote" /\ calls'[c].box = calls[c].box
           /\ \/ calls'[c].at = "snapping" /\ pooled \in live
              \/ calls'[c].at = "gone" /\ calls[c].at = "ready"
    <2>1. \/ calls'[c] = Resting /\ backing # "remote"
          \/ calls'[c] = At(calls[c], "snapping") /\ backing = "remote" /\ pooled \in live
          \/ /\ calls'[c] = At(calls[c], "gone") /\ backing = "remote"
             /\ calls[c].at = "ready"
      <3>1. CASE CallReads(c)
        BY <1>2, <3>1 DEF CallReads, CallGoes, PoolInv, CallsType, At
      <3>2. CASE CallMisses(c)
        <4>1. pooled \notin live
          BY <1>2, <3>2 DEF CallMisses
        <4>2. backing = "remote" => calls[c].at = "ready"
          BY <1>1, <4>1 DEF Sound, Remote
        <4> QED
          BY <3>2, <4>2 DEF CallMisses, CallGoes, PoolInv, CallsType, At
      <3> QED
        BY <3>1, <3>2
    <2> QED
      BY <1>0, <2>1 DEF At, CallRecords, Resting
  <1>5. Undisturbed'
    BY <1>1, <1>2, <1>3, <1>4 DEF Sound, Undisturbed, Busy, Placed
  <1>6. Local' /\ Mounted'
    BY <1>1, <1>3, <1>4 DEF Sound, Local, Mounted
  <1>7. Docker'
    BY <1>1, <1>3, <1>4 DEF Sound, Docker, BeingFilled, Filling, StoreCurrent
  <1>8. Remote'
    BY <1>1, <1>3, <1>4 DEF Sound, Remote, Backed, Carrying
  <1> QED
    BY <1>5, <1>6, <1>7, <1>8 DEF Sound

\* A sandbox that is made again is filled from a store that is up to date.
LEMMA SoundRecreates ==
  ASSUME PoolInv, Sound, NEW c \in Callers, CallRecreates(c), harm' = {}
  PROVE  Sound'
  <1>0. calls[c] \in CallRecords(boxes) /\ inBox \in [Boxes -> Contents]
    BY CallOfType DEF PoolInv, CopyType
  <1>1. /\ calls[c].at = "gone" /\ calls[c].box \notin live
        /\ live' = live \cup {calls[c].box}
        /\ inBox' = [inBox EXCEPT ![calls[c].box] = stored]
        /\ UNCHANGED <<pooled, hydrated, backing, stored, onHost, evictor, newest>>
    BY DEF CallRecreates, MapsSame
  <1>2. calls[c].box = pooled /\ pooled # 0 /\ pooled \in Boxes /\ backing = "remote"
    BY <1>1, CallOfType DEF Sound, Undisturbed, Local, Placed
  <1>3. stored = newest
    BY <1>1, <1>2 DEF Sound, Remote
  <1>4. calls'[c] = At(calls[c], "retried") /\ \A d \in Callers \ {c} : calls'[d] = calls[d]
    BY DEF CallRecreates, CallGoes, PoolInv, CallsType, At
  <1>5. calls'[c].at = "retried" /\ calls'[c].box = calls[c].box
    BY <1>0, <1>4 DEF At, CallRecords
  <1>6. Undisturbed'
    BY <1>1, <1>2, <1>4, <1>5 DEF Sound, Undisturbed, Busy, Placed
  <1>7. Local' /\ Mounted' /\ Docker'
    BY <1>1, <1>2 DEF Local, Mounted, Docker
  <1>8. inBox'[pooled'] = newest'
    BY <1>0, <1>1, <1>2, <1>3
  <1>9. Remote'
    BY <1>1, <1>2, <1>3, <1>4, <1>5, <1>8 DEF Sound, Remote, Carrying
  <1> QED
    BY <1>6, <1>7, <1>9 DEF Sound

\* The copy back: a snapshot is what was written last, and so is the store when
\* it is put there.
LEMMA CopyBackSettles ==
  ASSUME NEW file, CopyBack(file), harm' = {}
  PROVE  stored' = IF file = Absent THEN stored ELSE file
  BY DEF CopyBack

LEMMA SoundCopies ==
  ASSUME PoolInv, Sound, NEW c \in Callers, CallSnaps(c) \/ CallPuts(c), harm' = {}
  PROVE  Sound'
  <1>0. calls[c] \in CallRecords(boxes)
    BY CallOfType
  <1>1. /\ calls[c].at \in {"snapping", "syncing", "mirroring"}
        /\ UNCHANGED <<live, pooled, hydrated, backing, onHost, inBox, evictor, newest>>
    BY DEF CallSnaps, CallPuts, PoolSame, MapsSame, Copies
  <1>2. backing = "remote"
    BY <1>1 DEF Sound, Local
  <1>3. calls[c].box = pooled /\ pooled # 0 /\ pooled \in live /\ inBox[pooled] = newest
    BY <1>1, <1>2 DEF Sound, Undisturbed, Remote, Placed, Carrying
  <1>4. \A d \in Callers \ {c} : calls'[d] = calls[d]
    BY DEF CallSnaps, CallPuts, CallGoes, PoolInv, CallsType
  <1>5. Local' /\ Mounted' /\ Docker'
    BY <1>1, <1>2 DEF Local, Mounted, Docker
  <1>6. CASE CallSnaps(c)
    <2>1. stored' = stored /\ calls'[c] = AtWith(calls[c], "syncing", newest)
      BY <1>2, <1>3, <1>6 DEF CallSnaps, Copies, CallGoes, PoolInv, CallsType, AtWith, Sees
    <2>2. calls'[c].at = "syncing" /\ calls'[c].box = calls[c].box /\ calls'[c].file = newest
      BY <1>0, <2>1 DEF AtWith, CallRecords
    <2>3. Undisturbed'
      BY <1>1, <1>3, <1>4, <2>1, <2>2 DEF Sound, Undisturbed, Busy, Placed
    <2>4. Remote'
      BY <1>1, <1>2, <1>3, <1>4, <2>1, <2>2 DEF Sound, Remote, Backed, Carrying
    <2> QED
      BY <1>5, <2>3, <2>4 DEF Sound
  <1>7. CASE CallPuts(c)
    <2>1. calls[c].file = newest
      BY <1>2, <1>7 DEF CallPuts, Sound, Remote
    <2>2. stored' = newest
      <3>1. CASE CopyBack(calls[c].file)
        BY <2>1, <3>1, CopyBackSettles DEF Sound, Undisturbed
      <3>2. CASE stored' = calls[c].file
        BY <2>1, <3>2
      <3>3. CASE CopyFails
        BY <3>3 DEF CopyFails
      <3> QED
        BY <1>7, <3>1, <3>2, <3>3 DEF CallPuts
    <2>3. calls'[c].at = "idle"
      BY <1>7 DEF CallPuts, CallGoes, PoolInv, CallsType, Resting
    <2>4. Undisturbed'
      BY <1>1, <1>3, <1>4, <2>2, <2>3 DEF Sound, Undisturbed, Busy, Placed
    <2>5. Remote'
      BY <1>1, <1>2, <1>3, <1>4, <2>2, <2>3 DEF Sound, Remote, Backed, Carrying
    <2> QED
      BY <1>5, <2>4, <2>5 DEF Sound
  <1> QED
    BY <1>6, <1>7

\* An eviction that overlaps no call.
LEMMA SoundEvictIdle ==
  ASSUME Sound, EvictIdle, harm' = {}
  PROVE  Sound'
  <1>1. /\ evictor.at = "idle" /\ evictor'.at = "flushing" /\ hydrated' = FALSE
        /\ UNCHANGED <<live, pooled, calls, backing, stored, onHost, inBox, newest>>
    BY DEF EvictIdle, NoSweep, PoolSame, Copies
  <1>2. ~Busy(Callers)
    BY DEF EvictIdle, InUse
  <1>3. Undisturbed' /\ Local' /\ Mounted'
    BY <1>1, <1>2 DEF Sound, Undisturbed, Local, Mounted, Busy, Placed
  <1>4. Docker'
    BY <1>1, <1>2 DEF Sound, Docker, Busy, BeingFilled, Filling, StoreCurrent
  <1>5. Remote'
    BY <1>1, <1>2 DEF Sound, Remote, Backed, Carrying
  <1> QED
    BY <1>3, <1>4, <1>5 DEF Sound

\* Its snapshot is what was written last, also when the pool was empty.
LEMMA SoundEvictSnaps ==
  ASSUME PoolInv, Sound, EvictSnaps
  PROVE  Sound'
  <1>1. PICK b \in Boxes :
          /\ PoolGet(b)
          /\ evictor' = IF b \in live' \/ backing # "remote"
                        THEN [at |-> "putting",
                              file |-> IF backing = "remote" THEN inBox'[b] ELSE Sees(b)]
                        ELSE [NoSweep EXCEPT !.at = "releasing"]
    BY DEF EvictSnaps
  <1>2. /\ evictor.at = "flushing"
        /\ UNCHANGED <<calls, backing, stored, onHost, hydrated, newest>>
    BY DEF EvictSnaps, MapsSame
  <1>3. ~Busy(Callers) /\ ~hydrated
    BY <1>2 DEF Sound, Undisturbed
  <1>4. b = pooled' /\ b # 0
    BY <1>1, PoolGets
  <1>5. \/ pooled # 0 /\ pooled' = pooled /\ live' = live /\ inBox' = inBox
        \/ /\ pooled = 0 /\ live' = live \cup {b}
           /\ inBox' = IF backing = "remote" THEN [inBox EXCEPT ![b] = stored] ELSE inBox
    BY <1>1 DEF PoolGet, PoolSame
  <1>6. live \subseteq 1..boxes /\ 0 \notin live /\ inBox \in [Boxes -> Contents]
    BY SandboxAssumption DEF PoolInv, PoolType, CopyType
  <1>7. \A c \in Callers : calls[c].at = "idle"
    BY <1>3 DEF Busy
  <1>8. \/ evictor'.at = "putting" /\ evictor'.file = IF backing = "remote" THEN inBox'[b]
                                                      ELSE Sees(b)
        \/ evictor'.at = "releasing" /\ backing = "remote"
    BY <1>1 DEF NoSweep
  <1>9. Undisturbed' /\ Local'
    BY <1>2, <1>3, <1>4, <1>5, <1>7 DEF Sound, Undisturbed, Local, Busy, Placed
  <1>10. Mounted'
    BY <1>2, <1>7, <1>8 DEF Sound, Mounted, Sees
  <1>11. Docker'
    BY <1>2, <1>3, <1>7, <1>8 DEF Sound, Docker, BeingFilled, Filling, StoreCurrent, Sees
  <1>12. Remote'
    <2>1. SUFFICES ASSUME backing = "remote" PROVE Remote'
      BY <1>2 DEF Remote
    <2>2. stored = newest
      BY <1>7, <2>1 DEF Sound, Remote, Backed, Carrying
    <2>3. pooled' \in live' => inBox'[pooled'] = newest
      BY <1>1, <1>4, <1>5, <1>6, <2>1, <2>2 DEF Sound, Remote
    <2>4. evictor'.at = "putting" => b \in live'
      BY <1>1, <2>1 DEF NoSweep
    <2> QED
      BY <1>2, <1>4, <1>7, <1>8, <2>1, <2>2, <2>3, <2>4 DEF Remote, Carrying
  <1> QED
    BY <1>9, <1>10, <1>11, <1>12 DEF Sound

\* Its copy back leaves the store up to date.
LEMMA SoundEvictPuts ==
  ASSUME PoolInv, Sound, EvictPuts, harm' = {}
  PROVE  Sound'
  <1>1. /\ evictor.at = "putting" /\ evictor'.at = "releasing"
        /\ UNCHANGED <<live, pooled, calls, backing, onHost, inBox, hydrated, newest>>
    BY DEF EvictPuts, NoSweep, PoolSame, MapsSame
  <1>2. CopyBack(evictor.file)
    BY DEF EvictPuts, CopyFails
  <1>3. stored' = IF evictor.file = Absent THEN stored ELSE evictor.file
    BY <1>2, CopyBackSettles
  <1>4. ~Busy(Callers) /\ ~hydrated
    BY <1>1 DEF Sound, Undisturbed
  <1>5. \A c \in Callers : calls[c].at = "idle"
    BY <1>4 DEF Busy
  <1>6. Local'
    BY <1>1, <1>5 DEF Sound, Local
  <1>7. CASE backing = "mounted"
    BY <1>1, <1>3, <1>4, <1>5, <1>6, <1>7
       DEF Sound, Undisturbed, Mounted, Docker, Remote, Busy, Placed
  <1>8. CASE backing = "docker"
    <2>1. evictor.file = onHost /\ onHost \in {Absent, newest} /\ (onHost = newest \/ StoreCurrent)
      BY <1>1, <1>8 DEF Sound, Docker
    <2>2. newest = Absent => stored = Absent
      BY DEF Sound, Undisturbed
    <2>3. StoreCurrent'
      BY <1>1, <1>3, <2>1, <2>2 DEF StoreCurrent
    <2>4. newest' = Absent => stored' = Absent
      BY <1>1, <1>3, <2>1, <2>2
    <2>5. Undisturbed'
      BY <1>1, <1>4, <1>5, <2>4 DEF Sound, Undisturbed, Busy, Placed
    <2> QED
      BY <1>1, <1>4, <1>5, <1>6, <1>8, <2>1, <2>3, <2>5
         DEF Sound, Mounted, Docker, Remote, Busy, BeingFilled, Filling
  <1>9. CASE backing = "remote"
    <2>1. stored = newest /\ evictor.file = newest
      BY <1>1, <1>5, <1>9 DEF Sound, Remote, Backed, Carrying
    <2>2. stored' = newest'
      BY <1>1, <1>3, <2>1
    <2>3. Undisturbed'
      BY <1>1, <1>4, <1>5, <2>2 DEF Sound, Undisturbed, Busy, Placed
    <2>4. Remote'
      BY <1>1, <1>5, <1>9, <2>2 DEF Sound, Remote, Carrying
    <2> QED
      BY <1>1, <1>6, <1>9, <2>3, <2>4 DEF Sound, Mounted, Docker
  <1>10. backing \in {"mounted", "docker", "remote"}
    BY SandboxAssumption DEF PoolInv, CopyType
  <1> QED
    BY <1>7, <1>8, <1>9, <1>10

\* The executor is destroyed when the store has what was written.
LEMMA SoundReleases ==
  ASSUME PoolInv, Sound, EvictReleases, harm' = {}
  PROVE  Sound'
  <1>1. /\ evictor.at = "releasing" /\ evictor'.at = "idle"
        /\ pooled' = 0 /\ live' = live \ {pooled}
        /\ UNCHANGED <<calls, backing, stored, onHost, inBox, hydrated, newest>>
    BY DEF EvictReleases, NoSweep, MapsSame, Copies
  <1>2. ~Busy(Callers) /\ ~hydrated
    BY <1>1 DEF Sound, Undisturbed
  <1>3. \A c \in Callers : calls[c].at = "idle"
    BY <1>2 DEF Busy
  <1>4. 0 \notin live'
    BY <1>1, SandboxAssumption DEF PoolInv, PoolType
  <1>5. Undisturbed' /\ Local' /\ Mounted'
    BY <1>1, <1>2, <1>3 DEF Sound, Undisturbed, Local, Mounted, Busy, Placed
  <1>6. Docker'
    BY <1>1, <1>2, <1>3 DEF Sound, Docker, BeingFilled, Filling, StoreCurrent
  <1>7. Remote'
    BY <1>1, <1>3, <1>4 DEF Sound, Remote, Backed, Carrying
  <1> QED
    BY <1>5, <1>6, <1>7 DEF Sound

\* A directory that is left as the store has it.
LEMMA LeftSettled ==
  ASSUME Sound, backing = "docker", Unflushed = {}
  PROVE  StoreCurrent
  BY DEF Sound, Docker, Unflushed, StoreCurrent

LEMMA SoundReleaseChat ==
  ASSUME Sound, ReleaseChat, harm' = {}
  PROVE  Sound'
  <1>1. /\ evictor.at = "idle" /\ evictor'.at = "releasing" /\ hydrated' = FALSE
        /\ UNCHANGED <<live, pooled, calls, backing, stored, onHost, inBox, newest>>
    BY DEF ReleaseChat, NoSweep, PoolSame, Copies
  <1>2. ~Busy(Callers) /\ Unflushed = {}
    BY DEF ReleaseChat, InUse
  <1>3. \A c \in Callers : calls[c].at = "idle"
    BY <1>2 DEF Busy
  <1>4. Undisturbed' /\ Local' /\ Mounted'
    BY <1>1, <1>3 DEF Sound, Undisturbed, Local, Mounted, Busy, Placed
  <1>5. Docker'
    BY <1>1, <1>2, <1>3, LeftSettled DEF Sound, Docker, BeingFilled, Filling, StoreCurrent
  <1>6. Remote'
    BY <1>1, <1>3 DEF Sound, Remote, Backed, Carrying
  <1> QED
    BY <1>4, <1>5, <1>6 DEF Sound

\* A file tool writes the store when there is no other copy.
LEMMA SoundFileTool ==
  ASSUME PoolInv, Sound, FileToolPuts, harm' = {}
  PROVE  Sound'
  <1>1. UNCHANGED <<live, pooled, calls, backing, onHost, inBox, hydrated, evictor>>
    BY DEF FileToolPuts, PoolSame, MapsSame
  <1>2. PICK size \in Sizes : newest' = [write |-> newest.write + 1, size |-> size]
    BY DEF FileToolPuts
  <1>3. stored' = newest' /\ newest' # Absent
    <2>1. newest.write \in Nat
      BY SandboxAssumption DEF PoolInv, CopyType, Contents, Absent
    <2> QED
      BY <1>2, <2>1 DEF FileToolPuts, Absent
  <1>4. /\ ~Busy(Callers) /\ evictor = NoSweep
        /\ backing # "mounted" => pooled = 0 /\ onHost = Absent
    BY DEF FileToolPuts
  <1>5. evictor.at = "idle" /\ \A c \in Callers : calls[c].at = "idle"
    BY <1>4 DEF NoSweep, Busy
  <1>6. 0 \notin live
    BY SandboxAssumption DEF PoolInv, PoolType
  <1>7. Undisturbed' /\ Local' /\ Mounted'
    BY <1>1, <1>3, <1>5 DEF Sound, Undisturbed, Local, Mounted, Busy, Placed
  <1>8. Docker'
    <2>1. SUFFICES ASSUME backing = "docker" PROVE Docker'
      BY <1>1 DEF Docker
    <2>2. ~BeingFilled /\ ~hydrated
      BY <1>4, <1>5, <2>1 DEF Sound, Docker, BeingFilled, Filling
    <2> QED
      BY <1>1, <1>3, <1>4, <1>5, <2>1, <2>2 DEF Docker, BeingFilled, Filling, StoreCurrent
  <1>9. Remote'
    BY <1>1, <1>3, <1>4, <1>5, <1>6 DEF Remote, Carrying
  <1> QED
    BY <1>7, <1>8, <1>9 DEF Sound

\* A remote sandbox expires between calls: the store has its work.
LEMMA SoundExpires ==
  ASSUME Sound, NEW b \in Boxes, Expires(b), harm' = {}
  PROVE  Sound'
  <1>1. /\ backing = "remote" /\ live' = live \ {b}
        /\ UNCHANGED <<pooled, calls, backing, stored, onHost, inBox, hydrated, evictor, newest>>
    BY DEF Expires, MapsSame, Copies
  <1>2. \A c \in Callers : calls[c].at = "idle"
    BY DEF Expires, InUse, Busy
  <1>3. Undisturbed' /\ Local' /\ Mounted' /\ Docker'
    BY <1>1, <1>2 DEF Sound, Undisturbed, Local, Mounted, Docker, Busy, Placed
  <1>4. Remote'
    BY <1>1, <1>2 DEF Sound, Remote, Backed, Carrying
  <1> QED
    BY <1>3, <1>4 DEF Sound

\* So does the store when the gateway stops between calls.
LEMMA SoundRestart ==
  ASSUME Sound, RestartPool, harm' = {}
  PROVE  Sound'
  <1>1. /\ live' = {} /\ pooled' = 0 /\ hydrated' = FALSE
        /\ calls' = [c \in Callers |-> Resting] /\ evictor' = NoSweep
        /\ UNCHANGED <<backing, stored, onHost, inBox, newest>>
    BY DEF RestartPool, Copies
  <1>2. Unflushed = {} /\ \A c \in Callers : calls[c].at = "idle"
    BY DEF RestartPool, InUse, Busy
  <1>3. evictor'.at = "idle" /\ \A c \in Callers : calls'[c].at = "idle"
    BY <1>1 DEF NoSweep, Resting
  <1>4. Undisturbed' /\ Local' /\ Mounted'
    BY <1>1, <1>3 DEF Sound, Undisturbed, Local, Mounted, Busy, Placed
  <1>5. Docker'
    BY <1>1, <1>2, <1>3, LeftSettled DEF Sound, Docker, BeingFilled, Filling, StoreCurrent
  <1>6. Remote'
    BY <1>1, <1>2, <1>3 DEF Sound, Remote, Backed, Carrying
  <1> QED
    BY <1>4, <1>5, <1>6 DEF Sound
-----------------------------------------------------------------------------
\* Harms are not forgotten.
LEMMA HarmStays ==
  ASSUME [SandboxNext]_sandboxVars
  PROVE  harm \subseteq harm'
  <1>1. ASSUME NEW c \in Callers,
               \/ CallEnters(c) \/ CallGetsBox(c) \/ CallGetsNone(c) \/ HydrateReads(c)
               \/ HydrateWrites(c) \/ CallWrites(c) \/ CallReads(c) \/ CallMisses(c)
               \/ CallRecreates(c) \/ CallSnaps(c)
        PROVE  harm \subseteq harm'
    BY <1>1 DEF CallEnters, CallGetsBox, CallGetsNone, HydrateReads, HydrateWrites, CallWrites,
                CallReads, CallMisses, CallRecreates, CallSnaps
  <1>2. ASSUME NEW file, CopyBack(file) \/ CopyFails PROVE harm \subseteq harm'
    BY <1>2 DEF CopyBack, CopyFails
  <1>3. ASSUME (\E c \in Callers : CallPuts(c)) \/ EvictPuts PROVE harm \subseteq harm'
    BY <1>2, <1>3 DEF CallPuts, EvictPuts
  <1>4. ASSUME \/ EvictIdle \/ EvictSnaps \/ EvictReleases \/ ReleaseChat \/ FileToolPuts
               \/ (\E b \in Boxes : Expires(b)) \/ RestartPool
        PROVE  harm \subseteq harm'
    BY <1>4 DEF EvictIdle, EvictSnaps, EvictReleases, ReleaseChat, FileToolPuts, Expires,
                RestartPool
  <1>5. CASE UNCHANGED sandboxVars
    BY <1>5 DEF sandboxVars
  <1> QED
    BY <1>1, <1>3, <1>4, <1>5 DEF SandboxNext

LEMMA SoundInitial ==
  ASSUME SandboxInit
  PROVE  Sound
  <1>1. evictor.at = "idle" /\ \A c \in Callers : calls[c].at = "idle"
    BY DEF SandboxInit, NoSweep, Resting
  <1>2. /\ stored = newest /\ onHost = newest /\ newest = Absent
        /\ live = {} /\ pooled = 0 /\ ~hydrated
    BY DEF SandboxInit
  <1>3. Undisturbed /\ Local /\ Mounted /\ Remote
    BY <1>1, <1>2 DEF Undisturbed, Local, Mounted, Remote, Busy, Placed, Carrying
  <1>4. Docker
    BY <1>1, <1>2 DEF Docker, StoreCurrent, BeingFilled, Filling
  <1> QED
    BY <1>3, <1>4 DEF Sound

LEMMA WorkStep ==
  ASSUME WorkInv, [SandboxNext]_sandboxVars
  PROVE  WorkInv'
  <1>1. PoolInv'
    BY PoolStep DEF WorkInv
  <1>2. SUFFICES ASSUME harm' = {} PROVE Sound'
    BY <1>1 DEF WorkInv
  <1>3. PoolInv /\ Sound
    BY <1>2, HarmStays DEF WorkInv
  <1>4. CASE UNCHANGED sandboxVars
    BY <1>3, <1>4
       DEF sandboxVars, Sound, Undisturbed, Local, Mounted, Docker, Remote, Busy, Placed,
           BeingFilled, Filling, StoreCurrent, Backed, Carrying
  <1>5. ASSUME NEW c \in Callers,
               \/ CallEnters(c) \/ CallGetsBox(c) \/ CallGetsNone(c) \/ HydrateReads(c)
               \/ HydrateWrites(c) \/ CallWrites(c) \/ CallReads(c) \/ CallMisses(c)
               \/ CallRecreates(c) \/ CallSnaps(c) \/ CallPuts(c)
        PROVE  Sound'
    BY <1>2, <1>3, <1>5, SoundEnters, SoundGetsBox, SoundGetsNone, SoundHydrates, SoundWrites,
       SoundReads, SoundRecreates, SoundCopies
  <1>6. ASSUME \/ EvictIdle \/ EvictSnaps \/ EvictPuts \/ EvictReleases \/ ReleaseChat
               \/ FileToolPuts \/ (\E b \in Boxes : Expires(b)) \/ RestartPool
        PROVE  Sound'
    BY <1>2, <1>3, <1>6, SoundEvictIdle, SoundEvictSnaps, SoundEvictPuts, SoundReleases,
       SoundReleaseChat, SoundFileTool, SoundExpires, SoundRestart
  <1> QED
    BY <1>4, <1>5, <1>6 DEF SandboxNext

\* A sound pool at rest shows the next call what was written last.
LEMMA SoundSurvives ==
  ASSUME WorkInv
  PROVE  WorkSurvives
  <1> SUFFICES ASSUME harm = {}, ~Busy(Callers), evictor = NoSweep
               PROVE  Visible = newest
    BY DEF WorkSurvives
  <1>1. Sound /\ backing \in {"mounted", "docker", "remote"}
    BY SandboxAssumption DEF WorkInv, PoolInv, CopyType
  <1>2. evictor.at = "idle" /\ \A c \in Callers : calls[c].at = "idle"
    BY DEF NoSweep, Busy
  <1>3. CASE backing = "mounted"
    BY <1>1, <1>3 DEF Sound, Mounted, Visible
  <1>4. CASE backing = "docker"
    <2>1. ~BeingFilled
      BY <1>2 DEF BeingFilled, Filling
    <2>2. CASE hydrated
      BY <1>1, <1>4, <2>1, <2>2 DEF Sound, Docker, Visible
    <2>3. CASE ~hydrated
      BY <1>1, <1>2, <1>4, <2>3 DEF Sound, Docker, Visible, StoreCurrent
    <2> QED
      BY <2>2, <2>3
  <1>5. CASE backing = "remote"
    BY <1>1, <1>2, <1>5 DEF Sound, Remote, Backed, Carrying, Visible
  <1> QED
    BY <1>1, <1>3, <1>4, <1>5

\* The next call finds the content written last, whichever deployment, number
\* of calls, evictions, expiries and restarts came between: without one of the
\* named harms the directory or sandbox a call reads, or the store it will be
\* filled from, is never behind (getInner, evictIdle, syncSnapshot and
\* hydrateWorkspace of lifecycle.go).
THEOREM WorkSurvivesTheorem == SandboxSpec => []WorkSurvives
  <1>1. SandboxInit => WorkInv
    BY PoolInitial, SoundInitial DEF WorkInv
  <1>2. WorkInv /\ [SandboxNext]_sandboxVars => WorkInv'
    BY WorkStep
  <1>3. WorkInv => WorkSurvives
    BY SoundSurvives
  <1> QED
    BY <1>1, <1>2, <1>3, PTL DEF SandboxSpec
=============================================================================
