--------------------------- MODULE Replica_proofs ---------------------------
(***************************************************************************)
(* Proofs about one process of the gateway, part by part: a behaviour of   *)
(* Replica is a behaviour of each of its parts (the one it follows takes   *)
(* all steps, the others stutter), so what was proved of the parts by      *)
(* themselves holds of the whole.  The constraint StillPromised bounds     *)
(* TLC's run only; nothing here assumes it.                                *)
(***************************************************************************)
EXTENDS Replica, AgentTurn_proofs, Delivery_proofs, Pools_proofs

\* A step of Replica is a step of one part, in which the others rest.
LEMMA PartSteps ==
  ASSUME [Next]_vars
  PROVE  /\ [TurnNext]_convVars /\ [StreamNext]_streamVars /\ [BusNext]_busVars
         /\ [RegistryNext]_registryVars /\ [SandboxNext]_sandboxVars
         /\ [SpacesNext]_spaceVars
         /\ part' = part
  <1>1. CASE Conversation
    BY <1>1 DEF Conversation
  <1>2. CASE Events
    BY <1>2 DEF Events
  <1>3. CASE Bus
    BY <1>3 DEF Bus
  <1>4. CASE Channels
    BY <1>4 DEF Channels
  <1>5. CASE Sandbox
    BY <1>5 DEF Sandbox
  <1>6. CASE UserSpace
    BY <1>6 DEF UserSpace
  <1>7. CASE UNCHANGED vars
    BY <1>7 DEF vars
  <1> QED
    BY <1>1, <1>2, <1>3, <1>4, <1>5, <1>6, <1>7 DEF Next

\* A process is each of its parts: none of them sees another's variables, and
\* what one does to another is an action of the other's own module (the agent
\* that is rebuilt, the subscriber that leaves, the replica that dies).
THEOREM PartsTheorem ==
    Spec => TurnSpec /\ StreamSpec /\ BusSpec /\ RegistrySpec /\ SandboxSpec /\ SpacesSpec
  <1>1. Init => /\ TurnInit /\ StreamInit /\ BusInit /\ RegistryInit
                /\ SandboxInit /\ SpacesInit
    BY DEF Init
  <1>2. [Next]_vars => [TurnNext]_convVars
    BY PartSteps
  <1>3. [Next]_vars => [StreamNext]_streamVars
    BY PartSteps
  <1>4. [Next]_vars => [BusNext]_busVars
    BY PartSteps
  <1>5. [Next]_vars => [RegistryNext]_registryVars
    BY PartSteps
  <1>6. [Next]_vars => [SandboxNext]_sandboxVars
    BY PartSteps
  <1>7. [Next]_vars => [SpacesNext]_spaceVars
    BY PartSteps
  <1> QED
    BY <1>1, <1>2, <1>3, <1>4, <1>5, <1>6, <1>7, PTL
       DEF Spec, TurnSpec, StreamSpec, BusSpec, RegistrySpec, SandboxSpec, SpacesSpec

Followed == part \in Parts

\* All variables of a process keep their types, for any number of threads,
\* replicas, channels, users and sandboxes, and any sizes.
THEOREM ReplicaTypeTheorem == Spec => []TypeOK
  <1>1. Init => Followed
    BY DEF Init, Followed
  <1>2. Followed /\ [Next]_vars => Followed'
    BY PartSteps DEF Followed
  <1>3. Spec => []Followed
    BY <1>1, <1>2, PTL DEF Spec
  <1>4. ASSUME Followed, TurnType, StreamType, BusType, RegistryType, SandboxType, SpacesType
        PROVE  TypeOK
    BY <1>4 DEF Followed, TypeOK
  <1> QED
    BY <1>3, <1>4, PartsTheorem, TurnTypeTheorem, StreamTypeTheorem, BusTypeTheorem,
       RegistryTypeTheorem, SandboxTypeTheorem, SpacesTypeTheorem, PTL

\* What run replica_parts checks of the conversation (loop.go, manager.go and the
\* clients of the providers) holds of the process.
THEOREM ReplicaConversation ==
    Spec => /\ []NoSteerStranded /\ []OneResultPerCall
            /\ []OpenAIAccepts /\ []AnthropicAccepts
            /\ HistoryGrows
  BY PartsTheorem, NoSteerStrandedTheorem, OneResultPerCallTheorem, OpenAITheorem,
     AnthropicTheorem, HistoryGrowsTheorem, PTL

\* And what it checks of the events, the bus, the channels, the sandboxes and the
\* user spaces (event_hub.go, bus.go, manager.go, pool.go, userspace.go).
THEOREM ReplicaDelivery ==
    Spec => /\ []ReplayJoinsLive /\ []PostHearsTheEnd
            /\ []TakenOnceInOrder /\ []NothingVanishes
            /\ []ConnectedIsRoutable /\ []RoutedOnce
            /\ []WorkSurvives /\ []SpacesAreCurrent
  BY PartsTheorem, ReplayTheorem, PostHearsTheEndTheorem, TakenTheorem,
     NothingVanishesTheorem, ConnectedIsRoutableTheorem, RoutedOnceTheorem,
     WorkSurvivesTheorem, SpacesAreCurrentTheorem, PTL
=============================================================================
