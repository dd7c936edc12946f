------------------------------ MODULE Replica -------------------------------
(***************************************************************************)
(* One process of the gateway, part by part.  These parts share no state:  *)
(* what one of them sees of another (the agent that is rebuilt under a     *)
(* turn, a subscriber that leaves, a replica that dies) is an action of    *)
(* its own module.  A behaviour therefore follows one part, and the others *)
(* rest in their initial states.                                           *)
(***************************************************************************)
EXTENDS AgentTurn, EventStream, MessageBus, ChannelRegistry, SandboxPool, UserSpaces

VARIABLE part   \* the part that this behaviour follows

Parts == {"conversation", "events", "bus", "channels", "sandbox", "spaces"}

vars == <<part, convVars, streamVars, busVars, registryVars, sandboxVars, spaceVars>>

TypeOK ==
    /\ part \in Parts
    /\ TurnType /\ StreamType /\ BusType /\ RegistryType /\ SandboxType /\ SpacesType

\* A deployment to choose is chosen for the part that has it.
Init ==
    /\ part \in Parts
    /\ TurnInit /\ StreamInit /\ BusInit /\ RegistryInit /\ SandboxInit /\ SpacesInit
    /\ part # "channels" => platform = CHOOSE p \in Platforms : TRUE
    /\ part # "sandbox" => backing = CHOOSE b \in Backings : TRUE

Conversation == part = "conversation" /\ TurnNext
                /\ UNCHANGED <<part, streamVars, busVars, registryVars, sandboxVars, spaceVars>>
Events       == part = "events" /\ StreamNext
                /\ UNCHANGED <<part, convVars, busVars, registryVars, sandboxVars, spaceVars>>
Bus          == part = "bus" /\ BusNext
                /\ UNCHANGED <<part, convVars, streamVars, registryVars, sandboxVars, spaceVars>>
Channels     == part = "channels" /\ RegistryNext
                /\ UNCHANGED <<part, convVars, streamVars, busVars, sandboxVars, spaceVars>>
Sandbox      == part = "sandbox" /\ SandboxNext
                /\ UNCHANGED <<part, convVars, streamVars, busVars, registryVars, spaceVars>>
UserSpace    == part = "spaces" /\ SpacesNext
                /\ UNCHANGED <<part, convVars, streamVars, busVars, registryVars, sandboxVars>>

Next == Conversation \/ Events \/ Bus \/ Channels \/ Sandbox \/ UserSpace

Spec == Init /\ [][Next]_vars

\* Bound of the run: a sandbox is followed to its first harm, and a conversation
\* until turns were tangled and messages lost as well; after that only
\* NoSteerStranded, which is proved, asks for anything more.  Of turns that are
\* tangled HistoryGrows does too, and one named call among them is enough for it.
StillPromised ==
    /\ harm = {}
    /\ events + unsaves <= MaxEvents
    /\ Tangled => marks \cap Losses = {} /\ nextCall <= 1
=============================================================================
