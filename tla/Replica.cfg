\* Conversation: one worker, one web turn beside it, one thread that steers.
CONSTANT Calls = {1, 3, 4}
CONSTANT Worker = t1
CONSTANT Webs = {t2}
CONSTANT Sides = {s1}
CONSTANT Threads = {t1, t2, s1}
CONSTANT Nobody = Nobody
CONSTANT MaxObjects = 3
CONSTANT MaxUnsaves = 1
CONSTANT MaxTurns = 2
CONSTANT MaxRounds = 1
CONSTANT RoundCalls = 2
CONSTANT KeptTail = 3
CONSTANT MaxEvents = 2
\* Events.
CONSTANT Turn = T
CONSTANT Others = {K}
CONSTANT Post = P
CONSTANT Page = G
CONSTANT BufferSize = 1
CONSTANT MaxEmits = 2
\* Bus.
CONSTANT Replicas = {r1, r2}
CONSTANT ChanSize = 1
CONSTANT MaxLen = 2
CONSTANT BatchSize = 2
CONSTANT MaxSent = 3
CONSTANT MaxFaults = 1
\* Channels.
CONSTANT Owners = {o1, o2}
CONSTANT Tokens = {k1, k2}
CONSTANT Platforms = {"telegram", "wechat", "line"}
CONSTANT NoRow = NoRow
CONSTANT Requests = {q1, q2}
CONSTANT MaxRequests = 3
CONSTANT MaxAdapters = 3
CONSTANT MaxPosts = 1
CONSTANT MaxRestarts = 1
\* Sandbox.
CONSTANT Backings = {"mounted", "docker", "remote"}
CONSTANT Callers = {c1, c2}
CONSTANT Sizes = {1, 2}
CONSTANT MaxWrites = 3
CONSTANT MaxBoxes = 3
CONSTANT MaxMishaps = 2
\* User spaces.
CONSTANT Users = {u1, u2}
CONSTANT AgentOwner = u1
CONSTANT Turns = {n1, n2}
CONSTANT Admins = {a1}
CONSTANT NoUser = NoUser
CONSTANT MaxSpaces = 2
CONSTANT MaxSettings = 2
CONSTANT MaxPools = 2
SPECIFICATION Spec
CONSTRAINT StillPromised
INVARIANT TypeOK
INVARIANT NoSteerStranded
INVARIANT AnthropicAccepts
INVARIANT OpenAIAccepts
INVARIANT OneResultPerCall
INVARIANT ReplayJoinsLive
INVARIANT PostHearsTheEnd
INVARIANT TakenOnceInOrder
INVARIANT NothingVanishes
INVARIANT ConnectedIsRoutable
INVARIANT RoutedOnce
INVARIANT WorkSurvives
INVARIANT SpacesAreCurrent
PROPERTY HistoryGrows
\* Every part runs into its bounds and stops there; a send on a closed channel
\* really stops the process.
CHECK_DEADLOCK FALSE
