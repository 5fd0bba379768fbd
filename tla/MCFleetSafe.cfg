\* Two jobs for an agent with one slot: an abandoned claim is served late, next
\* to the agent's new one.  Two agents and one job whose lease expires under
\* the agent that works.
CONSTANTS
    JobIds = {j1, j2}
    Agents = {a1, a2}
    Owners = {}
    OneAgent = a1
    OneJob = j1
    None = None
    MaxJobs = 2
    MaxUserActiveChecks = 2
    UserCheckQueueTimeout = 2
    TerminalRetention = 9
    MinTimeout = 0
    MaxProbeTimeout = 0
    MaxCheckTimeout = 1
    DefaultTimeout = 0
    RequestedTimeouts <- MCDefaultOnly
    MaxClaim = 1
    MaxLag = 0
    LastSubmit = 0
    Horizon = 1
    MaxConcurrent <- MCOneSlot
    Compilers = {}
    HeartbeatTtl = 9
    AgentRetention = 9
    MaxRegisteredAgents = 2
    MaxCredentials = 2
    MaxFaults = 1
    LastFault = 0
    MaxRestarts = 0
SPECIFICATION EitherSpec
INVARIANTS AgentCapacity RunsOnceOnItsLease
CHECK_DEADLOCK FALSE
