\* Two agents and a registry with room for one: an agent that fell silent is
\* pruned, and its secret with it, while it registers again.  One agent; a
\* claim, its answer or a registration is lost: the probe is served in the end.
CONSTANTS
    JobIds = {}
    Agents = {a1, a2}
    Owners = {u1}
    OneJobs = {j1}
    OneAgents = {a1}
    OneOwners = {u1}
    None = None
    MaxJobs = 1
    OneMaxJobs = 2
    MaxUserActiveChecks = 1
    OneMaxChecks = 2
    UserCheckQueueTimeout = 2
    TerminalRetention = 1
    OneRetention = 9
    MinTimeout = 1
    MaxProbeTimeout = 1
    MaxCheckTimeout = 1
    DefaultTimeout = 1
    RequestedTimeouts <- MCDefaultOnly
    MaxClaim = 1
    MaxLag = 0
    LastSubmit = 0
    Horizon = 2
    OneHorizon = 3
    MaxConcurrent <- MCOneSlot
    Compilers = {}
    HeartbeatTtl = 0
    AgentRetention = 0
    OneHeartbeatTtl = 9
    OneAgentRetention = 9
    MaxRegisteredAgents = 1
    MaxCredentials = 1
    OneRegistered = 2
    OneCredentials = 2
    MaxFaults = 0
    OneFaults = 1
    LastFault = 0
    MaxRestarts = 0
SPECIFICATION EitherSpec
INVARIANTS IssueNeverRefused
PROPERTIES OneServesProbes EveryRegistrationSettles
CHECK_DEADLOCK FALSE
