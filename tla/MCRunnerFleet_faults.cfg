\* One agent and one job.  A lost or late request or answer, a crash or a
\* drain at any point of the protocol; the engine forgets everything while the
\* agent works; heartbeats and registrations go out of date.
CONSTANTS
    JobIds = {j1}
    Agents = {a1}
    Owners = {u1}
    None = None
    MaxJobs = 2
    MaxUserActiveChecks = 2
    UserCheckQueueTimeout = 2
    TerminalRetention = 9
    MinTimeout = 1
    MaxProbeTimeout = 1
    MaxCheckTimeout = 1
    DefaultTimeout = 1
    RequestedTimeouts <- MCDefaultOnly
    MaxClaim = 1
    MaxLag = 0
    LastSubmit = 0
    Horizon = 2
    MaxConcurrent <- MCOneSlot
    Compilers = {a1}
    HeartbeatTtl = 1
    AgentRetention = 1
    MaxRegisteredAgents = 2
    MaxCredentials = 2
    MaxFaults = 1
    LastFault = 1
    MaxRestarts = 1
SPECIFICATION FleetSafety
INVARIANTS FleetTypeOK EndedMeansStopped NoFatalExit
PROPERTIES KeepsPromise
CHECK_DEADLOCK FALSE
