\* A quota of one check and two checks that want it; time runs out for each.
\* Two owners share the queue with room for one message, the writer and the
\* latch, with and without a database; deadlines pass, the database and the
\* writer may never answer again.
CONSTANTS
    u1 = u1
    u2 = u2
    JobIds = {j1, j2}
    Agents = {a1}
    Owners = {o1}
    None = None
    MaxJobs = 2
    MaxUserActiveChecks = 1
    UserCheckQueueTimeout = 1
    TerminalRetention = 1
    MinTimeout = 1
    MaxProbeTimeout = 1
    MaxCheckTimeout = 1
    DefaultTimeout = 1
    RequestedTimeouts <- MCDefaultOnly
    MaxClaim = 2
    MaxLag = 0
    LastSubmit = 0
    Horizon = 3
    Users = {u1, u2}
    Kinds = {kernel}
    QueueCapacity = 1
    BatchSize = 2
    Deployments = {TRUE, FALSE}
    Faults = {"query", "slow"}
    Skew = 0
    MaxEvents = 2
    MaxMutations = 1
    MaxFaults = 1
    MaxRestarts = 0
SPECIFICATION EndSpec
INVARIANTS TableSound
PROPERTIES ChecksTerminate GateIsReleased QueueDrains
CHECK_DEADLOCK FALSE
