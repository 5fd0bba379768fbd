\* Three connections over three channels, a receiver that keeps two messages.
\* One owner under both policies, with and without a database: writer,
\* mutations, cancelled publishers, storage errors and a restart.
CONSTANTS
    Connections = {c1, c2, c3}
    NoChannel = NoChannel
    Capacity = 2
    MaxLooked = 4
    MaxChannels = 3
    Owners = {u1}
    Kinds = {kernel, platform}
    QueueCapacity = 2
    BatchSize = 2
    None = None
    Settings <- MCSettings
    DefaultSettings <- MCOldest2
    MaxEvents = 3
    Deployments = {TRUE, FALSE}
    Faults = {"query"}
    Skew = 0
    MaxMutations = 2
    MaxFaults = 1
    MaxRestarts = 1
SYMMETRY MCSymmetry
SPECIFICATION ServiceSpec
INVARIANTS ChannelsFitStreams NoSilentGap AdmissionIsExact TableFollowsHistory UnreadCountIsRight SettingsInForce
CHECK_DEADLOCK FALSE
