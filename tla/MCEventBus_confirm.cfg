\* Answers get lost, deadlines pass, timestamps lag, the engine restarts.
CONSTANTS
    Owners = {u1}
    Kinds = {kernel}
    None = None
    Settings <- MCBoth
    DefaultSettings <- MCOldest2
    QueueCapacity = 2
    BatchSize = 2
    Deployments = {TRUE, FALSE}
    Faults = {"query", "lost", "slow", "schema"}
    Skew = 1
    MaxEvents = 3
    MaxMutations = 2
    MaxFaults = 1
    MaxRestarts = 1
SPECIFICATION SafetySpec
INVARIANTS ConfirmedIsFinal
CHECK_DEADLOCK FALSE
