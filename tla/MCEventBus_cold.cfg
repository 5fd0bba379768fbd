\* The tables cannot be created when settings are first loaded.
CONSTANTS
    Owners = {u1}
    Kinds = {kernel}
    None = None
    Settings <- MCNews
    DefaultSettings <- MCOldest2
    QueueCapacity = 2
    BatchSize = 2
    Deployments = {TRUE}
    Faults = {"schema"}
    Skew = 0
    MaxEvents = 2
    MaxMutations = 0
    MaxFaults = 1
    MaxRestarts = 1
SPECIFICATION SafetySpec
PROPERTIES ColdDropNewIsChecked
CHECK_DEADLOCK FALSE
