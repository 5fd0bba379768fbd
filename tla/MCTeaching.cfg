\* Two jobs, two agents, operations that reach the table out of order.
\* Three of two attempts, two comments and a query; one restart of the engine.
CONSTANTS
    JobIds = {j1, j2}
    Agents = {a1, a2}
    Owners = {u1}
    None = None
    MaxJobs = 1
    MaxUserActiveChecks = 2
    UserCheckQueueTimeout = 1
    TerminalRetention = 1
    MinTimeout = 1
    MaxProbeTimeout = 2
    MaxCheckTimeout = 1
    DefaultTimeout = 1
    RequestedTimeouts <- MCRequestedTimeouts
    MaxClaim = 2
    MaxLag = 1
    LastSubmit = 2
    Horizon = 4
    Records = {t1, t2}
    Reviews = {v1, v2}
    Reads = {r1}
    Absent = Absent
    HasPool = TRUE
    MaxRevision = 2
    MaxRestarts = 1
SYMMETRY MCSymmetry
SPECIFICATION TeachSpec
INVARIANTS TableSound SlotsFreedInTime LearnSound ReadsAreCurrent
PROPERTIES LifeCycle RowsOnlyGrow
CHECK_DEADLOCK FALSE
