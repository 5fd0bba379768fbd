\* Three attempts on two uploads; foreign processes touch the files thrice.
\* Two runs and somebody who detaches; one dropped request, error or restart.
CONSTANTS
    u1 = u1
    u2 = u2
    v1 = v1
    o1 = o1
    Uploads = {u1, u2}
    Version <- MCVersion
    Owner <- MCOwner
    Size <- MCSize
    Roots = {r1, r2}
    Attempts = {a1, a2, a3}
    Controls = 2
    Workers = 1
    Limits <- MCLimits
    MaxEntries = 2
    MaxPublications = 1
    MaxTouches = 3
    Runs = {p1, p2}
    Detaches = {d1}
    NoPath = NoPath
    Users = {o1}
    UserOf <- MCUserOf
    MaxConcurrent = 2
    MaxPerUser = 2
    MaxFaults = 1
SPECIFICATION HostSpec
CONSTRAINT Bound
SYMMETRY Symmetric
INVARIANTS UploadSound ReceiptsHold KernelSound CleanMeansGone
CHECK_DEADLOCK FALSE
