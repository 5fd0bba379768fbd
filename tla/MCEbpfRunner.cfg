\* Two runs and somebody who keeps clicking "Detach All"; nothing fails.
CONSTANTS
    Runs = {r1, r2}
    Detaches = {d1}
    Users = {u1}
    UserOf <- MCOneUser
    NoPath = NoPath
    MaxConcurrent = 2
    MaxPerUser = 2
    MaxFaults = 0
SPECIFICATION PatientSpec
PROPERTIES DetachAllEmptiesList
CHECK_DEADLOCK FALSE
