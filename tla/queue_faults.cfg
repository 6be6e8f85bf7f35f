\* Crashes, lost sessions, lost replies and late cancels; leases outlive the work.
SPECIFICATION Spec
CONSTANTS
    j1 = j1
    j2 = j2
    w1 = w1
    w2 = w2
    Jobs = {j1, j2}
    Workers = {w1, w2}
    Operators = {o1}
    NoJob = NoJob
    Nobody = Nobody
    KindsOf <- PostAndAnother
    Paced = {j1}
    Scheduled = {j1}
    Deadlined = {j1}
    Legacy = {j2}
    MaxAttempts = 2
    Overrun = FALSE
    MaxFaults = 2
    MaxDefers = 1
    MaxReplays = 0
SYMMETRY Slots
INVARIANTS
    TypeOK
    Exclusive
PROPERTY
    ContractKept
CHECK_DEADLOCK FALSE
