\* Overruns, replays and two faults on one job of any family, under fair runners,
\* reaper and clock.
SPECIFICATION FairSpec
CONSTANTS
    j1 = j1
    j2 = j2
    w1 = w1
    w2 = w2
    Jobs = {j1}
    Workers = {w1, w2}
    Operators = {o1}
    NoJob = NoJob
    Nobody = Nobody
    KindsOf <- AnyFamily
    Paced = {}
    Scheduled = {}
    Deadlined = {}
    Legacy = {}
    MaxAttempts = 2
    Overrun = TRUE
    MaxFaults = 2
    MaxDefers = 0
    MaxReplays = 1
CHECK_DEADLOCK FALSE
INVARIANTS
    RunningIsLeased
    DuplicatesAreBounded
PROPERTIES
    EveryJobSettles
