\* One message, two relays, a consumer, two faults: no event waits for ever.
SPECIFICATION FairSpec
CONSTANTS
    r1 = r1
    r2 = r2
    c1 = c1
    c2 = c2
    NumMsgs = 1
    Relays = {r1, r2}
    Consumers = {c1}
    MaxParts = 1
    MaxAttempts = 2
    MaxFaults = 2
\* The system rests when every message has its outcome.
CHECK_DEADLOCK FALSE
INVARIANT PublishedIsInFlight
PROPERTY EveryEventSettles
