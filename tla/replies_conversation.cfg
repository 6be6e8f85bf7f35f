\* Two messages of a conversation, two consumers, one fault.
SPECIFICATION Spec
CONSTANTS
    r1 = r1
    r2 = r2
    c1 = c1
    c2 = c2
    NumMsgs = 2
    Relays = {r1}
    Consumers = {c1, c2}
    MaxParts = 2
    MaxAttempts = 2
    MaxFaults = 1
SYMMETRY Replicas
\* The system rests when every message has its outcome.
CHECK_DEADLOCK FALSE
INVARIANTS TypeOK AgainOnlyAfterLoss SentIsSettled
