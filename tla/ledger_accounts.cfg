\* A stream and a voice unit, two callers, two reapers, an operator and one key; one
\* fault.  The replicas are not symmetric here, for the run checks a liveness property.
SPECIFICATION FairSpec
CONSTANTS
    c1 = c1
    c2 = c2
    p1 = p1
    p2 = p2
    r1 = r1
    r2 = r2
    Calls = {c1, c2}
    Kind <- StreamAndVoice
    NoCall = NoCall
    Callers = {p1, p2}
    Reapers = {r1, r2}
    Operators = {o1}
    Keys = {k1}
    NoKey = NoKey
    ReserveCents = 2
    Costs = {1, 3}
    Legacy = 3
    Bonus = 1
    Included <- ProBundle
    MaxPosted = 1
    MaxFaults = 1
INVARIANTS
    TypeOK
    ChargedForWork
    OverdraftIsOverage
    UnpaidIsLoss
PROPERTIES
    LedgerExplainsWallet
    SettledIsFinal
    EveryHoldSettles
