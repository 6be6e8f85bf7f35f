\* One lead whose customer writes once more, two workers, two attempts and one fault.
SPECIFICATION FairSpec
CONSTANTS
    l1 = l1
    w1 = w1
    w2 = w2
    Leads = {l1}
    Chased <- Once
    Workers = {w1, w2}
    Attempts = 2
    MaxRetries = 1
    MaxOrders = 1
    MaxCopies = 2
    MaxFaults = 1
CHECK_DEADLOCK FALSE
INVARIANTS TypeOK CopiesAreExcused TakenOverIsLeftAlone
PROPERTIES EveryActionSettles
