\* One review, a poll after the other, two changes at Google, two requests, two faults.
SPECIFICATION FairSpec
CONSTANTS
    r1 = r1
    r2 = r2
    w1 = w1
    m1 = m1
    Reviews = {r1}
    Pollers = {w1}
    Clerks = {m1}
    AutoPilot = TRUE
    AutoFollow = TRUE
    MaxChanges = 2
    MaxOrders = 2
    MaxFaults = 2
CHECK_DEADLOCK FALSE
INVARIANTS TypeOK
PROPERTIES OwnersAnswerStands EveryReviewSettles
