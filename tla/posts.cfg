\* One post with a delete_at, two workers, one request and two faults; a failed pass parks it.
SPECIFICATION Spec
CONSTANTS
    w1 = w1
    w2 = w2
    o1 = o1
    c1 = c1
    c2 = c2
    NumPosts = 1
    Begins <- OnePost
    Doomed = {1}
    Workers = {w1, w2}
    Operators = {o1}
    Conns = {c1, c2}
    MaxAttempts = 1
    MaxOrders = 1
    MaxFaults = 2
CHECK_DEADLOCK FALSE
SYMMETRY Slots
INVARIANTS TypeOK OneCallAtATime CopiesAreExcused UnpublishedIsNotOnGoogle
