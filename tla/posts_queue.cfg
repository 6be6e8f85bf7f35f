\* A scheduled post with a delete_at before another one, a fair worker, a channel that may
\* go, and one fault.
SPECIFICATION FairSpec
CONSTANTS
    w1 = w1
    w2 = w2
    o1 = o1
    c1 = c1
    c2 = c2
    NumPosts = 2
    Begins <- TwoPosts
    Doomed = {1}
    Workers = {w1}
    Operators = {}
    Conns = {c1, c2}
    MaxAttempts = 2
    MaxOrders = 1
    MaxFaults = 1
CHECK_DEADLOCK FALSE
PROPERTIES EveryDuePostSettles
