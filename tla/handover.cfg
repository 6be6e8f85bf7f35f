SPECIFICATION FairSpec
CONSTANTS
    o1 = o1
    s1 = s1
    Platforms = {"whatsapp", "instagram"}
    Operators = {o1}
    Sweepers = {s1}
    Threshold = 1
    MaxMessages = 2
    MaxOrders = 2
    MaxFaults = 1
CHECK_DEADLOCK FALSE
INVARIANTS TypeOK BackToTheAiIsClean PersonKeepsThread
PROPERTY EveryMuteEnds
