\* One document, two jobs of any kind, a loop and a slot, two runs of a queued job, one
\* fault.  A system with nothing left to do stops.
SPECIFICATION FairSpec
CONSTANTS
    d1 = d1
    j1 = j1
    j2 = j2
    l1 = l1
    s1 = s1
    Docs = {d1}
    Jobs = {j1, j2}
    Loops = {l1}
    Slots = {s1}
    NoDoc = NoDoc
    NoJob = NoJob
    MaxAttempts = 2
    MaxFaults = 1
INVARIANTS
    TypeOK
    CompletedIsSearchable
PROPERTY
    EveryIngestSettles
CHECK_DEADLOCK FALSE
