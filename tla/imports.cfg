\* One review, a poll beside two tasks of the import workers, two requests, one fault.
SPECIFICATION FairImportSpec
CONSTANTS
    r1 = r1
    w1 = w1
    i1 = i1
    i2 = i2
    Reviews = {r1}
    Pollers = {w1}
    Clerks = {}
    Importers = {i1, i2}
    AutoPilot = TRUE
    AutoFollow = TRUE
    MaxChanges = 1
    MaxOrders = 2
    MaxFaults = 1
CHECK_DEADLOCK FALSE
INVARIANTS ImportTypeOK DraftsWereAsked
PROPERTIES EveryImportSettles
