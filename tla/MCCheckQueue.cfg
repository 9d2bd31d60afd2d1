CONSTANTS
    w1 = w1  w2 = w2  m = m
    c1 = c1  c2 = c2  c3 = c3  c4 = c4
    Workers <- MCWorkers
    Master = m
    Checks <- MCChecks
    nBatchSize = 2
SPECIFICATION Spec
INVARIANTS TypeOK TodoCounts ControlFindsIdle ResultCorrect NoStragglers
PROPERTY MasterReturns
