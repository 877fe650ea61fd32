SPECIFICATION FairSpec
CONSTANTS
    m1 = m1  m2 = m2  m3 = m3
    w1 = w1  w2 = w2
    r1 = r1  r2 = r2
    Nothing = Nothing
    Messages <- MCMessages
    Wakeups <- OneWakeup
    Requests <- MCRequests
    Batch = 2
    MaxDepth = 1
INVARIANTS
    AtMostOnce
    WebDepthBounded
PROPERTIES
    InputsAreFifo
    NothingStarves
