SPECIFICATION FairSpec
CONSTANTS
    EveryTicks = 0
    MaxDegraded = 1
PROPERTY
    NeverWedgedAsleep
