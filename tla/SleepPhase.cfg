SPECIFICATION FairSpec
CONSTANTS
    EveryTicks = 2
    MaxDegraded = 1
INVARIANTS
    AgencyFollowsVerdict
    AsleepOnlyWithOpenRow
PROPERTIES
    TiredComesToRest
    AsleepFrameIsRetracted
