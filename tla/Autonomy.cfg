SPECIFICATION FairSpec
CONSTANTS
    curiosity = curiosity
    mastery = mastery
    connection = connection
    boredom = boredom
    NoOne = NoOne
    Drives <- MCDrives
    ToolDrives <- MCToolDrives
    CodeDrives <- MCCodeDrives
    WebReadDrives <- MCWebReadDrives
    RecallDrives <- MCRecallDrives
    ReviewDrives <- MCReviewDrives
    Cadence = 1
INVARIANTS
    OneActiveGoal
    EasedIsNotPursued
PROPERTIES
    RunsOnlyWithConsent
    EasedOnlyIfEarned
    ClosedByToolIsLogged
    PursuitEnds
