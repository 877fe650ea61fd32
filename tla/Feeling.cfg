SPECIFICATION FeelingSpec
CONSTANTS
    Drives <- MCDrives
    Energy = "energy"
    Connection = "connection"
    Coherence = "coherence"
    Scale = 1
    Setpoint <- MCSetpoint
    Equilibrium <- MCEquilibrium
    Threshold <- MCThreshold
    Weight <- MCWeight
    Outcomes <- MCOutcomes
    Opinions <- MCOpinions
    Bright = 1
    Calm = 0
    Wild = 1
    MinChange = 2
    EmotionFloor = 1300
    Step = 40
    MaxAge = 2
    MaxQueue = 1
INVARIANTS
    EveryMomentCountsOnce
    TagsAreOnRecord
