SPECIFICATION Spec
CONSTANTS
    Texts <- MCTexts
    Keys <- MCKeys
    KeyOf <- MCKeyOf
    Alike <- MCAlike
    Vectors <- MCVectors
    Window = 2
    MaxClusters = 1
    DecayLimit = 1
    Floor = 1
    Full = 4
    Saliences = {0}
    ReadSalience = 3
    MaxEpisodes = 2
    MaxClock = 1
    MaxFactId = 4
    MaxEdges = 1
INVARIANTS
    ProvenanceSound
    NoneAlike
PROPERTIES
    ClusteringIsSound
    MergeKeepsKnowledge
    AutobiographySurvives
