SPECIFICATION FairFocusSpec
CONSTANTS
    Percepts <- MCPercepts
    Memories <- MCMemories
    RecallK = 2
    Ceiling = 2
    Slots <- MCSlots
    Top = 3
    Fade <- MCFade
    Floor = 1
    Capacity = 1
    Width = 2
    Novelty <- MCNovelty
    Horizon = 2
    Biases <- MCBiases
    MaxBatch = 2
    MaxFailures = 2
INVARIANTS
    WorkingSetHolds
PROPERTIES
    EverythingFades
