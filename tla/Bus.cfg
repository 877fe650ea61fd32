SPECIFICATION FairSpec
CONSTANTS
    onThought = onThought  onAll = onAll
    thought = thought  reflex = reflex  socket = socket
    Agents <- MCAgents
    Types <- MCTypes
    SubscribesTo <- MCSubscribesTo
    Emissions <- MCEmissions
    MaxHops = 1
    Clients <- MCClients
    Wanted <- MCWanted
    Limit <- MCLimit
    MaxBroadcasts = 2
INVARIANTS
    ChainsAreShort
    NeverBackwards
PROPERTIES
    BrokenReflexStopsNothing
