CONSTANTS
    NodeKinds = {"frontier", "open"}
    Seats <- MCSeats
    MaxRounds = 2
    Loaded <- MCLoaded
    Replies <- Conflicting
    Extractions <- MCExtractions
    Scopes <- MCScopes
SPECIFICATION Spec
INVARIANT LayersByType
INVARIANT ModeratorPrevails
INVARIANT OpsAttributed
INVARIANT ContextAsSummarised
INVARIANT FrontierShown
INVARIANT ContextIsOneHop
PROPERTY GraphGrows
PROPERTY AsSummarised
