CONSTANTS
    NodeKinds = {"frontier", "open"}
    Seats <- MCSeats
    MaxRounds = 2
    Loaded <- MCLoaded
    Replies <- OnEdges
    Extractions <- MCExtractions
    Scopes <- MCScopes
SPECIFICATION Spec
INVARIANT EdgePrecedence
