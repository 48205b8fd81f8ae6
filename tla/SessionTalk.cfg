CONSTANTS
    U32 = 256
    Personas <- MCPersonas
    Moderator = "moderator"
    Human = "human"
    CanvasIds = {"pair"}
    Home = "pair"
    Library = {}
    Canvas <- Poor
    MaxSeats = 3
    Models = {"haiku"}
    Replies <- Converse
    ConsultCosts = {1, 2}
    NodeKinds = {"frontier"}
    Resumed = TRUE
    Farga = TRUE
    HumanInputs <- NoInput
    InboxCap = 1
SPECIFICATION Spec
INVARIANT WindowIsRecent
INVARIANT TurnsCounted
INVARIANT WhispersTimely
INVARIANT ScopeIsFresh
INVARIANT SpokenInOrder
INVARIANT ExtractedTurnsPaid
PROPERTY ImplementsLedger
