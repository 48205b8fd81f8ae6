CONSTANTS
    U32 = 256
    Personas <- MCPersonas
    Moderator = "moderator"
    Human = "human"
    CanvasIds = {"pair"}
    Home = "pair"
    Library = {}
    Canvas <- Rich
    MaxSeats = 3
    Models = {"haiku"}
    Replies <- Converse
    ConsultCosts = {1}
    NodeKinds = {"frontier"}
    Resumed = FALSE
    Farga = FALSE
    HumanInputs <- NoInput
    InboxCap = 1
SPECIFICATION Spec
INVARIANT ClosesAfterMinimum
