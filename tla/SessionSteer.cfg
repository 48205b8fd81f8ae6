CONSTANTS
    U32 = 256
    Personas <- MCPersonas
    Moderator = "moderator"
    Human = "human"
    CanvasIds = {"solo", "small"}
    Home = "solo"
    Library = {"small"}
    Canvas <- Switching
    MaxSeats = 3
    Models = {"haiku"}
    Replies <- Steer
    ConsultCosts = {1}
    NodeKinds = {"open"}
    Resumed = FALSE
    Farga = TRUE
    HumanInputs <- AnyInput
    InboxCap = 1
SPECIFICATION FairSpec
INVARIANT TypeOK
INVARIANT RoundWithinCanvas
INVARIANT PromptIsolation
INVARIANT ApprovalGatesProgress
PROPERTY CloseIsFinal
PROPERTY ImplementsLifecycle
PROPERTY Termination
