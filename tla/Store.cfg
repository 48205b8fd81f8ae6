CONSTANTS
    Engines = {e1, e2}
    Work = {"w1", "w2"}
    Rounds <- MCRounds
    MaxVersion = 5
    MaxLate = 1
SYMMETRY AnyEngine
SPECIFICATION Spec
INVARIANT AcknowledgedIsKept
PROPERTY NoLostWork
PROPERTY ImplementsRegister
