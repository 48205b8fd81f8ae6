CONSTANTS
    Engines = {e1, e2}
    Work = {"w1", "w2"}
    Rounds <- MCRounds
    MaxVersion = 5
    MaxLate = 1
SPECIFICATION Spec
PROPERTY ContinuesPriorGraph
