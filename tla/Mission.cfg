CONSTANTS
    Objectives = {"A", "B"}
    Strangers = {"X"}
    Answers <- MCAnswers
    Deployable = 2
    Excess = 1
    MaxRuns = 2
SPECIFICATION FairSpec
INVARIANT ReplansBounded
INVARIANT CompleteHasEvidence
INVARIANT SatisfiedSessionsMet
INVARIANT ReplanIsInformed
INVARIANT WithinDeployable
PROPERTY RunEnds
