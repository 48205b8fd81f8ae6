CONSTANTS
    U32 = 64
    Configs <- MCConfigs
    Scores <- MCScores
    Involved <- MCInvolved
    Bases <- MCBases
    Totals = {5, 20}
    Tokens = {2, 7}
    Rosters <- MCRosters
    Envelopes <- MCEnvelopes
    MaxMoves = 2
SPECIFICATION Spec
INVARIANT FloorsReachRooms
INVARIANT RiskMonotone
INVARIANT ProjectsSeatedOnce
INVARIANT FundedPrimary
INVARIANT PoolsNearTotal
INVARIANT ShortfallSuffices
