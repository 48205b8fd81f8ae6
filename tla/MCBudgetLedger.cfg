CONSTANTS
    U32 = 8
    Allocation <- MCAllocation
    Costs <- MCCosts
    Deltas <- MCDeltas
SPECIFICATION Spec
INVARIANT TypeOK
PROPERTY SpentWithinTotal
PROPERTY StaysSolvent
