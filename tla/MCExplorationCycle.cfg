SPECIFICATION Spec
CONSTANTS
    v1 = v1
    v2 = v2
    v3 = v3
    Version <- MCVersion
    None = None
    Budget = 3
    Cost <- MCCost
    MaxPlans = 4
INVARIANTS
    DecidesOnCurrentEvidence
    CompletedIsGreen
    WithinBudget
PROPERTIES
    EndedIsFinal
SYMMETRY MCSymmetry
