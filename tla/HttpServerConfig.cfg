CONSTANTS
    Conns = {c1, c2}
    H1Fields <- MCH1Fields
    H2Fields <- MCH2Fields
    MaxCalls = 3
    MaxLayers = 1
SPECIFICATION Spec
SYMMETRY MCSymmetry
INVARIANT ConfigApplied
CHECK_DEADLOCK FALSE
