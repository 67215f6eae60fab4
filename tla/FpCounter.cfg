CONSTANTS
    Req = {r1, r2, r3, r4, r5}
    W = 2
    PathVals = {1, 4}
SPECIFICATION Spec
INVARIANT AnswersDistinct
SYMMETRY MCSymmetry
CHECK_DEADLOCK FALSE
