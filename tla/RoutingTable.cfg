CONSTANTS
    W = 3
    Local = 0
    Counts = {1, 2, 3}
    Lats = {0, 1, 2}
    Threshold = 2
SPECIFICATION Spec
INVARIANT ClosestNReturnsEnough
INVARIANT ClosestOneFindsNode
INVARIANT BestRoutesAreFastest
