CONSTANTS
    a = a
    b = b
    c = c
    Local = L
    Remote = {a, b, c}
    Closest <- ClosestMC
    Listeners = {l1, l2}
    Sweeper = sweeper
    Lossy = TRUE
    WriteErrors = TRUE
    None = None
SPECIFICATION Spec
INVARIANT TypeOK
INVARIANT SuccessMeansStored
INVARIANT SuccessAtMostOnce
PROPERTY EventuallyCalledBack
