CONSTANTS
    Ids <- IdsMC
    Addrs <- IdsMC
    Lats = {0, 1}
    Values = {v1}
    Source = 0
    Dist <- DistMC
    Lat <- LatMC
    K = 3
    Iterations = 3
    ALPHA = 2
SPECIFICATION Spec
INVARIANT TypeOK
INVARIANT NoRouteReturnedTwice
