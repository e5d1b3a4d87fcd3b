CONSTANTS
    Peers = {1, 2, 3}
    Local = 0
    Vals = {v1, v2}
    Dist <- DistMC
    K = 4
    ALPHA = 2
    Holders = {3}
    Alive = {1, 2, 3}
    Nbrs <- NbrsMC
    Tables0 = {{1, 3}}
    Listeners = {l1, l2}
    ListenerOf <- ListenerOf2MC
    Sweeper = sweeper
    Lossy = FALSE
    Timely = TRUE
    l1 = l1
    l2 = l2
SPECIFICATION Spec
INVARIANT NotFoundMeansNoValue
