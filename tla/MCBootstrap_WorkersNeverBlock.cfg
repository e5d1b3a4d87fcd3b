CONSTANTS
    Peers = {1, 2, 3}
    Local = 0
    Boot <- Boot1MC
    Dist <- DistMC
    K = 3
    Alive = {1, 2, 3}
    Nbrs <- NbrsMC
    Listener = listener
    Sweeper = sweeper
    WriteErrors = FALSE
    Timely = TRUE
SPECIFICATION Spec
PROPERTY WorkersNeverBlock
CHECK_DEADLOCK FALSE
