CONSTANTS
    o1 = o1  o2 = o2  o3 = o3  o4 = o4  o5 = o5  a = a  b = b
    Objects = {o1, o2, o3, o4, o5}
    Cap = 2
    ObjectsOf <- MCObjectsOf
    CapOf <- MCCapOf
    None = None
    Sizes = {1, 2, 3, 5}
    K_DIVISOR = 4  K_MAX = 64
    UNIT = 4  WASTE_RATE = 1  BURST = 12
    S_DIVISOR = 1  FREQ_MAX = 2  S_PROMOTE_MIN_FREQ = 1  SLACK = 0
    Rtt = 1  Transfer = 2  Gaps = {0, 1, 3}  MaxBacklog = 4
    SweepObjects <- MCSweepObjects
    Rank <- MCRank
    Extents = {{0}, {1}, {0, 1}}
    SweepCap = 2
    MaxEvents = 5
    TopK = 2  MaxContexts = 3  MaxSuccessors = 2  Window = 2
SPECIFICATION MCSpec
SYMMETRY MCSymmetry
INVARIANTS HeldIsCounted LfuCounted LinkConserves OptIsCeiling WritesReachBlocks ModelsAreTrue
PROPERTIES ArcPromise EagerSpec
