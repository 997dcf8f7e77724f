\* Every topology and one unknown, up to 5 partitions, numbers of edges on both sides of
\* the largest a vid_t holds.
SPECIFICATION Spec
CONSTANTS
    Topos = {1, 2, 3, 4, 5, 11, 22, 33, 44}
    MaxParts = 5
    Comp <- MCComp
    Comm <- MCComm
    VertexCounts = {4, 7}
    EdgeCounts = {0, 3, 8, 19}
    VidRange = 16
    NaN = NaN
INVARIANTS Normalised CapacitiesSuffice
