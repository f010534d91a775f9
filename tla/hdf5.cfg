\* The parts of the HDF5 library, one after the other.
SPECIFICATION Hdf5Spec
CONSTANTS
    OneOrder <- MCOneOrder
    OnePerChunk <- MCOnePerChunk
    OneTiles <- MCOneTiles
    OneFrames <- MCOneFrames
    TwoOrder <- MCTwoOrder
    TwoPerChunk <- MCTwoPerChunk
    TwoTiles <- MCTwoTiles
    TwoFrames <- MCTwoFrames
    Uses1 <- MCUses
    Layouts1 <- MCLayouts
    Builds1 <- MCBuilds
    Alphabets1 <- MCAlphabets
    Params <- MCParams
    Filtered <- MCFiltered
    ByteBits = 4
    Wanted = {0, 2, 3, 18, 40}
    ArrayEnd = 10
    Shapes <- SmallShapes
    AddrSize = 8
    ChunkBytes = 2
    Coords = {c1, c2}
    CountLimit = 3
    Lengths = {2, 3}
    MaxAddr <- SmallBound
INVARIANTS
    FiltersFaithful
    IndexesExact
PROPERTIES
    StreamExact
    EventuallySeen
    TreeFaithful
    ChunksFaithful
    IndexIsMap
