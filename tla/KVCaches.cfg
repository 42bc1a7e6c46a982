SPECIFICATION MCSpec
CONSTANTS
    B = 2
    MAX_S = 3
    Hq = 4
    Hkv = 2
    PAGE_SIZE = 2
    group_size = 2
    HeadDim64 = 2
    HeadDim128 = 3
    Dims = {2, 3}
    Tables <- MCTables
    PositionArrays <- MCPositionArrays
    LengthArrays <- MCLengthArrays
    Patterns <- MCPatterns
    MaxSteps = 2
PROPERTY ImplementsKVCache
