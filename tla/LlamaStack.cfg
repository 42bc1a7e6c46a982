CONSTANTS
    MAX_S = 3
    PAGE_SIZE = 2
    RopeRows = 4
    Layers = 2
    Bits <- MCBits
    MaxCalls = 3
SPECIFICATION Spec
INVARIANTS
    OutputsAreCausal
    ValidCallsReturn
