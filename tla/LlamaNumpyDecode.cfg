CONSTANTS
    MAX_S = 2
    PAGE_SIZE = 2
    RopeRows = 3
    Layers = 2
    Bits <- MCBits
    MaxCalls = 2
SPECIFICATION Spec
INVARIANTS
    DecodeContinuesPrefill
