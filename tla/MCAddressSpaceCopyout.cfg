SPECIFICATION Spec
CONSTANTS
    Spaces = {s1, s2}
    NFrames = 3
    NPages = 2
    Values = {zero, one}
    ZERO = zero
    REF_MAX = 3
    Buffers = {2}
    Observed = {1, 2}
    MaxCalls = 2
    NIL = NIL
PROPERTY
    MemoryIsPrivate
SYMMETRY Symmetry
