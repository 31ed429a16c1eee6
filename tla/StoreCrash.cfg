\* Three results of 4 bytes, caps of 8 (where eviction aims at 7) and 30, one reader, any crashes.
CONSTANTS
    r1 = r1
    r2 = r2
    r3 = r3
    Results = {r1, r2, r3}
    Size <- MCSize
    Caps = {8, 30}
    c1 = c1
    Readers = {c1}
    NoResult = NoResult
    MaxUses = 4
SPECIFICATION Spec
INVARIANTS
    PublishedIsDurable
    PinnedIsKept
PROPERTIES
    EvictionSuffices
SYMMETRY Symmetry
