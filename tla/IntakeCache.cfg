SPECIFICATION Spec
CONSTANTS
    Intakes = {i1}
    Readers = {r1}
    MaxVersion = 2
    MaxEpoch = 2
    Nobody = nobody
INVARIANTS
    CacheIsFresh
