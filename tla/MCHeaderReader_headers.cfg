\* Files up to 76 bytes: two pairs, arrays nested three deep, counts whose
\* payloads end within the file, behind it, and beyond 64 bits.
SPECIFICATION HeaderSpec
CONSTANTS
    Heads <- MCHeads
    Lengths = {3, 8, 23, 28, 40, 61, 76}
    Counts = {0, 1, 2, 3, 33, 255}
    StringLens = {0, 2, 3}
    Types = {0, 3, 5, 8, 9, 12, 13}
    MaxKv = 2
    MaxString = 2
    MaxSkip = 2
    MaxU64 = 255
    MaxSeek = 127
INVARIANTS InStep AcceptedInside DetectorAgrees
CHECK_DEADLOCK FALSE
