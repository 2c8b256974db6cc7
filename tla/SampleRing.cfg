CONSTANTS
    Capacity = 4
    WordMod = 8
    MaxChunk = 3
    MaxFrames = 13
    Readers = {r1, r2}
    NoReader = NoReader
SYMMETRY Symmetry
SPECIFICATION Spec
INVARIANTS
    TypeOK
    CleanFramesAreTheWindow
    LappedFramesAreLater
PROPERTIES
    ReadsAreHistory
