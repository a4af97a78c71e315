SPECIFICATION Spec
CONSTANTS
    Glyph = {a}
    Blank = Blank
    Sizes <- MCSizes
    Count = {0, 1, 2, 3}
    Cases <- MCCases
    Drift = 4
INVARIANTS
    TypeOK
    EditsInLine
    ScrollsRegion
PROPERTIES
    StaysInside
    HistoryKeeps
CHECK_DEADLOCK FALSE
