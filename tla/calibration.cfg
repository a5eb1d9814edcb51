CONSTANTS
    Rows = 4
    Cols = 4
    Eeproms <- MCEeproms
SPECIFICATION FairSpec
CHECK_DEADLOCK FALSE
INVARIANTS TypeOK OffsetExact AlphaCompensated CoefficientsAccurate
PROPERTY ExtractionEnds
