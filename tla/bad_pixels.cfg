SPECIFICATION Spec
CONSTANTS
    Width = 6
    Height = 3
    ListSize = 3
    NoPixel = NoPixel
    Eeproms <- MCEeproms
INVARIANTS
    TypeOK
    ListsExact
    DeviatingApart
    ImageIsClean
    OneSubpage
    AstrayOnlyOnOutliers
CHECK_DEADLOCK FALSE
