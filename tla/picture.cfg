CONSTANTS
    SRC_WIDTH = 32
    SRC_HEIGHT = 24
    DEST_WIDTH = 320
    DEST_HEIGHT = 240
    Spots <- MCSpots
    Temperatures <- MCTemperatures
SPECIFICATION Spec
INVARIANTS DrawsOnScreen CrossInImage EdgesWeighNothing MarksInPlace NumbersAreRight
