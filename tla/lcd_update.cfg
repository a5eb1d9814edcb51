CONSTANTS
    Shell = shell
    Painters = {one, two}
    P = 4
    NoOne = nobody
    shell = shell
    one = one
    two = two
    nobody = nobody
SPECIFICATION FairSpec
INVARIANTS ListIsExact 
PROPERTIES HaltsOnOverlap UpdateReturns
