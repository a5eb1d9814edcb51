CONSTANTS
    Shell = shell
    Painters = {one}
    P = 4
    NoOne = nobody
    shell = shell
    one = one
    two = two
    nobody = nobody
SPECIFICATION Spec
INVARIANT WorkingInFrameBuffers
