CONSTANTS
    t1 = t1
    t2 = t2
    Threads = {t1, t2}
    First = t1
    N = 2
    M = 2
    MaxAttempts = 2
    PowerUpModes = {"chess"}
    Writes <- MCWrites
SPECIFICATION FairSpec
INVARIANT Heals
PROPERTY KeepsDrawing
