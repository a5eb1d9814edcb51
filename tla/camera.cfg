CONSTANTS
    t1 = t1
    t2 = t2
    Threads = {t1}
    First = t1
    N = 3
    M = 3
    MaxAttempts = 5
    PowerUpModes = {"chess", "interleaved"}
    Writes <- MCWrites
SPECIFICATION Spec
INVARIANTS BootedFirst Heals
