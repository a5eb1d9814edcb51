CONSTANTS
    N = 3
    M = 3
    ControlReg = ctl
    Garbage = junk
    SubpageWords <- MCSubpageWords
    NoImage = none
    ctl = ctl
    junk = junk
    none = none
SPECIFICATION FairSpec
INVARIANTS TypeOK NoTornFrame
PROPERTIES MailboxSpec CallReturns
