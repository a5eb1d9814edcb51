CONSTANTS
    Transfers <- MCTransfers
    MaxLen = 3
    UIntModulus = 4
    ByteModulus = 3
SPECIFICATION FairSpec
INVARIANTS TypeOK BusConforms QuietOnReturn ReadIsExact NoOverrun
PROPERTY TransferReturns
