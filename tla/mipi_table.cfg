CONSTANTS
    Tables <- MCTables
    Statuses = {"finished", "error"}
SPECIFICATION PanelFairSpec
INVARIANTS PanelTypeOK PanelInOrder
PROPERTY TablePushed
CHECK_DEADLOCK FALSE
