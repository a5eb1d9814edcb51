CONSTANTS
    Tables <- MCFocusTable
    Statuses = {"finished"}
SPECIFICATION PanelSpec
INVARIANT DelayAsTabled
CHECK_DEADLOCK FALSE
