---------------------------- MODULE MCMipiTable ----------------------------
(* MipiTable with every table of up to four entries made of two commands   *)
(* and a delay; or with the shape of g_lcd_init_focuslcd: a long write,    *)
(* Sleep Out, the delay of 120 ms and Display On.                          *)
EXTENDS MipiTable

LongWrite == [cmd_id |-> "LONG_WRITE", size |-> 6]
ShortWrite == [cmd_id |-> "SHORT_WRITE", size |-> 2]
Pause == [cmd_id |-> "DELAY_FLAG", size |-> 120]

MCTables == UNION {[1 .. n -> {LongWrite, ShortWrite, Pause}] : n \in 1 .. 4}

MCFocusTable == {<<LongWrite, ShortWrite, Pause, ShortWrite>>}
=============================================================================
