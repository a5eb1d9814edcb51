---------------------------- MODULE MCLcdUpdate ----------------------------
(* LcdUpdate with the shell and one or two instances of thread1.           *)
EXTENDS LcdUpdate

CONSTANTS shell, one, two, nobody
=============================================================================
