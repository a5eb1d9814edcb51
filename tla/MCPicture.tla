----------------------------- MODULE MCPicture -----------------------------
(* Picture with the sizes of the code; the extreme pixels are taken from    *)
(* the corners, the edges and one place inside, the temperatures around     *)
(* the limits of the two-digit text.                                        *)
EXTENDS Picture

MCSpots == [row: {0, 1, 12, 23}, col: {0, 1, 31}]

MCTemperatures == {-50, 0, 7, 99, 100, 2537, 9999, 10000}
=============================================================================
