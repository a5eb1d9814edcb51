-------------------------- MODULE MCMlx90640Frame --------------------------
(* Mlx90640Frame with three RAM words: one of each subpage and one, like   *)
(* the ambient-temperature words, that each measurement rewrites.          *)
EXTENDS Mlx90640Frame

CONSTANTS ctl, junk, none

MCSubpageWords == [s \in {0, 1} |-> IF s = 0 THEN {1, 3} ELSE {2, 3}]
=============================================================================
