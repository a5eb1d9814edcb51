-------------------------- MODULE MCCameraPipeline --------------------------
(* CameraPipeline with one auxiliary word and one or two pixels, numbers 0 *)
(* and 1 of the array: in the chess pattern they belong to subpages 0 and  *)
(* 1, in the interleaved one both to subpage 0.                            *)
EXTENDS CameraPipeline

CONSTANTS t1, t2

MCPixels(m, s) ==
    IF m = "chess" THEN {s + 1} ELSE IF s = 0 THEN {1, 2} ELSE {}

MCWrites ==
    [m \in {"chess", "interleaved"} |-> [s \in {0, 1} |->
        {N} \cup (MCPixels(m, s) \cap 1 .. N - 1)]]
=============================================================================
