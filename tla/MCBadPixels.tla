---------------------------- MODULE MCBadPixels ----------------------------
(* An instance of BadPixels with lists of three entries: every placement   *)
(* of up to three deviating pixels, and of four among the first eight.     *)
EXTENDS BadPixels, FiniteSetsExt

MCPlacements == UNION {kSubset(n, Pixels) : n \in 0 .. 3} \cup kSubset(4, 0 .. 7)

MCEeproms ==
    UNION {{[p \in Pixels |-> IF p \in b THEN "broken"
                              ELSE IF p \in d THEN "outlier" ELSE "good"] : b \in SUBSET d} :
           d \in MCPlacements}
=============================================================================
