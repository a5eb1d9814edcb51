------------------------------ MODULE MCSciI2c ------------------------------
(* SciI2c with the transfers MLX90640_API.c makes, their data shortened: a *)
(* burst, of which the read of one register is the shortest case, and the  *)
(* write of one register.                                                  *)
EXTENDS SciI2c

MCTransfers == {
    << [read |-> FALSE, len |-> 1, noStop |-> TRUE],
       [read |-> TRUE, len |-> 3, noStop |-> FALSE] >>,
    << [read |-> FALSE, len |-> 2, noStop |-> FALSE] >> }
=============================================================================
