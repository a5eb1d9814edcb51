------------------------- MODULE MCControlRegister -------------------------
(* ControlRegister with the power-up value of the register, its bits all   *)
(* clear and all set, and arguments on both sides of each field's width.   *)
EXTENDS ControlRegister, Bitwise

MCRegValues == {\h1901, 0, \hFFFF}

MCArguments == {0, 3, 4, 5, 8}

Mask(f) ==
    CASE f = "resolution"  -> \h0C00
      [] f = "refreshRate" -> \h0380
      [] f = "mode"        -> \h1000

\* The arithmetic of the fields is the masks, shifts and ors of the code, for
\* every value of the bits from the lowest one of a field upwards.
ASSUME FieldsAreMasks ==
    \A f \in Fields, r \in {128 * k + 85 : k \in 0 .. 511} :
        /\ Masked(f, r) = r & Mask(f)
        /\ Cleared(f, r) = r & (\hFFFF - Mask(f))
        /\ \A n \in 0 .. Size(f) - 1 :
             Cleared(f, r) + n * Weight(f) = Cleared(f, r) | (n * Weight(f))
        /\ \A n \in Arguments : n % Size(f) = n & (Size(f) - 1)
=============================================================================
