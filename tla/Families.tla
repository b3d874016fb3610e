------------------------------ MODULE Families ------------------------------
(***************************************************************************)
(* Families of inputs for TLC: sequences, because an element of a sequence *)
(* can be a state's number for what is computed of it once.                *)
(***************************************************************************)
EXTENDS Integers, Sequences

\* All the ways of choosing one element from each of the sequences opts.
Product(opts) ==
  LET stride[k \in 0 .. Len(opts)] ==
        IF k = 0 THEN 1 ELSE stride[k - 1] * Len(opts[k])
  IN [ i \in 1 .. stride[Len(opts)] |->
         [ k \in 1 .. Len(opts) |->
             opts[k][1 + (((i - 1) \div stride[k - 1]) % Len(opts[k]))] ] ]

\* A family that F(_) makes of these choices.
Each(F(_), opts) ==
  LET choices == Product(opts) IN [ i \in DOMAIN choices |-> F(choices[i]) ]
=============================================================================
