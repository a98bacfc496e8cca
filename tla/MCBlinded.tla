------------------------------ MODULE MCBlinded ------------------------------
(***************************************************************************)
(* Small moduli, 35, 77 and 143, under which four names can be compared.    *)
(***************************************************************************)
EXTENDS BlindedMatch

SmallPrimes == {<<5, 7>>, <<7, 11>>, <<11, 13>>}
=============================================================================
