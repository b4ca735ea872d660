------------------------------ MODULE MCFormat ------------------------------
(***************************************************************************)
(* Words of four bits, so that a 64-bit argument has values of up to three *)
(* decimal digits and the most negative number is among them.              *)
(***************************************************************************)
EXTENDS Format

MCWords == 0 .. 15

MCStrings == {<<>>, <<"a", "b">>}
=============================================================================
