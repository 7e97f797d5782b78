------------------------------ MODULE MCStrings ------------------------------
(* Two string variables, strings of up to two characters out of two, of which
   the literals have the first; interpolations and assignments to a position
   bring in the second. *)
EXTENDS Strings

MCBlocks == 1 .. 7
MCChars == {1, 2}
MCLiterals == {<<1>>}

VarSymmetry == Permutations(Vars)
=============================================================================
