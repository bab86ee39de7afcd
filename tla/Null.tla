-------------------------------- MODULE Null --------------------------------
(***************************************************************************)
(* null, as rows and variables of the code have it: no row, no reference,  *)
(* no answer.  The modules share the constant, so that their proofs can    *)
(* stand beside each other; each assumes that it is none of its own        *)
(* values.                                                                 *)
(***************************************************************************)
CONSTANT None
=============================================================================
