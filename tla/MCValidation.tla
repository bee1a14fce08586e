---------------------------- MODULE MCValidation ----------------------------
(***************************************************************************)
(* Validation for TLC.                                                     *)
(***************************************************************************)
EXTENDS Validation

CONSTANTS whole, ragged

Images == {whole, ragged}
WholeImages == {whole}
=============================================================================
