------------------------------- MODULE MCApp -------------------------------
(***************************************************************************)
(* App for TLC.                                                            *)
(***************************************************************************)
EXTENDS App

CONSTANTS whole, ragged

Images == {whole, ragged}
WholeImages == {whole}
=============================================================================
