----------------------------- MODULE MC_Helpers ------------------------------
(***************************************************************************)
(* Three blocks, one of them foreign; buffers of a few characters and      *)
(* records; texts of up to six bytes.                                      *)
(***************************************************************************)
EXTENDS Helpers

===============================================================================
