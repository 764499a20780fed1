----------------------------- MODULE MC_Example ------------------------------
(* The application has no parameters.                                      *)
EXTENDS Example

===============================================================================
