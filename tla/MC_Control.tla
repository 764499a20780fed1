------------------------------ MODULE MC_Control ------------------------------
(* Model checking of Control: the constants of each run are in its cfg.    *)
EXTENDS Control
===============================================================================
