----------------------------- MODULE MC_Generator -----------------------------
(* Model checking of Generator: the constants of each run are in its cfg.  *)
EXTENDS Generator
===============================================================================
