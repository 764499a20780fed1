-------------------------------- MODULE MC_Host --------------------------------
(* Model checking of Host: the constants of each run are in its cfg.       *)
EXTENDS Host
===============================================================================
