------------------------------ MODULE MC_Memcheck ------------------------------
(* Model checking of Memcheck: a few blocks, as many list records.         *)
EXTENDS Memcheck
===============================================================================
