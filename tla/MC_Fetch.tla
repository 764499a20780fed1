------------------------------- MODULE MC_Fetch --------------------------------
(* Model checking of Fetch: a package that two archives list under the same *)
(* name, and one with three names.                                          *)
EXTENDS Fetch

CONSTANTS a, b1, b2, b3

MCNames == {a, b1, b2, b3}

MCEntries == [x \in 1 .. NumVersions |-> IF x = 1 THEN <<a, a>> ELSE <<b1, b2, b3>>]
===============================================================================
