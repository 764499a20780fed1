---------------------------- MODULE MC_CryptTest -----------------------------
(* Two tests that may be anything, with up to two runs, or any number.     *)
EXTENDS CryptTest

===============================================================================
