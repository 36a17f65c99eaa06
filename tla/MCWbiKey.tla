------------------------------- MODULE MCWbiKey -------------------------------
(* A small instance of WbiKey.  The calls of getWBIKey are interchangeable,  *)
(* but liveness is checked of them, which forbids symmetry.                  *)
EXTENDS WbiKey
===============================================================================
