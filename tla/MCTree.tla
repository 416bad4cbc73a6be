-------------------------------- MODULE MCTree --------------------------------
(***************************************************************************)
(* Values for the constants of ProcessTree in TLC's runs.                  *)
(***************************************************************************)
EXTENDS TreeProperties, TLC

CONSTANTS p1, p2
===============================================================================
