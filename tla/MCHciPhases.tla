----------------------------- MODULE MCHciPhases -----------------------------
(* The machine of HciPhases with the scripts of HciSteps. *)
EXTENDS HciSteps, HciPhases
=============================================================================
