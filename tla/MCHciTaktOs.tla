---------------------------- MODULE MCHciTaktOs -----------------------------
(***************************************************************************)
(* Three interrupts: the USB stack, MPSL, and MPSL again, for two wakes of *)
(* the same event under way at a time.                                     *)
(***************************************************************************)
EXTENDS HciTaktOs, TLC

MCInterrupt == {"usb", "mpsl", "timer"}

MCEventOf == ("usb" :> "HOST") @@ ("mpsl" :> "MPSL") @@ ("timer" :> "MPSL")
=============================================================================
