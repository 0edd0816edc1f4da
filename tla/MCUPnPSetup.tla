------------------------------ MODULE MCUPnPSetup ------------------------------
(***************************************************************************)
(* UPnPSetup for TLC.  Lifetimes: one that is too short, and the shortest  *)
(* that is taken.                                                          *)
(***************************************************************************)
EXTENDS UPnPSetup

MCLifetimes == {1, 2}
===============================================================================
