------------------------------ MODULE MCPartFile ------------------------------
(***************************************************************************)
(* PartFile for TLC: three blocks, the first two of them in the first of   *)
(* two parts.                                                              *)
(***************************************************************************)
EXTENDS PartFile

CONSTANTS p1, p2

MCPart == {p1, p2}
MCPartOf == <<p1, p1, p2>>
===============================================================================
