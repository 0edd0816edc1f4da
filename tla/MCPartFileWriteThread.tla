------------------------- MODULE MCPartFileWriteThread -------------------------
(***************************************************************************)
(* Two buffered items, so that one can be written, failed or collected     *)
(* while the other is queued, and the extra byte of the allocation.        *)
(***************************************************************************)
EXTENDS PartFileWriteThread

MCItem == {1, 2}
===============================================================================
