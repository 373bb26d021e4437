------------------------------- MODULE MCXfer -------------------------------
(***************************************************************************)
(* Three chunks and two saves of the bitmap; the source may become another *)
(* file of as many chunks, an empty one or a shorter one.                  *)
(***************************************************************************)
EXTENDS Xfer

MCSize == <<3, 3, 0, 2>>
MCKept == {}
MCKeptLast == {2}
=============================================================================
