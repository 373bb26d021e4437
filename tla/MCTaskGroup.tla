----------------------------- MODULE MCTaskGroup ----------------------------
(***************************************************************************)
(* Two threads at most, a queue of two, and two threads that call.         *)
(***************************************************************************)
EXTENDS TaskGroup
=============================================================================
