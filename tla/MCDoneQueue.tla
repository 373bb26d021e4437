----------------------------- MODULE MCDoneQueue -----------------------------
(* Model values for checking DoneQueue: a poster and two threads that only *)
(* push; as many items as pushes, though the pool is asked first.          *)
EXTENDS DoneQueue
=============================================================================
