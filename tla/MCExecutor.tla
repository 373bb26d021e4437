----------------------------- MODULE MCExecutor -----------------------------
(* Main spawns and joins a, a spawns and joins b, b does the same with c;  *)
(* each task may also wait for an event.                                   *)
EXTENDS Executor, TLC

CONSTANTS a, b, c

Family == (Main :> a) @@ (a :> b) @@ (b :> c) @@ (c :> None)
=============================================================================
