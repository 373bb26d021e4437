----------------------------- MODULE MCEventLoop -----------------------------
(* Model values for checking EventLoop: one calling thread, one worker, and *)
(* programs that use the loop's services in turn and together.              *)
EXTENDS EventLoop

CONSTANTS p1, j1, j2, t1, t2, s1, s2

MCPrograms == {{p1, j1, j2}, {p1, t1, t2}, {j1, t1, s1}, {t1, s1, s2}}
=============================================================================
