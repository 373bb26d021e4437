------------------------------ MODULE MpscQueue ------------------------------
(***************************************************************************)
(* What libx/x/base/mpsc.h promises: many producers, one consumer, nodes   *)
(* come out in the order in which the pushes took effect, each once.       *)
(***************************************************************************)
EXTENDS Naturals, Sequences

CONSTANT Nodes

VARIABLES
  queue,  \* nodes pushed and not popped
  got     \* nodes the consumer was handed, the last one last

vars == <<queue, got>>

Init == queue = <<>> /\ got = <<>>

Enqueue(n) ==
  /\ \A i \in DOMAIN queue : queue[i] # n
  /\ queue' = Append(queue, n) /\ UNCHANGED got

Dequeue ==
  /\ queue # <<>>
  /\ queue' = Tail(queue) /\ got' = Append(got, Head(queue))

Next == Dequeue \/ \E n \in Nodes : Enqueue(n)

Spec == Init /\ [][Next]_vars
===============================================================================
