----------------------------- MODULE WorkDeque -----------------------------
(***************************************************************************)
(* What libx++/xpp/runtime/queue.h promises of a worker's queue: the owner *)
(* pushes and pops at one end (LIFO), thieves take from the other (oldest  *)
(* first), and no item is handed out twice.                                *)
(***************************************************************************)
EXTENDS Naturals, Sequences

CONSTANT Items

VARIABLES
  deque,  \* the items inside, the oldest first
  taken   \* the items handed out

vars == <<deque, taken>>

Init == deque = <<>> /\ taken = {}

Push(n) ==
  /\ n \notin taken /\ \A i \in DOMAIN deque : deque[i] # n
  /\ deque' = Append(deque, n) /\ UNCHANGED taken

Pop ==
  /\ deque # <<>>
  /\ taken' = taken \cup {deque[Len(deque)]}
  /\ deque' = SubSeq(deque, 1, Len(deque) - 1)

Steal ==
  /\ deque # <<>>
  /\ taken' = taken \cup {Head(deque)}
  /\ deque' = Tail(deque)

Next == Pop \/ Steal \/ \E n \in Items : Push(n)

Spec == Init /\ [][Next]_vars
===============================================================================
