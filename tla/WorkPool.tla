------------------------------ MODULE WorkPool ------------------------------
(***************************************************************************)
(* The recycled work items of an event loop (libx/x/base/event_private.h): *)
(* a lock-free stack through `next_free'.  Threads that post or submit     *)
(* take an item from it (or from the heap when it is empty) and push it on *)
(* the loop's done queue; the loop puts it back once it is dispatched.     *)
(* One step per shared access.                                             *)
(***************************************************************************)
EXTENDS Naturals, FiniteSets

CONSTANTS Threads, Items, NULL

VARIABLES
  top,       \* work_freelist
  link,      \* next_free of each item
  heap,      \* items calloc has not handed out yet
  pc,        \* per posting thread: idle, load, next, cas, zero or full
  w, after,  \* per posting thread: the top it loaded, the next_free it read
  queued,    \* items in the done queue
  lpc,       \* the loop: idle, dispatch, load or cas
  item, old  \* the item the loop gives back, the top it loaded

pool   == <<top, link>>
poster == <<pc, w, after>>
loop   == <<lpc, item, old>>
vars   == <<pool, heap, poster, queued, loop>>

Init ==
  /\ top = NULL /\ link = [i \in Items |-> NULL] /\ heap = Items
  /\ pc = [t \in Threads |-> "idle"]
  /\ w = [t \in Threads |-> NULL] /\ after = [t \in Threads |-> NULL]
  /\ queued = {} /\ lpc = "idle" /\ item = NULL /\ old = NULL

At(t, from, to) == pc[t] = from /\ pc' = [pc EXCEPT ![t] = to]

(* event_work_alloc: load the top; calloc when the list is empty. *)
AllocLoad(t) ==
  /\ \/ At(t, "load", "next") /\ top # NULL
        /\ w' = [w EXCEPT ![t] = top] /\ UNCHANGED heap
     \/ At(t, "load", "full") /\ top = NULL
        /\ \E i \in heap : w' = [w EXCEPT ![t] = i] /\ heap' = heap \ {i}
  /\ UNCHANGED <<pool, after, queued, loop>>

(* read w->next_free, the third argument of the compare-and-swap *)
AllocNext(t) ==
  /\ At(t, "next", "cas")
  /\ after' = [after EXCEPT ![t] = link[w[t]]]
  /\ UNCHANGED <<pool, heap, w, queued, loop>>

(* the compare-and-swap; it may fail without a reason and is retried *)
AllocCas(t) ==
  /\ \/ At(t, "cas", "zero") /\ top = w[t] /\ top' = after[t]
     \/ At(t, "cas", "load") /\ UNCHANGED top
  /\ UNCHANGED <<link, heap, w, after, queued, loop>>

(* the item is zeroed: it is the caller's *)
AllocZero(t) ==
  /\ At(t, "zero", "full")
  /\ link' = [link EXCEPT ![w[t]] = NULL]
  /\ UNCHANGED <<top, heap, w, after, queued, loop>>

(* xEventLoopPost or xEventLoopSubmit begins ... *)
Begin(t) ==
  /\ At(t, "idle", "load")
  /\ top # NULL \/ heap # {}
  /\ UNCHANGED <<pool, heap, w, after, queued, loop>>

(* ... and pushes the item on the done queue. *)
Hand(t) ==
  /\ At(t, "full", "idle")
  /\ queued' = queued \cup {w[t]}
  /\ UNCHANGED <<pool, heap, w, after, loop>>

-------------------------------------------------------------------------------
(* loop_dispatch_done takes an item and runs its callback. *)
Dispatch ==
  /\ lpc = "idle" /\ lpc' = "load"
  /\ \E i \in queued : item' = i /\ queued' = queued \ {i}
  /\ UNCHANGED <<pool, heap, poster, old>>

(* event_work_free: load the top and link the item to it *)
FreeLoad ==
  /\ lpc = "load" /\ lpc' = "cas"
  /\ old' = top /\ link' = [link EXCEPT ![item] = top]
  /\ UNCHANGED <<top, heap, poster, queued, item>>

(* Mutant: the compare-and-swap that failed is not retried. *)
FreeCasOnce ==
  /\ lpc = "cas" /\ lpc' = "idle"
  /\ top' = IF top = old THEN item ELSE top
  /\ UNCHANGED <<link, heap, poster, queued, item, old>>

(* swing the top to the item; retried when it has moved *)
FreeCas ==
  /\ lpc = "cas"
  /\ \/ top = old /\ top' = item /\ lpc' = "idle"
     \/ lpc' = "load" /\ UNCHANGED top
  /\ UNCHANGED <<link, heap, poster, queued, item, old>>

Alloc(t) ==
  Begin(t) \/ AllocLoad(t) \/ AllocNext(t) \/ AllocCas(t) \/ AllocZero(t) \/ Hand(t)

Next == Dispatch \/ FreeLoad \/ FreeCas \/ \E t \in Threads : Alloc(t)

Spec == Init /\ [][Next]_vars

-------------------------------------------------------------------------------
(* Type correctness of the stack and of the threads' registers. *)
TypeOK ==
  /\ top \in Items \cup {NULL} /\ link \in [Items -> Items \cup {NULL}]
  /\ heap \subseteq Items /\ queued \subseteq Items
  /\ pc \in [Threads -> {"idle", "load", "next", "cas", "zero", "full"}]
  /\ {w, after} \subseteq [Threads -> Items \cup {NULL}]
  /\ lpc \in {"idle", "load", "cas"} /\ {item, old} \subseteq Items \cup {NULL}
  /\ \A t \in Threads : pc[t] \in {"next", "cas", "zero", "full"} => w[t] \in Items
  /\ lpc # "idle" => item \in Items

(* The items on the stack, from the top down. *)
Reach[n \in Nat] ==
  IF n = 0 THEN {top} \ {NULL}
  ELSE Reach[n - 1] \cup ({link[i] : i \in Reach[n - 1]} \ {NULL})
OnStack == Reach[Cardinality(Items)]

(* The users of an item: the stack, the heap, the queue, each thread that  *)
(* has taken it, the loop.                                                 *)
Owns(t) == IF pc[t] \in {"zero", "full"} THEN {w[t]} ELSE {}
LoopOwns == IF lpc = "idle" THEN {} ELSE {item}

(* An item is in one place: no two threads fill the same one, none is      *)
(* handed out while it is still queued or being dispatched, and none is    *)
(* lost: a stack that forgets some makes the loop allocate for ever.       *)
OneOwner ==
  /\ \A t, u \in Threads : t # u => Owns(t) \cap Owns(u) = {}
  /\ \A t \in Threads : Owns(t) \cap (OnStack \cup queued \cup LoopOwns \cup heap) = {}
  /\ OnStack \cap (queued \cup LoopOwns \cup heap) = {} /\ queued \cap LoopOwns = {}
  /\ heap \cup OnStack \cup queued \cup LoopOwns \cup UNION {Owns(t) : t \in Threads} = Items

(* The pool between any two shared accesses of its users. *)
PoolInv == TypeOK /\ OneOwner
=============================================================================
