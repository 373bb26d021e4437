------------------------------ MODULE DoneQueue ------------------------------
(***************************************************************************)
(* The done queue of an event loop and the items that go round through it: *)
(* the queue (Mpsc) and the stack of recycled items (WorkPool) joined.     *)
(*                                                                         *)
(* The poster takes an item from the pool and pushes it (xEventLoopPost),  *)
(* or hands it to the task group (xEventLoopSubmit), whose workers push it *)
(* when the work is done.  The loop pops, dispatches and gives the item    *)
(* back.  The nodes of the queue are the pool's items, so a push in        *)
(* progress meets a node that is popped, freed, taken and pushed again.    *)
(***************************************************************************)
EXTENDS Mpsc

CONSTANT Poster  \* the one thread that takes items from the pool

ASSUME PosterAssumption == Poster \in Producers /\ NULL # Poster
ASSUME ItemsAssumption == IsFiniteSet(Nodes)  \* calloc comes to an end

VARIABLES top, link, heap, pc, w, after, queued, lpc, item, old

items == <<top, link, heap, pc, w, after, queued, lpc, item, old>>
all   == <<vars, items>>

Pool == INSTANCE WorkPool WITH Threads <- {Poster}, Items <- Nodes

InitAll == Init /\ Pool!Init

(* Items of the task group: taken, not given back, in no push and no pop. *)
Given ==
  {n \in queued \ Elements(order) : /\ \A p \in Producers : ppc[p] # "ready" => node[p] # n
                                    /\ cpc # "ready" => first # n}

(* event_work_alloc, between two calls of the poster *)
Allocate ==
  /\ ppc[Poster] = "ready"
  /\ \/ Pool!Begin(Poster) \/ Pool!AllocLoad(Poster) \/ Pool!AllocNext(Poster)
     \/ Pool!AllocCas(Poster) \/ Pool!AllocZero(Poster)
  /\ UNCHANGED vars

(* xEventLoopPost: the item is pushed by the thread that took it. *)
Post ==
  /\ Pool!Hand(Poster) /\ PushBegin(Poster)
  /\ node'[Poster] = w[Poster]

(* xEventLoopSubmit: xTaskSubmit has the item. *)
Offload == Pool!Hand(Poster) /\ ppc[Poster] = "ready" /\ UNCHANGED vars

(* offload_worker, or a cancel before it ran, pushes the item. *)
Complete(p) ==
  /\ p # Poster /\ PushBegin(p) /\ node'[p] \in Given
  /\ UNCHANGED items

PushGoesOn(p) == (PushSwap(p) \/ PushLink(p)) /\ UNCHANGED items

(* loop_dispatch_done: a pop that returns is dispatched, and no other one  *)
(* begins before its item is given back.                                   *)
PopGoesOn ==
  /\ lpc = "idle"
  /\ PopBegin \/ PopNext \/ PopCas \/ PopSpin
  /\ UNCHANGED items

PopReturns == (PopAdvance \/ PopClear) /\ Pool!Dispatch /\ item' = first

GiveBack == (Pool!FreeLoad \/ Pool!FreeCas) /\ UNCHANGED vars

Loop == PopGoesOn \/ PopReturns \/ GiveBack

NextAll ==
  \/ Allocate \/ Post \/ Offload \/ Loop
  \/ \E p \in Producers : Complete(p) \/ PushGoesOn(p)

SpecAll == InitAll /\ [][NextAll]_all

(* The loop keeps draining, a compare-and-swap does not fail for ever, and *)
(* a push that has begun goes on.                                          *)
FairSpecAll ==
  /\ SpecAll /\ WF_all(Loop) /\ SF_all(GiveBack /\ lpc' = "idle")
  /\ \A p \in Producers : WF_all(PushGoesOn(p))

-------------------------------------------------------------------------------
(* An item is in one place, from calloc through the stack, the poster, the *)
(* group, the queue and the dispatch, and none is lost (event_work_alloc,  *)
(* event_work_free).                                                       *)
PoolInv == Pool!PoolInv

(* What is pushed or being pushed is an item the pool counts as handed     *)
(* out: no node of the queue is on the stack or in the poster's hands.     *)
NodesAreOut ==
  /\ Elements(order) \subseteq queued
  /\ \A p \in Producers : ppc[p] # "ready" => node[p] \in queued

(* The queue and the pool, between any two shared accesses. *)
DoneQueueInv == ListInv /\ PoolInv /\ NodesAreOut
===============================================================================
