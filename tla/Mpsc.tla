-------------------------------- MODULE Mpsc --------------------------------
(***************************************************************************)
(* The intrusive lock-free queue of libx/x/base/mpsc.c, one step per       *)
(* shared access.  A push swings `tail' first and links the node second,   *)
(* so between the two the queue is broken in the middle; the consumer sees *)
(* this as an empty queue or spins.  A node handed out belongs to the      *)
(* consumer, is recycled (event_private.h's work items) and pushed again.  *)
(* Accesses are sequentially consistent.                                   *)
(***************************************************************************)
EXTENDS Naturals, Sequences, FiniteSets

CONSTANTS Producers, Nodes, NULL, MaxPush

ASSUME ConstantsAssumption == NULL \notin Nodes /\ MaxPush \in Nat

VARIABLES
  head, tail, next,   \* the shared words; next is a field of each node
  ppc,                \* per producer: ready, swap or link
  node,               \* per producer: the node it pushes
  prev,               \* per producer: `_tail', what its exchange returned
  cpc,                \* consumer: ready, next, cas, clear, spin or advance
  first, second,      \* consumer: `_head' and `_head_next'
  order,              \* history: pushed and not popped, by the exchanges
  got,                \* history: nodes popped
  pushes              \* pushes begun

shared   == <<head, tail, next>>
producer == <<ppc, node, prev, pushes>>
consumer == <<cpc, first, second>>
vars     == <<shared, producer, consumer, order, got>>

Elements(s) == {s[i] : i \in DOMAIN s}

(* Nodes a producer may take: not in the queue, not in a producer's or the *)
(* consumer's hands.                                                       *)
Free == {n \in Nodes : /\ n \notin Elements(order)
                       /\ \A p \in Producers : ppc[p] # "ready" => node[p] # n
                       /\ cpc # "ready" => first # n}

Init ==
  /\ head = NULL /\ tail = NULL /\ next = [n \in Nodes |-> NULL]
  /\ ppc = [p \in Producers |-> "ready"]
  /\ node = [p \in Producers |-> NULL] /\ prev = [p \in Producers |-> NULL]
  /\ cpc = "ready" /\ first = NULL /\ second = NULL
  /\ order = <<>> /\ got = <<>> /\ pushes = 0

-------------------------------------------------------------------------------
(* xMpscPush: node->next = NULL *)
PushBegin(p) ==
  /\ ppc[p] = "ready" /\ pushes < MaxPush
  /\ \E n \in Free : next' = [next EXCEPT ![n] = NULL] /\ node' = [node EXCEPT ![p] = n]
  /\ ppc' = [ppc EXCEPT ![p] = "swap"] /\ pushes' = pushes + 1
  /\ UNCHANGED <<head, tail, prev, consumer, order, got>>

(* _tail = exchange(tail, node) *)
PushSwap(p) ==
  /\ ppc[p] = "swap"
  /\ tail' = node[p] /\ prev' = [prev EXCEPT ![p] = tail]
  /\ order' = Append(order, node[p])
  /\ ppc' = [ppc EXCEPT ![p] = "link"]
  /\ UNCHANGED <<head, next, node, pushes, consumer, got>>

(* _tail->next = node, or head = node for the first one *)
PushLink(p) ==
  /\ ppc[p] = "link"
  /\ IF prev[p] # NULL
     THEN next' = [next EXCEPT ![prev[p]] = node[p]] /\ UNCHANGED head
     ELSE head' = node[p] /\ UNCHANGED next
  /\ ppc' = [ppc EXCEPT ![p] = "ready"]
  /\ UNCHANGED <<tail, node, prev, pushes, consumer, order, got>>

-------------------------------------------------------------------------------
(* xMpscPop: load head *)
PopBegin ==
  /\ cpc = "ready" /\ head # NULL
  /\ first' = head /\ cpc' = "next"
  /\ UNCHANGED <<shared, producer, second, order, got>>

(* load _head->next *)
PopNext ==
  /\ cpc = "next"
  /\ second' = next[first]
  /\ cpc' = IF next[first] = NULL THEN "cas" ELSE "advance"
  /\ UNCHANGED <<shared, producer, first, order, got>>

(* Mutant: the last node is taken without asking who holds the tail. *)
PopCasBlindly ==
  /\ cpc = "cas"
  /\ tail' = NULL /\ cpc' = "clear"
  /\ order' = Tail(order) /\ got' = Append(got, first)
  /\ UNCHANGED <<head, next, producer, first, second>>

(* Only one node: take the tail away, unless a push has swung it already. *)
PopCas ==
  /\ cpc = "cas"
  /\ IF tail = first
     THEN /\ tail' = NULL /\ cpc' = "clear"
          /\ order' = Tail(order) /\ got' = Append(got, first)
     ELSE cpc' = "spin" /\ UNCHANGED <<tail, order, got>>
  /\ UNCHANGED <<head, next, producer, first, second>>

(* Mutant: head is reset even when a push has just set it. *)
PopClearBlindly ==
  /\ cpc = "clear"
  /\ head' = NULL
  /\ cpc' = "ready"
  /\ UNCHANGED <<tail, next, producer, first, second, order, got>>

(* head = NULL, unless a push that found the queue empty has set it. *)
PopClear ==
  /\ cpc = "clear"
  /\ head' = IF head = first THEN NULL ELSE head
  /\ cpc' = "ready"
  /\ UNCHANGED <<tail, next, producer, first, second, order, got>>

(* Wait for the push that swung the tail to link its node. *)
PopSpin ==
  /\ cpc = "spin" /\ next[first] # NULL
  /\ second' = next[first] /\ cpc' = "advance"
  /\ UNCHANGED <<shared, producer, first, order, got>>

(* head = _head_next, and _head is handed out *)
PopAdvance ==
  /\ cpc = "advance"
  /\ head' = second /\ cpc' = "ready"
  /\ order' = Tail(order) /\ got' = Append(got, first)
  /\ UNCHANGED <<tail, next, producer, first, second>>

Push(p) == PushBegin(p) \/ PushSwap(p) \/ PushLink(p)
Pop     == PopBegin \/ PopNext \/ PopCas \/ PopClear \/ PopSpin \/ PopAdvance

Next == Pop \/ \E p \in Producers : Push(p)

Spec == Init /\ [][Next]_vars

(* A thread inside a push or a pop goes on, and the consumer keeps popping. *)
FairSpec ==
  Spec /\ WF_vars(Pop) /\ \A p \in Producers : WF_vars(PushSwap(p) \/ PushLink(p))

-------------------------------------------------------------------------------
(* Type correctness of the shared words and of the threads' registers. *)
TypeOK ==
  /\ {head, tail, first, second} \subseteq Nodes \cup {NULL}
  /\ next \in [Nodes -> Nodes \cup {NULL}]
  /\ ppc \in [Producers -> {"ready", "swap", "link"}]
  /\ {node, prev} \subseteq [Producers -> Nodes \cup {NULL}]
  /\ cpc \in {"ready", "next", "cas", "clear", "spin", "advance"}
  /\ cpc = "advance" => second \in Nodes
  /\ order \in Seq(Nodes) /\ got \in Seq(Nodes) /\ pushes \in 0 .. MaxPush

Linking(n) == \E p \in Producers : ppc[p] = "link" /\ node[p] = n

(* A push links its node behind a node that is still in the queue: it      *)
(* never writes into a node that was handed out and may have been recycled. *)
LinksIntoQueue ==
  \A p \in Producers : ppc[p] = "link" /\ prev[p] # NULL =>
    \E i \in 1 .. Len(order) - 1 : order[i] = prev[p] /\ order[i + 1] = node[p]

(* The words of the queue describe its content: head is its first node, or *)
(* about to become it; each node points to the one behind it, or that one  *)
(* is being linked; tail is the last node.  An empty queue is reported     *)
(* only when nothing that is completely pushed is in front.                *)
Broken(i) == i > 1 /\ Linking(order[i]) /\ next[order[i - 1]] = NULL
WellLinked ==
  /\ tail = IF order = <<>> THEN NULL ELSE order[Len(order)]
  /\ \A i \in 2 .. Len(order) : next[order[i - 1]] = order[i] \/ Broken(i)
  /\ order # <<>> /\ ~Linking(Head(order)) /\ cpc # "clear" => head = Head(order)
  /\ head = NULL => order = <<>> \/ Linking(Head(order))

(* The list between any two shared accesses of pushes and the pop. *)
ListInv == TypeOK /\ LinksIntoQueue /\ WellLinked

(* Nodes come out in the order of the exchanges, each once. *)
Contract == INSTANCE MpscQueue WITH queue <- order
FollowsContract == Contract!Spec

(* Every node pushed is handed out: no spin and no pop waits for ever. *)
EveryNodeComesOut == \A n \in Nodes : n \in Elements(order) ~> n \notin Elements(order)
===============================================================================
