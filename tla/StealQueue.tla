----------------------------- MODULE StealQueue -----------------------------
(***************************************************************************)
(* The ring of a worker in libx++'s multi-thread runtime,                  *)
(* WorkStealingQueue of xpp/runtime/queue.h: the owner pushes and pops at  *)
(* `head', thieves advance `tail'.  Indexes are uint32_t and are compared  *)
(* as numbers.  One step per shared access, sequentially consistent; the   *)
(* owner's own load of m_head is merged with the load that follows it.     *)
(* The queue is documented for one pushing thread, its owner.  Wakers are  *)
(* the other threads whose WorkerSchedule::schedule pushes on it.          *)
(***************************************************************************)
EXTENDS Integers, Sequences, FiniteSets

CONSTANTS Owner, Thieves, Wakers,
  N,        \* slots of the ring, a power of two
  W,        \* 2^32
  MaxPush   \* bound: pushes

ASSUME ThreadsAssumption ==
  Owner \notin Thieves \cup Wakers /\ Thieves \cap Wakers = {}
ASSUME SizesAssumption ==
  N \in Nat \ {0} /\ W \in Nat \ {0} /\ MaxPush \in Nat /\ W % N = 0

VARIABLES
  head, tail, slots,  \* m_head, m_tail, m_slots
  pc,                 \* per thread: ready, or the step of its call it is at
  h, t,               \* per thread: its locals h and t
  item,               \* per thread: the item it pushes, or read to steal
  pushes,             \* pushes begun; the items are numbered by them
  taken               \* history: items that a pop or a steal returned

ring   == <<head, tail, slots>>
locals == <<h, t, item>>
vars   == <<ring, pc, locals, pushes, taken>>

Pushers == {Owner} \cup Wakers
Threads == Pushers \cup Thieves
Items   == 1..MaxPush
Up(i)   == (i + 1) % W
Down(i) == (i + W - 1) % W

Init ==
  /\ head = 0 /\ tail = 0 /\ slots = [i \in 0..N-1 |-> 0]
  /\ pc = [p \in Threads |-> "ready"]
  /\ h = [p \in Threads |-> 0] /\ t = [p \in Threads |-> 0]
  /\ item = [p \in Threads |-> 0]
  /\ pushes = 0 /\ taken = {}

At(p, from, to) == pc[p] = from /\ pc' = [pc EXCEPT ![p] = to]

-------------------------------------------------------------------------------
(* push: load m_head and m_tail; a full ring returns false. *)
PushLoad(p) ==
  /\ At(p, "ready", "write") /\ pushes < MaxPush
  /\ (head + W - tail) % W < N
  /\ h' = [h EXCEPT ![p] = head]
  /\ pushes' = pushes + 1 /\ item' = [item EXCEPT ![p] = pushes + 1]
  /\ UNCHANGED <<ring, t, taken>>

(* m_slots[h & kMask] = item *)
PushWrite(p) ==
  /\ At(p, "write", "publish")
  /\ slots' = [slots EXCEPT ![h[p] % N] = item[p]]
  /\ UNCHANGED <<head, tail, locals, pushes, taken>>

(* m_head.store(h + 1) *)
PushPublish(p) ==
  /\ At(p, "publish", "ready")
  /\ head' = Up(h[p])
  /\ UNCHANGED <<tail, slots, locals, pushes, taken>>

-------------------------------------------------------------------------------
(* pop: load m_head and m_tail; equal is empty. *)
PopLoad ==
  /\ At(Owner, "ready", "lower") /\ head # tail
  /\ h' = [h EXCEPT ![Owner] = Down(head)]
  /\ UNCHANGED <<ring, t, item, pushes, taken>>

(* m_head.store(h), ahead of the second look at the tail *)
PopLower ==
  /\ At(Owner, "lower", "look")
  /\ head' = h[Owner]
  /\ UNCHANGED <<tail, slots, locals, pushes, taken>>

(* Mutant: the last item is taken like any other one. *)
PopLookOnce ==
  /\ \/ /\ At(Owner, "look", "ready") /\ tail <= h[Owner]
        /\ taken' = taken \cup {slots[h[Owner] % N]}
     \/ At(Owner, "look", "reset") /\ tail > h[Owner] /\ UNCHANGED taken
  /\ t' = [t EXCEPT ![Owner] = tail]
  /\ UNCHANGED <<ring, h, item, pushes>>

(* Load m_tail again: more than one item, exactly one, or lost to thieves. *)
PopLook ==
  /\ \/ /\ At(Owner, "look", "ready") /\ tail < h[Owner]
        /\ taken' = taken \cup {slots[h[Owner] % N]}
     \/ At(Owner, "look", "race") /\ tail = h[Owner] /\ UNCHANGED taken
     \/ At(Owner, "look", "reset") /\ tail > h[Owner] /\ UNCHANGED taken
  /\ t' = [t EXCEPT ![Owner] = tail]
  /\ UNCHANGED <<ring, h, item, pushes>>

(* The last item: the compare-and-swap a thief would do. *)
PopRace ==
  /\ \/ At(Owner, "race", "restore") /\ tail = t[Owner]
        /\ tail' = Up(t[Owner]) /\ UNCHANGED t
     \/ At(Owner, "race", "reset") /\ tail # t[Owner]
        /\ t' = [t EXCEPT ![Owner] = tail] /\ UNCHANGED tail
  /\ UNCHANGED <<head, slots, h, item, pushes, taken>>

(* Won: m_head.store(h + 1), return the item. *)
PopRestore ==
  /\ At(Owner, "restore", "ready")
  /\ head' = Up(h[Owner])
  /\ taken' = taken \cup {slots[h[Owner] % N]}
  /\ UNCHANGED <<tail, slots, locals, pushes>>

(* Mutant: the lowered head is put back where it was. *)
PopResetToHead ==
  /\ At(Owner, "reset", "ready")
  /\ head' = h[Owner]
  /\ UNCHANGED <<tail, slots, locals, pushes, taken>>

(* Lost: m_head.store(t), return nullptr. *)
PopReset ==
  /\ At(Owner, "reset", "ready")
  /\ head' = t[Owner]
  /\ UNCHANGED <<tail, slots, locals, pushes, taken>>

-------------------------------------------------------------------------------
(* steal: load m_tail *)
StealTail(p) ==
  /\ At(p, "ready", "head")
  /\ t' = [t EXCEPT ![p] = tail]
  /\ UNCHANGED <<ring, h, item, pushes, taken>>

(* load m_head; `t >= h' returns nullptr *)
StealHead(p) ==
  /\ \/ At(p, "head", "read") /\ t[p] < head
     \/ At(p, "head", "ready") /\ t[p] >= head
  /\ h' = [h EXCEPT ![p] = head]
  /\ UNCHANGED <<ring, t, item, pushes, taken>>

(* T item = m_slots[t & kMask] *)
StealRead(p) ==
  /\ At(p, "read", "cas")
  /\ item' = [item EXCEPT ![p] = slots[t[p] % N]]
  /\ UNCHANGED <<ring, h, t, pushes, taken>>

(* Mutant: the tail is advanced by a plain store. *)
StealStore(p) ==
  /\ At(p, "cas", "ready")
  /\ tail' = Up(t[p]) /\ taken' = taken \cup {item[p]}
  /\ UNCHANGED <<head, slots, locals, pushes>>

(* compare_exchange_weak on m_tail: it may also fail without a reason *)
StealCas(p) ==
  /\ At(p, "cas", "ready")
  /\ \/ tail = t[p] /\ tail' = Up(t[p]) /\ taken' = taken \cup {item[p]}
     \/ UNCHANGED <<tail, taken>>
  /\ UNCHANGED <<head, slots, locals, pushes>>

-------------------------------------------------------------------------------
PushStep(p)  == PushLoad(p) \/ PushWrite(p) \/ PushPublish(p)
PopStep      == PopLoad \/ PopLower \/ PopLook \/ PopRace \/ PopRestore \/ PopReset
StealStep(p) == StealTail(p) \/ StealHead(p) \/ StealRead(p) \/ StealCas(p)

Next ==
  \/ \E p \in Pushers : PushStep(p)
  \/ PopStep
  \/ \E p \in Thieves : StealStep(p)

Spec == Init /\ [][Next]_vars

-------------------------------------------------------------------------------
PushPcs  == {"ready", "write", "publish"}
PopPcs   == {"lower", "look", "race", "restore", "reset"}
StealPcs == {"ready", "head", "read", "cas"}
Indexes  == 0..W-1

(* Where the items inside lie: from First on, Count of them.  While a pop  *)
(* is undecided the item under the lowered head is still inside.           *)
First == IF pc[Owner] = "restore" THEN h[Owner] ELSE tail
Limit == IF pc[Owner] \in PopPcs THEN Up(h[Owner]) ELSE head
Count == (Limit + W - First) % W
Deque == [k \in 1..Count |-> slots[(First + k - 1) % N]]

Types ==
  /\ head \in Indexes /\ tail \in Indexes
  /\ slots \in [0..N-1 -> 0..MaxPush]
  /\ pc \in [Threads -> PushPcs \cup PopPcs \cup StealPcs]
  /\ pc[Owner] \in PushPcs \cup PopPcs
  /\ \A p \in Wakers : pc[p] \in PushPcs
  /\ \A p \in Thieves : pc[p] \in StealPcs
  /\ h \in [Threads -> Indexes] /\ t \in [Threads -> Indexes]
  /\ item \in [Threads -> 0..MaxPush]
  /\ pushes \in 0..MaxPush /\ taken \subseteq 0..MaxPush
(* Every word holds a value of its type, every thread is in a step of a    *)
(* call it may make, and the ring never holds more than it has slots       *)
(* (queue.h:46).                                                           *)
TypeOK == Types /\ Count <= N

InHand == {item[p] : p \in {x \in Pushers : pc[x] \in {"write", "publish"}}}

(* Every item whose push is over is inside once or was returned once:      *)
(* nothing is lost, nothing is handed out while it is still inside.        *)
NothingLost ==
  /\ \A j, k \in 1..Count : Deque[j] = Deque[k] => j = k
  /\ \A k \in 1..Count : Deque[k] \notin taken
  /\ {Deque[k] : k \in 1..Count} \cup taken = (1..pushes) \ InHand

(* pop returns nullptr only when nothing is left inside (queue.h:54): it   *)
(* gives up in PopReset only after thieves have taken everything.          *)
EmptyIsHonest == pc[Owner] = "reset" => Count = 0 /\ tail = t[Owner]

D == INSTANCE WorkDeque WITH deque <- Deque

(* The ring implements the deque: LIFO for its owner, oldest first for     *)
(* thieves, each item to one taker.                                        *)
FollowsContract == D!Spec
===============================================================================
