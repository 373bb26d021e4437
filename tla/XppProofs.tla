----------------------------- MODULE XppProofs -----------------------------
(***************************************************************************)
(* Theorems about the two machines of libx++.                              *)
(*                                                                         *)
(* StealQueue: for every number of slots, thieves and pushes as long as    *)
(* one thread pushes and the indexes have not wrapped (Contract).          *)
(*                                                                         *)
(* Executor: for every set of tasks and every family of them, in the       *)
(* flavour whose one thread runs main and the tasks (CurrentThread).       *)
(***************************************************************************)
EXTENDS StealQueue, Executor, TLAPS

-------------------------------------------------------------------------------
(* StealQueue *)

(* What the code is documented for: one pushing thread (queue.h:40), and   *)
(* indexes that have not wrapped.  The proofs assume it; a run may drop it. *)
Contract == Wakers = {} /\ MaxPush < W

Slot(i) == slots[i % N]
Window  == First..(Limit - 1)

(* What the owner knows at each step of its calls. *)
OwnerInv ==
  /\ tail <= Limit /\ Limit <= pushes /\ Limit - tail <= N
  /\ pc[Owner] \in {"write", "publish"} =>
       /\ h[Owner] = head /\ head < pushes /\ head - tail < N
       /\ item[Owner] = pushes
  /\ pc[Owner] = "publish" => Slot(head) = pushes
  /\ pc[Owner] \in PopPcs => h[Owner] < pushes
  /\ pc[Owner] = "lower" => head = h[Owner] + 1
  /\ pc[Owner] \in PopPcs \ {"lower"} => head = h[Owner]
  /\ pc[Owner] = "race" => t[Owner] = h[Owner] /\ t[Owner] <= tail
  /\ pc[Owner] \in {"restore", "reset"} => tail = h[Owner] + 1
  /\ pc[Owner] = "reset" => t[Owner] = tail

(* A thief whose tail is still the queue's may take what it read. *)
ThiefInv == \A p \in Thieves :
  /\ pc[p] # "ready" => t[p] <= tail
  /\ pc[p] \in {"read", "cas"} /\ t[p] = tail => tail < Limit
  /\ pc[p] = "cas" /\ t[p] = tail => item[p] = Slot(tail)

Done == (1..pushes) \ InHand

(* Each item whose push is over lies in one slot of the window or is taken. *)
ItemInv ==
  /\ \A i, j \in Window : Slot(i) = Slot(j) => i = j
  /\ \A i \in Window : Slot(i) \in Done \ taken
  /\ taken \subseteq Done
  /\ \A x \in Done \ taken : \E i \in Window : Slot(i) = x

IInv == Types /\ OwnerInv /\ ThiefInv /\ ItemInv

-------------------------------------------------------------------------------
(* An index below the modulus is its own remainder. *)
LEMMA ModSmall ==
  ASSUME NEW m \in Nat, NEW x \in Nat, x < m
  PROVE  x % m = x /\ (x + m) % m = x
OBVIOUS

(* Quotient and remainder of an index. *)
LEMMA DivMod ==
  ASSUME NEW m \in Nat \ {0}, NEW x \in Nat
  PROVE  x \div m \in Nat /\ x % m \in 0..(m-1) /\ x = m * (x \div m) + (x % m)
OBVIOUS

(* Indexes less than a ring apart fall into different slots. *)
LEMMA ModUnique ==
  ASSUME NEW m \in Nat \ {0}, NEW a \in Nat, NEW b \in Nat, a < b, b < a + m
  PROVE  a % m # b % m
<1> DEFINE p == a \div m
           q == b \div m
<1>1. /\ p \in Nat /\ q \in Nat /\ a % m \in 0..(m-1) /\ b % m \in 0..(m-1)
      /\ a = m * p + (a % m) /\ b = m * q + (b % m)
  BY DivMod
<1>2. SUFFICES ASSUME a % m = b % m PROVE FALSE
  OBVIOUS
<1> HIDE DEF p, q
<1>3. m * (q - p) = b - a
  BY <1>1, <1>2
<1>4. CASE q - p <= 0
  <2>1. m * (q - p) <= 0
    BY <1>4, <1>1
  <2> QED BY <2>1, <1>3
<1>5. CASE q - p >= 1
  <2>1. m * (q - p) >= m
    BY <1>5, <1>1
  <2> QED BY <2>1, <1>3
<1> QED BY <1>1, <1>4, <1>5

(* Two indexes of the window that share a slot are the same. *)
LEMMA SlotsApart ==
  ASSUME NEW a \in Nat, NEW b \in Nat, a < b + N, b < a + N, a % N = b % N
  PROVE  a = b
<1>1. N \in Nat \ {0}
  BY SizesAssumption
<1>2. ~(a < b) /\ ~(b < a)
  BY <1>1, ModUnique
<1> QED BY <1>2

(* Under the contract no index wraps. *)
LEMMA NoWrap ==
  ASSUME Contract, NEW i \in Nat
  PROVE  /\ i < MaxPush => Up(i) = i + 1
         /\ i \in 1..MaxPush => Down(i) = i - 1
         /\ i % N \in 0..(N-1)
<1>1. W \in Nat \ {0} /\ N \in Nat \ {0} /\ MaxPush \in Nat /\ MaxPush < W
  BY SizesAssumption DEF Contract
<1>2. ASSUME i < MaxPush PROVE Up(i) = i + 1
  <2>1. i + 1 \in Nat /\ i + 1 < W
    BY <1>1, <1>2
  <2> QED BY <2>1, <1>1, ModSmall DEF Up
<1>3. ASSUME i \in 1..MaxPush PROVE Down(i) = i - 1
  <2>1. i - 1 \in Nat /\ i - 1 < W /\ i + W - 1 = (i - 1) + W
    BY <1>1, <1>3
  <2> QED BY <2>1, <1>1, ModSmall DEF Down
<1> QED BY <1>1, <1>2, <1>3, DivMod

(* The window, in terms of the owner's step. *)
LEMMA Values ==
  ASSUME Contract, Types, OwnerInv
  PROVE  /\ head \in Nat /\ tail \in Nat /\ pushes \in Nat /\ h[Owner] \in Nat
         /\ pushes <= MaxPush /\ MaxPush \in Nat /\ N \in Nat \ {0}
         /\ Limit = IF pc[Owner] \in PopPcs THEN h[Owner] + 1 ELSE head
         /\ First = IF pc[Owner] = "restore" THEN h[Owner] ELSE tail
         /\ First <= Limit /\ Limit <= First + N
         /\ Pushers = {Owner} /\ Owner \in Threads /\ Owner \notin Thieves
         /\ InHand = IF pc[Owner] \in {"write", "publish"} THEN {pushes} ELSE {}
<1>1. /\ head \in Nat /\ tail \in Nat /\ pushes \in Nat /\ h[Owner] \in Nat
      /\ pushes <= MaxPush /\ MaxPush \in Nat /\ N \in Nat \ {0}
  BY SizesAssumption DEF Types, Threads, Pushers, Indexes
<1>2. Limit = IF pc[Owner] \in PopPcs THEN h[Owner] + 1 ELSE head
  BY <1>1, NoWrap DEF OwnerInv, Limit
<1>3. /\ First = IF pc[Owner] = "restore" THEN h[Owner] ELSE tail
      /\ First <= Limit /\ Limit <= First + N
  BY <1>1, <1>2 DEF First, OwnerInv, PopPcs
<1>4. Pushers = {Owner} /\ Owner \in Threads /\ Owner \notin Thieves
  BY ThreadsAssumption DEF Contract, Pushers, Threads
<1>5. InHand = IF pc[Owner] \in {"write", "publish"} THEN {pushes} ELSE {}
  BY <1>4 DEF InHand, OwnerInv
<1> QED BY <1>1, <1>2, <1>3, <1>4, <1>5

(* The facts about the words and the threads that every step starts from. *)
Setting ==
  /\ head \in Nat /\ tail \in Nat /\ pushes \in Nat /\ MaxPush \in Nat
  /\ h[Owner] \in Nat /\ pushes <= MaxPush /\ MaxPush < W
  /\ N \in Nat \ {0} /\ W \in Nat \ {0} /\ Pushers = {Owner}
  /\ Owner \in Threads /\ Owner \notin Thieves /\ Thieves \subseteq Threads
  /\ Wakers = {}

LEMMA SettingHolds ==
  ASSUME Contract, IInv
  PROVE  Setting
BY Values, SizesAssumption DEF IInv, Setting, Threads, Contract

(* What a step may do to the items inside: nothing, or add one at the      *)
(* head, or take the newest, or take the oldest.                           *)
Quiet ==
  /\ First' = First /\ Limit' = Limit /\ taken' = taken
  /\ \A i \in Window : Slot(i)' = Slot(i)
Pushed ==
  /\ First' = First /\ Limit' = Limit + 1 /\ taken' = taken
  /\ \A i : Slot(i)' = Slot(i)
  /\ Slot(Limit) \in Items \ Done /\ Limit < MaxPush
Popped ==
  /\ First < Limit /\ First' = First /\ Limit' = Limit - 1
  /\ \A i : Slot(i)' = Slot(i)
  /\ taken' = taken \cup {Slot(Limit - 1)}
Stolen ==
  /\ First < Limit /\ First' = First + 1 /\ Limit' = Limit
  /\ \A i : Slot(i)' = Slot(i)
  /\ taken' = taken \cup {Slot(First)}

(* The initial state satisfies the invariant. *)
LEMMA InitInv ==
  ASSUME Contract, Init
  PROVE  IInv
<1>1. N \in Nat \ {0} /\ W \in Nat \ {0} /\ MaxPush \in Nat
  BY SizesAssumption
<1>2. pc[Owner] = "ready" /\ \A p \in Thieves : pc[p] = "ready"
  BY DEF Init, Threads, Pushers
<1>3. Types
  BY <1>1, <1>2 DEF Init, Types, Threads, Pushers, Indexes, PushPcs, PopPcs, StealPcs
<1>4. OwnerInv
  BY <1>1, <1>2 DEF Init, OwnerInv, Limit, PopPcs
<1>5. ThiefInv
  BY <1>2 DEF ThiefInv
<1>6. ItemInv
  BY <1>1, <1>2 DEF ItemInv, Init, Window, First, Limit, PopPcs, Done
<1> QED BY <1>3, <1>4, <1>5, <1>6 DEF IInv

(* push has loaded the indexes and found room. *)
LEMMA PushLoadInv ==
  ASSUME Contract, IInv, PushLoad(Owner)
  PROVE  IInv' /\ Quiet
<1> USE DEF IInv
<1>1. Setting
  BY SettingHolds
<1> USE <1>1 DEF Setting
<1>2. /\ pc[Owner] = "ready" /\ pc' = [pc EXCEPT ![Owner] = "write"]
      /\ pc'[Owner] = "write" /\ \A p \in Thieves : pc'[p] = pc[p]
      /\ head' = head /\ tail' = tail /\ slots' = slots /\ t' = t /\ taken' = taken
      /\ h' = [h EXCEPT ![Owner] = head] /\ pushes' = pushes + 1
      /\ item' = [item EXCEPT ![Owner] = pushes + 1] /\ pushes < MaxPush
  BY <1>1 DEF PushLoad, At, ring, Types
<1>3. Limit = head /\ First = tail /\ Limit' = head /\ First' = tail
  BY <1>2, Values DEF Limit, First, PopPcs
<1>4. tail <= head /\ head <= pushes /\ head - tail < N
  <2>1. tail <= head /\ head <= pushes /\ pushes < W
    BY <1>1, <1>2, <1>3 DEF OwnerInv, Contract
  <2>2. head - tail \in Nat /\ head - tail < W /\ head + W - tail = (head - tail) + W
    BY <2>1, <1>1
  <2>3. (head + W - tail) % W = head - tail
    BY <2>2, <1>1, ModSmall
  <2> QED BY <2>1, <2>3 DEF PushLoad
<1>5. InHand = {} /\ InHand' = {pushes + 1} /\ Done' = Done
  <2>1. InHand = {} /\ InHand' = {pushes + 1}
    BY <1>1, <1>2 DEF InHand, Types
  <2> QED BY <2>1, <1>1, <1>2 DEF Done
<1>6. Types'
  BY <1>1, <1>2 DEF Types, PushPcs, Pushers, Contract, Indexes
<1>7. OwnerInv'
  BY <1>1, <1>2, <1>3, <1>4 DEF OwnerInv, PopPcs, Types
<1>8. ThiefInv'
  BY <1>1, <1>2, <1>3 DEF ThiefInv, Slot
<1>9. ItemInv'
  BY <1>2, <1>3, <1>5 DEF ItemInv, Window, Slot
<1>10. Quiet
  BY <1>2, <1>3 DEF Quiet, Slot
<1> QED BY <1>6, <1>7, <1>8, <1>9, <1>10

(* The slot at the head is outside the window and no thief may take it. *)
LEMMA PushWriteInv ==
  ASSUME Contract, IInv, PushWrite(Owner)
  PROVE  IInv' /\ Quiet
<1> USE DEF IInv
<1>1. Setting
  BY SettingHolds
<1> USE <1>1 DEF Setting
<1>2. /\ pc[Owner] = "write" /\ pc' = [pc EXCEPT ![Owner] = "publish"]
      /\ pc'[Owner] = "publish" /\ \A p \in Thieves : pc'[p] = pc[p]
      /\ head' = head /\ tail' = tail /\ h' = h /\ t' = t /\ item' = item
      /\ taken' = taken /\ pushes' = pushes
      /\ slots' = [slots EXCEPT ![h[Owner] % N] = item[Owner]]
  BY <1>1 DEF PushWrite, At, locals, Types
<1>3. Limit = head /\ First = tail /\ Limit' = head /\ First' = tail
  BY <1>2, Values DEF Limit, First, PopPcs
<1>4. /\ tail <= head /\ head < pushes /\ head - tail < N
      /\ h[Owner] = head /\ item[Owner] = pushes /\ head % N \in 0..(N-1)
  BY <1>1, <1>2, <1>3, DivMod DEF OwnerInv
<1>5. Slot(head)' = pushes
  BY <1>2, <1>4 DEF Slot, Types
<1>6. \A i \in Window : Slot(i)' = Slot(i)
  <2>1. TAKE i \in Window
  <2>2. i \in Nat /\ tail <= i /\ i < head
    BY <1>1, <1>3 DEF Window
  <2>3. i % N # head % N
    <3>1. i < head /\ head < i + N
      BY <2>2, <1>4
    <3> QED BY <3>1, <2>2, ModUnique
  <2>4. i % N \in 0..(N-1)
    BY <2>2, <1>1, DivMod
  <2> QED BY <2>3, <2>4, <1>2, <1>4 DEF Slot, Types
<1>7. InHand' = InHand /\ Done' = Done
  <2>1. InHand = {pushes} /\ InHand' = {pushes}
    BY <1>1, <1>2, <1>4 DEF InHand
  <2> QED BY <2>1, <1>2 DEF Done
<1>8. Types'
  BY <1>1, <1>2 DEF Types, PushPcs, Pushers, Contract
<1>9. OwnerInv'
  BY <1>1, <1>2, <1>3, <1>4, <1>5 DEF OwnerInv, PopPcs
<1>10. ThiefInv'
  BY <1>1, <1>2, <1>3, <1>6 DEF ThiefInv, Window
<1>11. ItemInv'
  BY <1>2, <1>3, <1>6, <1>7 DEF ItemInv, Window
<1>12. Quiet
  BY <1>2, <1>3, <1>6 DEF Quiet
<1> QED BY <1>8, <1>9, <1>10, <1>11, <1>12

(* The item at the head joins the window. *)
LEMMA PushPublishInv ==
  ASSUME Contract, IInv, PushPublish(Owner)
  PROVE  IInv' /\ Pushed
<1> USE DEF IInv
<1>1. Setting
  BY SettingHolds
<1> USE <1>1 DEF Setting
<1>2. /\ pc[Owner] = "publish" /\ pc' = [pc EXCEPT ![Owner] = "ready"]
      /\ pc'[Owner] = "ready" /\ \A p \in Thieves : pc'[p] = pc[p]
      /\ tail' = tail /\ slots' = slots /\ h' = h /\ t' = t /\ item' = item
      /\ taken' = taken /\ pushes' = pushes
  BY DEF PushPublish, At, locals, Types
<1>3. /\ Limit = head /\ First = tail /\ tail <= head /\ head < pushes
      /\ head - tail < N /\ item[Owner] = pushes /\ h[Owner] = head
      /\ Slot(head) = pushes
  BY <1>2, Values DEF PopPcs, OwnerInv
<1>4. head' = head + 1
  BY <1>3, NoWrap DEF PushPublish
<1>5. Limit' = head + 1 /\ First' = tail
  BY <1>2, <1>4 DEF Limit, First, PopPcs
<1>6. pushes \notin Done /\ Done' = Done \cup {pushes}
  <2>1. InHand = {pushes} /\ InHand' = {}
    BY <1>2, <1>3 DEF InHand
  <2>2. pushes \in 1..pushes
    BY <1>3
  <2> QED BY <2>1, <2>2, <1>2 DEF Done
<1>7. Window' = Window \cup {head} /\ head \notin Window
  BY <1>3, <1>5 DEF Window
<1>8. \A i : Slot(i)' = Slot(i)
  BY <1>2 DEF Slot
<1>9. Types'
  BY <1>2, <1>3, <1>4 DEF Types, PushPcs, Contract, Indexes
<1>10. OwnerInv'
  BY <1>2, <1>3, <1>4, <1>5 DEF OwnerInv, PopPcs
<1>11. ThiefInv'
  BY <1>2, <1>3, <1>5, <1>8 DEF ThiefInv
<1>12. ItemInv'
  <2>1. \A i \in Window : Slot(i) # pushes
    BY <1>6 DEF ItemInv
  <2> QED BY <2>1, <1>2, <1>3, <1>6, <1>7, <1>8 DEF ItemInv
<1>13. Pushed
  BY <1>2, <1>3, <1>5, <1>6, <1>8 DEF Pushed, Items
<1> QED BY <1>9, <1>10, <1>11, <1>12, <1>13

(* pop has seen that the indexes differ; the window does not change. *)
LEMMA PopLoadInv ==
  ASSUME Contract, IInv, PopLoad
  PROVE  IInv' /\ Quiet
<1> USE DEF IInv
<1>1. Setting
  BY SettingHolds
<1> USE <1>1 DEF Setting
<1>2. /\ pc[Owner] = "ready" /\ pc' = [pc EXCEPT ![Owner] = "lower"]
      /\ pc'[Owner] = "lower" /\ \A p \in Thieves : pc'[p] = pc[p]
      /\ head' = head /\ tail' = tail /\ slots' = slots /\ t' = t /\ item' = item
      /\ taken' = taken /\ pushes' = pushes /\ head # tail
      /\ h' = [h EXCEPT ![Owner] = Down(head)]
  BY DEF PopLoad, At, ring, Types
<1>3. Limit = head /\ First = tail /\ tail < head /\ head <= pushes
  BY <1>2, Values DEF PopPcs, OwnerInv
<1>4. h'[Owner] = head - 1
  <2>1. head \in 1..MaxPush
    BY <1>3
  <2> QED BY <2>1, <1>2, NoWrap DEF Types
<1>5. Limit' = head /\ First' = tail
  <2>1. head - 1 \in Nat /\ head - 1 < MaxPush
    BY <1>3
  <2>2. Up(head - 1) = head
    BY <2>1, NoWrap
  <2> QED BY <2>2, <1>2, <1>4 DEF Limit, First, PopPcs
<1>6. Types'
  BY <1>2, <1>3, <1>4 DEF Types, PopPcs, Contract, Indexes
<1>7. OwnerInv'
  BY <1>2, <1>3, <1>4, <1>5 DEF OwnerInv, PopPcs
<1>8. ThiefInv'
  BY <1>2, <1>3, <1>5 DEF ThiefInv, Slot
<1>9. ItemInv'
  <2>1. Done' = Done
    BY <1>2 DEF Done, InHand
  <2> QED BY <2>1, <1>2, <1>3, <1>5 DEF ItemInv, Window, Slot
<1>10. Quiet
  BY <1>2, <1>3, <1>5 DEF Quiet, Slot
<1> QED BY <1>6, <1>7, <1>8, <1>9, <1>10

(* The head is lowered; the window does not change. *)
LEMMA PopLowerInv ==
  ASSUME Contract, IInv, PopLower
  PROVE  IInv' /\ Quiet
<1> USE DEF IInv
<1>1. Setting
  BY SettingHolds
<1> USE <1>1 DEF Setting
<1>2. /\ pc[Owner] = "lower" /\ pc' = [pc EXCEPT ![Owner] = "look"]
      /\ pc'[Owner] = "look" /\ \A p \in Thieves : pc'[p] = pc[p]
      /\ head' = h[Owner] /\ tail' = tail /\ slots' = slots /\ h' = h /\ t' = t
      /\ item' = item /\ taken' = taken /\ pushes' = pushes
  BY DEF PopLower, At, locals, Types
<1>3. Limit' = Limit /\ First' = First /\ First = tail
  BY <1>2, Values DEF Limit, First, PopPcs
<1>4. Types'
  <2>1. h[Owner] \in Indexes
    BY DEF Types
  <2> QED BY <2>1, <1>2 DEF Types, PopPcs
<1>5. OwnerInv'
  BY <1>2, <1>3 DEF OwnerInv, PopPcs
<1>6. ThiefInv'
  BY <1>2, <1>3 DEF ThiefInv, Slot
<1>7. ItemInv'
  <2>1. Done' = Done
    BY <1>2 DEF Done, InHand
  <2> QED BY <2>1, <1>2, <1>3 DEF ItemInv, Window, Slot
<1>8. Quiet
  BY <1>2, <1>3 DEF Quiet, Slot
<1> QED BY <1>4, <1>5, <1>6, <1>7, <1>8

(* The owner takes the item under the lowered head, or it is the last one, *)
(* or it is gone.                                                          *)
LEMMA PopLookInv ==
  ASSUME Contract, IInv, PopLook
  PROVE  IInv' /\ (Quiet \/ Popped)
<1> USE DEF IInv
<1>1. Setting
  BY SettingHolds
<1> USE <1>1 DEF Setting
<1>2. /\ pc[Owner] = "look" /\ \A p \in Thieves : pc'[p] = pc[p]
      /\ head' = head /\ tail' = tail /\ slots' = slots /\ h' = h /\ item' = item
      /\ pushes' = pushes /\ t' = [t EXCEPT ![Owner] = tail]
      /\ t'[Owner] = tail /\ \A p \in Thieves : t'[p] = t[p]
  BY DEF PopLook, At, ring, Types
<1>3. /\ Limit = h[Owner] + 1 /\ First = tail /\ tail <= h[Owner] + 1
      /\ head = h[Owner] /\ h[Owner] < pushes
  BY <1>2, Values DEF PopPcs, OwnerInv
<1>4. \A i : Slot(i)' = Slot(i)
  BY <1>2 DEF Slot
<1>5. ASSUME NEW s \in {"ready", "race", "reset"}, pc' = [pc EXCEPT ![Owner] = s]
      PROVE  pc'[Owner] = s /\ Done' = Done
  <2>1. pc'[Owner] = s
    BY <1>5 DEF Types
  <2>2. InHand = {} /\ InHand' = {}
    BY <2>1, <1>2 DEF InHand
  <2> QED BY <2>1, <2>2, <1>2 DEF Done
<1>6. CASE /\ pc' = [pc EXCEPT ![Owner] = "ready"] /\ tail < h[Owner]
           /\ taken' = taken \cup {Slot(h[Owner])}
  <2>1. pc'[Owner] = "ready" /\ Done' = Done
    BY <1>5, <1>6
  <2>2. Limit' = h[Owner] /\ First' = tail
    BY <2>1, <1>2, <1>3 DEF Limit, First, PopPcs
  <2>3. /\ Window' = Window \ {h[Owner]} /\ h[Owner] \in Window
    BY <2>2, <1>3, <1>6 DEF Window
  <2>4. Slot(h[Owner]) \in Done \ taken
    BY <2>3 DEF ItemInv
  <2>5. Types'
    <3>1. Done \subseteq 0..MaxPush /\ taken \subseteq 0..MaxPush
      BY DEF Types, Done
    <3>2. taken' \subseteq 0..MaxPush
      BY <3>1, <2>4, <1>6
    <3> QED BY <3>2, <2>1, <1>2, <1>6 DEF Types, PushPcs
  <2>6. OwnerInv'
    BY <2>1, <2>2, <1>2, <1>3, <1>6 DEF OwnerInv, PopPcs
  <2>7. ThiefInv'
    BY <2>2, <1>2, <1>4, <1>6 DEF ThiefInv
  <2>8. ItemInv'
    BY <2>1, <2>3, <2>4, <1>4, <1>6 DEF ItemInv
  <2>9. Popped
    BY <2>2, <1>3, <1>4, <1>6 DEF Popped
  <2> QED BY <2>5, <2>6, <2>7, <2>8, <2>9
<1>7. CASE /\ taken' = taken
           /\ \/ pc' = [pc EXCEPT ![Owner] = "race"] /\ tail = h[Owner]
              \/ pc' = [pc EXCEPT ![Owner] = "reset"] /\ tail > h[Owner]
  <2>1. /\ pc'[Owner] \in {"race", "reset"} /\ Done' = Done
        /\ pc'[Owner] = "race" => tail = h[Owner]
        /\ pc'[Owner] = "reset" => tail > h[Owner]
    BY <1>5, <1>7
  <2>2. Limit' = Limit /\ First' = First
    <3>1. Up(h[Owner]) = h[Owner] + 1
      BY <1>3, NoWrap
    <3> QED BY <3>1, <2>1, <1>2, <1>3 DEF Limit, First, PopPcs
  <2>3. Types'
    <3>1. pc' \in [Threads -> PushPcs \cup PopPcs \cup StealPcs]
      BY <1>7 DEF Types, PopPcs
    <3> QED BY <3>1, <2>1, <1>2, <1>7 DEF Types, PopPcs
  <2>4. OwnerInv'
    BY <2>1, <2>2, <1>2, <1>3 DEF OwnerInv, PopPcs
  <2>5. ThiefInv'
    BY <2>2, <1>2, <1>4 DEF ThiefInv
  <2>6. ItemInv'
    BY <2>1, <2>2, <1>4, <1>7 DEF ItemInv, Window
  <2>7. Quiet
    BY <2>2, <1>4, <1>7 DEF Quiet
  <2> QED BY <2>3, <2>4, <2>5, <2>6, <2>7
<1>8. \/ /\ pc' = [pc EXCEPT ![Owner] = "ready"] /\ tail < h[Owner]
         /\ taken' = taken \cup {Slot(h[Owner])}
      \/ /\ taken' = taken
         /\ \/ pc' = [pc EXCEPT ![Owner] = "race"] /\ tail = h[Owner]
            \/ pc' = [pc EXCEPT ![Owner] = "reset"] /\ tail > h[Owner]
  BY DEF PopLook, At, Slot
<1> QED BY <1>6, <1>7, <1>8

(* The last item: the owner wins the tail and keeps the window until it    *)
(* returns, or a thief was faster.                                         *)
LEMMA PopRaceInv ==
  ASSUME Contract, IInv, PopRace
  PROVE  IInv' /\ Quiet
<1> USE DEF IInv
<1>1. Setting
  BY SettingHolds
<1> USE <1>1 DEF Setting
<1>2. /\ pc[Owner] = "race" /\ \A p \in Thieves : pc'[p] = pc[p]
      /\ head' = head /\ slots' = slots /\ h' = h /\ item' = item
      /\ pushes' = pushes /\ taken' = taken
      /\ \/ pc' = [pc EXCEPT ![Owner] = "restore"] /\ tail = t[Owner]
            /\ tail' = Up(t[Owner]) /\ t' = t
         \/ pc' = [pc EXCEPT ![Owner] = "reset"] /\ tail # t[Owner]
            /\ t' = [t EXCEPT ![Owner] = tail] /\ tail' = tail
  BY DEF PopRace, At, Types
<1>3. /\ Limit = h[Owner] + 1 /\ First = tail /\ tail <= h[Owner] + 1
      /\ head = h[Owner] /\ h[Owner] < pushes /\ t[Owner] = h[Owner] /\ h[Owner] <= tail
      /\ Up(h[Owner]) = h[Owner] + 1
  BY <1>2, Values, NoWrap DEF PopPcs, OwnerInv
<1>4. \/ /\ pc'[Owner] = "restore" /\ tail = h[Owner] /\ tail' = h[Owner] + 1
         /\ pc' = [pc EXCEPT ![Owner] = "restore"] /\ t' = t
      \/ /\ pc'[Owner] = "reset" /\ tail = h[Owner] + 1 /\ tail' = tail
         /\ pc' = [pc EXCEPT ![Owner] = "reset"] /\ t' = [t EXCEPT ![Owner] = tail]
         /\ t'[Owner] = tail
  BY <1>2, <1>3 DEF Types
<1>5. Limit' = Limit /\ First' = First /\ \A p \in Thieves : t'[p] = t[p]
  BY <1>2, <1>3, <1>4 DEF Limit, First, PopPcs, Types
<1>6. \A i : Slot(i)' = Slot(i)
  BY <1>2 DEF Slot
<1>7. Types'
  <2>1. pc' \in [Threads -> PushPcs \cup PopPcs \cup StealPcs] /\ pc'[Owner] \in PopPcs
    BY <1>4 DEF Types, PopPcs
  <2>2. t' \in [Threads -> Indexes] /\ tail' \in Indexes
    BY <1>3, <1>4 DEF Types, Indexes
  <2> QED BY <2>1, <2>2, <1>2 DEF Types
<1>8. OwnerInv'
  BY <1>2, <1>3, <1>4, <1>5 DEF OwnerInv, PopPcs
<1>9. ThiefInv'
  <2>1. \A p \in Thieves : t[p] \in Nat
    BY DEF Types, Indexes
  <2> QED BY <2>1, <1>2, <1>3, <1>4, <1>5, <1>6 DEF ThiefInv
<1>10. ItemInv'
  <2>1. Done' = Done
    BY <1>2, <1>4 DEF Done, InHand
  <2> QED BY <2>1, <1>2, <1>5, <1>6 DEF ItemInv, Window
<1>11. Quiet
  BY <1>2, <1>5, <1>6 DEF Quiet
<1> QED BY <1>7, <1>8, <1>9, <1>10, <1>11

(* The owner returns the item it won; the ring is empty. *)
LEMMA PopRestoreInv ==
  ASSUME Contract, IInv, PopRestore
  PROVE  IInv' /\ Stolen
<1> USE DEF IInv
<1>1. Setting
  BY SettingHolds
<1> USE <1>1 DEF Setting
<1>2. /\ pc[Owner] = "restore" /\ pc' = [pc EXCEPT ![Owner] = "ready"]
      /\ pc'[Owner] = "ready" /\ \A p \in Thieves : pc'[p] = pc[p]
      /\ tail' = tail /\ slots' = slots /\ h' = h /\ t' = t /\ item' = item
      /\ pushes' = pushes /\ taken' = taken \cup {Slot(h[Owner])}
  BY DEF PopRestore, At, locals, Types, Slot
<1>3. /\ Limit = h[Owner] + 1 /\ First = h[Owner] /\ tail = h[Owner] + 1
      /\ h[Owner] < pushes
  BY <1>2, Values DEF PopPcs, OwnerInv
<1>4. head' = h[Owner] + 1
  BY <1>3, NoWrap DEF PopRestore
<1>5. Limit' = h[Owner] + 1 /\ First' = tail
  BY <1>2, <1>4 DEF Limit, First, PopPcs
<1>6. Window = {h[Owner]} /\ Window' = {}
  BY <1>3, <1>5 DEF Window
<1>7. \A i : Slot(i)' = Slot(i)
  BY <1>2 DEF Slot
<1>8. Done' = Done /\ Slot(h[Owner]) \in Done
  BY <1>2, <1>6 DEF Done, InHand, ItemInv
<1>9. Types'
  <2>1. Done \subseteq 0..MaxPush /\ taken \subseteq 0..MaxPush
    BY DEF Types, Done
  <2>2. taken' \subseteq 0..MaxPush
    BY <2>1, <1>2, <1>8
  <2> QED BY <2>2, <1>2, <1>3, <1>4 DEF Types, PushPcs, Indexes
<1>10. OwnerInv'
  BY <1>2, <1>3, <1>4, <1>5 DEF OwnerInv, PopPcs
<1>11. ThiefInv'
  BY <1>2, <1>3, <1>5, <1>7 DEF ThiefInv
<1>12. ItemInv'
  BY <1>2, <1>6, <1>7, <1>8 DEF ItemInv
<1>13. Stolen
  BY <1>2, <1>3, <1>5, <1>7 DEF Stolen
<1> QED BY <1>9, <1>10, <1>11, <1>12, <1>13

(* The owner lost: head and tail meet again. *)
LEMMA PopResetInv ==
  ASSUME Contract, IInv, PopReset
  PROVE  IInv' /\ Quiet
<1> USE DEF IInv
<1>1. Setting
  BY SettingHolds
<1> USE <1>1 DEF Setting
<1>2. /\ pc[Owner] = "reset" /\ pc' = [pc EXCEPT ![Owner] = "ready"]
      /\ pc'[Owner] = "ready" /\ \A p \in Thieves : pc'[p] = pc[p]
      /\ tail' = tail /\ slots' = slots /\ h' = h /\ t' = t /\ item' = item
      /\ pushes' = pushes /\ taken' = taken /\ head' = t[Owner]
  BY DEF PopReset, At, locals, Types
<1>3. /\ Limit = h[Owner] + 1 /\ First = tail /\ tail = h[Owner] + 1
      /\ t[Owner] = tail /\ h[Owner] < pushes
  BY <1>2, Values DEF PopPcs, OwnerInv
<1>4. Limit' = Limit /\ First' = First
  BY <1>2, <1>3 DEF Limit, First, PopPcs
<1>5. Types'
  BY <1>2, <1>3 DEF Types, PushPcs
<1>6. OwnerInv'
  BY <1>2, <1>3, <1>4 DEF OwnerInv, PopPcs
<1>7. ThiefInv'
  BY <1>2, <1>4 DEF ThiefInv, Slot
<1>8. ItemInv'
  <2>1. Done' = Done
    BY <1>2 DEF Done, InHand
  <2> QED BY <2>1, <1>2, <1>4 DEF ItemInv, Window, Slot
<1>9. Quiet
  BY <1>2, <1>4 DEF Quiet, Slot
<1> QED BY <1>5, <1>6, <1>7, <1>8, <1>9

(* The steps in which a thief only reads. *)
LEMMA StealLookInv ==
  ASSUME Contract, IInv, NEW p \in Thieves, StealTail(p) \/ StealHead(p) \/ StealRead(p)
  PROVE  IInv' /\ Quiet
<1> USE DEF IInv
<1>1. Setting
  BY SettingHolds
<1> USE <1>1 DEF Setting
<1>2. /\ head' = head /\ tail' = tail /\ slots' = slots /\ pushes' = pushes
      /\ taken' = taken /\ p \in Threads /\ p # Owner
  BY DEF StealTail, StealHead, StealRead, ring
<1>3. \A q \in Threads : q # p =>
        pc'[q] = pc[q] /\ h'[q] = h[q] /\ t'[q] = t[q] /\ item'[q] = item[q]
  BY DEF StealTail, StealHead, StealRead, At, Types
<1>4. /\ Limit' = Limit /\ First' = First /\ head <= Limit
      /\ pc'[Owner] = pc[Owner] /\ Done' = Done /\ \A i : Slot(i)' = Slot(i)
  <2>1. /\ pc'[Owner] = pc[Owner] /\ h'[Owner] = h[Owner] /\ t'[Owner] = t[Owner]
        /\ item'[Owner] = item[Owner]
    BY <1>2, <1>3
  <2>2. head <= Limit
    BY Values DEF OwnerInv, PopPcs
  <2> QED BY <2>1, <2>2, <1>2 DEF Limit, First, Done, InHand, Slot
<1>5. Quiet
  BY <1>2, <1>4 DEF Quiet
<1>6. CASE StealTail(p)
  <2>1. /\ pc' = [pc EXCEPT ![p] = "head"] /\ h' = h /\ item' = item
        /\ t' = [t EXCEPT ![p] = tail] /\ pc'[p] = "head" /\ t'[p] = tail
    BY <1>6, <1>2 DEF StealTail, At, Types
  <2>2. Types'
    BY <2>1, <1>2, <1>4 DEF Types, StealPcs
  <2>3. ThiefInv'
    BY <2>1, <1>2, <1>3, <1>4 DEF ThiefInv
  <2> QED BY <2>2, <2>3, <1>2, <1>3, <1>4, <1>5 DEF OwnerInv, ItemInv, Window
<1>7. CASE StealHead(p)
  <2>1. /\ t' = t /\ item' = item /\ h' = [h EXCEPT ![p] = head] /\ pc[p] = "head"
        /\ \/ pc' = [pc EXCEPT ![p] = "read"] /\ pc'[p] = "read" /\ t[p] < head
           \/ pc' = [pc EXCEPT ![p] = "ready"] /\ pc'[p] = "ready"
    BY <1>7, <1>2 DEF StealHead, At, ring, Types
  <2>2. Types'
    <3>1. pc' \in [Threads -> PushPcs \cup PopPcs \cup StealPcs] /\ pc'[p] \in StealPcs
      BY <2>1, <1>2 DEF Types, StealPcs
    <3> QED BY <3>1, <2>1, <1>2, <1>3, <1>4 DEF Types
  <2>3. ThiefInv'
    <3>1. t[p] \in Nat /\ Limit \in Nat
      BY <1>2, Values DEF Types, Indexes
    <3> QED BY <3>1, <2>1, <1>2, <1>3, <1>4 DEF ThiefInv
  <2> QED BY <2>2, <2>3, <1>2, <1>3, <1>4, <1>5 DEF OwnerInv, ItemInv, Window
<1>8. CASE StealRead(p)
  <2>1. /\ pc' = [pc EXCEPT ![p] = "cas"] /\ h' = h /\ t' = t /\ pc[p] = "read"
        /\ item' = [item EXCEPT ![p] = Slot(t[p])] /\ pc'[p] = "cas"
        /\ item'[p] = Slot(t[p])
    BY <1>8, <1>2 DEF StealRead, At, ring, Types, Slot
  <2>2. Slot(t[p]) \in 0..MaxPush
    <3>1. t[p] \in Nat
      BY <1>2 DEF Types, Indexes
    <3>2. t[p] % N \in 0..(N-1)
      BY <3>1, DivMod
    <3> QED BY <3>2 DEF Types, Slot
  <2>3. Types'
    BY <2>1, <2>2, <1>2, <1>4 DEF Types, StealPcs
  <2>4. ThiefInv'
    BY <2>1, <1>2, <1>3, <1>4 DEF ThiefInv
  <2> QED BY <2>3, <2>4, <1>2, <1>3, <1>4, <1>5 DEF OwnerInv, ItemInv, Window
<1> QED BY <1>6, <1>7, <1>8

(* A thief whose tail is current takes the oldest item; the others lose. *)
LEMMA StealCasInv ==
  ASSUME Contract, IInv, NEW p \in Thieves, StealCas(p)
  PROVE  IInv' /\ (Quiet \/ Stolen)
<1> USE DEF IInv
<1>1. Setting
  BY SettingHolds
<1> USE <1>1 DEF Setting
<1>2. /\ head' = head /\ slots' = slots /\ pushes' = pushes /\ h' = h /\ t' = t
      /\ item' = item /\ pc[p] = "cas" /\ pc' = [pc EXCEPT ![p] = "ready"]
      /\ pc'[p] = "ready" /\ p \in Threads /\ p # Owner
  BY DEF StealCas, At, locals, Types
<1>3. \A q \in Threads : q # p => pc'[q] = pc[q]
  BY <1>2 DEF Types
<1>4. /\ pc'[Owner] = pc[Owner] /\ Done' = Done /\ Limit' = Limit
      /\ \A i : Slot(i)' = Slot(i)
  BY <1>2, <1>3 DEF Done, InHand, Limit, Slot
<1>5. CASE tail' = tail /\ taken' = taken
  <2>1. First' = First
    BY <1>2, <1>4, <1>5 DEF First
  <2>2. Types'
    BY <1>2, <1>4, <1>5 DEF Types, StealPcs
  <2>3. OwnerInv' /\ ItemInv'
    BY <2>1, <1>2, <1>4, <1>5 DEF OwnerInv, ItemInv, Window
  <2>4. ThiefInv'
    BY <1>2, <1>3, <1>4, <1>5 DEF ThiefInv
  <2>5. Quiet
    BY <2>1, <1>4, <1>5 DEF Quiet
  <2> QED BY <2>2, <2>3, <2>4, <2>5
<1>6. CASE tail = t[p] /\ tail' = Up(t[p]) /\ taken' = taken \cup {item[p]}
  <2>1. tail < Limit /\ item[p] = Slot(tail)
    BY <1>2, <1>6 DEF ThiefInv
  <2>2. /\ Limit = IF pc[Owner] \in PopPcs THEN h[Owner] + 1 ELSE head
        /\ Limit \in Nat /\ Limit <= pushes
    BY Values DEF OwnerInv
  <2>3. tail' = tail + 1
    BY <2>1, <2>2, <1>6, NoWrap
  <2>4. pc[Owner] \notin {"restore", "reset"}
    BY <2>1, <2>2 DEF OwnerInv, PopPcs
  <2>5. First = tail /\ First' = tail + 1
    BY <2>3, <2>4, <1>4 DEF First
  <2>6. Window' = Window \ {tail} /\ tail \in Window
    BY <2>1, <2>2, <2>5, <1>4 DEF Window
  <2>7. taken' = taken \cup {Slot(tail)} /\ Slot(tail) \in Done \ taken
    BY <2>1, <2>6, <1>6 DEF ItemInv
  <2>8. Types'
    <3>1. Done \subseteq 0..MaxPush /\ taken \subseteq 0..MaxPush
      BY DEF Types, Done
    <3>2. taken' \subseteq 0..MaxPush
      BY <3>1, <2>7
    <3>3. tail' \in Indexes
      BY <2>1, <2>2, <2>3 DEF Indexes
    <3> QED BY <3>2, <3>3, <1>2, <1>4 DEF Types, StealPcs
  <2>9. OwnerInv'
    BY <2>1, <2>2, <2>3, <2>4, <1>2, <1>4 DEF OwnerInv
  <2>10. ThiefInv'
    <3>1. \A q \in Thieves : pc[q] # "ready" => t[q] \in Nat /\ t[q] <= tail
      BY DEF ThiefInv, Types, Indexes
    <3> QED BY <3>1, <2>3, <1>2, <1>3 DEF ThiefInv
  <2>11. ItemInv'
    BY <2>6, <2>7, <1>4 DEF ItemInv
  <2>12. Stolen
    BY <2>1, <2>5, <2>7, <1>4 DEF Stolen
  <2> QED BY <2>8, <2>9, <2>10, <2>11, <2>12
<1>7. \/ tail' = tail /\ taken' = taken
      \/ tail = t[p] /\ tail' = Up(t[p]) /\ taken' = taken \cup {item[p]}
  BY DEF StealCas
<1> QED BY <1>5, <1>6, <1>7

(* Every step keeps the invariant and has one effect on the items. *)
LEMMA StepInv ==
  ASSUME Contract, IInv, [Next]_vars
  PROVE  IInv' /\ (Quiet \/ Pushed \/ Popped \/ Stolen)
<1>1. Pushers = {Owner}
  BY SettingHolds DEF Setting
<1>2. CASE \E p \in Pushers : PushStep(p)
  BY <1>1, <1>2, PushLoadInv, PushWriteInv, PushPublishInv DEF PushStep
<1>3. CASE PopStep
  BY <1>3, PopLoadInv, PopLowerInv, PopLookInv, PopRaceInv, PopRestoreInv, PopResetInv
     DEF PopStep
<1>4. CASE \E p \in Thieves : StealStep(p)
  BY <1>4, StealLookInv, StealCasInv DEF StealStep
<1>5. CASE UNCHANGED vars
  <2>1. /\ head' = head /\ tail' = tail /\ slots' = slots /\ pc' = pc /\ h' = h
        /\ t' = t /\ item' = item /\ pushes' = pushes /\ taken' = taken
    BY <1>5 DEF vars, ring, locals
  <2>2. Types' /\ First' = First /\ Limit' = Limit /\ InHand' = InHand
    BY <2>1 DEF IInv, Types, First, Limit, InHand
  <2> QED
    BY <2>1, <2>2 DEF IInv, OwnerInv, ThiefInv, ItemInv, Slot, Window, Done, Quiet
<1> QED BY <1>2, <1>3, <1>4, <1>5 DEF Next

(* The invariant holds in every reachable state. *)
THEOREM Invariance ==
  ASSUME Contract
  PROVE  Spec => []IInv
<1>1. Init => IInv
  BY InitInv
<1>2. IInv /\ [Next]_vars => IInv'
  BY StepInv
<1> QED BY <1>1, <1>2, PTL DEF Spec

-------------------------------------------------------------------------------
(* Below the modulus the difference of two indexes is exact. *)
LEMMA Difference ==
  ASSUME NEW a \in Nat, NEW b \in Nat, a <= b, b < W
  PROVE  (b + W - a) % W = b - a
<1>1. W \in Nat \ {0}
  BY SizesAssumption
<1>2. b - a \in Nat /\ b - a < W /\ b + W - a = (b - a) + W
  BY <1>1
<1> QED BY <1>1, <1>2, ModSmall

(* The invariant bounds the window and gives the deque its items. *)
LEMMA DequeIs ==
  ASSUME Contract, IInv
  PROVE  /\ First \in Nat /\ Limit \in Nat /\ First <= Limit /\ Limit < W
         /\ Limit <= First + N
         /\ Count = Limit - First
         /\ Deque = [k \in 1..(Limit - First) |-> Slot(First + k - 1)]
         /\ \A k \in 1..(Limit - First) : First + k - 1 \in Window
         /\ \A i \in Window : i - First + 1 \in 1..(Limit - First)
<1>1. /\ First \in Nat /\ Limit \in Nat /\ First <= Limit /\ Limit < W
      /\ Limit <= First + N
  <2>1. Setting
    BY SettingHolds
  <2> QED BY <2>1, Values DEF IInv, OwnerInv, Setting
<1>2. Count = Limit - First
  BY <1>1, Difference DEF Count
<1>3. Deque = [k \in 1..(Limit - First) |-> Slot(First + k - 1)]
  BY <1>2 DEF Deque, Slot
<1>4. /\ \A k \in 1..(Limit - First) : First + k - 1 \in Window
      /\ \A i \in Window : i - First + 1 \in 1..(Limit - First)
  BY <1>1 DEF Window
<1> QED BY <1>1, <1>2, <1>3, <1>4

(* Types, and never more items than slots (queue.h:46). *)
THEOREM TypeCorrect ==
  ASSUME Contract
  PROVE  Spec => []TypeOK
<1>1. IInv => TypeOK
  <2>1. SUFFICES ASSUME IInv PROVE Count <= N
    BY DEF IInv, TypeOK
  <2>2. N \in Nat
    BY SizesAssumption
  <2> QED BY <2>1, <2>2, DequeIs
<1> QED BY <1>1, Invariance, PTL

(* No item is lost and none is handed out twice: every item whose push is  *)
(* over is inside once or was returned.                                    *)
THEOREM ItemsAreKept ==
  ASSUME Contract
  PROVE  Spec => []NothingLost
<1>1. IInv => NothingLost
  <2> SUFFICES ASSUME IInv PROVE NothingLost
    OBVIOUS
  <2>1. /\ First \in Nat /\ Limit \in Nat /\ Count = Limit - First
        /\ \A k \in 1..Count : First + k - 1 \in Window /\ Deque[k] = Slot(First + k - 1)
        /\ \A i \in Window : i \in Nat /\ i - First + 1 \in 1..Count
    BY DequeIs DEF Window
  <2>2. ASSUME NEW j \in 1..Count, NEW k \in 1..Count, Deque[j] = Deque[k]
        PROVE  j = k
    <3>1. First + j - 1 = First + k - 1
      BY <2>1, <2>2 DEF IInv, ItemInv
    <3> QED BY <3>1, <2>1
  <2>3. \A k \in 1..Count : Deque[k] \in Done \ taken
    BY <2>1 DEF IInv, ItemInv
  <2>4. ASSUME NEW x \in Done \ taken
        PROVE  \E k \in 1..Count : Deque[k] = x
    <3>1. PICK i \in Window : Slot(i) = x
      BY DEF IInv, ItemInv
    <3>2. First + (i - First + 1) - 1 = i
      BY <2>1
    <3> QED BY <3>1, <3>2, <2>1
  <2>5. taken \subseteq Done
    BY DEF IInv, ItemInv
  <2>6. {Deque[k] : k \in 1..Count} \cup taken = Done
    BY <2>3, <2>4, <2>5
  <2> QED BY <2>2, <2>3, <2>6 DEF NothingLost, Done
<1> QED BY <1>1, Invariance, PTL

(* pop gives up only when thieves have emptied the ring (queue.h:54, 76). *)
THEOREM PopIsHonest ==
  ASSUME Contract
  PROVE  Spec => []EmptyIsHonest
<1>1. IInv => EmptyIsHonest
  <2> SUFFICES ASSUME IInv, pc[Owner] = "reset" PROVE Count = 0 /\ tail = t[Owner]
    BY DEF EmptyIsHonest
  <2>1. Limit = h[Owner] + 1 /\ First = tail /\ tail = h[Owner] + 1 /\ t[Owner] = tail
    BY Values DEF IInv, OwnerInv, PopPcs
  <2> QED BY <2>1, DequeIs
<1> QED BY <1>1, Invariance, PTL

-------------------------------------------------------------------------------
(* The four effects, seen as steps of the deque. *)
LEMMA QuietIsStutter ==
  ASSUME Contract, IInv, Quiet
  PROVE  Deque' = Deque /\ taken' = taken
<1>1. Limit' - First' = Limit - First /\ Count' = Count
  BY DEF Quiet, Count
<1>2. \A k \in 1..(Limit - First) : Slot(First + k - 1)' = Slot(First + k - 1)
  BY DequeIs DEF Quiet
<1>3. Deque' = [k \in 1..Count |-> Slot(First + k - 1)']
  BY <1>1 DEF Deque, Slot, Quiet
<1> QED BY <1>2, <1>3, DequeIs DEF Quiet

(* The item at the head joins the deque at its newest end. *)
LEMMA PushedIsPush ==
  ASSUME Contract, IInv, Pushed
  PROVE  D!Push(Slot(Limit))
<1> DEFINE n == Limit - First
<1>1. /\ First \in Nat /\ Limit \in Nat /\ n \in Nat /\ Limit + 1 < W
      /\ Deque = [k \in 1..n |-> Slot(First + k - 1)]
      /\ \A k \in 1..n : Deque[k] \in Done \ taken
  <2>1. First \in Nat /\ Limit \in Nat /\ n \in Nat /\ Limit + 1 < W
    BY DequeIs, SizesAssumption DEF Pushed, Contract
  <2>2. Deque = [k \in 1..n |-> Slot(First + k - 1)]
    BY DequeIs
  <2> QED BY <2>1, <2>2, DequeIs DEF IInv, ItemInv
<1>2. Count' = n + 1
  <2>1. (Limit + 1 + W - First) % W = (Limit + 1) - First
    BY <1>1, Difference
  <2> QED BY <2>1, <1>1 DEF Pushed, Count
<1>3. Deque' = [k \in 1..(n + 1) |-> Slot(First + k - 1)]
  BY <1>2 DEF Deque, Slot, Pushed
<1>4. Len(Deque) = n
  BY <1>1
<1>5. Deque' = Append(Deque, Slot(Limit))
  BY <1>1, <1>3, <1>4
<1>6. Slot(Limit) \notin taken /\ \A i \in DOMAIN Deque : Deque[i] # Slot(Limit)
  BY <1>1 DEF Pushed, IInv, ItemInv
<1> QED BY <1>5, <1>6 DEF D!Push, Pushed

(* The owner takes the newest item. *)
LEMMA PoppedIsPop ==
  ASSUME Contract, IInv, Popped
  PROVE  D!Pop
<1> DEFINE n == Limit - First
<1>1. /\ First \in Nat /\ Limit \in Nat /\ n \in Nat \ {0} /\ Limit - 1 < W
      /\ Deque = [k \in 1..n |-> Slot(First + k - 1)]
  BY DequeIs, SizesAssumption DEF Popped
<1>2. Count' = n - 1
  <2>1. (Limit - 1 + W - First) % W = (Limit - 1) - First
    BY <1>1, Difference
  <2> QED BY <2>1, <1>1 DEF Popped, Count
<1>3. Deque' = [k \in 1..(n - 1) |-> Slot(First + k - 1)]
  BY <1>2 DEF Deque, Slot, Popped
<1>4. Len(Deque) = n /\ Deque # <<>> /\ Deque[n] = Slot(Limit - 1)
  BY <1>1
<1>5. Deque' = SubSeq(Deque, 1, Len(Deque) - 1)
  BY <1>1, <1>3, <1>4
<1> QED BY <1>4, <1>5 DEF D!Pop, Popped

(* A thief, or the owner of a last item, takes the oldest one. *)
LEMMA StolenIsSteal ==
  ASSUME Contract, IInv, Stolen
  PROVE  D!Steal
<1> DEFINE n == Limit - First
<1>1. /\ First \in Nat /\ Limit \in Nat /\ n \in Nat \ {0} /\ Limit < W
      /\ Deque = [k \in 1..n |-> Slot(First + k - 1)]
  BY DequeIs DEF Stolen
<1>2. Count' = n - 1
  <2>1. (Limit + W - (First + 1)) % W = Limit - (First + 1)
    BY <1>1, Difference
  <2> QED BY <2>1, <1>1 DEF Stolen, Count
<1>3. Deque' = [k \in 1..(n - 1) |-> Slot(First + k)]
  <2>1. \A k \in 1..(n - 1) : (First + 1) + k - 1 = First + k
    BY <1>1
  <2> QED BY <2>1, <1>2 DEF Deque, Slot, Stolen
<1>4. Len(Deque) = n /\ Deque # <<>> /\ Head(Deque) = Slot(First)
  BY <1>1
<1>5. Deque' = Tail(Deque)
  BY <1>1, <1>3, <1>4
<1> QED BY <1>4, <1>5 DEF D!Steal, Stolen

(* The ring implements the deque of WorkDeque. *)
THEOREM Implements ==
  ASSUME Contract
  PROVE  Spec => FollowsContract
<1>1. Init => D!Init
  <2> SUFFICES ASSUME Init PROVE Deque = <<>> /\ taken = {}
    BY DEF D!Init
  <2>1. IInv /\ pc[Owner] = "ready"
    BY InitInv DEF Init, Threads, Pushers
  <2>2. Limit - First = 0
    BY <2>1 DEF Init, First, Limit, PopPcs
  <2> QED BY <2>1, <2>2, DequeIs DEF Init
<1>2. IInv /\ [Next]_vars => [D!Next]_(D!vars)
  <2> SUFFICES ASSUME IInv, [Next]_vars PROVE D!Next \/ UNCHANGED D!vars
    OBVIOUS
  <2>1. CASE Quiet
    BY <2>1, QuietIsStutter DEF D!vars
  <2>2. CASE Pushed
    BY <2>2, PushedIsPush DEF D!Next, Pushed
  <2>3. CASE Popped
    BY <2>3, PoppedIsPop DEF D!Next
  <2>4. CASE Stolen
    BY <2>4, StolenIsSteal DEF D!Next
  <2> QED BY <2>1, <2>2, <2>3, <2>4, StepInv
<1> QED BY <1>1, <1>2, Invariance, PTL DEF Spec, FollowsContract, D!Spec

-------------------------------------------------------------------------------
(* Executor *)

(* The current-thread flavour whose main is a coroutine. *)
CurrentThread == MainOnRunner /\ ~MainRepolls /\ \A q, r \in Runners : q = r

(* The steps of a thread. *)
Pcs == {"idle", "poll", "store", "take", "suspend", "done", "exchange", "wake", "free"}

Busy(p)   == step[p] # "idle"
Polled(x) == \E r \in Runners : Busy(r) /\ cur[r] = x

(* A stored waker is fired once: when its task is past wake_join. *)
Woken(k)  == resolved[k] /\ \A r \in Runners : cur[r] = k => step[r] \notin {"exchange", "wake"}
Stored(f) == Kid[f] # None /\ join[Kid[f]] = "Stored" /\ ~Woken(Kid[f])

(* What will bring a task back: one entry, one event or one join; or none. *)
Parked(x) ==
  \/ ready[x] = 1 /\ event[x] # "armed" /\ ~Stored(x)
  \/ ready[x] = 0 /\ event[x] = "armed" /\ ~Stored(x)
  \/ ready[x] = 0 /\ event[x] # "armed" /\ Stored(x)
Still(x) == ready[x] = 0 /\ event[x] # "armed" /\ ~Stored(x)

(* One thread at most is inside a step; once main's flag is set the kid it *)
(* waits for has fired its waker.                                          *)
OneBusy ==
  /\ \A p, q \in Pollers : Busy(p) /\ Busy(q) => p = q
  /\ Busy(Main) => cur[Main] = Main /\ ~fired /\ step[Main] \notin {"exchange", "wake", "free"}
  /\ step[Main] = "idle" /\ fired /\ stage[Main] = "join" => ~Stored(Main)

(* What a thread knows of the future it polls. *)
AtStep(p) ==
  LET f == cur[p]
  IN /\ step[p] = "poll" => stage[f] # "end" /\ (stage[f] = "join" => ~Stored(f))
     /\ step[p] = "store" => stage[f] = "join" /\ join[Kid[f]] = "Empty" /\ ~resolved[Kid[f]]
     /\ step[p] = "take" => stage[f] = "join" /\ resolved[Kid[f]]
     /\ step[p] = "suspend" => stage[f] # "end"
     /\ step[p] \in {"done", "exchange", "wake", "free"} => stage[f] = "end"

(* A task that is polled is alive, and nothing else will bring it back.    *)
AtTask(r) ==
  LET x == cur[r]
  IN Busy(r) =>
       /\ alive[x] /\ state[x] = IF step[r] \in {"wake", "free"} THEN "Completed" ELSE "Running"
       /\ step[r] \in {"wake", "free"} => prev[r] = "Running"
       /\ IF step[r] = "suspend" THEN Parked(x) ELSE Still(x)
       /\ resolved[x] <=> step[r] \in {"exchange", "wake", "free"}
       /\ step[r] \in {"exchange", "wake"} => join[x] # "Woken"

(* A task that is not polled has one thing to bring it back until it ends; *)
(* from then on it has none, and nobody looks at it but its parent.        *)
Life(x) ==
  /\ state[x] = "unborn" =>
       /\ stage[x] = "start" /\ Still(x) /\ join[x] = "Empty" /\ ~resolved[x]
  /\ state[x] # "unborn" => \E f \in Futures : Kid[f] = x
  /\ resolved[x] \/ state[x] = "Completed" => stage[x] = "end"
  /\ state[x] # "unborn" /\ stage[x] # "end" => alive[x]
  /\ state[x] # "unborn" /\ ~Polled(x) =>
       IF stage[x] = "end" THEN Still(x) /\ resolved[x]
       ELSE Parked(x) /\ state[x] \in {"Pending", "Detached"}
  /\ Stored(x) => stage[x] = "join"
  /\ join[x] = "Woken" => resolved[x]

(* A future holds its kid from the first poll until it has joined it.      *)
Family(f) ==
  /\ stage[f] = "join" => Kid[f] # None /\ held[Kid[f]] /\ alive[Kid[f]]
  /\ Kid[f] # None => (stage[f] = "start" <=> state[Kid[f]] = "unborn")

(* The inductive invariant. *)
EInv ==
  /\ TasksTypeOK /\ OneBusy
  /\ \A p \in Pollers : AtStep(p)
  /\ \A r \in Runners : AtTask(r)
  /\ \A x \in Tasks : Life(x)
  /\ \A f \in Futures : Family(f)

-------------------------------------------------------------------------------
(* The family of the futures, and who may poll. *)
LEMMA KidFacts ==
  /\ Main \notin Tasks /\ None \notin Futures /\ Main \notin Runners
  /\ \A f \in Futures : Kid[f] \in Tasks \cup {None} /\ Kid[f] # f
  /\ \A f, g \in Futures : Kid[f] = Kid[g] /\ Kid[f] # None => f = g
  /\ Tasks \subseteq Futures /\ Main \in Futures /\ Runners \subseteq Pollers /\ Main \in Pollers
BY KidAssumption, FlavourAssumption DEF Futures, Pollers

(* The thread that is in a step is alone in one, with what it polls. *)
LEMMA Alone ==
  ASSUME EInv, NEW p \in Pollers, Busy(p)
  PROVE  /\ \A q \in Pollers : q # p => ~Busy(q)
         /\ cur[p] \in Futures
         /\ \A x \in Tasks : Polled(x) <=> cur[p] = x
         /\ p \in Runners => cur[p] \in Tasks
         /\ p \notin Runners => p = Main /\ cur[p] = Main
<1> USE KidFacts DEF EInv
<1>1. \A q \in Pollers : q # p => ~Busy(q)
  BY DEF OneBusy
<1>2. p \in Runners => cur[p] \in Tasks
  BY DEF TasksTypeOK, Busy
<1>3. p \notin Runners => p = Main /\ cur[p] = Main
  BY DEF Pollers, OneBusy
<1>4. \A x \in Tasks : Polled(x) <=> cur[p] = x
  BY <1>1, <1>2, <1>3 DEF Polled
<1> QED
  BY <1>1, <1>2, <1>3, <1>4

(* A step that neither stores nor fires a waker. *)
LEMMA SameStored ==
  ASSUME join' = join, resolved' = resolved,
         \A r \in Runners : \/ cur'[r] = cur[r] /\ step'[r] = step[r]
                            \/ {step[r], step'[r]} \cap {"exchange", "wake"} = {}
  PROVE  \A f : Stored(f)' = Stored(f)
<1>1. \A k : Woken(k)' <=> Woken(k)
  BY DEF Woken
<1> QED
  BY <1>1 DEF Stored

(* The initial state satisfies the invariant. *)
LEMMA InitE == TasksInit => EInv
<1> SUFFICES ASSUME TasksInit PROVE EInv
  OBVIOUS
<1> USE KidFacts DEF TasksInit
<1>1. TasksTypeOK
  BY DEF TasksTypeOK, Futures, Pollers
<1>2. \A f \in Futures : ~Stored(f)
  BY DEF Stored
<1>3. \A p \in Pollers : ~Busy(p)
  BY DEF Busy
<1>4. OneBusy
  BY <1>3 DEF OneBusy, Busy
<1>5. \A p \in Pollers : AtStep(p)
  BY DEF AtStep
<1>6. \A r \in Runners : AtTask(r)
  BY <1>3 DEF AtTask
<1>7. \A x \in Tasks : Life(x)
  BY <1>2 DEF Life, Still
<1>8. \A f \in Futures : Family(f)
  BY DEF Family
<1> QED
  BY <1>1, <1>4, <1>5, <1>6, <1>7, <1>8 DEF EInv

(* A busy thread goes on: nobody else does anything. *)
Moved(p, to) ==
  /\ step' \in [Pollers -> Pcs] /\ step'[p] = to
  /\ \A r \in Runners : step'[r] # "idle" => cur'[r] \in Tasks
  /\ \A x \in Tasks : Polled(x)' <=> cur[p] = x
  /\ \A q \in Pollers : q # p => AtStep(q)'
  /\ \A q \in Runners : q # p => AtTask(q)'
  /\ /\ p = Main => fired' = fired
     /\ p # Main /\ fired' /\ stage'[Main] = "join" => ~Stored(Main)'
     => OneBusy'

(* What a step of a busy thread leaves to prove. *)
LEMMA Moves ==
  ASSUME EInv, NEW p \in Pollers, Busy(p), NEW to \in Pcs \ {"idle"},
         step' = [step EXCEPT ![p] = to], cur' = cur,
         p = Main => to \notin {"exchange", "wake", "free"}
  PROVE  Moved(p, to)
<1>1. /\ \A q \in Pollers : q # p => ~Busy(q)
      /\ \A x \in Tasks : Polled(x) <=> cur[p] = x
      /\ p \in Runners => cur[p] \in Tasks
      /\ p \notin Runners => p = Main /\ cur[p] = Main
  BY Alone
<1>2. step \in [Pollers -> Pcs]
  BY DEF EInv, TasksTypeOK, Pcs
<1>3. /\ step' \in [Pollers -> Pcs] /\ step'[p] = to
      /\ \A q \in Pollers : q # p => step'[q] = step[q] /\ step'[q] = "idle"
  BY <1>1, <1>2 DEF Busy
<1>4. \A q \in Pollers : Busy(q)' <=> Busy(q)
  BY <1>3 DEF Busy
<1>5. \A x \in Tasks : Polled(x)' <=> cur[p] = x
  BY <1>1, <1>4, KidFacts DEF Polled
<1>6. \A r \in Runners : step'[r] # "idle" => cur'[r] \in Tasks
  BY <1>1, <1>3, KidFacts
<1>7. \A q \in Pollers : q # p => AtStep(q)'
  BY <1>3 DEF AtStep
<1>8. \A q \in Runners : q # p => AtTask(q)'
  BY <1>3, KidFacts DEF AtTask, Busy
<1>9. ASSUME p = Main => fired' = fired,
             p # Main /\ fired' /\ stage'[Main] = "join" => ~Stored(Main)'
      PROVE  OneBusy'
  BY <1>1, <1>3, <1>4, <1>9, KidFacts DEF EInv, OneBusy, Busy
<1> QED
  BY <1>3, <1>5, <1>6, <1>7, <1>8, <1>9 DEF Moved

(* What brings a task back is not touched. *)
LEMMA SameWaits ==
  ASSUME NEW x, ready'[x] = ready[x], event'[x] = event[x], Stored(x)' <=> Stored(x)
  PROVE  (Parked(x)' <=> Parked(x)) /\ (Still(x)' <=> Still(x))
BY DEF Parked, Still

(* join_poll reads m_resolved; the waker is not stored yet. *)
LEMMA JoinLookE == ASSUME EInv, NEW p \in Pollers, JoinLook(p) PROVE EInv'
<1> DEFINE f == cur[p]
           k == Kid[f]
<1>1. /\ step[p] = "poll" /\ stage[f] = "join"
      /\ UNCHANGED <<state, resolved, join, held, alive, stage, event, ready, cur, prev, fired>>
  BY DEF JoinLook, task
<1>2. PICK to \in {"take", "store"} :
        /\ step' = [step EXCEPT ![p] = to] /\ (to = "take" => resolved[k])
        /\ to = "store" => ~resolved[k]
  BY DEF JoinLook, Goes
<1>3. Busy(p) /\ to \in Pcs \ {"idle"}
  BY <1>1 DEF Busy, Pcs
<1>4. /\ f \in Futures /\ \A x \in Tasks : Polled(x) <=> f = x
      /\ p \in Runners => f \in Tasks
  BY <1>3, Alone
<1>5. Moved(p, to)
  BY <1>1, <1>2, <1>3, Moves
<1>6. \A g : Stored(g)' = Stored(g)
  <2>1. \A r \in Runners : step'[r] = step[r] \/ {step[r], step'[r]} \cap {"exchange", "wake"} = {}
    BY <1>1, <1>2 DEF EInv, TasksTypeOK
  <2> QED
    BY <1>1, <2>1, SameStored
<1>7. \A x \in Tasks : (Parked(x)' <=> Parked(x)) /\ (Still(x)' <=> Still(x))
  BY <1>1, <1>6, SameWaits
<1>8. TasksTypeOK'
  BY <1>1, <1>5 DEF EInv, TasksTypeOK, Pcs, Moved
<1>9. OneBusy'
  <2>1. p # Main => step[Main] = "idle"
    BY <1>3, Alone, KidFacts DEF Busy
  <2> QED
    BY <1>1, <1>5, <1>6, <2>1 DEF EInv, OneBusy, Moved
<1>10. join[k] = "Empty" \/ resolved[k]
  <2>1. k \in Tasks /\ ~Stored(f)
    BY <1>1, <1>4, KidFacts DEF EInv, AtStep, Family
  <2>2. join[k] \in {"Empty", "Stored", "Woken"}
    BY <2>1 DEF EInv, TasksTypeOK
  <2>3. join[k] = "Stored" => Woken(k)
    BY <2>1, KidFacts DEF Stored, Futures
  <2>4. join[k] = "Woken" => resolved[k]
    BY <2>1 DEF EInv, Life
  <2> QED
    BY <2>2, <2>3, <2>4 DEF Woken
<1>11. AtStep(p)'
  BY <1>1, <1>2, <1>5, <1>10 DEF AtStep, Moved
<1>12. p \in Runners => AtTask(p)'
  BY <1>1, <1>2, <1>3, <1>4, <1>5, <1>7 DEF EInv, AtTask, Moved
<1>13. ASSUME NEW x \in Tasks PROVE Life(x)'
  BY <1>1, <1>4, <1>5, <1>6, <1>7 DEF EInv, Life, Moved
<1>14. ASSUME NEW g \in Futures PROVE Family(g)'
  BY <1>1 DEF EInv, Family
<1> QED
  BY <1>5, <1>8, <1>9, <1>11, <1>12, <1>13, <1>14 DEF EInv, Moved

(* A future has one kid that is somebody else, and the kid one parent. *)
LEMMA JoinedKid ==
  ASSUME EInv, NEW f \in Futures, stage[f] = "join"
  PROVE  /\ Kid[f] \in Tasks /\ Kid[f] # f /\ held[Kid[f]] /\ alive[Kid[f]]
         /\ state[Kid[f]] # "unborn" /\ \A g \in Futures : Kid[g] = Kid[f] => g = f
BY KidFacts DEF EInv, Family

(* Main is idle and not waiting for anything that was already fired. *)
LEMMA MainWaits ==
  ASSUME EInv, NEW p \in Pollers, Busy(p), p # Main
  PROVE  step[Main] = "idle" /\ (fired /\ stage[Main] = "join" => ~Stored(Main))
<1>1. step[Main] = "idle"
  BY Alone, KidFacts DEF Busy
<1> QED
  BY <1>1 DEF EInv, OneBusy

(* The waker is stored in a task that has not resolved: it will be fired. *)
LEMMA JoinStoreE == ASSUME EInv, NEW p \in Pollers, JoinStore(p) PROVE EInv'
<1> DEFINE f == cur[p]
           k == Kid[f]
<1>1. /\ step[p] = "store"
      /\ UNCHANGED <<state, resolved, held, alive, stage, event, ready, cur, prev, fired>>
  BY DEF JoinStore
<1>2. Busy(p) /\ "suspend" \in Pcs \ {"idle"}
  BY <1>1 DEF Busy, Pcs
<1>3. /\ f \in Futures /\ (\A x \in Tasks : Polled(x) <=> f = x)
      /\ p \in Runners => f \in Tasks
  BY <1>2, Alone
<1>4. stage[f] = "join" /\ join[k] = "Empty" /\ ~resolved[k]
  BY <1>1 DEF EInv, AtStep
<1>5. /\ k \in Tasks /\ k # f /\ state[k] # "unborn" /\ k # None
      /\ \A g \in Futures : Kid[g] = k => g = f
  BY <1>3, <1>4, JoinedKid, KidFacts DEF Futures
<1>6. step' = [step EXCEPT ![p] = "suspend"] /\ join' = [join EXCEPT ![k] = "Stored"]
  BY <1>4 DEF JoinStore, Goes
<1>7. Moved(p, "suspend")
  BY <1>1, <1>2, <1>6, Moves
<1>8. \A x \in Tasks : join'[x] = IF x = k THEN "Stored" ELSE join[x]
  BY <1>6 DEF EInv, TasksTypeOK
<1>9. \A x : Woken(x)' <=> Woken(x)
  BY <1>1, <1>6 DEF EInv, TasksTypeOK, Woken
<1>10. Stored(f)' /\ ~Stored(f) /\ \A g \in Futures : g # f => (Stored(g)' <=> Stored(g))
  BY <1>1, <1>3, <1>4, <1>5, <1>8, <1>9, KidFacts DEF Stored, Woken
<1>11. \A x \in Tasks : x # f => (Parked(x)' <=> Parked(x)) /\ (Still(x)' <=> Still(x))
  BY <1>1, <1>10, SameWaits, KidFacts
<1>12. TasksTypeOK'
  BY <1>1, <1>6, <1>7 DEF EInv, TasksTypeOK, Pcs, Moved
<1>13. OneBusy'
  BY <1>1, <1>2, <1>3, <1>7, <1>10, Alone, MainWaits, KidFacts DEF Moved
<1>14. AtStep(p)'
  BY <1>1, <1>4, <1>7 DEF AtStep, Moved
<1>15. p \in Runners => AtTask(p)'
  <2> SUFFICES ASSUME p \in Runners PROVE AtTask(p)'
    OBVIOUS
  <2>1. Still(f)
    BY <1>1, <1>2 DEF EInv, AtTask
  <2>2. Parked(f)'
    BY <1>1, <1>10, <2>1 DEF Parked, Still
  <2> QED
    BY <1>1, <1>2, <1>7, <2>2 DEF EInv, AtTask, Moved
<1>16. ASSUME NEW x \in Tasks PROVE Life(x)'
  <2>1. CASE x = f
    BY <1>1, <1>3, <1>4, <1>5, <1>7, <1>8, <2>1, KidFacts DEF EInv, Life, Moved, Family, TasksTypeOK
  <2>2. CASE x # f
    BY <1>1, <1>3, <1>5, <1>7, <1>8, <1>10, <1>11, <2>2, KidFacts DEF EInv, Life, Moved
  <2> QED
    BY <2>1, <2>2
<1>17. ASSUME NEW g \in Futures PROVE Family(g)'
  BY <1>1 DEF EInv, Family
<1> QED
  BY <1>7, <1>12, <1>13, <1>14, <1>15, <1>16, <1>17 DEF EInv, Moved

(* The value is taken, the task deleted; its runner is through with it. *)
LEMMA TakeE == ASSUME EInv, NEW p \in Pollers, Take(p) PROVE EInv'
<1> DEFINE f == cur[p]
           k == Kid[f]
<1>1. /\ step[p] = "take" /\ step' = [step EXCEPT ![p] = "poll"]
      /\ alive' = [alive EXCEPT ![k] = FALSE] /\ held' = [held EXCEPT ![k] = FALSE]
      /\ stage' = [stage EXCEPT ![f] = "event"]
      /\ UNCHANGED <<state, resolved, join, event, ready, cur, prev, fired>>
  BY DEF Take, Goes
<1>2. Busy(p) /\ "poll" \in Pcs \ {"idle"}
  BY <1>1 DEF Busy, Pcs
<1>3. /\ f \in Futures /\ (\A x \in Tasks : Polled(x) <=> f = x)
      /\ p \in Runners => f \in Tasks
  BY <1>2, Alone
<1>4. stage[f] = "join" /\ resolved[k]
  BY <1>1 DEF EInv, AtStep
<1>5. /\ k \in Tasks /\ k # f /\ state[k] # "unborn" /\ stage[k] = "end"
      /\ \A g \in Futures : Kid[g] = k => g = f
  BY <1>3, <1>4, JoinedKid DEF EInv, Life
<1>6. Moved(p, "poll")
  BY <1>1, <1>2, Moves
<1>7. \A g : Stored(g)' = Stored(g)
  <2>1. \A r \in Runners : step'[r] = step[r] \/ {step[r], step'[r]} \cap {"exchange", "wake"} = {}
    BY <1>1 DEF EInv, TasksTypeOK
  <2> QED
    BY <1>1, <2>1, SameStored
<1>8. ~Stored(f)
  BY <1>3, <1>4, <1>5 DEF Stored, Woken, Polled, Busy
<1>9. \A x \in Tasks : (Parked(x)' <=> Parked(x)) /\ (Still(x)' <=> Still(x))
  BY <1>1, <1>7, SameWaits
<1>10. /\ \A g \in Futures : stage'[g] = IF g = f THEN "event" ELSE stage[g]
       /\ \A x \in Tasks : x # k => alive'[x] = alive[x] /\ held'[x] = held[x]
  BY <1>1, <1>3 DEF EInv, TasksTypeOK
<1>11. TasksTypeOK'
  BY <1>1, <1>6 DEF EInv, TasksTypeOK, Pcs, Moved
<1>12. OneBusy'
  BY <1>1, <1>2, <1>3, <1>6, <1>7, <1>10, Alone, MainWaits, KidFacts DEF Moved
<1>13. AtStep(p)'
  BY <1>1, <1>3, <1>6, <1>10 DEF AtStep, Moved
<1>14. p \in Runners => AtTask(p)'
  BY <1>1, <1>2, <1>3, <1>5, <1>6, <1>9, <1>10 DEF EInv, AtTask, Moved
<1>15. ASSUME NEW x \in Tasks PROVE Life(x)'
  <2>1. CASE x = f
    <3>1. alive'[x] = alive[x] /\ stage'[x] = "event" /\ ~Stored(x)' /\ Polled(x)'
      BY <1>3, <1>5, <1>6, <1>7, <1>8, <1>10, <2>1, KidFacts DEF Moved
    <3>2. state[x] # "unborn" /\ ~resolved[x] /\ state[x] # "Completed" /\ alive[x]
      BY <1>3, <1>4, <2>1 DEF EInv, Life
    <3> QED
      BY <1>1, <3>1, <3>2 DEF EInv, Life
  <2>2. CASE x = k
    BY <1>1, <1>3, <1>5, <1>6, <1>7, <1>9, <1>10, <2>2, KidFacts DEF EInv, Life, Moved
  <2>3. CASE x # f /\ x # k
    BY <1>1, <1>3, <1>5, <1>6, <1>7, <1>9, <1>10, <2>3, KidFacts DEF EInv, Life, Moved
  <2> QED
    BY <2>1, <2>2, <2>3
<1>16. ASSUME NEW g \in Futures PROVE Family(g)'
  BY <1>1, <1>3, <1>4, <1>5, <1>10, KidFacts DEF EInv, Family
<1> QED
  BY <1>6, <1>11, <1>12, <1>13, <1>14, <1>15, <1>16 DEF EInv, Moved

(* A handle is dropped while its task is not being polled. *)
LEMMA Detached ==
  ASSUME EInv, NEW f \in Futures, Detach(f), f \in Tasks => ~Stored(f),
         \A r \in Runners : Busy(r) => cur[r] = f
  PROVE  /\ fired' \in BOOLEAN => TasksTypeOK'
         /\ stage'[f] = "event" /\ \A g \in Futures : g # f => stage'[g] = stage[g]
         /\ \A r \in Runners : AtTask(r)'
         /\ \A x \in Tasks : Life(x)'
         /\ \A g \in Futures : Family(g)'
         /\ \A g : Stored(g)' = Stored(g)
<1> DEFINE k == Kid[f]
<1>1. /\ stage[f] = "join" /\ held[k]
      /\ state' = [state EXCEPT ![k] = "Detached"]
      /\ alive' = [alive EXCEPT ![k] = alive[k] /\ state[k] # "Completed"]
      /\ held' = [held EXCEPT ![k] = FALSE] /\ stage' = [stage EXCEPT ![f] = "event"]
      /\ UNCHANGED <<resolved, join, event, ready, step, cur, prev>>
  BY DEF Detach, thread
<1>2. /\ k \in Tasks /\ k # f /\ state[k] # "unborn"
      /\ \A g \in Futures : Kid[g] = k => g = f
  BY <1>1, JoinedKid
<1>3. /\ stage'[f] = "event" /\ \A g \in Futures : g # f => stage'[g] = stage[g]
      /\ state'[k] = "Detached" /\ (alive'[k] <=> alive[k] /\ state[k] # "Completed")
      /\ \A x \in Tasks : x # k => state'[x] = state[x] /\ alive'[x] = alive[x] /\ held'[x] = held[x]
  <2>1. state \in [Tasks -> {"unborn", "Pending", "Running", "Completed", "Detached"}]
    BY DEF EInv, TasksTypeOK
  <2>2. alive \in [Tasks -> BOOLEAN] /\ held \in [Tasks -> BOOLEAN]
    BY DEF EInv, TasksTypeOK
  <2>3. stage \in [Futures -> {"start", "join", "event", "end"}]
    BY DEF EInv, TasksTypeOK
  <2> QED
    BY <1>1, <1>2, <2>1, <2>2, <2>3
<1>4. \A g : Stored(g)' = Stored(g)
  BY <1>1, SameStored
<1>5. \A x \in Tasks : /\ (Parked(x)' <=> Parked(x)) /\ (Still(x)' <=> Still(x))
                       /\ (Polled(x)' <=> Polled(x))
  <2>1. \A x \in Tasks : Polled(x)' <=> Polled(x)
    BY <1>1 DEF Polled, Busy
  <2> QED
    BY <1>1, <1>4, <2>1, SameWaits
<1>6. fired' \in BOOLEAN => TasksTypeOK'
  <2>1. /\ state' \in [Tasks -> {"unborn", "Pending", "Running", "Completed", "Detached"}]
        /\ held' \in [Tasks -> BOOLEAN] /\ stage' \in [Futures -> {"start", "join", "event", "end"}]
    BY <1>1, <1>2 DEF EInv, TasksTypeOK
  <2>2. alive' \in [Tasks -> BOOLEAN]
    BY <1>1, <1>2 DEF EInv, TasksTypeOK
  <2> QED
    BY <1>1, <2>1, <2>2 DEF EInv, TasksTypeOK
<1>7. ~Polled(k)
  BY <1>2 DEF Polled
<1>8. \A r \in Runners : AtTask(r)'
  <2> SUFFICES ASSUME NEW r \in Runners PROVE AtTask(r)'
    OBVIOUS
  <2>1. CASE ~Busy(r)
    BY <1>1, <2>1 DEF AtTask, Busy
  <2>2. CASE Busy(r)
    <3>1. cur[r] = f /\ f \in Tasks
      BY <2>2 DEF EInv, TasksTypeOK, Busy
    <3> QED
      BY <1>1, <1>2, <1>3, <1>5, <2>2, <3>1 DEF EInv, AtTask, Busy
  <2> QED
    BY <2>1, <2>2
<1>9. ASSUME NEW x \in Tasks PROVE Life(x)'
  <2>1. CASE x = f
    BY <1>1, <1>2, <1>3, <1>4, <1>5, <2>1, KidFacts DEF EInv, Life
  <2>2. CASE x = k
    BY <1>1, <1>2, <1>3, <1>4, <1>5, <1>7, <2>2, KidFacts DEF EInv, Life
  <2>3. CASE x # f /\ x # k
    BY <1>1, <1>2, <1>3, <1>4, <1>5, <2>3, KidFacts DEF EInv, Life
  <2> QED
    BY <2>1, <2>2, <2>3
<1>10. ASSUME NEW g \in Futures PROVE Family(g)'
  BY <1>1, <1>2, <1>3, KidFacts DEF EInv, Family
<1> QED
  BY <1>3, <1>4, <1>6, <1>8, <1>9, <1>10

(* A future drops the handle of its kid, which is not being polled. *)
LEMMA DropE == ASSUME EInv, NEW p \in Pollers, Drop(p) PROVE EInv'
<1> DEFINE f == cur[p]
<1>1. step[p] = "poll" /\ Detach(f) /\ fired' = fired
  BY DEF Drop
<1>2. Busy(p) /\ "poll" \in Pcs \ {"idle"} /\ stage[f] = "join" /\ cur' = cur /\ step' = step
  BY <1>1 DEF Busy, Pcs, Detach, thread
<1>3. f \in Futures /\ ~Stored(f) /\ \A r \in Runners : Busy(r) => cur[r] = f
  BY <1>1, <1>2, Alone, KidFacts DEF EInv, AtStep
<1>4. step' = [step EXCEPT ![p] = "poll"]
  BY <1>1, <1>2 DEF EInv, TasksTypeOK
<1>5. Moved(p, "poll")
  BY <1>2, <1>4, Moves
<1>6. /\ fired' \in BOOLEAN => TasksTypeOK'
      /\ stage'[f] = "event" /\ \A g \in Futures : g # f => stage'[g] = stage[g]
      /\ \A r \in Runners : AtTask(r)'
      /\ \A x \in Tasks : Life(x)'
      /\ \A g \in Futures : Family(g)'
      /\ \A g : Stored(g)' = Stored(g)
  BY <1>1, <1>3, Detached
<1>7. OneBusy'
  BY <1>1, <1>2, <1>5, <1>6, MainWaits, KidFacts DEF Moved
<1>8. AtStep(p)'
  BY <1>1, <1>2, <1>6 DEF AtStep
<1>9. TasksTypeOK'
  BY <1>1, <1>6 DEF EInv, TasksTypeOK
<1> QED
  BY <1>5, <1>6, <1>7, <1>8, <1>9 DEF EInv, Moved

(* Main's handle is dropped between two tasks. *)
LEMMA MainDropE == ASSUME EInv, CurrentThread, MainDrop PROVE EInv'
<1>1. /\ step[Main] = "idle" /\ Detach(Main) /\ fired' = TRUE
      /\ \A r \in Runners : step[r] = "idle"
  BY DEF MainDrop, CurrentThread
<1>2. /\ fired' \in BOOLEAN => TasksTypeOK'
      /\ stage'[Main] = "event"
      /\ \A r \in Runners : AtTask(r)'
      /\ \A x \in Tasks : Life(x)'
      /\ \A g \in Futures : Family(g)'
  BY <1>1, Detached, KidFacts DEF Busy
<1>3. \A p \in Pollers : step[p] = "idle" /\ step'[p] = "idle"
  BY <1>1, KidFacts DEF Pollers, Detach, thread
<1>4. OneBusy'
  BY <1>2, <1>3, KidFacts DEF OneBusy, Busy
<1>5. \A p \in Pollers : AtStep(p)'
  BY <1>3 DEF AtStep
<1>6. TasksTypeOK'
  BY <1>1, <1>2
<1> QED
  BY <1>2, <1>4, <1>5, <1>6 DEF EInv

(* Between two polls nobody knows a task's value and nothing waits for it. *)
LEMMA Polling ==
  ASSUME EInv, NEW p \in Pollers, step[p] \in {"poll", "store", "take"}
  PROVE  /\ Busy(p) /\ stage[cur[p]] # "end" /\ cur[p] \in Futures
         /\ cur[p] \in Tasks =>
              /\ p \in Runners /\ alive[cur[p]] /\ state[cur[p]] = "Running"
              /\ Still(cur[p]) /\ ~resolved[cur[p]] /\ join[cur[p]] # "Woken"
<1>1. Busy(p)
  BY DEF Busy
<1>2. cur[p] \in Futures /\ (p \notin Runners => p = Main /\ cur[p] = Main)
  BY <1>1, Alone
<1>3. stage[cur[p]] # "end"
  BY DEF EInv, AtStep
<1>4. ASSUME cur[p] \in Tasks
      PROVE  /\ p \in Runners /\ alive[cur[p]] /\ state[cur[p]] = "Running"
             /\ Still(cur[p]) /\ ~resolved[cur[p]]
  BY <1>1, <1>2, <1>4, KidFacts DEF EInv, AtTask
<1>5. ASSUME cur[p] \in Tasks PROVE join[cur[p]] # "Woken"
  BY <1>4, <1>5 DEF EInv, Life
<1> QED
  BY <1>1, <1>2, <1>3, <1>4, <1>5

(* First poll of a future without a kid. *)
LEMMA SpawnNone ==
  ASSUME EInv, NEW p \in Pollers, Spawn(p), Kid[cur[p]] = None PROVE EInv'
<1> DEFINE f == cur[p]
<1>1. /\ step[p] = "poll" /\ stage[f] = "start" /\ stage' = [stage EXCEPT ![f] = "event"]
      /\ UNCHANGED <<state, resolved, join, held, alive, event, ready, step, cur, prev, fired>>
  BY DEF Spawn, thread
<1>2. /\ Busy(p) /\ f \in Futures /\ "poll" \in Pcs \ {"idle"}
      /\ f \in Tasks => /\ p \in Runners /\ alive[f] /\ state[f] = "Running"
                        /\ Still(f) /\ ~resolved[f]
  BY <1>1, Polling DEF Pcs
<1>3. step' = [step EXCEPT ![p] = "poll"]
  BY <1>1 DEF EInv, TasksTypeOK
<1>4. Moved(p, "poll")
  BY <1>1, <1>2, <1>3, Moves
<1>5. \A g : Stored(g)' = Stored(g)
  BY <1>1, SameStored
<1>6. \A x \in Tasks : (Parked(x)' <=> Parked(x)) /\ (Still(x)' <=> Still(x))
  BY <1>1, <1>5, SameWaits
<1>7. stage'[f] = "event" /\ \A g \in Futures : g # f => stage'[g] = stage[g]
  BY <1>1, <1>2 DEF EInv, TasksTypeOK
<1>8. TasksTypeOK'
  BY <1>1, <1>4 DEF EInv, TasksTypeOK, Pcs, Moved
<1>9. OneBusy'
  BY <1>1, <1>2, <1>4, <1>5, <1>7, MainWaits, KidFacts, Alone DEF Moved
<1>10. AtStep(p)'
  BY <1>1, <1>7 DEF AtStep
<1>11. p \in Runners => AtTask(p)'
  BY <1>1, <1>2, <1>6, Alone DEF EInv, AtTask, Busy
<1>12. ASSUME NEW x \in Tasks PROVE Life(x)'
  <2>1. Polled(x)' <=> Polled(x)
    BY <1>1 DEF Polled, Busy
  <2>2. CASE x = f
    BY <1>1, <1>2, <1>5, <1>6, <1>7, <2>1, <2>2 DEF EInv, Life, Stored
  <2>3. CASE x # f
    BY <1>1, <1>5, <1>6, <1>7, <2>1, <2>3, KidFacts DEF EInv, Life
  <2> QED
    BY <2>2, <2>3
<1>13. ASSUME NEW g \in Futures PROVE Family(g)'
  BY <1>1, <1>7 DEF EInv, Family
<1> QED
  BY <1>4, <1>8, <1>9, <1>10, <1>11, <1>12, <1>13 DEF EInv, Moved

(* First poll: the kid is born with one entry in the queue. *)
LEMMA SpawnKid ==
  ASSUME EInv, NEW p \in Pollers, Spawn(p), Kid[cur[p]] # None PROVE EInv'
<1> DEFINE f == cur[p]
           k == Kid[f]
<1>1. /\ step[p] = "poll" /\ stage[f] = "start" /\ stage' = [stage EXCEPT ![f] = "join"]
      /\ state' = [state EXCEPT ![k] = "Pending"] /\ held' = [held EXCEPT ![k] = TRUE]
      /\ alive' = [alive EXCEPT ![k] = TRUE] /\ ready' = [ready EXCEPT ![k] = 1]
      /\ UNCHANGED <<resolved, join, event, step, cur, prev, fired>>
  BY DEF Spawn, thread
<1>2. /\ Busy(p) /\ f \in Futures /\ "poll" \in Pcs \ {"idle"}
      /\ f \in Tasks => /\ p \in Runners /\ alive[f] /\ state[f] = "Running"
                        /\ Still(f) /\ ~resolved[f]
  BY <1>1, Polling DEF Pcs
<1>3. /\ k \in Tasks /\ k # f /\ \A g \in Futures : Kid[g] = k => g = f
  BY <1>2, KidFacts
<1>4. step' = [step EXCEPT ![p] = "poll"]
  BY <1>1 DEF EInv, TasksTypeOK
<1>5. Moved(p, "poll")
  BY <1>1, <1>2, <1>4, Moves
<1>6. \A g : Stored(g)' = Stored(g)
  BY <1>1, SameStored
<1>7. state[k] = "unborn"
  BY <1>1, <1>2, <1>3 DEF EInv, Family
<1>8. stage[k] = "start" /\ Still(k) /\ join[k] = "Empty" /\ ~resolved[k]
  BY <1>3, <1>7 DEF EInv, Life
<1>9. ~Stored(f)
  BY <1>8 DEF Stored
<1>10. /\ stage'[f] = "join" /\ \A g \in Futures : g # f => stage'[g] = stage[g]
       /\ state'[k] = "Pending" /\ alive'[k] /\ held'[k] /\ ready'[k] = 1
       /\ \A x \in Tasks : x # k => /\ state'[x] = state[x] /\ alive'[x] = alive[x]
                                    /\ held'[x] = held[x] /\ ready'[x] = ready[x]
  <2>1. state'[k] = "Pending" /\ \A x \in Tasks : x # k => state'[x] = state[x]
    BY <1>1, <1>3 DEF EInv, TasksTypeOK
  <2>2. alive'[k] /\ \A x \in Tasks : x # k => alive'[x] = alive[x]
    BY <1>1, <1>3 DEF EInv, TasksTypeOK
  <2>3. held'[k] /\ \A x \in Tasks : x # k => held'[x] = held[x]
    BY <1>1, <1>3 DEF EInv, TasksTypeOK
  <2>4. ready'[k] = 1 /\ \A x \in Tasks : x # k => ready'[x] = ready[x]
    BY <1>1, <1>3 DEF EInv, TasksTypeOK
  <2>5. stage'[f] = "join" /\ \A g \in Futures : g # f => stage'[g] = stage[g]
    BY <1>1, <1>2 DEF EInv, TasksTypeOK
  <2> QED
    BY <2>1, <2>2, <2>3, <2>4, <2>5
<1>11. \A x \in Tasks : x # k => (Parked(x)' <=> Parked(x)) /\ (Still(x)' <=> Still(x))
  BY <1>1, <1>6, <1>10, SameWaits
<1>13. TasksTypeOK'
  <2>1. state' \in [Tasks -> {"unborn", "Pending", "Running", "Completed", "Detached"}]
    BY <1>1, <1>3 DEF EInv, TasksTypeOK
  <2>2. held' \in [Tasks -> BOOLEAN] /\ alive' \in [Tasks -> BOOLEAN]
    BY <1>1, <1>3 DEF EInv, TasksTypeOK
  <2>3. ready' \in [Tasks -> Nat] /\ stage' \in [Futures -> {"start", "join", "event", "end"}]
    BY <1>1, <1>2, <1>3 DEF EInv, TasksTypeOK
  <2> QED
    BY <1>1, <2>1, <2>2, <2>3 DEF EInv, TasksTypeOK
<1>14. OneBusy'
  BY <1>1, <1>2, <1>5, <1>6, <1>10, MainWaits, KidFacts, Alone DEF Moved
<1>15. AtStep(p)'
  BY <1>1, <1>6, <1>9, <1>10 DEF AtStep
<1>16. p \in Runners => AtTask(p)'
  BY <1>1, <1>2, <1>3, <1>10, <1>11, Alone DEF EInv, AtTask, Busy
<1>17. ASSUME NEW x \in Tasks PROVE Life(x)'
  <2>1. (Polled(x)' <=> Polled(x)) /\ ~Polled(k)
    BY <1>1, <1>2, <1>3, Alone DEF Polled, Busy
  <2>2. CASE x = f
    BY <1>1, <1>2, <1>3, <1>6, <1>9, <1>10, <1>11, <2>1, <2>2, Alone, KidFacts DEF EInv, Life
  <2>3. CASE x = k
    <3>1. stage'[x] = "start" /\ ~resolved'[x] /\ join'[x] = "Empty" /\ ~Polled(x)'
      BY <1>1, <1>2, <1>3, <1>8, <1>10, <2>1, <2>3, KidFacts
    <3>2. ~Stored(x)'
      BY <1>6, <1>8, <2>3 DEF Still
    <3>3. \E g \in Futures : Kid[g] = x
      BY <1>2, <2>3
    <3>4. state'[x] = "Pending" /\ alive'[x]
      BY <1>10, <2>3
    <3>5. Parked(x)'
      BY <1>1, <1>6, <1>8, <1>10, <2>3 DEF Parked, Still
    <3> QED
      BY <3>1, <3>2, <3>3, <3>4, <3>5 DEF Life
  <2>4. CASE x # f /\ x # k
    BY <1>1, <1>6, <1>10, <1>11, <2>1, <2>4, KidFacts DEF EInv, Life
  <2> QED
    BY <2>2, <2>3, <2>4
<1>18. ASSUME NEW g \in Futures PROVE Family(g)'
  <2>1. CASE g = f
    BY <1>3, <1>10, <2>1, KidFacts DEF Family
  <2>2. CASE g # f
    BY <1>3, <1>10, <2>2, KidFacts DEF EInv, Family
  <2> QED
    BY <2>1, <2>2
<1> QED
  BY <1>5, <1>13, <1>14, <1>15, <1>16, <1>17, <1>18 DEF EInv, Moved

(* The event has come: the future ends. *)
LEMMA EventDone ==
  ASSUME EInv, NEW p \in Pollers, step[p] = "poll", stage[cur[p]] = "event",
         step' = [step EXCEPT ![p] = "done"], cur[p] # Main => event[cur[p]] # "armed",
         stage' = [stage EXCEPT ![cur[p]] = "end"],
         UNCHANGED <<task, event, ready, cur, prev, fired>>
  PROVE  EInv'
<1> DEFINE f == cur[p]
<1>1. UNCHANGED <<state, resolved, join, held, alive, event, ready, cur, prev, fired>>
  BY DEF task
<1>2. /\ Busy(p) /\ f \in Futures /\ "done" \in Pcs \ {"idle"}
      /\ f \in Tasks => /\ p \in Runners /\ alive[f] /\ state[f] = "Running"
                        /\ Still(f) /\ ~resolved[f]
  BY Polling DEF Pcs
<1>3. Moved(p, "done")
  BY <1>1, <1>2, Moves
<1>4. \A g : Stored(g)' = Stored(g)
  <2>1. \A r \in Runners : step'[r] = step[r] \/ {step[r], step'[r]} \cap {"exchange", "wake"} = {}
    BY DEF EInv, TasksTypeOK
  <2> QED
    BY <1>1, <2>1, SameStored
<1>5. \A x \in Tasks : (Parked(x)' <=> Parked(x)) /\ (Still(x)' <=> Still(x))
  BY <1>1, <1>4, SameWaits
<1>6. stage'[f] = "end" /\ \A g \in Futures : g # f => stage'[g] = stage[g]
  BY <1>2 DEF EInv, TasksTypeOK
<1>7. TasksTypeOK'
  BY <1>1, <1>3 DEF EInv, TasksTypeOK, Pcs, Moved
<1>8. OneBusy'
  BY <1>1, <1>2, <1>3, <1>4, <1>6, MainWaits, KidFacts, Alone DEF Moved
<1>9. AtStep(p)'
  BY <1>1, <1>3, <1>6 DEF AtStep, Moved
<1>10. p \in Runners => AtTask(p)'
  BY <1>1, <1>2, <1>3, <1>5, Alone DEF EInv, AtTask, Moved
<1>11. ASSUME NEW x \in Tasks PROVE Life(x)'
  <2>1. CASE x = f
    <3>1. stage'[x] = "end" /\ Polled(x)' /\ ~Stored(x)' /\ state'[x] = "Running" /\ ~resolved'[x]
      BY <1>1, <1>2, <1>3, <1>4, <1>6, <2>1, Alone DEF Moved, Still
    <3> QED
      BY <1>1, <1>2, <3>1 DEF EInv, Life
  <2>2. CASE x # f
    BY <1>1, <1>2, <1>3, <1>4, <1>5, <1>6, <2>2, Alone, KidFacts DEF EInv, Life, Moved
  <2> QED
    BY <2>1, <2>2
<1>12. ASSUME NEW g \in Futures PROVE Family(g)'
  BY <1>1, <1>6 DEF EInv, Family
<1> QED
  BY <1>3, <1>7, <1>8, <1>9, <1>10, <1>11, <1>12 DEF EInv, Moved

(* The waker of the event is registered: it will bring the task back. *)
LEMMA EventWait ==
  ASSUME EInv, NEW p \in Pollers, step[p] = "poll", stage[cur[p]] = "event",
         step' = [step EXCEPT ![p] = "suspend"], cur[p] # Main, event[cur[p]] # "fired",
         event' = [event EXCEPT ![cur[p]] = "armed"],
         UNCHANGED <<task, stage, ready, cur, prev, fired>>
  PROVE  EInv'
<1> DEFINE f == cur[p]
<1>1. UNCHANGED <<state, resolved, join, held, alive, stage, ready, cur, prev, fired>>
  BY DEF task
<1>2. /\ Busy(p) /\ "suspend" \in Pcs \ {"idle"}
      /\ f \in Tasks /\ p \in Runners /\ alive[f] /\ state[f] = "Running"
      /\ Still(f) /\ ~resolved[f]
  BY Polling DEF Pcs, Futures
<1>3. Moved(p, "suspend")
  BY <1>1, <1>2, Moves, KidFacts
<1>4. \A g : Stored(g)' = Stored(g)
  <2>1. \A r \in Runners : step'[r] = step[r] \/ {step[r], step'[r]} \cap {"exchange", "wake"} = {}
    BY DEF EInv, TasksTypeOK
  <2> QED
    BY <1>1, <2>1, SameStored
<1>5. event'[f] = "armed" /\ \A x \in Tasks : x # f => event'[x] = event[x]
  BY <1>2 DEF EInv, TasksTypeOK
<1>6. \A x \in Tasks : x # f => (Parked(x)' <=> Parked(x)) /\ (Still(x)' <=> Still(x))
  BY <1>1, <1>4, <1>5, SameWaits
<1>7. Parked(f)'
  BY <1>1, <1>2, <1>4, <1>5 DEF Parked, Still
<1>8. TasksTypeOK'
  BY <1>1, <1>2, <1>3 DEF EInv, TasksTypeOK, Pcs, Moved
<1>9. OneBusy'
  BY <1>1, <1>2, <1>3, <1>4, MainWaits, KidFacts DEF Moved
<1>10. AtStep(p)'
  BY <1>1, <1>3 DEF AtStep, Moved
<1>11. AtTask(p)'
  BY <1>1, <1>2, <1>3, <1>7 DEF AtTask, Moved
<1>12. ASSUME NEW x \in Tasks PROVE Life(x)'
  <2>1. CASE x = f
    BY <1>1, <1>2, <1>3, <1>4, <2>1, Alone DEF EInv, Life, Moved
  <2>2. CASE x # f
    BY <1>1, <1>2, <1>3, <1>4, <1>6, <2>2, Alone DEF EInv, Life, Moved
  <2> QED
    BY <2>1, <2>2
<1>13. ASSUME NEW g \in Futures PROVE Family(g)'
  BY <1>1 DEF EInv, Family
<1> QED
  BY <1>3, <1>8, <1>9, <1>10, <1>11, <1>12, <1>13 DEF EInv, Moved

(* What a runner does for a task that is over. *)
LEMMA Settling ==
  ASSUME EInv, NEW r \in Runners, step[r] \in {"done", "exchange", "wake", "free", "suspend"}
  PROVE  /\ Busy(r) /\ cur[r] \in Tasks /\ alive[cur[r]] /\ r \in Pollers /\ r # Main
         /\ state[cur[r]] = IF step[r] \in {"wake", "free"} THEN "Completed" ELSE "Running"
         /\ (step[r] # "suspend" <=> stage[cur[r]] = "end")
         /\ IF step[r] = "suspend" THEN Parked(cur[r]) ELSE Still(cur[r])
         /\ resolved[cur[r]] <=> step[r] \in {"exchange", "wake", "free"}
         /\ step[r] \in {"exchange", "wake"} => join[cur[r]] # "Woken"
         /\ step[r] \in {"wake", "free"} => prev[r] = "Running"
         /\ \A x \in Tasks : Polled(x) <=> cur[r] = x
BY Alone, KidFacts DEF EInv, AtTask, AtStep, Busy

(* m_resolved is set while the task is Running. *)
LEMMA ResolveE == ASSUME EInv, NEW r \in Runners, Resolve(r) PROVE EInv'
<1> DEFINE f == cur[r]
<1>1. /\ step[r] = "done" /\ step' = [step EXCEPT ![r] = "exchange"]
      /\ resolved' = [resolved EXCEPT ![f] = TRUE]
      /\ UNCHANGED <<state, join, held, alive, stage, event, ready, cur, prev, fired>>
  BY DEF Resolve, Goes
<1>2. /\ Busy(r) /\ f \in Tasks /\ alive[f] /\ r \in Pollers /\ r # Main
      /\ state[f] = "Running" /\ stage[f] = "end" /\ Still(f) /\ ~resolved[f]
      /\ (\A x \in Tasks : Polled(x) <=> f = x) /\ "exchange" \in Pcs \ {"idle"}
  BY <1>1, Settling DEF Pcs
<1>3. join[f] # "Woken"
  BY <1>2 DEF EInv, Life
<1>4. Moved(r, "exchange")
  BY <1>1, <1>2, Moves
<1>5. resolved'[f] /\ \A x \in Tasks : x # f => resolved'[x] = resolved[x]
  BY <1>1, <1>2 DEF EInv, TasksTypeOK
<1>6. \A x \in Tasks : Woken(x)' <=> Woken(x)
  <2>1. ASSUME NEW x \in Tasks, x = f PROVE ~Woken(x) /\ ~Woken(x)'
    BY <1>1, <1>2, <1>4, <2>1 DEF Woken, Moved
  <2>2. ASSUME NEW x \in Tasks, x # f PROVE Woken(x)' <=> Woken(x)
    <3>1. \A q \in Runners : q # r => step'[q] = step[q]
      BY <1>1 DEF EInv, TasksTypeOK
    <3> QED
      BY <1>1, <1>2, <1>5, <2>2, <3>1 DEF Woken
  <2> QED
    BY <2>1, <2>2
<1>7. \A g \in Futures : Stored(g)' <=> Stored(g)
  BY <1>1, <1>6, KidFacts DEF Stored
<1>8. \A x \in Tasks : (Parked(x)' <=> Parked(x)) /\ (Still(x)' <=> Still(x))
  BY <1>1, <1>7, SameWaits, KidFacts
<1>9. TasksTypeOK'
  BY <1>1, <1>2, <1>4 DEF EInv, TasksTypeOK, Pcs, Moved
<1>10. OneBusy'
  BY <1>1, <1>2, <1>4, <1>7, MainWaits, KidFacts DEF Moved
<1>11. AtStep(r)'
  BY <1>1, <1>2, <1>4 DEF AtStep, Moved
<1>12. AtTask(r)'
  BY <1>1, <1>2, <1>3, <1>4, <1>5, <1>8 DEF AtTask, Moved
<1>13. ASSUME NEW x \in Tasks PROVE Life(x)'
  <2>1. CASE x = f
    BY <1>1, <1>2, <1>4, <1>5, <1>7, <2>1, KidFacts DEF EInv, Life, Moved
  <2>2. CASE x # f
    BY <1>1, <1>2, <1>4, <1>5, <1>7, <1>8, <2>2, KidFacts DEF EInv, Life, Moved
  <2> QED
    BY <2>1, <2>2
<1>14. ASSUME NEW g \in Futures PROVE Family(g)'
  BY <1>1 DEF EInv, Family
<1> QED
  BY <1>4, <1>9, <1>10, <1>11, <1>12, <1>13, <1>14 DEF EInv, Moved

(* The exchange finds the task Running: nobody has detached it. *)
LEMMA ExchangeE == ASSUME EInv, NEW r \in Runners, Exchange(r) PROVE EInv'
<1> DEFINE f == cur[r]
<1>1. /\ step[r] = "exchange" /\ step' = [step EXCEPT ![r] = "wake"]
      /\ prev' = [prev EXCEPT ![r] = state[f]] /\ state' = [state EXCEPT ![f] = "Completed"]
      /\ UNCHANGED <<resolved, join, held, alive, stage, event, ready, cur, fired>>
  BY DEF Exchange, Goes
<1>2. /\ Busy(r) /\ f \in Tasks /\ alive[f] /\ r \in Pollers /\ r # Main
      /\ state[f] = "Running" /\ stage[f] = "end" /\ Still(f) /\ resolved[f] /\ join[f] # "Woken"
      /\ (\A x \in Tasks : Polled(x) <=> f = x) /\ "wake" \in Pcs \ {"idle"}
  BY <1>1, Settling DEF Pcs
<1>3. Moved(r, "wake")
  BY <1>1, <1>2, Moves
<1>4. \A x \in Tasks : Woken(x)' <=> Woken(x)
  BY <1>1 DEF EInv, TasksTypeOK, Woken
<1>5. \A g \in Futures : Stored(g)' <=> Stored(g)
  BY <1>1, <1>4, KidFacts DEF Stored
<1>6. \A x \in Tasks : (Parked(x)' <=> Parked(x)) /\ (Still(x)' <=> Still(x))
  BY <1>1, <1>5, SameWaits, KidFacts
<1>7. /\ state'[f] = "Completed" /\ \A x \in Tasks : x # f => state'[x] = state[x]
      /\ prev'[r] = "Running"
  BY <1>1, <1>2 DEF EInv, TasksTypeOK
<1>8. TasksTypeOK'
  <2>1. prev' \in [Runners -> {"unborn", "Running", "Detached"}]
    BY <1>1, <1>2 DEF EInv, TasksTypeOK
  <2>2. state' \in [Tasks -> {"unborn", "Pending", "Running", "Completed", "Detached"}]
    BY <1>1, <1>2 DEF EInv, TasksTypeOK
  <2> QED
    BY <1>1, <1>3, <2>1, <2>2 DEF EInv, TasksTypeOK, Pcs, Moved
<1>9. OneBusy'
  BY <1>1, <1>2, <1>3, <1>5, MainWaits, KidFacts DEF Moved
<1>10. AtStep(r)'
  BY <1>1, <1>2, <1>3 DEF AtStep, Moved
<1>11. AtTask(r)'
  BY <1>1, <1>2, <1>3, <1>6, <1>7 DEF AtTask, Moved
<1>12. ASSUME NEW x \in Tasks PROVE Life(x)'
  <2>1. CASE x = f
    BY <1>1, <1>2, <1>3, <1>5, <1>7, <2>1, KidFacts DEF EInv, Life, Moved
  <2>2. CASE x # f
    BY <1>1, <1>2, <1>3, <1>5, <1>6, <1>7, <2>2, KidFacts DEF EInv, Life, Moved
  <2> QED
    BY <2>1, <2>2
<1>13. ASSUME NEW g \in Futures PROVE Family(g)'
  <2>1. Kid[g] # None => (state'[Kid[g]] = "unborn" <=> state[Kid[g]] = "unborn")
    BY <1>2, <1>7, KidFacts
  <2> QED
    BY <1>1, <2>1 DEF EInv, Family
<1> QED
  BY <1>3, <1>8, <1>9, <1>10, <1>11, <1>12, <1>13 DEF EInv, Moved

(* A future has one spawner. *)
LEMMA SpawnerIs ==
  ASSUME NEW g \in Futures, NEW x \in Tasks, Kid[g] = x
  PROVE  Spawner(x) = g
BY KidFacts DEF Spawner

(* wake_join: the parent that stored its waker gets its one entry, or the  *)
(* next join sees JoinWoken.                                               *)
LEMMA WakeJoinE == ASSUME EInv, NEW r \in Runners, WakeJoin(r) PROVE EInv'
<1> DEFINE f == cur[r]
<1>1. /\ step[r] = "wake" /\ step' = [step EXCEPT ![r] = "free"]
      /\ UNCHANGED <<state, resolved, held, alive, stage, event, cur, prev>>
      /\ join[f] = "Empty" => /\ join' = [join EXCEPT ![f] = "Woken"]
                              /\ ready' = ready /\ fired' = fired
      /\ join[f] # "Empty" => Wake(Spawner(f)) /\ join' = join
  BY DEF WakeJoin, Goes
<1>2. /\ Busy(r) /\ f \in Tasks /\ alive[f] /\ r \in Pollers /\ r # Main
      /\ state[f] = "Completed" /\ stage[f] = "end" /\ Still(f) /\ resolved[f] /\ join[f] # "Woken"
      /\ prev[r] = "Running"
      /\ (\A x \in Tasks : Polled(x) <=> f = x) /\ "free" \in Pcs \ {"idle"}
  BY <1>1, Settling DEF Pcs
<1>3. Moved(r, "free")
  BY <1>1, <1>2, Moves
<1>4. PICK g \in Futures : Kid[g] = f
  BY <1>2 DEF EInv, Life
<1>5. Spawner(f) = g /\ g # f /\ \A i \in Futures : Kid[i] = f => i = g
  BY <1>2, <1>4, SpawnerIs, KidFacts
<1>6. join[f] \in {"Empty", "Stored"}
  BY <1>2 DEF EInv, TasksTypeOK
<1>7. /\ \A x \in Tasks : x # f => join'[x] = join[x]
      /\ join'[f] = IF join[f] = "Empty" THEN "Woken" ELSE join[f]
  BY <1>1, <1>2 DEF EInv, TasksTypeOK
<1>8. \A x \in Tasks : (x # f => (Woken(x)' <=> Woken(x))) /\ (x = f => Woken(x)' /\ ~Woken(x))
  <2>1. \A q \in Runners : q # r => step'[q] = step[q] /\ step'[q] = "idle"
    BY <1>1, <1>2, Alone, KidFacts DEF EInv, TasksTypeOK, Busy
  <2>2. step'[r] = "free"
    BY <1>3 DEF Moved
  <2> QED
    BY <1>1, <1>2, <2>1, <2>2 DEF Woken
<1>9. /\ ~Stored(g)' /\ (Stored(g) <=> join[f] = "Stored")
      /\ \A i \in Futures : i # g => (Stored(i)' <=> Stored(i))
  <2>1. ~Stored(g)' /\ (Stored(g) <=> join[f] = "Stored")
    BY <1>2, <1>4, <1>8, KidFacts DEF Stored
  <2>2. \A i \in Futures : i # g => (Stored(i)' <=> Stored(i))
    BY <1>5, <1>7, <1>8, KidFacts DEF Stored
  <2> QED
    BY <2>1, <2>2
<1>10. /\ g # Main => fired' = fired
       /\ \A x \in Tasks : x # g => ready'[x] = ready[x]
       /\ g \in Tasks => ready'[g] = IF join[f] = "Stored" THEN ready[g] + 1 ELSE ready[g]
       /\ ready' \in [Tasks -> Nat] /\ fired' \in BOOLEAN
  <2>1. CASE join[f] = "Empty"
    BY <1>1, <2>1 DEF EInv, TasksTypeOK
  <2>2. CASE join[f] = "Stored" /\ g = Main
    BY <1>1, <1>5, <2>2, KidFacts DEF Wake, EInv, TasksTypeOK
  <2>3. CASE join[f] = "Stored" /\ g # Main
    <3>1. g \in Tasks /\ ready' = [ready EXCEPT ![g] = @ + 1] /\ fired' = fired
      BY <1>1, <1>5, <2>3 DEF Wake, Futures
    <3> QED
      BY <2>3, <3>1 DEF EInv, TasksTypeOK
  <2> QED
    BY <1>6, <2>1, <2>2, <2>3
<1>11. \A x \in Tasks : x # g => (Parked(x)' <=> Parked(x)) /\ (Still(x)' <=> Still(x))
  BY <1>1, <1>9, <1>10, SameWaits, KidFacts
<1>12. TasksTypeOK'
  <2>1. join' \in [Tasks -> {"Empty", "Stored", "Woken"}]
    BY <1>1, <1>2 DEF EInv, TasksTypeOK
  <2> QED
    BY <1>1, <1>3, <1>10, <2>1 DEF EInv, TasksTypeOK, Pcs, Moved
<1>13. OneBusy'
  <2>1. fired' /\ stage'[Main] = "join" => ~Stored(Main)'
    BY <1>1, <1>2, <1>9, <1>10, MainWaits, KidFacts
  <2> QED
    BY <1>2, <1>3, <2>1 DEF Moved
<1>14. AtStep(r)'
  BY <1>1, <1>2, <1>3 DEF AtStep, Moved
<1>15. AtTask(r)'
  <2>1. Still(cur[r])'
    BY <1>1, <1>2, <1>5, <1>9, <1>10, KidFacts DEF Still
  <2> QED
    BY <1>1, <1>2, <1>3, <2>1 DEF AtTask, Moved
<1>16. ASSUME NEW x \in Tasks PROVE Life(x)'
  <2>1. CASE x = f
    BY <1>1, <1>2, <1>3, <1>5, <1>7, <1>9, <2>1, KidFacts DEF EInv, Life, Moved
  <2>2. CASE x = g
    <3>1. Life(x) /\ ~Polled(x) /\ ~Polled(x)'
      BY <1>2, <1>3, <1>5, <2>2 DEF EInv, Moved
    <3>2. CASE join[f] = "Empty"
      <4>1. (Parked(x)' <=> Parked(x)) /\ (Still(x)' <=> Still(x)) /\ ~Stored(x)'
        BY <1>1, <1>9, <1>10, <2>2, <3>2, SameWaits
      <4> QED
        BY <1>1, <1>5, <1>7, <2>2, <3>1, <4>1 DEF Life
    <3>3. CASE join[f] = "Stored"
      <4>1. Stored(x)
        BY <1>9, <2>2, <3>3
      <4>2. stage[x] = "join" /\ state[x] # "unborn" /\ Parked(x)
        BY <3>1, <4>1 DEF Life
      <4>3. ready[x] = 0 /\ event[x] # "armed"
        BY <4>1, <4>2 DEF Parked
      <4>4. Parked(x)' /\ ~Stored(x)'
        BY <1>1, <1>9, <1>10, <2>2, <3>3, <4>3 DEF Parked
      <4> QED
        BY <1>1, <1>5, <1>7, <2>2, <3>1, <4>2, <4>4 DEF Life
    <3> QED
      BY <1>6, <3>2, <3>3
  <2>3. CASE x # f /\ x # g
    BY <1>1, <1>2, <1>3, <1>7, <1>9, <1>11, <2>3, KidFacts DEF EInv, Life, Moved
  <2> QED
    BY <2>1, <2>2, <2>3
<1>17. ASSUME NEW i \in Futures PROVE Family(i)'
  BY <1>1 DEF EInv, Family
<1> QED
  BY <1>3, <1>12, <1>13, <1>14, <1>15, <1>16, <1>17 DEF EInv, Moved

-------------------------------------------------------------------------------
(* The thread leaves what it was busy with. *)
LEMMA Rests ==
  ASSUME EInv, NEW p \in Pollers, Busy(p), step' = [step EXCEPT ![p] = "idle"],
         \A q \in Pollers : q # p => cur'[q] = cur[q],
         fired' = fired, stage' = stage, Stored(Main)' <=> Stored(Main)
  PROVE  /\ step' \in [Pollers -> Pcs] /\ \A q \in Pollers : step'[q] = "idle"
         /\ \A x \in Tasks : ~Polled(x)'
         /\ \A q \in Pollers : AtStep(q)'
         /\ \A q \in Runners : AtTask(q)'
         /\ OneBusy'
<1>1. \A q \in Pollers : q # p => ~Busy(q)
  BY Alone
<1>2. step' \in [Pollers -> Pcs] /\ \A q \in Pollers : step'[q] = "idle"
  BY <1>1 DEF EInv, TasksTypeOK, Pcs, Busy
<1>3. \A x \in Tasks : ~Polled(x)'
  BY <1>2, KidFacts DEF Polled, Busy
<1>4. (\A q \in Pollers : AtStep(q)') /\ \A q \in Runners : AtTask(q)'
  BY <1>2, KidFacts DEF AtStep, AtTask, Busy
<1>5. fired /\ stage[Main] = "join" => ~Stored(Main)
  <2>1. CASE p = Main
    BY <2>1 DEF EInv, OneBusy
  <2>2. CASE p # Main
    BY <2>2, MainWaits
  <2> QED
    BY <2>1, <2>2
<1>6. OneBusy'
  BY <1>2, <1>5, KidFacts DEF OneBusy, Busy
<1> QED
  BY <1>2, <1>3, <1>4, <1>6

(* The runner lets go of a task that resolved; nobody detached it. *)
LEMMA FreeE == ASSUME EInv, NEW r \in Runners, Free(r) PROVE EInv'
<1> DEFINE f == cur[r]
<1>1. /\ step[r] = "free" /\ step' = [step EXCEPT ![r] = "idle"]
      /\ alive' = [alive EXCEPT ![f] = alive[f] /\ prev[r] # "Detached"]
      /\ cur' = [cur EXCEPT ![r] = None]
      /\ UNCHANGED <<state, resolved, join, held, stage, event, ready, prev, fired>>
  BY DEF Free, Goes
<1>2. /\ Busy(r) /\ f \in Tasks /\ alive[f] /\ r \in Pollers /\ r # Main
      /\ state[f] = "Completed" /\ stage[f] = "end" /\ Still(f) /\ resolved[f]
      /\ prev[r] = "Running" /\ \A x \in Tasks : Polled(x) <=> f = x
  BY <1>1, Settling
<1>3. alive' = alive
  BY <1>1, <1>2 DEF EInv, TasksTypeOK
<1>4. \A g : Stored(g)' = Stored(g)
  <2>1. \A q \in Runners : \/ cur'[q] = cur[q] /\ step'[q] = step[q]
                           \/ {step[q], step'[q]} \cap {"exchange", "wake"} = {}
    BY <1>1, KidFacts DEF EInv, TasksTypeOK
  <2> QED
    BY <1>1, <2>1, SameStored
<1>5. \A q \in Pollers : q # r => cur'[q] = cur[q]
  BY <1>1 DEF EInv, TasksTypeOK
<1>6. /\ step' \in [Pollers -> Pcs] /\ \A q \in Pollers : step'[q] = "idle"
      /\ \A x \in Tasks : ~Polled(x)'
      /\ \A q \in Pollers : AtStep(q)'
      /\ \A q \in Runners : AtTask(q)'
      /\ OneBusy'
  BY <1>1, <1>2, <1>4, <1>5, Rests
<1>7. \A x \in Tasks : (Parked(x)' <=> Parked(x)) /\ (Still(x)' <=> Still(x))
  BY <1>1, <1>4, SameWaits
<1>8. TasksTypeOK'
  BY <1>1, <1>3, <1>6, KidFacts DEF EInv, TasksTypeOK, Pcs
<1>9. ASSUME NEW x \in Tasks PROVE Life(x)'
  BY <1>1, <1>2, <1>3, <1>4, <1>6, <1>7 DEF EInv, Life
<1>10. ASSUME NEW g \in Futures PROVE Family(g)'
  BY <1>1, <1>3 DEF EInv, Family
<1> QED
  BY <1>6, <1>8, <1>9, <1>10 DEF EInv

(* The runner lets go of a task that something will bring back. *)
LEMMA SuspendE == ASSUME EInv, NEW r \in Runners, Suspend(r) PROVE EInv'
<1> DEFINE f == cur[r]
<1>1. /\ step[r] = "suspend" /\ step' = [step EXCEPT ![r] = "idle"]
      /\ state' = [state EXCEPT ![f] = "Pending"] /\ cur' = [cur EXCEPT ![r] = None]
      /\ UNCHANGED <<resolved, join, held, alive, stage, event, ready, prev, fired>>
  BY DEF Suspend, Goes
<1>2. /\ Busy(r) /\ f \in Tasks /\ alive[f] /\ r \in Pollers /\ r # Main
      /\ state[f] = "Running" /\ stage[f] # "end" /\ Parked(f) /\ ~resolved[f]
      /\ \A x \in Tasks : Polled(x) <=> f = x
  BY <1>1, Settling
<1>3. state'[f] = "Pending" /\ \A x \in Tasks : x # f => state'[x] = state[x]
  BY <1>1, <1>2 DEF EInv, TasksTypeOK
<1>4. \A g : Stored(g)' = Stored(g)
  <2>1. \A q \in Runners : \/ cur'[q] = cur[q] /\ step'[q] = step[q]
                           \/ {step[q], step'[q]} \cap {"exchange", "wake"} = {}
    BY <1>1, KidFacts DEF EInv, TasksTypeOK
  <2> QED
    BY <1>1, <2>1, SameStored
<1>5. \A q \in Pollers : q # r => cur'[q] = cur[q]
  BY <1>1 DEF EInv, TasksTypeOK
<1>6. /\ step' \in [Pollers -> Pcs] /\ \A q \in Pollers : step'[q] = "idle"
      /\ \A x \in Tasks : ~Polled(x)'
      /\ \A q \in Pollers : AtStep(q)'
      /\ \A q \in Runners : AtTask(q)'
      /\ OneBusy'
  BY <1>1, <1>2, <1>4, <1>5, Rests
<1>7. \A x \in Tasks : (Parked(x)' <=> Parked(x)) /\ (Still(x)' <=> Still(x))
  BY <1>1, <1>4, SameWaits
<1>8. TasksTypeOK'
  BY <1>1, <1>2, <1>6, KidFacts DEF EInv, TasksTypeOK, Pcs
<1>9. ASSUME NEW x \in Tasks PROVE Life(x)'
  <2>1. CASE x = f
    BY <1>1, <1>2, <1>3, <1>4, <1>6, <1>7, <2>1 DEF EInv, Life
  <2>2. CASE x # f
    BY <1>1, <1>2, <1>3, <1>4, <1>6, <1>7, <2>2 DEF EInv, Life
  <2> QED
    BY <2>1, <2>2
<1>10. ASSUME NEW g \in Futures PROVE Family(g)'
  <2>1. Kid[g] # None => (state'[Kid[g]] = "unborn" <=> state[Kid[g]] = "unborn")
    BY <1>2, <1>3, KidFacts
  <2> QED
    BY <1>1, <2>1 DEF EInv, Family
<1> QED
  BY <1>6, <1>8, <1>9, <1>10 DEF EInv

(* block_on parks, or returns. *)
LEMMA MainRestsE == ASSUME EInv, MainRests PROVE EInv'
<1>1. /\ step[Main] \in {"suspend", "done"} /\ step' = [step EXCEPT ![Main] = "idle"]
      /\ UNCHANGED <<state, resolved, join, held, alive, stage, event, ready, cur, prev, fired>>
  BY DEF MainRests, Goes, task
<1>2. Busy(Main) /\ Main \in Pollers
  BY <1>1, KidFacts DEF Busy
<1>3. \A x \in Tasks : ~Polled(x)
  BY <1>2, Alone, KidFacts DEF EInv, OneBusy
<1>4. \A g : Stored(g)' = Stored(g)
  <2>1. \A q \in Runners : step'[q] = step[q]
    BY <1>1, KidFacts DEF EInv, TasksTypeOK
  <2> QED
    BY <1>1, <2>1, SameStored
<1>5. /\ step' \in [Pollers -> Pcs] /\ \A q \in Pollers : step'[q] = "idle"
      /\ \A x \in Tasks : ~Polled(x)'
      /\ \A q \in Pollers : AtStep(q)'
      /\ \A q \in Runners : AtTask(q)'
      /\ OneBusy'
  BY <1>1, <1>2, <1>4, Rests
<1>6. \A x \in Tasks : (Parked(x)' <=> Parked(x)) /\ (Still(x)' <=> Still(x))
  BY <1>1, <1>4, SameWaits
<1>7. TasksTypeOK'
  BY <1>1, <1>5, KidFacts DEF EInv, TasksTypeOK, Pcs
<1>8. ASSUME NEW x \in Tasks PROVE Life(x)'
  BY <1>1, <1>3, <1>4, <1>5, <1>6 DEF EInv, Life
<1>9. ASSUME NEW g \in Futures PROVE Family(g)'
  BY <1>1 DEF EInv, Family
<1> QED
  BY <1>5, <1>7, <1>8, <1>9 DEF EInv

(* A thread starts to poll when all of them are idle. *)
LEMMA Starts ==
  ASSUME EInv, NEW p \in Pollers, NEW f \in Futures, \A q \in Pollers : step[q] = "idle",
         step' = [step EXCEPT ![p] = "poll"], cur' = [cur EXCEPT ![p] = f],
         p \in Runners => f \in Tasks
  PROVE  /\ step' \in [Pollers -> Pcs] /\ step'[p] = "poll" /\ cur'[p] = f
         /\ \A q \in Pollers : q # p => step'[q] = "idle"
         /\ cur' \in [Pollers -> Futures \cup {None}]
         /\ \A r \in Runners : step'[r] # "idle" => cur'[r] \in Tasks
         /\ p \in Runners => \A x \in Tasks : Polled(x)' <=> f = x
         /\ p \notin Runners => \A x \in Tasks : ~Polled(x)'
         /\ \A x \in Tasks : ~Polled(x)
         /\ \A q \in Pollers : q # p => AtStep(q)'
         /\ \A q \in Runners : q # p => AtTask(q)'
<1>1. /\ step' \in [Pollers -> Pcs] /\ step'[p] = "poll" /\ cur'[p] = f
      /\ \A q \in Pollers : q # p => step'[q] = "idle"
      /\ cur' \in [Pollers -> Futures \cup {None}]
  BY DEF EInv, TasksTypeOK, Pcs
<1>2. \A r \in Runners : step'[r] # "idle" => cur'[r] \in Tasks
  BY <1>1, KidFacts
<1>3. /\ p \in Runners => \A x \in Tasks : Polled(x)' <=> f = x
      /\ p \notin Runners => \A x \in Tasks : ~Polled(x)'
      /\ \A x \in Tasks : ~Polled(x)
  BY <1>1, KidFacts DEF Polled, Busy
<1>4. /\ \A q \in Pollers : q # p => AtStep(q)'
      /\ \A q \in Runners : q # p => AtTask(q)'
  BY <1>1, KidFacts DEF AtStep, AtTask, Busy
<1> QED
  BY <1>1, <1>2, <1>3, <1>4

(* An entry of the queue is the only thing that will bring its task back. *)
LEMMA Queued ==
  ASSUME EInv, NEW y \in Tasks, ready[y] > 0, ~Polled(y)
  PROVE  /\ ready[y] = 1 /\ event[y] # "armed" /\ ~Stored(y) /\ ~resolved[y]
         /\ state[y] \in {"Pending", "Detached"} /\ stage[y] # "end" /\ alive[y]
<1>1. ready[y] # 0 /\ Life(y)
  BY DEF EInv, TasksTypeOK
<1>2. state[y] # "unborn" /\ stage[y] # "end"
  BY <1>1 DEF Life, Still
<1> QED
  BY <1>1, <1>2 DEF Life, Parked

(* The entry that is popped was the only thing to bring its task back. *)
LEMMA ClaimE ==
  ASSUME EInv, CurrentThread, NEW r \in Runners, NEW y \in Tasks, Claim(r, y) PROVE EInv'
<1>1. /\ ready[y] > 0 /\ ready' = [ready EXCEPT ![y] = @ - 1]
      /\ UNCHANGED <<resolved, join, held, alive, stage, event, prev, fired>>
      /\ r \in Pollers /\ r # Main /\ y \in Futures
  BY KidFacts DEF Claim
<1>2. \A q \in Pollers : step[q] = "idle"
  BY DEF Claim, CurrentThread, Driven, Pollers
<1>3. ~Polled(y)
  BY <1>2, KidFacts DEF Polled, Busy
<1>4. /\ ready[y] = 1 /\ event[y] # "armed" /\ ~Stored(y) /\ ~resolved[y]
      /\ state[y] \in {"Pending", "Detached"} /\ stage[y] # "end" /\ alive[y]
  BY <1>1, <1>3, Queued
<1>5. /\ state' = [state EXCEPT ![y] = "Running"]
      /\ step' = [step EXCEPT ![r] = "poll"] /\ cur' = [cur EXCEPT ![r] = y]
  BY <1>4 DEF Claim
<1>6. /\ step' \in [Pollers -> Pcs] /\ step'[r] = "poll" /\ cur'[r] = y
      /\ \A q \in Pollers : q # r => step'[q] = "idle"
      /\ cur' \in [Pollers -> Futures \cup {None}]
      /\ \A q \in Runners : step'[q] # "idle" => cur'[q] \in Tasks
      /\ \A x \in Tasks : Polled(x)' <=> y = x
      /\ \A x \in Tasks : ~Polled(x)
      /\ \A q \in Pollers : q # r => AtStep(q)'
      /\ \A q \in Runners : q # r => AtTask(q)'
  BY <1>1, <1>2, <1>5, Starts
<1>7. \A g : Stored(g)' = Stored(g)
  <2>1. \A q \in Runners : {step[q], step'[q]} \cap {"exchange", "wake"} = {}
    BY <1>2, <1>6, KidFacts
  <2> QED
    BY <1>1, <2>1, SameStored
<1>8. /\ ready'[y] = 0 /\ state'[y] = "Running"
      /\ \A x \in Tasks : x # y => ready'[x] = ready[x] /\ state'[x] = state[x]
  BY <1>1, <1>4, <1>5 DEF EInv, TasksTypeOK
<1>9. \A x \in Tasks : x # y => (Parked(x)' <=> Parked(x)) /\ (Still(x)' <=> Still(x))
  BY <1>1, <1>7, <1>8, SameWaits
<1>10. Still(y)'
  BY <1>1, <1>4, <1>7, <1>8 DEF Still
<1>11. TasksTypeOK'
  <2>1. ready' \in [Tasks -> Nat]
    BY <1>1, <1>4 DEF EInv, TasksTypeOK
  <2>2. state' \in [Tasks -> {"unborn", "Pending", "Running", "Completed", "Detached"}]
    BY <1>5 DEF EInv, TasksTypeOK
  <2> QED
    BY <1>1, <1>6, <2>1, <2>2 DEF EInv, TasksTypeOK, Pcs
<1>12. OneBusy'
  <2>1. fired /\ stage[Main] = "join" => ~Stored(Main)
    BY <1>2, KidFacts DEF EInv, OneBusy
  <2> QED
    BY <1>1, <1>6, <1>7, <2>1, KidFacts DEF OneBusy, Busy
<1>13. AtStep(r)'
  BY <1>1, <1>4, <1>6, <1>7 DEF AtStep
<1>14. AtTask(r)'
  BY <1>1, <1>4, <1>6, <1>8, <1>10 DEF AtTask, Still
<1>15. ASSUME NEW x \in Tasks PROVE Life(x)'
  <2>1. CASE x = y
    BY <1>1, <1>4, <1>6, <1>7, <1>8, <1>10, <2>1 DEF EInv, Life
  <2>2. CASE x # y
    BY <1>1, <1>6, <1>7, <1>8, <1>9, <2>2 DEF EInv, Life
  <2> QED
    BY <2>1, <2>2
<1>16. ASSUME NEW g \in Futures PROVE Family(g)'
  <2>1. Kid[g] # None => (state'[Kid[g]] = "unborn" <=> state[Kid[g]] = "unborn")
    BY <1>4, <1>8, KidFacts
  <2> QED
    BY <1>1, <2>1 DEF EInv, Family
<1> QED
  BY <1>6, <1>11, <1>12, <1>13, <1>14, <1>15, <1>16 DEF EInv

(* Main was woken: the kid it waited for has fired its waker. *)
LEMMA MainPollE == ASSUME EInv, CurrentThread, MainPoll PROVE EInv'
<1>1. /\ step[Main] = "idle" /\ step' = [step EXCEPT ![Main] = "poll"] /\ stage[Main] # "end"
      /\ fired /\ fired' = FALSE /\ cur' = [cur EXCEPT ![Main] = Main]
      /\ UNCHANGED <<state, resolved, join, held, alive, stage, event, ready, prev>>
      /\ \A r \in Runners : step[r] = "idle"
      /\ Main \in Pollers /\ Main \in Futures /\ Main \notin Runners
  BY KidFacts DEF MainPoll, Goes, CurrentThread, task
<1>2. \A q \in Pollers : step[q] = "idle"
  BY <1>1 DEF Pollers
<1>3. /\ step' \in [Pollers -> Pcs] /\ step'[Main] = "poll" /\ cur'[Main] = Main
      /\ \A q \in Pollers : q # Main => step'[q] = "idle"
      /\ cur' \in [Pollers -> Futures \cup {None}]
      /\ \A q \in Runners : step'[q] # "idle" => cur'[q] \in Tasks
      /\ \A x \in Tasks : ~Polled(x)'
      /\ \A x \in Tasks : ~Polled(x)
      /\ \A q \in Pollers : q # Main => AtStep(q)'
      /\ \A q \in Runners : q # Main => AtTask(q)'
  BY <1>1, <1>2, Starts
<1>4. \A g : Stored(g)' = Stored(g)
  <2>1. \A q \in Runners : {step[q], step'[q]} \cap {"exchange", "wake"} = {}
    BY <1>2, <1>3, KidFacts
  <2> QED
    BY <1>1, <2>1, SameStored
<1>5. \A x \in Tasks : (Parked(x)' <=> Parked(x)) /\ (Still(x)' <=> Still(x))
  BY <1>1, <1>4, SameWaits
<1>6. stage[Main] = "join" => ~Stored(Main)
  BY <1>1 DEF EInv, OneBusy
<1>7. TasksTypeOK'
  BY <1>1, <1>3 DEF EInv, TasksTypeOK, Pcs
<1>8. OneBusy'
  BY <1>1, <1>3 DEF OneBusy, Busy
<1>9. AtStep(Main)'
  BY <1>1, <1>3, <1>4, <1>6 DEF AtStep
<1>10. ASSUME NEW x \in Tasks PROVE Life(x)'
  BY <1>1, <1>3, <1>4, <1>5 DEF EInv, Life
<1>11. ASSUME NEW g \in Futures PROVE Family(g)'
  BY <1>1 DEF EInv, Family
<1> QED
  BY <1>1, <1>3, <1>7, <1>8, <1>9, <1>10, <1>11 DEF EInv

(* The event comes: a registered waker turns into an entry. *)
LEMMA EventFiresE == ASSUME EInv, NEW y \in Tasks, EventFires(y) PROVE EInv'
<1>1. /\ state[y] # "unborn" /\ stage[y] # "end" /\ event[y] # "fired"
      /\ event' = [event EXCEPT ![y] = "fired"] /\ fired' = fired
      /\ ready' = [ready EXCEPT ![y] = IF event[y] = "armed" THEN @ + 1 ELSE @]
      /\ UNCHANGED <<state, resolved, join, held, alive, stage, step, cur, prev>>
  <2>1. event[y] # "armed" => ready' = [ready EXCEPT ![y] = @] /\ fired' = fired
    BY DEF EventFires, EInv, TasksTypeOK
  <2>2. event[y] = "armed" => ready' = [ready EXCEPT ![y] = @ + 1] /\ fired' = fired
    BY KidFacts DEF EventFires, Wake
  <2> QED
    BY <2>1, <2>2 DEF EventFires, task, thread
<1>2. \A g : Stored(g)' = Stored(g)
  BY <1>1, SameStored
<1>3. /\ event'[y] = "fired" /\ ready'[y] = IF event[y] = "armed" THEN ready[y] + 1 ELSE ready[y]
      /\ \A x \in Tasks : x # y => event'[x] = event[x] /\ ready'[x] = ready[x]
  BY <1>1 DEF EInv, TasksTypeOK
<1>4. \A x \in Tasks : x # y => (Parked(x)' <=> Parked(x)) /\ (Still(x)' <=> Still(x))
  BY <1>1, <1>2, <1>3, SameWaits
<1>5. (Parked(y) => Parked(y)') /\ (Still(y) => Still(y)')
  <2>1. Still(y) => Still(y)'
    BY <1>2, <1>3 DEF Still
  <2>2. CASE event[y] = "armed"
    BY <1>2, <1>3, <2>1, <2>2 DEF Parked
  <2>3. CASE event[y] # "armed"
    BY <1>2, <1>3, <2>1, <2>3 DEF Parked
  <2> QED
    BY <2>1, <2>2, <2>3
<1>6. \A x \in Tasks : Polled(x)' <=> Polled(x)
  BY <1>1 DEF Polled, Busy
<1>7. TasksTypeOK'
  <2>1. ready' \in [Tasks -> Nat] /\ event' \in [Tasks -> {"idle", "armed", "fired"}]
    BY <1>1 DEF EInv, TasksTypeOK
  <2> QED
    BY <1>1, <2>1 DEF EInv, TasksTypeOK
<1>8. OneBusy'
  BY <1>1, <1>2 DEF EInv, OneBusy, Busy
<1>9. ASSUME NEW p \in Pollers PROVE AtStep(p)'
  BY <1>1, <1>2 DEF EInv, AtStep
<1>10. ASSUME NEW r \in Runners PROVE AtTask(r)'
  <2>1. CASE ~Busy(r)
    BY <1>1, <2>1 DEF AtTask, Busy
  <2>2. CASE Busy(r)
    <3>1. cur[r] \in Tasks /\ AtTask(r)
      BY <2>2, Alone, KidFacts DEF EInv
    <3>2. (Parked(cur[r]) => Parked(cur[r])') /\ (Still(cur[r]) => Still(cur[r])')
      <4>1. PICK x \in Tasks : x = cur[r]
        BY <3>1
      <4>2. (Parked(x) => Parked(x)') /\ (Still(x) => Still(x)')
        BY <1>4, <1>5
      <4> QED
        BY <1>1, <4>1, <4>2 DEF Parked, Still, Stored
    <3> QED
      BY <1>1, <2>2, <3>1, <3>2 DEF AtTask, Busy
  <2> QED
    BY <2>1, <2>2
<1>11. ASSUME NEW x \in Tasks PROVE Life(x)'
  <2>1. CASE x = y
    BY <1>1, <1>2, <1>5, <1>6, <2>1 DEF EInv, Life
  <2>2. CASE x # y
    BY <1>1, <1>2, <1>4, <1>6, <2>2 DEF EInv, Life
  <2> QED
    BY <2>1, <2>2
<1>12. ASSUME NEW g \in Futures PROVE Family(g)'
  BY <1>1 DEF EInv, Family
<1> QED
  BY <1>7, <1>8, <1>9, <1>10, <1>11, <1>12 DEF EInv

(* Nothing changes. *)
LEMMA StutterE == ASSUME EInv, UNCHANGED taskVars PROVE EInv'
BY DEF EInv, taskVars, task, thread, TasksTypeOK, OneBusy, AtStep, AtTask, Life, Family,
       Busy, Polled, Woken, Stored, Parked, Still

(* Every step inside a poll keeps the invariant. *)
LEMMA PollE == ASSUME EInv, NEW p \in Pollers, Poll(p) PROVE EInv'
<1>1. CASE Spawn(p)
  BY <1>1, SpawnNone, SpawnKid
<1>2. CASE PollEvent(p)
  BY <1>2, EventDone, EventWait DEF PollEvent, Goes
<1> QED
  BY <1>1, <1>2, DropE, JoinLookE, JoinStoreE, TakeE DEF Poll

(* Every step keeps the invariant. *)
LEMMA NextE == ASSUME EInv, CurrentThread, [TasksNext]_taskVars PROVE EInv'
<1>1. CASE \E r \in Runners : RunnerStep(r)
  <2> PICK r \in Runners : RunnerStep(r)
    BY <1>1
  <2>1. CASE Poll(r)
    BY <2>1, PollE, KidFacts
  <2>2. CASE Settle(r)
    BY <2>2, ResolveE, ExchangeE, WakeJoinE, FreeE, SuspendE DEF Settle
  <2>3. CASE \E y \in Tasks : Claim(r, y)
    BY <2>3, ClaimE
  <2> QED
    BY <2>1, <2>2, <2>3 DEF RunnerStep
<1>2. CASE MainStep
  BY <1>2, MainPollE, PollE, MainRestsE, KidFacts DEF MainStep
<1> QED
  BY <1>1, <1>2, MainDropE, EventFiresE, StutterE DEF TasksNext

(* The invariant gives the property: alive what is touched, done what is   *)
(* taken.                                                                  *)
LEMMA EInvImplies == EInv => TaskInv
<1> SUFFICES ASSUME EInv PROVE TaskInv
  OBVIOUS
<1>1. \A r \in Runners : step[r] # "idle" => alive[cur[r]]
  BY DEF EInv, AtTask, Busy
<1>2. \A p \in Pollers : step[p] \in {"store", "take"} => alive[Kid[cur[p]]]
  <2> TAKE p \in Pollers
  <2> HAVE step[p] \in {"store", "take"}
  <2>1. stage[cur[p]] = "join" /\ cur[p] \in Futures
    BY Alone DEF EInv, AtStep, Busy
  <2> QED
    BY <2>1, JoinedKid
<1>3. \A y \in Tasks : ready[y] > 0 \/ (event[y] = "armed" /\ stage[y] # "end") => alive[y]
  <2> TAKE y \in Tasks
  <2> HAVE ready[y] > 0 \/ (event[y] = "armed" /\ stage[y] # "end")
  <2>1. CASE Polled(y)
    BY <1>1, <2>1 DEF Polled, Busy
  <2>2. CASE ~Polled(y) /\ ready[y] > 0
    BY <2>2, Queued
  <2>3. CASE event[y] = "armed" /\ stage[y] # "end"
    BY <2>3 DEF EInv, Life, Still
  <2> QED
    BY <2>1, <2>2, <2>3
<1>4. TakesDone
  BY DEF TakesDone, EInv, AtStep
<1> QED
  BY <1>1, <1>2, <1>3, <1>4 DEF TaskInv, NoUseAfterFree, EInv

(* No use after free, and values taken only of tasks that have one         *)
(* (task.h:64, :96-102), in the flavour whose one thread runs main and the *)
(* tasks.                                                                  *)
THEOREM TaskHolds == CurrentThread => (TasksSpec => []TaskInv)
<1> SUFFICES ASSUME CurrentThread PROVE TasksSpec => []TaskInv
  OBVIOUS
<1>1. EInv /\ [TasksNext]_taskVars => EInv'
  BY NextE
<1> QED
  BY <1>1, InitE, EInvImplies, PTL DEF TasksSpec
=============================================================================
