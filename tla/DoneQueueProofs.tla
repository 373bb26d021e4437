-------------------------- MODULE DoneQueueProofs --------------------------
(***************************************************************************)
(* The lock-free queue hands out every node once, in the order of the      *)
(* exchanges, and the items that go round through it and the pool of work  *)
(* items have one owner each, for any number of producers and items.       *)
(***************************************************************************)
EXTENDS DoneQueue, FiniteSetTheorems, SequenceTheorems, WellFoundedInduction, TLAPS

Once(q) == \A i, j \in DOMAIN q : q[i] = q[j] => i = j

(* What a push holds in its hands nobody else holds, and it is not in the  *)
(* queue before the exchange.                                              *)
Hands ==
  /\ \A p, q \in Producers : ppc[p] # "ready" /\ ppc[q] # "ready" /\ node[p] = node[q] => p = q
  /\ \A p \in Producers : ppc[p] # "ready" =>
       node[p] \in Nodes /\ (cpc # "ready" => node[p] # first)
  /\ \A p \in Producers : ppc[p] = "swap" =>
       node[p] \notin Elements(order) /\ next[node[p]] = NULL

(* Where a push that swung the tail is going to link its node. *)
Places ==
  \A p \in Producers : ppc[p] = "link" =>
    /\ prev[p] = NULL => Len(order) > 0 /\ order[1] = node[p]
    /\ prev[p] # NULL =>
         \E i \in 1 .. Len(order) - 1 : order[i] = prev[p] /\ order[i + 1] = node[p]

(* The chain from node to node is cut exactly where a push is linking. *)
Chained ==
  /\ Once(order)
  /\ tail = IF Len(order) = 0 THEN NULL ELSE order[Len(order)]
  /\ Len(order) > 0 => next[order[Len(order)]] = NULL
  /\ \A i \in 1 .. Len(order) - 1 :
       next[order[i]] = IF Linking(order[i + 1]) THEN NULL ELSE order[i + 1]

(* head is the first node, once that one is linked; until then it is what  *)
(* the consumer is about to take away, or nothing.                         *)
AtHead ==
  head = IF Len(order) > 0 /\ ~Linking(order[1]) THEN order[1]
         ELSE IF cpc = "clear" THEN first ELSE NULL

(* What a pop in progress knows. *)
Popping ==
  /\ cpc \in {"next", "cas", "spin", "advance"} =>
       Len(order) > 0 /\ first = order[1] /\ ~Linking(first)
  /\ cpc = "clear" => first \in Nodes \ Elements(order)
  /\ cpc = "spin" => Len(order) > 1
  /\ cpc = "advance" => Len(order) > 1 /\ second = order[2] /\ ~Linking(order[2])

Inv == TypeOK /\ Hands /\ Places /\ Chained /\ AtHead /\ Popping

-------------------------------------------------------------------------------
(* Sequences without repetition *)
LEMMA Appended ==
  ASSUME NEW S, NEW q \in Seq(S), NEW e \in S
  PROVE  /\ Append(q, e) \in Seq(S) /\ Len(Append(q, e)) = Len(q) + 1
         /\ \A i \in 1 .. Len(q) : Append(q, e)[i] = q[i]
         /\ Append(q, e)[Len(q) + 1] = e
         /\ Elements(Append(q, e)) = Elements(q) \cup {e}
         /\ Once(q) /\ e \notin Elements(q) => Once(Append(q, e))
<1> DEFINE a == Append(q, e)
<1>1. /\ a \in Seq(S) /\ Len(q) \in Nat /\ Len(a) = Len(q) + 1
      /\ a[Len(q) + 1] = e /\ \A i \in 1 .. Len(q) : a[i] = q[i]
  OBVIOUS
<1>2. DOMAIN q = 1 .. Len(q) /\ DOMAIN a = 1 .. Len(q) + 1
  BY <1>1, LenProperties
<1> HIDE DEF a
<1>3. Elements(a) = Elements(q) \cup {e}
  BY <1>1, <1>2 DEF Elements
<1>4. Once(q) /\ e \notin Elements(q) => Once(a)
  BY <1>1, <1>2 DEF Elements, Once
<1> QED BY <1>1, <1>3, <1>4 DEF a

LEMMA Beheaded ==
  ASSUME NEW S, NEW q \in Seq(S), Len(q) > 0
  PROVE  /\ Tail(q) \in Seq(S) /\ Len(q) \in Nat /\ Len(Tail(q)) = Len(q) - 1
         /\ \A i \in 1 .. Len(q) - 1 : Tail(q)[i] = q[i + 1]
         /\ q[1] \in Elements(q) /\ q[1] \in S /\ q[1] = Head(q)
         /\ Once(q) => Once(Tail(q)) /\ Elements(Tail(q)) = Elements(q) \ {q[1]}
<1> DEFINE t == Tail(q)
<1>1. /\ t \in Seq(S) /\ Len(q) \in Nat /\ Len(t) = Len(q) - 1
      /\ \A i \in 1 .. Len(q) - 1 : t[i] = q[i + 1]
  BY HeadTailProperties, EmptySeq
<1>2. DOMAIN q = 1 .. Len(q) /\ DOMAIN t = 1 .. Len(q) - 1 /\ q[1] = Head(q)
  BY <1>1, LenProperties
<1> HIDE DEF t
<1>3. q[1] \in Elements(q) /\ q[1] \in S
  BY <1>1, <1>2, ElementOfSeq DEF Elements
<1>4. ASSUME Once(q) PROVE Once(t)
  BY <1>1, <1>2, <1>4 DEF Once
<1>5. ASSUME Once(q) PROVE Elements(t) = Elements(q) \ {q[1]}
  <2>1. \A x \in Elements(t) : x \in Elements(q) \ {q[1]}
    BY <1>1, <1>2, <1>5 DEF Elements, Once
  <2>2. ASSUME NEW x \in Elements(q) \ {q[1]} PROVE x \in Elements(t)
    <3>1. PICK i \in 1 .. Len(q) : q[i] = x
      BY <1>2 DEF Elements
    <3>2. i - 1 \in 1 .. Len(q) - 1 /\ t[i - 1] = x
      BY <3>1, <1>1
    <3> QED BY <3>2, <1>2 DEF Elements
  <2> QED BY <2>1, <2>2
<1> QED BY <1>1, <1>2, <1>3, <1>4, <1>5 DEF t

LEMMA InSequence ==
  ASSUME NEW S, NEW q \in Seq(S)
  PROVE  /\ Len(q) \in Nat /\ DOMAIN q = 1 .. Len(q)
         /\ \A x : x \in Elements(q) <=> \E i \in 1 .. Len(q) : q[i] = x
         /\ \A i \in 1 .. Len(q) : q[i] \in S
         /\ q = <<>> <=> Len(q) = 0
BY LenProperties, ElementOfSeq, EmptySeq DEF Elements

(* The queue as the invariant describes it. *)
LEMMA Order ==
  ASSUME TypeOK
  PROVE  /\ order \in Seq(Nodes) /\ Len(order) \in Nat /\ DOMAIN order = 1 .. Len(order)
         /\ \A x : x \in Elements(order) <=> \E i \in 1 .. Len(order) : order[i] = x
         /\ \A i \in 1 .. Len(order) : order[i] \in Nodes /\ order[i] # NULL
         /\ order = <<>> <=> Len(order) = 0
BY InSequence, ConstantsAssumption DEF TypeOK

(* A producer that is linking has its node in the queue. *)
LEMMA LinkedWithin ==
  ASSUME Inv, NEW n, Linking(n)
  PROVE  n \in Elements(order)
<1>1. PICK p \in Producers : ppc[p] = "link" /\ node[p] = n
  BY DEF Linking
<1> QED BY <1>1, Order DEF Inv, Places

LEMMA InitInv == Init => Inv
<1> SUFFICES ASSUME Init PROVE Inv
  OBVIOUS
<1>1. TypeOK
  BY ConstantsAssumption DEF Init, TypeOK
<1>2. Len(order) = 0
  BY DEF Init
<1> QED BY <1>1, <1>2 DEF Init, Inv, Hands, Places, Chained, AtHead, Popping, Once

-------------------------------------------------------------------------------
(* The steps of a push *)
LEMMA PushBeginInv ==
  ASSUME Inv, NEW p \in Producers, PushBegin(p)
  PROVE  Inv'
<1>1. PICK n \in Free : next' = [next EXCEPT ![n] = NULL] /\ node' = [node EXCEPT ![p] = n]
  BY DEF PushBegin
<1>2. /\ n \in Nodes /\ n \notin Elements(order)
      /\ \A q \in Producers : ppc[q] # "ready" => node[q] # n
      /\ cpc # "ready" => first # n
  BY <1>1 DEF Free
<1>3. /\ UNCHANGED <<head, tail, prev, cpc, first, second, order, got>>
      /\ ppc[p] = "ready" /\ ppc' = [ppc EXCEPT ![p] = "swap"]
      /\ pushes' = pushes + 1 /\ pushes < MaxPush
  BY DEF PushBegin, consumer
<1>4. TypeOK'
  BY <1>1, <1>2, <1>3, ConstantsAssumption DEF Inv, TypeOK
<1>5. /\ ppc'[p] = "swap" /\ node'[p] = n /\ next'[n] = NULL
      /\ \A q \in Producers \ {p} : ppc'[q] = ppc[q] /\ node'[q] = node[q]
      /\ \A x \in Nodes \ {n} : next'[x] = next[x]
  BY <1>1, <1>2, <1>3 DEF Inv, TypeOK
<1>6. \A x : Linking(x)' <=> Linking(x)
  BY <1>3, <1>5 DEF Linking
<1>7. Hands'
  BY <1>2, <1>3, <1>5 DEF Inv, Hands
<1>8. Places'
  BY <1>3, <1>5 DEF Inv, Places
<1>9. Chained'
  <2>1. \A i \in 1 .. Len(order) : order[i] \in Nodes \ {n} /\ next'[order[i]] = next[order[i]]
    BY <1>2, <1>5, Order DEF Inv
  <2>2. Len(order) \in Nat
    BY Order DEF Inv
  <2> QED BY <2>1, <2>2, <1>3, <1>6 DEF Inv, Chained
<1>10. AtHead' /\ Popping'
  BY <1>3, <1>6 DEF Inv, AtHead, Popping
<1> QED BY <1>4, <1>7, <1>8, <1>9, <1>10 DEF Inv

LEMMA PushSwapInv ==
  ASSUME Inv, NEW p \in Producers, PushSwap(p)
  PROVE  Inv' /\ node[p] \in Nodes \ Elements(order)
<1> DEFINE n == node[p]
           l == Len(order)
<1>1. /\ ppc[p] = "swap" /\ tail' = n /\ prev' = [prev EXCEPT ![p] = tail]
      /\ order' = Append(order, n) /\ ppc' = [ppc EXCEPT ![p] = "link"]
      /\ UNCHANGED <<head, next, node, pushes, cpc, first, second, got>>
  BY DEF PushSwap, consumer
<1>2. /\ n \in Nodes \ Elements(order) /\ next[n] = NULL
      /\ cpc # "ready" => first # n
      /\ \A q \in Producers \ {p} : ppc[q] # "ready" => node[q] # n
  BY <1>1 DEF Inv, Hands
<1>3. /\ order' \in Seq(Nodes) /\ l \in Nat /\ Len(order') = l + 1
      /\ \A i \in 1 .. l : order'[i] = order[i] /\ order[i] # n /\ order[i] \in Nodes
      /\ order'[l + 1] = n /\ Elements(order)' = Elements(order) \cup {n}
      /\ Once(order)'
  BY <1>1, <1>2, Order, Appended DEF Inv, Chained
<1>4. TypeOK'
  BY <1>1, <1>2, <1>3 DEF Inv, TypeOK
<1>5. /\ ppc'[p] = "link" /\ prev'[p] = tail
      /\ \A q \in Producers \ {p} : ppc'[q] = ppc[q] /\ prev'[q] = prev[q]
  BY <1>1 DEF Inv, TypeOK
<1>6. \A x : Linking(x)' <=> Linking(x) \/ x = n
  BY <1>1, <1>5 DEF Linking
<1>7. Hands'
  BY <1>1, <1>2, <1>3, <1>5 DEF Inv, Hands
<1>8. Places'
  <2> SUFFICES ASSUME NEW q \in Producers, ppc'[q] = "link"
               PROVE  /\ prev'[q] = NULL => Len(order') > 0 /\ order'[1] = node[q]
                      /\ prev'[q] # NULL => \E i \in 1 .. Len(order') - 1 :
                           order'[i] = prev'[q] /\ order'[i + 1] = node[q]
    BY <1>1 DEF Places
  <2>1. CASE q = p
    <3>1. CASE l = 0
      BY <3>1, <2>1, <1>3, <1>5 DEF Inv, Chained
    <3>2. CASE l > 0
      BY <3>2, <2>1, <1>3, <1>5, Order DEF Inv, Chained
    <3> QED BY <3>1, <3>2, <1>3
  <2>2. CASE q # p
    <3>1. ppc[q] = "link" /\ prev'[q] = prev[q]
      BY <2>2, <1>5
    <3>2. CASE prev[q] = NULL
      BY <3>1, <3>2, <1>3 DEF Inv, Places
    <3>3. CASE prev[q] # NULL
      <4>1. PICK i \in 1 .. l - 1 : order[i] = prev[q] /\ order[i + 1] = node[q]
        BY <3>1, <3>3 DEF Inv, Places
      <4>2. i \in 1 .. Len(order') - 1 /\ order'[i] = order[i] /\ order'[i + 1] = order[i + 1]
        BY <4>1, <1>3
      <4> QED BY <4>1, <4>2, <3>1, <3>3
    <3> QED BY <3>2, <3>3
  <2> QED BY <2>1, <2>2
<1>9. Chained'
  <2>1. \A i \in 1 .. l - 1 : next[order'[i]] = IF Linking(order[i + 1]) THEN NULL ELSE order[i + 1]
    BY <1>3 DEF Inv, Chained
  <2>2. \A i \in 1 .. l - 1 : /\ order'[i + 1] = order[i + 1]
                              /\ Linking(order[i + 1])' <=> Linking(order[i + 1])
    BY <1>3, <1>6
  <2>3. l > 0 => next[order'[l]] = NULL
    BY <1>3 DEF Inv, Chained
  <2>4. \A i \in 1 .. l : next[order'[i]] = IF Linking(order[i + 1])' THEN NULL ELSE order'[i + 1]
    <3> SUFFICES ASSUME NEW i \in 1 .. l
                 PROVE  next[order'[i]] = IF Linking(order[i + 1])' THEN NULL ELSE order'[i + 1]
      OBVIOUS
    <3>1. CASE i = l
      <4>1. order'[i + 1] = n
        BY <3>1, <1>3
      <4>2. Linking(order[i + 1])'
        BY <4>1, <1>1, <1>5 DEF Linking
      <4> QED BY <4>2, <3>1, <2>3
    <3>2. CASE i # l
      BY <3>2, <2>1, <2>2, <1>3
    <3> QED BY <3>1, <3>2
  <2>5. l + 1 - 1 = l /\ l + 1 > 0
    BY <1>3
  <2> HIDE DEF l, n
  <2> QED BY <2>4, <2>5, <1>1, <1>2, <1>3 DEF Chained
<1>10. AtHead'
  <2>1. CASE l = 0
    BY <2>1, <1>1, <1>3, <1>6 DEF Inv, AtHead
  <2>2. CASE l > 0
    BY <2>2, <1>1, <1>3, <1>6 DEF Inv, AtHead
  <2> QED BY <2>1, <2>2, <1>3
<1>11. Popping'
  BY <1>1, <1>2, <1>3, <1>6 DEF Inv, Popping
<1> QED BY <1>2, <1>4, <1>7, <1>8, <1>9, <1>10, <1>11 DEF Inv

(* The end of a push: its node is not in the making any more. *)
LEMMA Unlinking ==
  ASSUME Inv, NEW p \in Producers, PushLink(p)
  PROVE  /\ ppc[p] = "link" /\ node[p] \in Nodes /\ Linking(node[p])
         /\ ppc' = [ppc EXCEPT ![p] = "ready"]
         /\ UNCHANGED <<tail, node, prev, pushes, cpc, first, second, order, got>>
         /\ \A q \in Producers \ {p} : ppc'[q] = ppc[q] /\ (ppc[q] # "ready" => node[q] # node[p])
         /\ ppc'[p] = "ready"
         /\ \A x : Linking(x)' <=> Linking(x) /\ x # node[p]
<1>1. /\ ppc[p] = "link" /\ ppc' = [ppc EXCEPT ![p] = "ready"]
      /\ UNCHANGED <<tail, node, prev, pushes, cpc, first, second, order, got>>
  BY DEF PushLink, consumer
<1>2. /\ ppc'[p] = "ready" /\ \A q \in Producers \ {p} : ppc'[q] = ppc[q]
      /\ node[p] \in Nodes
      /\ \A q \in Producers \ {p} : ppc[q] # "ready" => node[q] # node[p]
  BY <1>1 DEF Inv, TypeOK, Hands
<1> QED BY <1>1, <1>2 DEF Linking

LEMMA PushLinkInv ==
  ASSUME Inv, NEW p \in Producers, PushLink(p)
  PROVE  Inv'
<1> DEFINE n == node[p]
           l == Len(order)
<1>1. /\ ppc[p] = "link" /\ n \in Nodes /\ Linking(n)
      /\ ppc' = [ppc EXCEPT ![p] = "ready"]
      /\ UNCHANGED <<tail, node, prev, pushes, cpc, first, second, order, got>>
      /\ \A q \in Producers \ {p} : ppc'[q] = ppc[q] /\ (ppc[q] # "ready" => node[q] # n)
      /\ ppc'[p] = "ready"
      /\ \A x : Linking(x)' <=> Linking(x) /\ x # n
  BY Unlinking
<1>2. /\ l \in Nat /\ \A i \in 1 .. l : order[i] \in Nodes /\ order[i] # NULL
      /\ \A i, j \in 1 .. l : order[i] = order[j] => i = j
  BY Order DEF Inv, Chained, Once
<1>3. TypeOK'
  BY <1>1 DEF Inv, TypeOK, PushLink
<1>4. Places' /\ Popping'
  <2>1. Places'
    BY <1>1 DEF Inv, Places
  <2>2. Popping'
    BY <1>1 DEF Inv, Popping
  <2> QED BY <2>1, <2>2
<1>5. CASE prev[p] # NULL
  <2>1. next' = [next EXCEPT ![prev[p]] = n] /\ head' = head
    BY <1>5 DEF PushLink
  <2>2. PICK i \in 1 .. l - 1 : order[i] = prev[p] /\ order[i + 1] = n
    BY <1>5, <1>1 DEF Inv, Places
  <2>3. /\ next'[order[i]] = n /\ \A x \in Nodes : x # order[i] => next'[x] = next[x]
    BY <2>1, <2>2, <1>2 DEF Inv, TypeOK
  <2>4. order[i] \in Elements(order)
    BY <2>2, <1>2, Order DEF Inv
  <2>5. Hands'
    BY <1>1, <2>3, <2>4 DEF Inv, Hands
  <2>6. Chained'
    <3>1. l > 0 => order[l] # order[i] /\ next'[order[l]] = NULL
      BY <1>2, <2>2, <2>3 DEF Inv, Chained
    <3>2. \A j \in 1 .. l - 1 :
            next'[order[j]] = IF Linking(order[j + 1])' THEN NULL ELSE order[j + 1]
      <4> SUFFICES ASSUME NEW j \in 1 .. l - 1
                   PROVE  next'[order[j]] = IF Linking(order[j + 1])' THEN NULL ELSE order[j + 1]
        OBVIOUS
      <4>1. CASE j = i
        BY <4>1, <2>2, <2>3, <1>1
      <4>2. CASE j # i
        <5>1. order[j] # order[i] /\ order[j + 1] # n
          BY <4>2, <2>2, <1>2
        <5>2. next'[order[j]] = next[order[j]]
          BY <5>1, <2>3, <1>2
        <5> QED BY <5>1, <5>2, <1>1 DEF Inv, Chained
      <4> QED BY <4>1, <4>2
    <3> QED BY <3>1, <3>2, <1>1 DEF Inv, Chained
  <2>7. AtHead'
    <3>1. Len(order) > 0 => order[1] # n
      BY <2>2, <1>2
    <3> QED BY <3>1, <2>1, <1>1 DEF Inv, AtHead
  <2> QED BY <1>3, <1>4, <2>5, <2>6, <2>7 DEF Inv
<1>6. CASE prev[p] = NULL
  <2>1. head' = n /\ next' = next
    BY <1>6 DEF PushLink
  <2>2. l > 0 /\ order[1] = n
    BY <1>6, <1>1 DEF Inv, Places
  <2>3. Hands'
    BY <1>1, <2>1 DEF Inv, Hands
  <2>4. Chained'
    <3>1. \A j \in 1 .. l - 1 : order[j + 1] # n
      BY <2>2, <1>2
    <3> QED BY <3>1, <2>1, <1>1 DEF Inv, Chained
  <2>5. AtHead'
    BY <2>1, <2>2, <1>1 DEF AtHead
  <2> QED BY <1>3, <1>4, <2>3, <2>4, <2>5 DEF Inv
<1> QED BY <1>5, <1>6

-------------------------------------------------------------------------------
(* The steps of a pop.  What a pop reads does not change who is linking, *)
(* what is in the queue and how it is chained.                           *)
LEMMA Reading ==
  ASSUME Inv, UNCHANGED <<shared, producer, order, got>>
  PROVE  /\ Places' /\ Chained'
         /\ \A x : Linking(x)' <=> Linking(x)
<1>1. UNCHANGED <<tail, next, ppc, node, prev, order>>
  BY DEF shared, producer
<1>2. \A x : Linking(x)' <=> Linking(x)
  BY <1>1 DEF Linking
<1> QED BY <1>1, <1>2 DEF Inv, Places, Chained

LEMMA PopBeginInv ==
  ASSUME Inv, PopBegin
  PROVE  Inv'
<1>1. /\ cpc = "ready" /\ head # NULL /\ first' = head /\ cpc' = "next"
      /\ UNCHANGED <<head, tail, next, ppc, node, prev, pushes, second, order, got>>
  BY DEF PopBegin, shared, producer
<1>2. Places' /\ Chained' /\ \A x : Linking(x)' <=> Linking(x)
  BY Reading DEF PopBegin
<1>3. TypeOK'
  BY <1>1 DEF Inv, TypeOK
<1>4. Len(order) > 0 /\ first' = order[1] /\ ~Linking(first') /\ first' \in Elements(order)
  BY <1>1, Order DEF Inv, AtHead
<1>5. Hands'
  <2>1. \A p \in Producers : ppc[p] # "ready" => node[p] # first'
    <3> SUFFICES ASSUME NEW p \in Producers, ppc[p] # "ready", node[p] = first' PROVE FALSE
      OBVIOUS
    <3>1. CASE ppc[p] = "swap"
      BY <3>1, <1>4 DEF Inv, Hands
    <3>2. CASE ppc[p] = "link"
      BY <3>2, <1>4 DEF Linking
    <3> QED BY <3>1, <3>2 DEF Inv, TypeOK
  <2> QED BY <2>1, <1>1 DEF Inv, Hands
<1>6. AtHead' /\ Popping'
  <2>1. AtHead'
    BY <1>1, <1>2 DEF Inv, AtHead
  <2>2. Popping'
    BY <1>1, <1>2, <1>4 DEF Popping
  <2> QED BY <2>1, <2>2
<1> QED BY <1>2, <1>3, <1>5, <1>6 DEF Inv

(* A node behind the first one has been linked when the first one points   *)
(* anywhere.                                                               *)
LEMMA Behind ==
  ASSUME Inv, Len(order) > 0, next[order[1]] # NULL
  PROVE  Len(order) > 1 /\ next[order[1]] = order[2] /\ ~Linking(order[2]) /\ order[2] \in Nodes
<1>1. Len(order) \in Nat /\ \A i \in 1 .. Len(order) : order[i] \in Nodes
  BY Order DEF Inv
<1>2. Len(order) > 1
  BY <1>1 DEF Inv, Chained
<1>3. 1 \in 1 .. Len(order) - 1 /\ 1 + 1 = 2 /\ order[2] \in Nodes
  BY <1>1, <1>2
<1> QED BY <1>2, <1>3 DEF Inv, Chained

LEMMA PopNextInv ==
  ASSUME Inv, PopNext
  PROVE  Inv'
<1>1. /\ cpc = "next" /\ second' = next[first]
      /\ cpc' = IF next[first] = NULL THEN "cas" ELSE "advance"
      /\ UNCHANGED <<head, tail, next, ppc, node, prev, pushes, first, order, got>>
  BY DEF PopNext, shared, producer
<1>2. Places' /\ Chained' /\ \A x : Linking(x)' <=> Linking(x)
  BY Reading DEF PopNext
<1>3. Len(order) > 0 /\ first = order[1] /\ ~Linking(first) /\ first \in Nodes
  BY <1>1, Order DEF Inv, Popping
<1>4. next[first] # NULL =>
        Len(order) > 1 /\ next[first] = order[2] /\ ~Linking(order[2]) /\ order[2] \in Nodes
  BY <1>3, Behind
<1>5. TypeOK'
  BY <1>1, <1>3, <1>4 DEF Inv, TypeOK
<1>6. Hands' /\ AtHead'
  <2>1. Hands'
    BY <1>1 DEF Inv, Hands
  <2>2. AtHead'
    BY <1>1, <1>2 DEF Inv, AtHead
  <2> QED BY <2>1, <2>2
<1>7. Popping'
  BY <1>1, <1>2, <1>3, <1>4 DEF Popping
<1> QED BY <1>2, <1>5, <1>6, <1>7 DEF Inv

LEMMA PopSpinInv ==
  ASSUME Inv, PopSpin
  PROVE  Inv'
<1>1. /\ cpc = "spin" /\ next[first] # NULL /\ second' = next[first] /\ cpc' = "advance"
      /\ UNCHANGED <<head, tail, next, ppc, node, prev, pushes, first, order, got>>
  BY DEF PopSpin, shared, producer
<1>2. Places' /\ Chained' /\ \A x : Linking(x)' <=> Linking(x)
  BY Reading DEF PopSpin
<1>3. Len(order) > 0 /\ first = order[1] /\ ~Linking(first)
  BY <1>1 DEF Inv, Popping
<1>4. Len(order) > 1 /\ second' = order[2] /\ ~Linking(order[2]) /\ order[2] \in Nodes
  BY <1>1, <1>3, Behind
<1>5. TypeOK'
  BY <1>1, <1>4 DEF Inv, TypeOK
<1>6. Hands' /\ AtHead'
  <2>1. Hands'
    BY <1>1 DEF Inv, Hands
  <2>2. AtHead'
    BY <1>1, <1>2 DEF Inv, AtHead
  <2> QED BY <2>1, <2>2
<1>7. Popping'
  BY <1>1, <1>2, <1>3, <1>4 DEF Popping
<1> QED BY <1>2, <1>5, <1>6, <1>7 DEF Inv

(* The compare-and-swap succeeds only on the last node of a queue in which *)
(* no push is under way.                                                   *)
LEMMA LastTaken ==
  ASSUME Inv, PopCas, tail = first
  PROVE  /\ Len(order) = 1 /\ order[1] = first /\ first \in Nodes
         /\ \A p \in Producers : ppc[p] # "link"
         /\ tail' = NULL /\ cpc' = "clear"
         /\ order' = Tail(order) /\ got' = Append(got, first)
         /\ UNCHANGED <<head, next, ppc, node, prev, pushes, first, second>>
<1>1. /\ cpc = "cas" /\ tail' = NULL /\ cpc' = "clear"
      /\ order' = Tail(order) /\ got' = Append(got, first)
      /\ UNCHANGED <<head, next, ppc, node, prev, pushes, first, second>>
  BY DEF PopCas, producer
<1>2. /\ Len(order) > 0 /\ first = order[1] /\ ~Linking(first)
      /\ \A i, j \in 1 .. Len(order) : order[i] = order[j] => i = j
      /\ Len(order) \in Nat /\ first \in Nodes
  BY <1>1, Order DEF Inv, Popping, Chained, Once
<1>3. order[Len(order)] = first
  BY <1>2 DEF Inv, Chained
<1>4. Len(order) = 1
  BY <1>2, <1>3
<1>5. ASSUME NEW p \in Producers, ppc[p] = "link" PROVE FALSE
  BY <1>2, <1>4, <1>5 DEF Inv, Places, Linking
<1> QED BY <1>1, <1>2, <1>4, <1>5

LEMMA PopCasInv ==
  ASSUME Inv, PopCas
  PROVE  Inv'
<1>1. CASE tail = first
  <2>1. /\ Len(order) = 1 /\ order[1] = first /\ first \in Nodes
        /\ \A p \in Producers : ppc[p] # "link"
        /\ tail' = NULL /\ cpc' = "clear"
        /\ order' = Tail(order) /\ got' = Append(got, first)
        /\ UNCHANGED <<head, next, ppc, node, prev, pushes, first, second>>
    BY <1>1, LastTaken
  <2>2. order' \in Seq(Nodes) /\ Len(order') = 0 /\ order' = <<>>
    BY <2>1, Order, Beheaded, EmptySeq DEF Inv
  <2>3. TypeOK'
    BY <2>1, <2>2 DEF Inv, TypeOK
  <2>4. Elements(order)' = {}
    BY <2>2 DEF Elements
  <2>5. Hands'
    <3>1. cpc = "cas"
      BY DEF PopCas
    <3> QED BY <2>1, <2>4, <3>1 DEF Inv, Hands
  <2>6. Places' /\ Chained' /\ Popping'
    BY <2>1, <2>2, <2>4 DEF Places, Chained, Popping, Once
  <2>7. AtHead'
    <3>1. ~Linking(order[1])
      BY <2>1 DEF Linking
    <3> QED BY <3>1, <2>1, <2>2 DEF Inv, AtHead
  <2> QED BY <2>3, <2>5, <2>6, <2>7 DEF Inv
<1>2. CASE tail # first
  <2>1. /\ cpc = "cas" /\ cpc' = "spin" /\ UNCHANGED <<shared, producer, first, second, order, got>>
    BY <1>2 DEF PopCas, shared
  <2>2. Places' /\ Chained' /\ \A x : Linking(x)' <=> Linking(x)
    BY <2>1, Reading
  <2>3. UNCHANGED <<head, tail, next, ppc, node, prev, pushes, first, second, order, got>>
    BY <2>1 DEF shared, producer
  <2>4. Len(order) > 1
    BY <1>2, <2>1, Order DEF Inv, Popping, Chained
  <2>5. TypeOK'
    BY <2>1, <2>3 DEF Inv, TypeOK
  <2>6. Hands' /\ AtHead'
    <3>1. Hands'
      BY <2>1, <2>3 DEF Inv, Hands
    <3>2. AtHead'
      BY <2>1, <2>2, <2>3 DEF Inv, AtHead
    <3> QED BY <3>1, <3>2
  <2>7. Popping'
    BY <2>1, <2>2, <2>3, <2>4 DEF Inv, Popping
  <2> QED BY <2>2, <2>5, <2>6, <2>7 DEF Inv
<1> QED BY <1>1, <1>2

LEMMA PopClearInv ==
  ASSUME Inv, PopClear
  PROVE  Inv'
<1>1. /\ cpc = "clear" /\ cpc' = "ready"
      /\ head' = IF head = first THEN NULL ELSE head
      /\ UNCHANGED <<tail, next, ppc, node, prev, pushes, first, second, order, got>>
  BY DEF PopClear, producer
<1>2. \A x : Linking(x)' <=> Linking(x)
  BY <1>1 DEF Linking
<1>3. TypeOK'
  BY <1>1 DEF Inv, TypeOK
<1>4. Hands' /\ Places'
  BY <1>1 DEF Inv, Hands, Places
<1>5. Chained'
  BY <1>1, <1>2 DEF Inv, Chained
<1>6. AtHead'
  <2>1. Len(order) > 0 => order[1] # first
    BY <1>1, Order DEF Inv, Popping
  <2> QED BY <2>1, <1>1, <1>2 DEF Inv, AtHead
<1>7. Popping'
  BY <1>1 DEF Popping
<1> QED BY <1>3, <1>4, <1>5, <1>6, <1>7 DEF Inv

LEMMA PopAdvanceInv ==
  ASSUME Inv, PopAdvance
  PROVE  Inv' /\ Len(order) > 0 /\ first = order[1]
<1> DEFINE l == Len(order)
<1>1. /\ cpc = "advance" /\ head' = second /\ cpc' = "ready"
      /\ order' = Tail(order) /\ got' = Append(got, first)
      /\ UNCHANGED <<tail, next, ppc, node, prev, pushes, first, second>>
  BY DEF PopAdvance, producer
<1>2. /\ l > 1 /\ first = order[1] /\ second = order[2]
      /\ ~Linking(first) /\ ~Linking(order[2])
  BY <1>1 DEF Inv, Popping
<1>3. /\ order \in Seq(Nodes) /\ l \in Nat /\ Once(order)
      /\ \A i \in 1 .. l : order[i] \in Nodes /\ order[i] # NULL
  BY Order DEF Inv, Chained
<1>4. /\ order' \in Seq(Nodes) /\ Len(order') = l - 1 /\ Once(order')
      /\ \A i \in 1 .. l - 1 : order'[i] = order[i + 1]
      /\ Elements(order)' = Elements(order) \ {first}
  BY <1>1, <1>2, <1>3, Beheaded
<1>5. TypeOK'
  BY <1>1, <1>2, <1>3, <1>4 DEF Inv, TypeOK
<1>6. \A x : Linking(x)' <=> Linking(x)
  BY <1>1 DEF Linking
<1>7. Hands'
  BY <1>1, <1>4 DEF Inv, Hands
<1>8. Places'
  <2> SUFFICES ASSUME NEW q \in Producers, ppc[q] = "link"
               PROVE  /\ prev[q] # NULL
                      /\ \E i \in 1 .. Len(order') - 1 :
                           order'[i] = prev[q] /\ order'[i + 1] = node[q]
    BY <1>1 DEF Places
  <2>1. node[q] # order[1] /\ node[q] # order[2]
    BY <1>2 DEF Linking
  <2>2. prev[q] # NULL
    BY <2>1 DEF Inv, Places
  <2>3. PICK i \in 1 .. l - 1 : order[i] = prev[q] /\ order[i + 1] = node[q]
    BY <2>2 DEF Inv, Places
  <2>4. i # 1
    BY <2>1, <2>3
  <2>5. /\ i - 1 \in 1 .. Len(order') - 1
        /\ order'[i - 1] = order[i] /\ order'[(i - 1) + 1] = order[i + 1]
    BY <2>3, <2>4, <1>3, <1>4
  <2> QED BY <2>2, <2>3, <2>5
<1>9. Chained'
  <2>1. order'[l - 1] = order[l] /\ tail' = order'[l - 1] /\ next[order'[l - 1]] = NULL
    BY <1>1, <1>2, <1>3, <1>4 DEF Inv, Chained
  <2>2. \A i \in 1 .. l - 2 : next[order'[i]] = IF Linking(order[i + 1])' THEN NULL ELSE order'[i + 1]
    <3> SUFFICES ASSUME NEW i \in 1 .. l - 2
                 PROVE  next[order'[i]] = IF Linking(order[i + 1])' THEN NULL ELSE order'[i + 1]
      OBVIOUS
    <3>1. /\ i + 1 \in 1 .. l - 1 /\ order'[i] = order[i + 1]
          /\ order'[i + 1] = order[(i + 1) + 1]
      BY <1>3, <1>4
    <3>2. next[order[i + 1]] = IF Linking(order[(i + 1) + 1]) THEN NULL ELSE order[(i + 1) + 1]
      BY <3>1 DEF Inv, Chained
    <3>3. Linking(order[i + 1])' <=> Linking(order[(i + 1) + 1])
      BY <3>1, <1>1 DEF Linking
    <3> QED BY <3>1, <3>2, <3>3
  <2>3. l - 1 > 0 /\ (l - 1) - 1 = l - 2
    BY <1>2, <1>3
  <2> HIDE DEF l
  <2> QED BY <2>1, <2>2, <2>3, <1>1, <1>3, <1>4 DEF Chained
<1>10. AtHead' /\ Popping'
  <2>1. order'[1] = order[2] /\ Len(order') > 0
    BY <1>2, <1>3, <1>4
  <2>2. ~Linking(order[1])'
    BY <2>1, <1>1, <1>2 DEF Linking
  <2> QED BY <2>1, <2>2, <1>1, <1>2 DEF AtHead, Popping
<1> QED BY <1>2, <1>5, <1>7, <1>8, <1>9, <1>10 DEF Inv

LEMMA NextInv ==
  ASSUME Inv, [Next]_vars
  PROVE  Inv'
<1>1. CASE UNCHANGED vars
  <2>1. UNCHANGED <<head, tail, next, ppc, node, prev, pushes, cpc, first, second, order, got>>
    BY <1>1 DEF vars, shared, producer, consumer
  <2>2. \A x : Linking(x)' <=> Linking(x)
    BY <2>1 DEF Linking
  <2>3. Places' /\ Chained'
    BY <1>1, Reading DEF vars
  <2> QED BY <2>1, <2>2, <2>3 DEF Inv, TypeOK, Hands, AtHead, Popping
<1>2. CASE Pop
  BY <1>2, PopBeginInv, PopNextInv, PopCasInv, PopClearInv, PopSpinInv, PopAdvanceInv DEF Pop
<1>3. ASSUME NEW p \in Producers, Push(p) PROVE Inv'
  BY <1>3, PushBeginInv, PushSwapInv, PushLinkInv DEF Push
<1> QED BY <1>1, <1>2, <1>3 DEF Next

(* The invariant of the queue, for any number of producers and nodes. *)
THEOREM Invariance == Spec => []Inv
<1>1. Init => Inv
  BY InitInv
<1>2. Inv /\ [Next]_vars => Inv'
  BY NextInv
<1> QED BY <1>1, <1>2, PTL DEF Spec

-------------------------------------------------------------------------------
(* What the readers of the queue rely on *)
LEMMA WellListed ==
  ASSUME Inv
  PROVE  ListInv
<1>1. LinksIntoQueue
  BY DEF Inv, Places, LinksIntoQueue
<1>2. /\ Len(order) \in Nat /\ (order = <<>> <=> Len(order) = 0)
      /\ Len(order) > 0 => Head(order) = order[1]
  BY Order, Beheaded DEF Inv
<1>3. tail = IF order = <<>> THEN NULL ELSE order[Len(order)]
  BY <1>2 DEF Inv, Chained
<1>4. ASSUME NEW i \in 2 .. Len(order) PROVE next[order[i - 1]] = order[i] \/ Broken(i)
  <2>1. i - 1 \in 1 .. Len(order) - 1 /\ (i - 1) + 1 = i
    BY <1>2
  <2>2. next[order[i - 1]] = IF Linking(order[i]) THEN NULL ELSE order[i]
    BY <2>1 DEF Inv, Chained
  <2> QED BY <2>2, <1>2 DEF Broken
<1>5. order # <<>> /\ ~Linking(Head(order)) => head = Head(order)
  BY <1>2 DEF Inv, AtHead
<1>6. head = NULL => order = <<>> \/ Linking(Head(order))
  BY <1>2, Order DEF Inv, AtHead
<1>7. WellLinked
  BY <1>3, <1>4, <1>5, <1>6 DEF WellLinked
<1> QED BY <1>1, <1>7 DEF ListInv, Inv

(* Between any two shared accesses a push links behind a node that is still *)
(* in the queue, head and tail are its ends, and its chain is broken only   *)
(* where a push has swung the tail and not linked yet (mpsc.c).             *)
THEOREM ListHolds == Spec => []ListInv
<1>1. Inv => ListInv
  BY WellListed
<1> QED BY <1>1, Invariance, PTL

(* Nodes come out in the order of the exchanges, each once: the queue       *)
(* implements MpscQueue (mpsc.h).                                           *)
THEOREM Implements == Spec => FollowsContract
<1>1. Init => Contract!Init
  BY DEF Init, Contract!Init
<1>2. Inv /\ [Next]_vars => [Contract!Next]_(Contract!vars)
  <2> SUFFICES ASSUME Inv, [Next]_vars
               PROVE  Contract!Next \/ UNCHANGED <<order, got>>
    BY DEF Contract!vars
  <2>1. CASE UNCHANGED vars
    BY <2>1 DEF vars
  <2>2. CASE PopCas
    <3>1. CASE tail = first
      <4>1. /\ Len(order) = 1 /\ order[1] = first
            /\ order' = Tail(order) /\ got' = Append(got, first)
        BY <2>2, <3>1, LastTaken
      <4>2. order # <<>> /\ Head(order) = first
        BY <4>1, Order, Beheaded DEF Inv
      <4> QED BY <4>1, <4>2 DEF Contract!Next, Contract!Dequeue
    <3>2. CASE tail # first
      BY <2>2, <3>2 DEF PopCas
    <3> QED BY <3>1, <3>2
  <2>3. CASE PopAdvance
    <3>1. Len(order) > 0 /\ first = order[1]
      BY <2>3, PopAdvanceInv
    <3>2. order # <<>> /\ Head(order) = first
      BY <3>1, Order, Beheaded DEF Inv
    <3> QED BY <2>3, <3>2 DEF PopAdvance, Contract!Next, Contract!Dequeue
  <2>4. CASE PopBegin \/ PopNext \/ PopClear \/ PopSpin
    BY <2>4 DEF PopBegin, PopNext, PopClear, PopSpin
  <2>5. ASSUME NEW p \in Producers, PushBegin(p) \/ PushLink(p)
        PROVE  UNCHANGED <<order, got>>
    BY <2>5 DEF PushBegin, PushLink
  <2>6. ASSUME NEW p \in Producers, PushSwap(p)
        PROVE  Contract!Next
    <3>1. node[p] \in Nodes \ Elements(order)
      BY <2>6, PushSwapInv
    <3>2. Contract!Enqueue(node[p])
      BY <2>6, <3>1 DEF PushSwap, Contract!Enqueue, Elements
    <3> QED BY <3>1, <3>2 DEF Contract!Next
  <2> QED BY <2>1, <2>2, <2>3, <2>4, <2>5, <2>6 DEF Next, Pop, Push
<1> QED BY <1>1, <1>2, Invariance, PTL DEF Spec, FollowsContract, Contract!Spec

-------------------------------------------------------------------------------
(* The stack of recycled items: the sequence of its items from the top     *)
(* down, for a top t and the links l.                                      *)
IsStack(q, t, l) ==
  /\ Once(q)
  /\ t = IF Len(q) = 0 THEN NULL ELSE q[1]
  /\ \A i \in 1 .. Len(q) : l[q[i]] = IF i = Len(q) THEN NULL ELSE q[i + 1]
HasStack(t, l) == \E q \in Seq(Nodes) : IsStack(q, t, l)

Below(l, R) == {l[i] : i \in R} \ {NULL}

ReachOf(t, l) ==
  CHOOSE f : f = [n \in Nat |-> IF n = 0 THEN {t} \ {NULL}
                                ELSE f[n - 1] \cup Below(l, f[n - 1])]
StackOf(t, l) == ReachOf(t, l)[Cardinality(Nodes)]

Upto(q, n) == {q[i] : i \in {j \in 1 .. Len(q) : j <= n}}

LEMMA LessThan == \A x, y \in Nat : y < x => <<y, x>> \in OpToRel(<, Nat)
BY DEF OpToRel

(* A number with a property of which every smaller one lacks it. *)
LEMMA LeastOne ==
  ASSUME NEW C \in SUBSET Nat, C # {}
  PROVE  \E x \in C : \A y \in C : x =< y
<1>1. PICK x \in C : \A y \in C : ~(<<y, x>> \in OpToRel(<, Nat))
  BY WFMin, NatLessThanWellFounded
<1>2. \A y \in C : ~(y < x)
  BY <1>1, LessThan, Zenon
<1> HIDE <1>1
<1>3. x \in C /\ \A y \in C : x =< y
  BY <1>2, SMT
<1> QED BY <1>3, Zenon

(* One more step down the stack reaches one more item. *)
LEMMA OneFurther ==
  ASSUME NEW t, NEW l, NEW q \in Seq(Nodes), IsStack(q, t, l)
  PROVE  /\ Upto(q, 1) = {t} \ {NULL}
         /\ \A n \in Nat \ {0} :
              Upto(q, n + 1) = Upto(q, n) \cup Below(l, Upto(q, n))
<1>1. /\ Len(q) \in Nat /\ \A i \in 1 .. Len(q) : q[i] \in Nodes /\ q[i] # NULL
      /\ t = IF Len(q) = 0 THEN NULL ELSE q[1]
      /\ \A i \in 1 .. Len(q) : l[q[i]] = IF i = Len(q) THEN NULL ELSE q[i + 1]
  BY InSequence, ConstantsAssumption DEF IsStack
<1>2. Upto(q, 1) = {t} \ {NULL}
  <2>1. CASE Len(q) = 0
    BY <2>1, <1>1 DEF Upto
  <2>2. CASE Len(q) > 0
    <3>1. {j \in 1 .. Len(q) : j <= 1} = {1}
      BY <2>2, <1>1
    <3> QED BY <3>1, <2>2, <1>1 DEF Upto
  <2> QED BY <2>1, <2>2, <1>1
<1>3. ASSUME NEW n \in Nat \ {0}
      PROVE  Upto(q, n + 1) = Upto(q, n) \cup Below(l, Upto(q, n))
  <2>1. ASSUME NEW x \in Upto(q, n + 1)
        PROVE  x \in Upto(q, n) \cup Below(l, Upto(q, n))
    <3>1. PICK k \in 1 .. Len(q) : k <= n + 1 /\ x = q[k]
      BY DEF Upto
    <3>2. CASE k <= n
      BY <3>1, <3>2 DEF Upto
    <3>3. CASE k = n + 1
      <4>1. n \in 1 .. Len(q) /\ l[q[n]] = q[n + 1] /\ q[n + 1] # NULL
        BY <3>1, <3>3, <1>1
      <4>2. q[n] \in Upto(q, n)
        BY <4>1 DEF Upto
      <4> QED BY <4>1, <4>2, <3>1, <3>3 DEF Below
    <3> QED BY <3>1, <3>2, <3>3
  <2>2. ASSUME NEW x \in Upto(q, n)
        PROVE  x \in Upto(q, n + 1) /\ (l[x] # NULL => l[x] \in Upto(q, n + 1))
    <3>1. PICK k \in 1 .. Len(q) : k <= n /\ x = q[k]
      BY DEF Upto
    <3>2. x \in Upto(q, n + 1)
      BY <3>1 DEF Upto
    <3>3. ASSUME l[x] # NULL PROVE l[x] \in Upto(q, n + 1)
      <4>1. k + 1 \in 1 .. Len(q) /\ k + 1 <= n + 1 /\ l[x] = q[k + 1]
        BY <3>1, <3>3, <1>1
      <4> QED BY <4>1 DEF Upto
    <3> QED BY <3>2, <3>3
  <2> QED BY <2>1, <2>2 DEF Below
<1> QED BY <1>2, <1>3

(* The recursion of WorkPool reaches the items of the stack and no others. *)
LEMMA Reaching ==
  ASSUME NEW t, NEW l, NEW q \in Seq(Nodes), IsStack(q, t, l)
  PROVE  \A n \in Nat : ReachOf(t, l)[n] = Upto(q, n + 1)
<1> DEFINE Unfolds(f) == f = [n \in Nat |-> IF n = 0 THEN {t} \ {NULL}
                                ELSE f[n - 1] \cup Below(l, f[n - 1])]
           u == [n \in Nat |-> Upto(q, n + 1)]
           g == ReachOf(t, l)
<1>1. /\ Upto(q, 1) = {t} \ {NULL}
      /\ \A n \in Nat \ {0} :
           Upto(q, n + 1) = Upto(q, n) \cup Below(l, Upto(q, n))
  BY OneFurther
<1>2. Unfolds(u)
  <2>1. ASSUME NEW n \in Nat
        PROVE  u[n] = IF n = 0 THEN {t} \ {NULL}
                      ELSE u[n - 1] \cup Below(l, u[n - 1])
    <3>1. CASE n = 0
      BY <3>1, <1>1
    <3>2. CASE n # 0
      <4>1. n - 1 \in Nat /\ (n - 1) + 1 = n
        BY <3>2
      <4>2. u[n - 1] = Upto(q, n) /\ u[n] = Upto(q, n + 1)
        BY <4>1
      <4> HIDE DEF u
      <4> QED BY <3>2, <4>2, <1>1
    <3> QED BY <3>1, <3>2
  <2> QED BY <2>1
<1>3. Unfolds(g)
  BY <1>2, Zenon DEF ReachOf
<1>4. /\ g[0] = {t} \ {NULL}
      /\ \A n \in Nat \ {0} : g[n] = g[n - 1] \cup Below(l, g[n - 1])
  <2> HIDE DEF g
  <2> QED BY <1>3
<1> HIDE DEF g, u, Unfolds
<1>5. SUFFICES ASSUME {n \in Nat : g[n] # Upto(q, n + 1)} # {} PROVE FALSE
  BY DEF g
<1>6. PICK m \in {n \in Nat : g[n] # Upto(q, n + 1)} :
        \A y \in {n \in Nat : g[n] # Upto(q, n + 1)} : m =< y
  BY <1>5, LeastOne, Zenon
<1>7. m # 0
  <2>1. ASSUME m = 0 PROVE Upto(q, m + 1) = Upto(q, 1)
    <3>1. m + 1 = 1
      BY <2>1
    <3> QED BY <3>1, Zenon
  <2> QED BY <2>1, <1>6, <1>1, <1>4
<1>8. m - 1 \in Nat /\ (m - 1) + 1 = m /\ ~(m =< m - 1)
  BY <1>6, <1>7
<1>9. g[m - 1] = Upto(q, m)
  BY <1>6, <1>8
<1> QED BY <1>1, <1>4, <1>6, <1>7, <1>9

(* No sequence without repetition is longer than there are nodes. *)
LEMMA FitsIn ==
  ASSUME NEW q \in Seq(Nodes), Once(q)
  PROVE  Len(q) \in Nat /\ Len(q) <= Cardinality(Nodes) /\ Cardinality(Nodes) \in Nat
<1>1. Len(q) \in Nat /\ DOMAIN q = 1 .. Len(q) /\ q \in [1 .. Len(q) -> Nodes]
  BY LenProperties
<1>2. q \in Injection(1 .. Len(q), Nodes)
  BY <1>1 DEF Once, Injection, IsInjective
<1>3. Cardinality(1 .. Len(q)) <= Cardinality(Nodes)
  BY <1>2, ItemsAssumption, FS_Injection
<1>4. Cardinality(1 .. Len(q)) = Len(q)
  BY <1>1, FS_Interval
<1> QED BY <1>1, <1>3, <1>4, ItemsAssumption, FS_CardinalityType

LEMMA StackIs ==
  ASSUME NEW t, NEW l, NEW q \in Seq(Nodes), IsStack(q, t, l)
  PROVE  StackOf(t, l) = Elements(q)
<1> DEFINE c == Cardinality(Nodes)
<1>1. Len(q) \in Nat /\ Len(q) <= c /\ c \in Nat
  BY FitsIn DEF IsStack
<1>2. StackOf(t, l) = Upto(q, c + 1)
  BY <1>1, Reaching DEF StackOf
<1> HIDE DEF c
<1>3. \A x : x \in Upto(q, c + 1) <=> \E i \in 1 .. Len(q) : q[i] = x
  BY <1>1 DEF Upto
<1>4. \A x : x \in Elements(q) <=> \E i \in 1 .. Len(q) : q[i] = x
  BY InSequence
<1> QED BY <1>2, <1>3, <1>4

(* Changes of the stack: of links that are not on it, its top taken away,  *)
(* an item put on top.                                                     *)
LEMMA EmptyStack ==
  ASSUME NEW l
  PROVE  HasStack(NULL, l) /\ StackOf(NULL, l) = {}
<1>1. <<>> \in Seq(Nodes) /\ IsStack(<<>>, NULL, l) /\ Elements(<<>>) = {}
  BY DEF IsStack, Once, Elements
<1> QED BY <1>1, StackIs DEF HasStack

LEMMA SameStack ==
  ASSUME NEW t, NEW l, NEW k, HasStack(t, l), \A x \in StackOf(t, l) : k[x] = l[x]
  PROVE  HasStack(t, k) /\ StackOf(t, k) = StackOf(t, l)
<1>1. PICK q \in Seq(Nodes) : IsStack(q, t, l)
  BY DEF HasStack
<1>2. StackOf(t, l) = Elements(q)
  BY <1>1, StackIs
<1>3. \A i \in 1 .. Len(q) : k[q[i]] = l[q[i]]
  BY <1>2, InSequence
<1>4. IsStack(q, t, k)
  BY <1>1, <1>3 DEF IsStack
<1> QED BY <1>2, <1>4, StackIs DEF HasStack

LEMMA StackPops ==
  ASSUME NEW t, NEW l, HasStack(t, l), t # NULL
  PROVE  /\ t \in StackOf(t, l) /\ HasStack(l[t], l)
         /\ StackOf(l[t], l) = StackOf(t, l) \ {t}
<1>1. PICK q \in Seq(Nodes) : IsStack(q, t, l)
  BY DEF HasStack
<1>2. Len(q) \in Nat /\ Len(q) > 0 /\ t = q[1] /\ Once(q)
  BY <1>1, InSequence DEF IsStack
<1> DEFINE r == Tail(q)
<1>3. /\ r \in Seq(Nodes) /\ Len(r) = Len(q) - 1 /\ Once(r)
      /\ \A i \in 1 .. Len(q) - 1 : r[i] = q[i + 1]
      /\ t \in Elements(q) /\ Elements(r) = Elements(q) \ {t}
  BY <1>2, Beheaded
<1> HIDE DEF r
<1>4. l[t] = IF Len(r) = 0 THEN NULL ELSE r[1]
  BY <1>1, <1>2, <1>3 DEF IsStack
<1>5. \A i \in 1 .. Len(r) : l[r[i]] = IF i = Len(r) THEN NULL ELSE r[i + 1]
  BY <1>1, <1>2, <1>3 DEF IsStack
<1>6. IsStack(r, l[t], l)
  BY <1>3, <1>4, <1>5 DEF IsStack
<1>7. StackOf(t, l) = Elements(q) /\ StackOf(l[t], l) = Elements(r)
  BY <1>1, <1>3, <1>6, StackIs
<1> QED BY <1>3, <1>6, <1>7 DEF HasStack

LEMMA StackGrows ==
  ASSUME NEW t, NEW l, HasStack(t, l), NEW x \in Nodes \ StackOf(t, l), l[x] = t
  PROVE  HasStack(x, l) /\ StackOf(x, l) = StackOf(t, l) \cup {x}
<1>1. PICK q \in Seq(Nodes) : IsStack(q, t, l)
  BY DEF HasStack
<1>2. StackOf(t, l) = Elements(q)
  BY <1>1, StackIs
<1>3. /\ Len(q) \in Nat /\ Once(q) /\ t = IF Len(q) = 0 THEN NULL ELSE q[1]
      /\ \A i \in 1 .. Len(q) : l[q[i]] = IF i = Len(q) THEN NULL ELSE q[i + 1]
      /\ \A i \in 1 .. Len(q) : q[i] # x
      /\ \A y : y \in Elements(q) <=> \E i \in 1 .. Len(q) : q[i] = y
  BY <1>1, <1>2, InSequence DEF IsStack, Once
<1> DEFINE r == <<x>> \o q
<1>4. /\ r \in Seq(Nodes) /\ Len(r) = Len(q) + 1 /\ r[1] = x
      /\ \A i \in 2 .. Len(q) + 1 : r[i] = q[i - 1]
  BY <1>3
<1> HIDE DEF r
<1>5. DOMAIN r = 1 .. Len(q) + 1 /\ DOMAIN q = 1 .. Len(q)
  BY <1>4, InSequence
<1>6. Once(r)
  <2> SUFFICES ASSUME NEW i \in 1 .. Len(q) + 1, NEW j \in 1 .. Len(q) + 1, r[i] = r[j]
               PROVE  i = j
    BY <1>5 DEF Once
  <2>1. CASE i = 1 \/ j = 1
    BY <2>1, <1>3, <1>4
  <2>2. CASE i # 1 /\ j # 1
    <3>1. /\ i - 1 \in 1 .. Len(q) /\ j - 1 \in 1 .. Len(q)
          /\ r[i] = q[i - 1] /\ r[j] = q[j - 1]
      BY <2>2, <1>3, <1>4
    <3>2. i - 1 = j - 1
      BY <3>1, <1>3, <1>5 DEF Once
    <3> QED BY <3>2
  <2> QED BY <2>1, <2>2
<1>7. \A i \in 1 .. Len(r) : l[r[i]] = IF i = Len(r) THEN NULL ELSE r[i + 1]
  <2> SUFFICES ASSUME NEW i \in 1 .. Len(q) + 1
               PROVE  l[r[i]] = IF i = Len(q) + 1 THEN NULL ELSE r[i + 1]
    BY <1>4
  <2>1. CASE i = 1
    BY <2>1, <1>3, <1>4
  <2>2. CASE i # 1
    <3>1. /\ i - 1 \in 1 .. Len(q) /\ r[i] = q[i - 1] /\ (i - 1) + 1 = i
          /\ i # Len(q) + 1 => r[i + 1] = q[i]
      BY <2>2, <1>3, <1>4
    <3>2. l[q[i - 1]] = IF i - 1 = Len(q) THEN NULL ELSE q[i]
      BY <3>1, <1>3
    <3>3. i - 1 = Len(q) <=> i = Len(q) + 1
      BY <1>3
    <3> QED BY <3>1, <3>2, <3>3
  <2> QED BY <2>1, <2>2
<1>8. IsStack(r, x, l)
  BY <1>3, <1>4, <1>6, <1>7 DEF IsStack
<1>9. Elements(r) = Elements(q) \cup {x}
  <2>1. \A y : y \in Elements(r) <=> \E i \in 1 .. Len(q) + 1 : r[i] = y
    BY <1>4, InSequence
  <2>2. ASSUME NEW y \in Elements(r) PROVE y \in Elements(q) \cup {x}
    <3>1. PICK i \in 1 .. Len(q) + 1 : r[i] = y
      BY <2>1
    <3>2. CASE i = 1
      BY <3>1, <3>2, <1>4
    <3>3. CASE i # 1
      BY <3>1, <3>3, <1>3, <1>4
    <3> QED BY <3>2, <3>3
  <2>3. ASSUME NEW y \in Elements(q) \cup {x} PROVE y \in Elements(r)
    <3>1. CASE y = x
      BY <3>1, <2>1, <1>3, <1>4
    <3>2. CASE y \in Elements(q)
      <4>1. PICK i \in 1 .. Len(q) : q[i] = y
        BY <3>2, <1>3
      <4>2. i + 1 \in 2 .. Len(q) + 1 /\ r[i + 1] = q[(i + 1) - 1] /\ (i + 1) - 1 = i
        BY <4>1, <1>3, <1>4
      <4> QED BY <4>1, <4>2, <2>1, <1>3
    <3> QED BY <3>1, <3>2
  <2> QED BY <2>2, <2>3
<1> QED BY <1>2, <1>4, <1>8, <1>9, StackIs DEF HasStack

(* The stack of the pool, before and after a step. *)
LEMMA PoolStack ==
  /\ Pool!OnStack = StackOf(top, link)
  /\ Pool!OnStack' = StackOf(top', link')
<1>1. Pool!Reach = ReachOf(top, link)
  BY Zenon DEF Pool!Reach, ReachOf, Below
<1>2. Pool!Reach' = ReachOf(top', link')
  BY Zenon DEF Pool!Reach, ReachOf, Below
<1>3. Pool!Cardinality(Nodes) = Cardinality(Nodes)
  BY Zenon DEF Pool!Cardinality, Pool!IsFiniteSet, Cardinality, IsFiniteSet
<1> QED BY <1>1, <1>2, <1>3 DEF Pool!OnStack, StackOf

-------------------------------------------------------------------------------
(* Who has an item: the heap, the stack, the queue, the loop, the poster. *)
Mine == IF pc[Poster] \in {"zero", "full"} THEN {w[Poster]} ELSE {}
Its  == IF lpc = "idle" THEN {} ELSE {item}

Apart(h, s, q, l, m) ==
  /\ m \cap (s \cup q \cup l \cup h) = {} /\ s \cap (q \cup l \cup h) = {}
  /\ q \cap (l \cup h) = {} /\ l \cap h = {}
  /\ h \cup s \cup q \cup l \cup m = Nodes

Spread == Apart(heap, StackOf(top, link), queued, Its, Mine)

(* An item whose link the poster has read stays on the stack, for nobody   *)
(* else takes one, and nobody changes the link of an item of the stack:    *)
(* when the top is what it was, the link is what it was.  So the recycled  *)
(* top that a compare-and-swap cannot tell from the old one does no harm.  *)
Registers ==
  /\ pc[Poster] \in {"next", "cas"} => w[Poster] \in StackOf(top, link)
  /\ pc[Poster] = "cas" => after[Poster] = link[w[Poster]]
  /\ lpc = "cas" => link[item] = old

PoolIInv == Pool!TypeOK /\ HasStack(top, link) /\ Spread /\ Registers

LEMMA PoolInit == Pool!Init => PoolIInv
<1> SUFFICES ASSUME Pool!Init PROVE PoolIInv
  OBVIOUS
<1>1. /\ top = NULL /\ heap = Nodes /\ queued = {} /\ lpc = "idle" /\ pc[Poster] = "idle"
  BY DEF Pool!Init
<1>2. Pool!TypeOK
  BY DEF Pool!Init, Pool!TypeOK
<1>3. HasStack(top, link) /\ StackOf(top, link) = {}
  BY <1>1, EmptyStack
<1>4. Spread
  BY <1>1, <1>3 DEF Spread, Apart, Its, Mine
<1>5. Registers
  BY <1>1 DEF Registers
<1> QED BY <1>2, <1>3, <1>4, <1>5 DEF PoolIInv

(* What the types and the distribution of the items give. *)
LEMMA PoolTypes ==
  ASSUME PoolIInv
  PROVE  /\ pc[Poster] \in {"idle", "load", "next", "cas", "zero", "full"}
         /\ pc[Poster] \in {"next", "cas", "zero", "full"} => w[Poster] \in Nodes
         /\ after[Poster] \in Nodes \cup {NULL} /\ w[Poster] \in Nodes \cup {NULL}
         /\ \A x : pc' = [pc EXCEPT ![Poster] = x] => pc'[Poster] = x
         /\ \A x : w' = [w EXCEPT ![Poster] = x] => w'[Poster] = x
         /\ \A x : after' = [after EXCEPT ![Poster] = x] => after'[Poster] = x
         /\ StackOf(top, link) \subseteq Nodes /\ NULL \notin Nodes
BY ConstantsAssumption DEF PoolIInv, Pool!TypeOK, Spread, Apart

(* A step that leaves stack, heap, queue and the loop alone. *)
LEMMA PosterFrame ==
  ASSUME PoolIInv, UNCHANGED <<top, link, heap, queued, lpc, item, old>>,
         Pool!TypeOK', Mine' = Mine,
         pc'[Poster] \in {"next", "cas"} => w'[Poster] \in StackOf(top, link),
         pc'[Poster] = "cas" => after'[Poster] = link[w'[Poster]]
  PROVE  PoolIInv'
<1>1. Its' = Its
  BY DEF Its
<1> QED BY <1>1 DEF PoolIInv, Spread, Registers

LEMMA BeginInv == PoolIInv /\ Pool!Begin(Poster) => PoolIInv'
<1> SUFFICES ASSUME PoolIInv, Pool!Begin(Poster) PROVE PoolIInv'
  OBVIOUS
<1>1. /\ pc[Poster] = "idle" /\ pc' = [pc EXCEPT ![Poster] = "load"]
      /\ UNCHANGED <<top, link, heap, w, after, queued, lpc, item, old>>
  BY DEF Pool!Begin, Pool!At, Pool!pool, Pool!loop
<1>2. pc'[Poster] = "load"
  BY <1>1, PoolTypes
<1>3. Pool!TypeOK'
  BY <1>1, <1>2 DEF PoolIInv, Pool!TypeOK
<1>4. Mine' = Mine
  BY <1>1, <1>2 DEF Mine
<1> QED BY <1>1, <1>2, <1>3, <1>4, PosterFrame

LEMMA AllocLoadInv == PoolIInv /\ Pool!AllocLoad(Poster) => PoolIInv'
<1> SUFFICES ASSUME PoolIInv, Pool!AllocLoad(Poster) PROVE PoolIInv'
  OBVIOUS
<1>1. pc[Poster] = "load" /\ UNCHANGED <<top, link, after, queued, lpc, item, old>>
  BY DEF Pool!AllocLoad, Pool!At, Pool!pool, Pool!loop
<1>2. CASE top # NULL
  <2>1. pc' = [pc EXCEPT ![Poster] = "next"] /\ w' = [w EXCEPT ![Poster] = top] /\ heap' = heap
    BY <1>2 DEF Pool!AllocLoad, Pool!At
  <2>2. pc'[Poster] = "next" /\ w'[Poster] = top
    BY <2>1, PoolTypes
  <2>3. top \in StackOf(top, link) /\ top \in Nodes
    BY <1>2, StackPops, PoolTypes DEF PoolIInv
  <2>4. Pool!TypeOK'
    BY <1>1, <2>1, <2>2, <2>3 DEF PoolIInv, Pool!TypeOK
  <2>5. Mine' = Mine
    BY <1>1, <2>2 DEF Mine
  <2> QED BY <1>1, <2>1, <2>2, <2>3, <2>4, <2>5, PosterFrame
<1>3. CASE top = NULL
  <2>1. PICK i \in heap : w' = [w EXCEPT ![Poster] = i] /\ heap' = heap \ {i}
    BY <1>3 DEF Pool!AllocLoad
  <2>2. pc' = [pc EXCEPT ![Poster] = "full"]
    BY <1>3 DEF Pool!AllocLoad, Pool!At
  <2>3. pc'[Poster] = "full" /\ w'[Poster] = i /\ i \in Nodes
    BY <2>1, <2>2, PoolTypes DEF PoolIInv, Pool!TypeOK
  <2>4. Pool!TypeOK'
    BY <1>1, <2>1, <2>2, <2>3 DEF PoolIInv, Pool!TypeOK
  <2>5. Mine = {} /\ Mine' = {i} /\ Its' = Its
    BY <1>1, <2>3 DEF Mine, Its
  <2>6. Spread'
    BY <1>1, <2>1, <2>5 DEF PoolIInv, Spread, Apart
  <2>7. Registers'
    BY <1>1, <2>3 DEF PoolIInv, Registers
  <2> QED BY <1>1, <2>4, <2>6, <2>7 DEF PoolIInv
<1> QED BY <1>2, <1>3

LEMMA AllocNextInv == PoolIInv /\ Pool!AllocNext(Poster) => PoolIInv'
<1> SUFFICES ASSUME PoolIInv, Pool!AllocNext(Poster) PROVE PoolIInv'
  OBVIOUS
<1>1. /\ pc[Poster] = "next" /\ pc' = [pc EXCEPT ![Poster] = "cas"]
      /\ after' = [after EXCEPT ![Poster] = link[w[Poster]]]
      /\ UNCHANGED <<top, link, heap, w, queued, lpc, item, old>>
  BY DEF Pool!AllocNext, Pool!At, Pool!pool, Pool!loop
<1>2. pc'[Poster] = "cas" /\ after'[Poster] = link[w[Poster]] /\ w[Poster] \in Nodes
  BY <1>1, PoolTypes
<1>3. Pool!TypeOK'
  BY <1>1, <1>2 DEF PoolIInv, Pool!TypeOK
<1>4. Mine' = Mine
  BY <1>1, <1>2 DEF Mine
<1>5. w[Poster] \in StackOf(top, link)
  BY <1>1 DEF PoolIInv, Registers
<1> QED BY <1>1, <1>2, <1>3, <1>4, <1>5, PosterFrame

LEMMA AllocCasInv == PoolIInv /\ Pool!AllocCas(Poster) => PoolIInv'
<1> SUFFICES ASSUME PoolIInv, Pool!AllocCas(Poster) PROVE PoolIInv'
  OBVIOUS
<1>1. pc[Poster] = "cas" /\ UNCHANGED <<link, heap, w, after, queued, lpc, item, old>>
  BY DEF Pool!AllocCas, Pool!At, Pool!loop
<1>2. w[Poster] \in Nodes /\ w[Poster] \in StackOf(top, link) /\ after[Poster] = link[w[Poster]]
  BY <1>1, PoolTypes DEF PoolIInv, Registers
<1>3. CASE pc' = [pc EXCEPT ![Poster] = "zero"] /\ top = w[Poster] /\ top' = after[Poster]
  <2>1. pc'[Poster] = "zero"
    BY <1>3, PoolTypes
  <2>2. top # NULL /\ top' = link[top] /\ HasStack(top, link)
    BY <1>2, <1>3, PoolTypes DEF PoolIInv
  <2>3. HasStack(top', link) /\ StackOf(top', link) = StackOf(top, link) \ {top}
    BY <2>2, StackPops
  <2>4. Pool!TypeOK'
    BY <1>1, <1>2, <1>3, <2>1, PoolTypes DEF PoolIInv, Pool!TypeOK
  <2>5. Mine = {} /\ Mine' = {top} /\ Its' = Its
    BY <1>1, <1>3, <2>1 DEF Mine, Its
  <2>6. Spread'
    <3>1. top \in StackOf(top, link)
      BY <1>2, <1>3
    <3> QED BY <1>1, <2>3, <2>5, <3>1 DEF PoolIInv, Spread, Apart
  <2>7. Registers'
    BY <1>1, <2>1 DEF PoolIInv, Registers
  <2> QED BY <1>1, <2>3, <2>4, <2>6, <2>7 DEF PoolIInv
<1>4. CASE pc' = [pc EXCEPT ![Poster] = "load"] /\ top' = top
  <2>1. pc'[Poster] = "load"
    BY <1>4, PoolTypes
  <2>2. Pool!TypeOK'
    BY <1>1, <1>4, <2>1 DEF PoolIInv, Pool!TypeOK
  <2>3. Mine' = Mine
    BY <1>1, <2>1 DEF Mine
  <2> QED BY <1>1, <1>4, <2>1, <2>2, <2>3, PosterFrame
<1> QED BY <1>3, <1>4 DEF Pool!AllocCas, Pool!At

LEMMA AllocZeroInv == PoolIInv /\ Pool!AllocZero(Poster) => PoolIInv'
<1> SUFFICES ASSUME PoolIInv, Pool!AllocZero(Poster) PROVE PoolIInv'
  OBVIOUS
<1> DEFINE i == w[Poster]
<1>1. /\ pc[Poster] = "zero" /\ pc' = [pc EXCEPT ![Poster] = "full"]
      /\ link' = [link EXCEPT ![i] = NULL]
      /\ UNCHANGED <<top, heap, w, after, queued, lpc, item, old>>
  BY DEF Pool!AllocZero, Pool!At, Pool!loop
<1>2. pc'[Poster] = "full" /\ i \in Nodes /\ Mine = {i}
  BY <1>1, PoolTypes DEF Mine
<1>3. i \notin StackOf(top, link) /\ (lpc # "idle" => item # i /\ item \in Nodes)
  BY <1>2 DEF PoolIInv, Spread, Apart, Its, Pool!TypeOK
<1>4. \A x \in Nodes : x # i => link'[x] = link[x]
  BY <1>1 DEF PoolIInv, Pool!TypeOK
<1>5. HasStack(top, link') /\ StackOf(top, link') = StackOf(top, link)
  <2>1. \A x \in StackOf(top, link) : link'[x] = link[x]
    BY <1>3, <1>4, PoolTypes
  <2> QED BY <2>1, SameStack DEF PoolIInv
<1>6. Pool!TypeOK'
  BY <1>1, <1>2 DEF PoolIInv, Pool!TypeOK
<1>7. Mine' = Mine /\ Its' = Its
  BY <1>1, <1>2 DEF Mine, Its
<1>8. Spread'
  BY <1>1, <1>5, <1>7 DEF PoolIInv, Spread
<1>9. Registers'
  BY <1>1, <1>2, <1>3, <1>4 DEF PoolIInv, Registers
<1> QED BY <1>1, <1>5, <1>6, <1>8, <1>9 DEF PoolIInv

LEMMA HandInv == PoolIInv /\ Pool!Hand(Poster) => PoolIInv'
<1> SUFFICES ASSUME PoolIInv, Pool!Hand(Poster) PROVE PoolIInv'
  OBVIOUS
<1>1. /\ pc[Poster] = "full" /\ pc' = [pc EXCEPT ![Poster] = "idle"]
      /\ queued' = queued \cup {w[Poster]}
      /\ UNCHANGED <<top, link, heap, w, after, lpc, item, old>>
  BY DEF Pool!Hand, Pool!At, Pool!pool, Pool!loop
<1>2. pc'[Poster] = "idle" /\ w[Poster] \in Nodes
  BY <1>1, PoolTypes
<1>3. Pool!TypeOK'
  BY <1>1, <1>2 DEF PoolIInv, Pool!TypeOK
<1>4. Mine = {w[Poster]} /\ Mine' = {} /\ Its' = Its
  BY <1>1, <1>2 DEF Mine, Its
<1>5. Spread'
  BY <1>1, <1>4 DEF PoolIInv, Spread, Apart
<1>6. Registers'
  BY <1>1, <1>2 DEF PoolIInv, Registers
<1> QED BY <1>1, <1>3, <1>5, <1>6 DEF PoolIInv

LEMMA DispatchInv == PoolIInv /\ Pool!Dispatch => PoolIInv'
<1> SUFFICES ASSUME PoolIInv, Pool!Dispatch PROVE PoolIInv'
  OBVIOUS
<1>1. /\ lpc = "idle" /\ lpc' = "load"
      /\ UNCHANGED <<top, link, heap, pc, w, after, old>>
  BY DEF Pool!Dispatch, Pool!pool, Pool!poster
<1>2. PICK i \in queued : item' = i /\ queued' = queued \ {i}
  BY DEF Pool!Dispatch
<1>3. Pool!TypeOK'
  BY <1>1, <1>2 DEF PoolIInv, Pool!TypeOK
<1>4. Mine' = Mine /\ Its = {} /\ Its' = {i}
  BY <1>1, <1>2 DEF Mine, Its
<1>5. Spread'
  BY <1>1, <1>2, <1>4 DEF PoolIInv, Spread, Apart
<1>6. Registers'
  BY <1>1 DEF PoolIInv, Registers
<1> QED BY <1>1, <1>3, <1>5, <1>6 DEF PoolIInv

LEMMA FreeLoadInv == PoolIInv /\ Pool!FreeLoad => PoolIInv'
<1> SUFFICES ASSUME PoolIInv, Pool!FreeLoad PROVE PoolIInv'
  OBVIOUS
<1>1. /\ lpc = "load" /\ lpc' = "cas" /\ old' = top /\ link' = [link EXCEPT ![item] = top]
      /\ UNCHANGED <<top, heap, pc, w, after, queued, item>>
  BY DEF Pool!FreeLoad, Pool!poster
<1>2. item \in Nodes /\ Its = {item} /\ Its' = Its /\ Mine' = Mine
  BY <1>1 DEF PoolIInv, Pool!TypeOK, Its, Mine
<1>3. item \notin StackOf(top, link)
  BY <1>2 DEF PoolIInv, Spread, Apart
<1>4. link'[item] = top /\ \A x \in Nodes : x # item => link'[x] = link[x]
  BY <1>1, <1>2 DEF PoolIInv, Pool!TypeOK
<1>5. HasStack(top, link') /\ StackOf(top, link') = StackOf(top, link)
  <2>1. \A x \in StackOf(top, link) : link'[x] = link[x]
    BY <1>3, <1>4, PoolTypes
  <2> QED BY <2>1, SameStack DEF PoolIInv
<1>6. Pool!TypeOK'
  BY <1>1, <1>2 DEF PoolIInv, Pool!TypeOK
<1>7. Spread'
  BY <1>1, <1>2, <1>5 DEF PoolIInv, Spread
<1>8. Registers'
  <2>1. pc[Poster] = "cas" => link'[w[Poster]] = link[w[Poster]]
    BY <1>3, <1>4, PoolTypes DEF PoolIInv, Registers
  <2> QED BY <2>1, <1>1, <1>4, <1>5 DEF PoolIInv, Registers
<1> QED BY <1>1, <1>5, <1>6, <1>7, <1>8 DEF PoolIInv

LEMMA FreeCasInv == PoolIInv /\ Pool!FreeCas => PoolIInv'
<1> SUFFICES ASSUME PoolIInv, Pool!FreeCas PROVE PoolIInv'
  OBVIOUS
<1>1. lpc = "cas" /\ UNCHANGED <<link, heap, pc, w, after, queued, item, old>>
  BY DEF Pool!FreeCas, Pool!poster
<1>2. item \in Nodes /\ Its = {item} /\ Mine' = Mine /\ link[item] = old
  BY <1>1 DEF PoolIInv, Pool!TypeOK, Its, Mine, Registers
<1>3. item \in Nodes \ StackOf(top, link)
  BY <1>2 DEF PoolIInv, Spread, Apart
<1>4. CASE top = old /\ top' = item /\ lpc' = "idle"
  <2>1. HasStack(item, link) /\ StackOf(item, link) = StackOf(top, link) \cup {item}
    BY <1>2, <1>3, <1>4, StackGrows DEF PoolIInv
  <2>2. Pool!TypeOK'
    BY <1>1, <1>2, <1>4 DEF PoolIInv, Pool!TypeOK
  <2>3. Its' = {}
    BY <1>4 DEF Its
  <2>4. Spread'
    BY <1>1, <1>2, <1>4, <2>1, <2>3 DEF PoolIInv, Spread, Apart
  <2>5. Registers'
    BY <1>1, <1>4, <2>1 DEF PoolIInv, Registers
  <2> QED BY <1>1, <1>4, <2>1, <2>2, <2>4, <2>5 DEF PoolIInv
<1>5. CASE lpc' = "load" /\ top' = top
  <2>1. Pool!TypeOK'
    BY <1>1, <1>2, <1>5 DEF PoolIInv, Pool!TypeOK
  <2>2. Its' = Its
    BY <1>1, <1>2, <1>5 DEF Its
  <2>3. Spread' /\ Registers'
    BY <1>1, <1>2, <1>5, <2>2 DEF PoolIInv, Spread, Registers
  <2> QED BY <1>1, <1>5, <2>1, <2>3 DEF PoolIInv
<1> QED BY <1>4, <1>5 DEF Pool!FreeCas

LEMMA PoolNextInv == PoolIInv /\ [Pool!Next]_(Pool!vars) => PoolIInv'
<1> SUFFICES ASSUME PoolIInv, [Pool!Next]_(Pool!vars) PROVE PoolIInv'
  OBVIOUS
<1>1. CASE UNCHANGED Pool!vars
  <2>1. UNCHANGED <<top, link, heap, pc, w, after, queued, lpc, item, old>>
    BY <1>1 DEF Pool!vars, Pool!pool, Pool!poster, Pool!loop
  <2> QED BY <2>1 DEF PoolIInv, Pool!TypeOK, Spread, Registers, Mine, Its
<1>2. CASE Pool!Dispatch \/ Pool!FreeLoad \/ Pool!FreeCas
  BY <1>2, DispatchInv, FreeLoadInv, FreeCasInv
<1>3. CASE Pool!Alloc(Poster)
  BY <1>3, BeginInv, AllocLoadInv, AllocNextInv, AllocCasInv, AllocZeroInv, HandInv
  DEF Pool!Alloc
<1> QED BY <1>1, <1>2, <1>3 DEF Pool!Next

LEMMA OwnersAre == PoolIInv => Pool!PoolInv
<1> SUFFICES ASSUME PoolIInv PROVE Pool!OneOwner
  BY DEF PoolIInv, Pool!PoolInv
<1>1. Pool!Owns(Poster) = Mine /\ Pool!LoopOwns = Its /\ Pool!OnStack = StackOf(top, link)
  BY PoolStack DEF Pool!Owns, Pool!LoopOwns, Mine, Its
<1>2. UNION {Pool!Owns(t) : t \in {Poster}} = Mine
  BY <1>1
<1> QED BY <1>1, <1>2 DEF PoolIInv, Spread, Apart, Pool!OneOwner

(* With one poster the pool has every item in one place, whatever is       *)
(* recycled between the loads and the compare-and-swap (event_work_alloc,  *)
(* event_work_free).                                                       *)
THEOREM PoolHolds == Pool!Spec => []PoolInv
<1>1. Pool!Init => PoolIInv
  BY PoolInit
<1>2. PoolIInv /\ [Pool!Next]_(Pool!vars) => PoolIInv'
  BY PoolNextInv
<1>3. PoolIInv => PoolInv
  BY OwnersAre DEF PoolInv
<1> QED BY <1>1, <1>2, <1>3, PTL DEF Pool!Spec

-------------------------------------------------------------------------------
(* The two joined: every step of one is a step of each part, or none. *)
LEMMA StepsOfTheQueue == [NextAll]_all => [Next]_vars
<1> SUFFICES ASSUME NextAll PROVE Next \/ UNCHANGED vars
  BY DEF all
<1>1. CASE Allocate \/ Offload
  BY <1>1 DEF Allocate, Offload
<1>2. CASE Post
  BY <1>2, PosterAssumption DEF Post, Next, Push
<1>3. CASE Loop
  BY <1>3 DEF Loop, PopGoesOn, PopReturns, GiveBack, Next, Pop
<1>4. CASE \E p \in Producers : Complete(p) \/ PushGoesOn(p)
  BY <1>4 DEF Complete, PushGoesOn, Next, Push
<1> QED BY <1>1, <1>2, <1>3, <1>4 DEF NextAll

LEMMA StepsOfThePool == [NextAll]_all => [Pool!Next]_(Pool!vars)
<1> SUFFICES ASSUME [NextAll]_all PROVE Pool!Next \/ UNCHANGED Pool!vars
  OBVIOUS
<1>1. UNCHANGED items => UNCHANGED Pool!vars
  BY DEF items, Pool!vars, Pool!pool, Pool!poster, Pool!loop
<1>2. Pool!Alloc(Poster) => Pool!Next
  BY DEF Pool!Next
<1>3. CASE UNCHANGED all
  BY <1>1, <1>3 DEF all
<1>4. CASE Allocate \/ Offload \/ Post
  BY <1>2, <1>4 DEF Allocate, Offload, Post, Pool!Alloc
<1>5. CASE Loop
  BY <1>1, <1>5 DEF Loop, PopGoesOn, PopReturns, GiveBack, Pool!Next
<1>6. CASE \E p \in Producers : Complete(p) \/ PushGoesOn(p)
  BY <1>1, <1>6 DEF Complete, PushGoesOn
<1> QED BY <1>3, <1>4, <1>5, <1>6 DEF NextAll

(* The joined system is a behaviour of the queue and of the pool. *)
LEMMA Parts == SpecAll => Spec /\ Pool!Spec
<1>1. InitAll => Init /\ Pool!Init
  BY DEF InitAll
<1>2. [NextAll]_all => [Next]_vars /\ [Pool!Next]_(Pool!vars)
  BY StepsOfTheQueue, StepsOfThePool
<1> QED BY <1>1, <1>2, PTL DEF SpecAll, Spec, Pool!Spec

(* What a push takes is out, and what stays in the queue or in the hands   *)
(* of a push is another node than the one that is dispatched.              *)
LEMMA PushTakesOut ==
  ASSUME Inv, NodesAreOut, NEW p \in Producers, PushBegin(p),
         node'[p] \in queued', queued \subseteq queued'
  PROVE  NodesAreOut'
<1>1. /\ order' = order /\ ppc' = [ppc EXCEPT ![p] = "swap"]
      /\ \E n \in Free : node' = [node EXCEPT ![p] = n]
  BY DEF PushBegin
<1>2. \A q \in Producers \ {p} : ppc'[q] = ppc[q] /\ node'[q] = node[q]
  BY <1>1 DEF Inv, TypeOK
<1>3. Elements(order)' \subseteq queued'
  BY <1>1 DEF NodesAreOut
<1>4. \A q \in Producers : ppc'[q] # "ready" => node'[q] \in queued'
  BY <1>2 DEF NodesAreOut
<1> QED BY <1>3, <1>4 DEF NodesAreOut

LEMMA DispatchTakesIn ==
  ASSUME Inv, NodesAreOut, PopReturns
  PROVE  NodesAreOut'
<1>1. queued' = queued \ {first}
  BY DEF PopReturns, Pool!Dispatch
<1>2. /\ cpc # "ready" /\ UNCHANGED <<ppc, node>>
      /\ (cpc = "clear" /\ order' = order) \/ PopAdvance
  BY DEF PopReturns, PopAdvance, PopClear, producer
<1>3. \A q \in Producers : ppc[q] # "ready" => node[q] # first
  BY <1>2 DEF Inv, Hands
<1>4. Elements(order)' \subseteq Elements(order) \ {first}
  <2>1. CASE cpc = "clear" /\ order' = order
    BY <2>1 DEF Inv, Popping
  <2>2. CASE PopAdvance
    <3>1. Len(order) > 0 /\ first = order[1] /\ order' = Tail(order)
      BY <2>2, PopAdvanceInv DEF PopAdvance
    <3>2. order \in Seq(Nodes) /\ Once(order)
      BY Order DEF Inv, Chained
    <3> QED BY <3>1, <3>2, Beheaded
  <2> QED BY <1>2, <2>1, <2>2
<1> QED BY <1>1, <1>2, <1>3, <1>4 DEF NodesAreOut

LEMMA OutInv == Inv /\ NodesAreOut /\ [NextAll]_all => NodesAreOut'
<1> SUFFICES ASSUME Inv, NodesAreOut, [NextAll]_all PROVE NodesAreOut'
  OBVIOUS
<1>1. CASE UNCHANGED <<ppc, node, order>> /\ queued \subseteq queued'
  BY <1>1 DEF NodesAreOut
<1>2. CASE UNCHANGED all \/ Allocate \/ GiveBack
  <2>1. UNCHANGED <<ppc, node, order, queued>>
    BY <1>2 DEF all, items, vars, producer, Allocate, GiveBack, Pool!Begin, Pool!AllocLoad,
                Pool!AllocNext, Pool!AllocCas, Pool!AllocZero, Pool!FreeLoad, Pool!FreeCas
  <2> QED BY <2>1, <1>1
<1>3. CASE Offload
  BY <1>1, <1>3 DEF Offload, Pool!Hand, vars, producer
<1>4. CASE Post
  <2>1. queued' = queued \cup {w[Poster]} /\ node'[Poster] = w[Poster] /\ PushBegin(Poster)
    BY <1>4 DEF Post, Pool!Hand
  <2> QED BY <2>1, PosterAssumption, PushTakesOut
<1>5. CASE PopGoesOn
  <2>1. CASE PopBegin \/ PopNext \/ PopSpin
    BY <1>1, <1>5, <2>1 DEF PopGoesOn, PopBegin, PopNext, PopSpin, items, producer
  <2>2. CASE PopCas
    <3>1. UNCHANGED <<ppc, node, queued>>
      BY <1>5, <2>2 DEF PopGoesOn, PopCas, items, producer
    <3>2. CASE tail = first
      <4>1. /\ Len(order) = 1 /\ order' = Tail(order) /\ order \in Seq(Nodes) /\ Once(order)
        BY <2>2, <3>2, LastTaken, Order DEF Inv, Chained
      <4>2. Elements(order)' \subseteq Elements(order)
        BY <4>1, Beheaded
      <4> QED BY <3>1, <4>2 DEF NodesAreOut
    <3>3. CASE tail # first
      BY <1>1, <2>2, <3>1, <3>3 DEF PopCas
    <3> QED BY <3>2, <3>3
  <2> QED BY <1>5, <2>1, <2>2 DEF PopGoesOn
<1>6. CASE PopReturns
  BY <1>6, DispatchTakesIn
<1>7. ASSUME NEW p \in Producers, Complete(p) PROVE NodesAreOut'
  <2>1. PushBegin(p) /\ queued' = queued /\ node'[p] \in queued
    BY <1>7 DEF Complete, items, Given
  <2> QED BY <2>1, PushTakesOut
<1>8. ASSUME NEW p \in Producers, PushGoesOn(p) PROVE NodesAreOut'
  <2>1. queued' = queued
    BY <1>8 DEF PushGoesOn, items
  <2>2. CASE PushSwap(p)
    <3>1. /\ order' = Append(order, node[p]) /\ node' = node /\ ppc[p] = "swap"
          /\ ppc' = [ppc EXCEPT ![p] = "link"]
      BY <2>2 DEF PushSwap
    <3>2. \A q \in Producers : ppc'[q] # "ready" => ppc[q] # "ready"
      BY <3>1 DEF Inv, TypeOK
    <3>3. Elements(order)' = Elements(order) \cup {node[p]}
      <4>1. order \in Seq(Nodes) /\ node[p] \in Nodes
        BY <3>1, Order DEF Inv, Hands
      <4> QED BY <3>1, <4>1, Appended
    <3> QED BY <2>1, <3>1, <3>2, <3>3 DEF NodesAreOut
  <2>3. CASE PushLink(p)
    <3>1. order' = order /\ node' = node /\ ppc' = [ppc EXCEPT ![p] = "ready"]
      BY <2>3 DEF PushLink
    <3>2. \A q \in Producers : ppc'[q] # "ready" => ppc[q] # "ready"
      BY <3>1 DEF Inv, TypeOK
    <3> QED BY <2>1, <3>1, <3>2 DEF NodesAreOut
  <2> QED BY <1>8, <2>2, <2>3 DEF PushGoesOn
<1> QED BY <1>2, <1>3, <1>4, <1>5, <1>6, <1>7, <1>8 DEF NextAll, Loop

(* Items go round through pool, group and queue for any number of threads  *)
(* that push, items and pushes: the queue's words describe its content,    *)
(* every item is in one place and none is lost, and no node of the queue   *)
(* is one that was given back.                                             *)
THEOREM DoneQueueHolds == SpecAll => []DoneQueueInv
<1>1. InitAll => NodesAreOut
  BY DEF InitAll, Init, NodesAreOut, Elements
<1>2. Inv /\ NodesAreOut /\ [NextAll]_all => NodesAreOut'
  BY OutInv
<1>3. SpecAll => []NodesAreOut
  BY <1>1, <1>2, Parts, Invariance, PTL DEF SpecAll
<1>4. ListInv /\ PoolInv /\ NodesAreOut => DoneQueueInv
  BY DEF DoneQueueInv
<1> QED BY <1>3, <1>4, Parts, ListHolds, PoolHolds, PTL

(* Nodes come out in the order of the exchanges, each once, although they  *)
(* are recycled all the while (xMpscPop in loop_dispatch_done).            *)
THEOREM ItemsComeInOrder == SpecAll => FollowsContract
BY Parts, Implements, PTL
===============================================================================
