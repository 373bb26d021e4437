------------------------------ MODULE XferProofs ------------------------------
(***************************************************************************)
(* DeliveredWhole of Xfer for every source, however often it is edited,    *)
(* any number of chunks, attempts, faults and crashes, and any buffering;  *)
(* FilesInv for a receiver that flushes and dies once at most.             *)
(***************************************************************************)
EXTENDS Xfer, FiniteSetTheorems, SequenceTheorems, WellFoundedInduction, TLAPS

(* What is in flight *)
ToR ==
  [type : {"META"}, total : Nat] \cup [type : {"CHUNK"}, id : Nat, data : Versions]
    \cup [type : {"DONE"}, sha : Versions] \cup [type : {"RESET"}]
ToS ==
  [type : {"RESUME"}, has : SUBSET Nat] \cup [type : {"ACK"}, ok : BOOLEAN] \cup [type : {"RESET"}]

IsData(m)   == m.type \in {"META", "CHUNK"}
NoData(q)   == \A i \in 1..Len(q) : ~IsData(q[i])
HasDone(q)  == \E i \in 1..Len(q) : q[i].type = "DONE"
DoneLast(q) == \A i, j \in 1..Len(q) : i < j /\ q[i].type = "DONE" => ~IsData(q[j])
IsOk(m)     == m.type = "ACK" /\ m.ok
OkAck(q)    == \E i \in 1..Len(q) : IsOk(q[i])

(* Appending keeps a sequence without data, and one in which data precedes *)
(* the end of the file; it adds an end or an acknowledgement only as what  *)
(* is appended.                                                            *)
LEMMA Appending ==
  ASSUME NEW S, NEW q \in Seq(S), NEW e \in S
  PROVE  /\ Append(q, e) \in Seq(S)
         /\ NoData(q) /\ ~IsData(e) => NoData(Append(q, e))
         /\ HasDone(Append(q, e)) => HasDone(q) \/ e.type = "DONE"
         /\ DoneLast(q) /\ (HasDone(q) => ~IsData(e)) => DoneLast(Append(q, e))
         /\ OkAck(Append(q, e)) => OkAck(q) \/ IsOk(e)
<1> DEFINE a == Append(q, e)
<1>1. /\ a \in Seq(S) /\ Len(q) \in Nat /\ Len(a) = Len(q) + 1
      /\ a[Len(q) + 1] = e /\ \A i \in 1..Len(q) : a[i] = q[i]
  OBVIOUS
<1> HIDE DEF a
<1>2. NoData(q) /\ ~IsData(e) => NoData(a)
  BY <1>1 DEF NoData
<1>3. HasDone(a) => HasDone(q) \/ e.type = "DONE"
  BY <1>1 DEF HasDone
<1>4. DoneLast(q) /\ (HasDone(q) => ~IsData(e)) => DoneLast(a)
  BY <1>1 DEF DoneLast, HasDone
<1>5. OkAck(a) => OkAck(q) \/ IsOk(e)
  BY <1>1 DEF OkAck
<1> QED
  BY <1>1, <1>2, <1>3, <1>4, <1>5 DEF a

(* Taking the head; behind an end of file there is no data. *)
LEMMA Taking ==
  ASSUME NEW S, NEW q \in Seq(S), q # <<>>
  PROVE  /\ Head(q) \in S /\ Tail(q) \in Seq(S)
         /\ NoData(q) => NoData(Tail(q)) /\ ~IsData(Head(q))
         /\ HasDone(Tail(q)) => HasDone(q)
         /\ Head(q).type = "DONE" => HasDone(q)
         /\ DoneLast(q) => DoneLast(Tail(q))
         /\ DoneLast(q) /\ Head(q).type = "DONE" => NoData(Tail(q))
         /\ OkAck(Tail(q)) => OkAck(q)
         /\ IsOk(Head(q)) => OkAck(q)
<1> DEFINE t == Tail(q)
<1>1. /\ Head(q) \in S /\ t \in Seq(S) /\ Len(q) \in Nat \ {0} /\ Len(t) = Len(q) - 1
      /\ Head(q) = q[1] /\ \A i \in 1..Len(t) : t[i] = q[i + 1]
  BY HeadTailProperties, EmptySeq
<1> HIDE DEF t
<1>2. NoData(q) => NoData(t) /\ ~IsData(Head(q))
  BY <1>1 DEF NoData
<1>3. (HasDone(t) => HasDone(q)) /\ (Head(q).type = "DONE" => HasDone(q))
  BY <1>1 DEF HasDone
<1>4. /\ DoneLast(q) => DoneLast(t)
      /\ DoneLast(q) /\ Head(q).type = "DONE" => NoData(t)
  BY <1>1 DEF DoneLast, NoData
<1>5. (OkAck(t) => OkAck(q)) /\ (IsOk(Head(q)) => OkAck(q))
  BY <1>1 DEF OkAck
<1> QED
  BY <1>1, <1>2, <1>3, <1>4, <1>5 DEF t

LEMMA EmptyWire ==
  /\ NoData(<<>>) /\ ~HasDone(<<>>) /\ DoneLast(<<>>) /\ ~OkAck(<<>>)
BY DEF NoData, HasDone, DoneLast, OkAck

LEMMA LessThan == \A x, y \in Nat : y < x => <<y, x>> \in OpToRel(<, Nat)
BY DEF OpToRel

(* A set of numbers with an element has a smallest one. *)
LEMMA LeastElement ==
  ASSUME NEW C \in SUBSET Nat, C # {}
  PROVE  Min(C) \in C
<1>1. PICK x \in C : \A y \in C : ~(<<y, x>> \in OpToRel(<, Nat))
  BY WFMin, NatLessThanWellFounded
<1>2. \A y \in C : ~(y < x)
  BY <1>1, LessThan, Zenon
<1> HIDE <1>1
<1>3. x \in C /\ \A y \in C : x =< y
  BY <1>2, SMT
<1> QED
  BY <1>3, Zenon DEF Min

(* The next chunk to send lies behind those that were sent, or all were. *)
LEMMA NextChunkRange ==
  ASSUME NEW t, t.next \in Nat, t.total \in Nat, t.next <= t.total
  PROVE  NextChunk(t) \in t.next..t.total
<1> DEFINE C == {c \in t.next..t.total : c = t.total \/ c \notin t.resume}
<1>1. C \in SUBSET Nat /\ C # {}
  OBVIOUS
<1>2. Min(C) \in C
  BY <1>1, LeastElement
<1>3. NextChunk(t) = Min(C)
  BY Zenon DEF NextChunk
<1>4. NextChunk(t) \in C
  BY <1>2, <1>3, Zenon
<1> QED
  BY <1>4
-------------------------------------------------------------------------------
(* The invariant *)
Steps == {"idle", "save", "write", "saveAll", "writeAll", "verify", "rename", "remove"}

States == {"WaitingPeer", "Transferring", "Done", "Failed"}
Waits  == {"none", "resume", "ack"}

SenderRec ==
  [state : States, dc : Dc, total : Nat, next : Nat, resume : SUBSET Nat,
   waiting : Waits, paused : BOOLEAN, timer : BOOLEAN]

PeerStates == States \cup {"gone"}
Hashes == Versions \cup {None}

ReceiverRec ==
  [state : PeerStates, dc : Dc, total : Nat, bitmap : SUBSET Nat, step : Steps, sha : Hashes]

Typed ==
  /\ src \in Versions
  /\ s \in SenderRec /\ s.next <= s.total
  /\ r \in ReceiverRec
  /\ toR \in Seq(ToR) /\ toS \in Seq(ToS)
  /\ bits \in {None, Torn} \cup [total : Nat, has : SUBSET Nat]

(* Before the channel opens nothing was exchanged. *)
Unopened ==
  link = "new" => /\ toR = <<>> /\ toS = <<>> /\ r.step = "idle"
                  /\ s.state # "Done" /\ ~s.timer
                  /\ {s.dc, r.dc} \subseteq {"none", "null"}

(* Once the end of the file is on its way the sender sends no chunk any    *)
(* more, and once it was received the receiver writes none.                *)
Ended    == s.next = s.total /\ s.waiting # "resume"
Ending   == r.step \in {"saveAll", "writeAll", "verify", "rename", "remove"}
Verified == s.state = "Done" \/ OkAck(toS) \/ Ending

Ends ==
  /\ HasDone(toR) \/ Verified => Ended
  /\ DoneLast(toR)
  /\ Verified => dirty = {} /\ NoData(toR)

(* What was hashed is kept until it has its name. *)
Hashed    == s.state = "Done" \/ OkAck(toS) \/ r.step \in {"rename", "remove"}
Somewhere == (part # None /\ Whole(part)) \/ (final # None /\ Whole(final))

Keeps ==
  /\ r.step \in {"saveAll", "writeAll", "verify"} => r.sha \in Versions
  /\ r.step = "rename" => part # None /\ Whole(part)
  /\ Hashed => Somewhere
  /\ final # None => Whole(final)

Inv == Typed /\ Unopened /\ Ends /\ Keeps

LEMMA WholeFile == \A v \in Versions : Content(v) # None /\ Whole(Content(v))
BY NoneAssumption DEF Whole, Content

LEMMA VersionsSize == Versions \subseteq Nat /\ \A v \in Versions : Size[v] \in Nat
BY SizeAssumption DEF Versions

LEMMA InitInv == Init => Inv
<1> SUFFICES ASSUME Init PROVE Inv
  OBVIOUS
<1>1. Typed
  BY SizeAssumption, VersionsSize DEF Init, Typed, NewSender, NewReceiver, SenderRec, ReceiverRec, Versions, Dc, Steps, States, Waits, PeerStates, Hashes
<1>2. Unopened /\ ~Verified
  BY EmptyWire DEF Init, Unopened, Verified, Ending, NewSender, NewReceiver
<1>3. Ends
  BY <1>2, EmptyWire DEF Init, Ends
<1>4. Keeps
  BY <1>2, EmptyWire DEF Init, Keeps, Hashed, Verified, Ending, NewReceiver
<1> QED
  BY <1>1, <1>2, <1>3, <1>4 DEF Inv

(* The whole-ness of what is kept concerns the receiver's disk only. *)
LEMMA SameDisk ==
  ASSUME Keeps, Hashed' => Hashed, r' = r, part' = part, final' = final
  PROVE  Keeps'
BY DEF Keeps, Somewhere, Hashed

-------------------------------------------------------------------------------
(* The fields a sending step assigns. *)
LEMMA Assigned ==
  ASSUME NEW t \in SenderRec, NEW n \in Nat
  PROVE  /\ [t EXCEPT !.next = n, !.waiting = "ack"] \in SenderRec
         /\ [t EXCEPT !.next = n, !.paused = TRUE] \in SenderRec
         /\ [t EXCEPT !.next = n, !.timer = TRUE] \in SenderRec
         /\ [t EXCEPT !.next = n, !.state = "Failed"] \in SenderRec
<1>1. "ack" \in Waits /\ "Failed" \in States
  BY DEF Waits, States
<1>2. \A w \in Waits : [t EXCEPT !.next = n, !.waiting = w] \in SenderRec
  BY DEF SenderRec
<1>3. \A x \in States : [t EXCEPT !.next = n, !.state = x] \in SenderRec
  BY DEF SenderRec
<1>4. /\ [t EXCEPT !.next = n, !.paused = TRUE] \in SenderRec
      /\ [t EXCEPT !.next = n, !.timer = TRUE] \in SenderRec
  BY DEF SenderRec
<1> QED
  BY <1>1, <1>2, <1>3, <1>4

(* The sender sends: a chunk only while no end of the file is on its way,  *)
(* and after everything was sent nothing but that end.                     *)
LEMMA Sends ==
  ASSUME src \in Versions, toR \in Seq(ToR), DoneLast(toR),
         NEW t \in SenderRec, t.next <= t.total, NEW b, SendNext(t, b),
         HasDone(toR) => t.next = t.total
  PROVE  /\ s' \in SenderRec /\ s'.next <= s'.total /\ toR' \in Seq(ToR)
         /\ DoneLast(toR') /\ (HasDone(toR') => Ended')
         /\ t.next = t.total => Ended' /\ (NoData(toR) => NoData(toR'))
         /\ s'.state \in {t.state, "Failed"} /\ s'.dc = t.dc
         /\ t.dc # "open" => toR' = toR
<1> DEFINE c == NextChunk(t)
<1>1. c \in t.next..t.total /\ t.next \in Nat /\ t.total \in Nat
  BY NextChunkRange DEF SenderRec
<1> HIDE DEF c
<1>2. CASE SendDone(t, b)
  <2> DEFINE e == [type |-> "DONE", sha |-> src]
  <2>1. s' = [t EXCEPT !.next = t.total, !.waiting = "ack"]
    BY <1>2 DEF SendDone
  <2>7. s' \in SenderRec
    BY <2>1, <1>1, Assigned
  <2>2. s'.next <= s'.total /\ Ended' /\ s'.state = t.state /\ s'.dc = t.dc
    BY <2>1, <1>1 DEF SenderRec, Ended
  <2>3. (t.dc = "open" /\ toR' = Append(toR, e)) \/ toR' = toR
    BY <1>2 DEF SendDone
  <2>4. e \in ToR /\ ~IsData(e)
    BY DEF ToR, IsData
  <2> HIDE DEF e
  <2>5. toR' \in Seq(ToR) /\ DoneLast(toR') /\ (NoData(toR) => NoData(toR'))
    BY <2>3, <2>4, Appending
  <2> QED
    BY <2>2, <2>3, <2>5, <2>7
<1>3. CASE SendChunk(t, b)
  <2> DEFINE e == [type |-> "CHUNK", id |-> c, data |-> src]
  <2>1. s' = [t EXCEPT !.next = c + 1, !.timer = TRUE] /\ c < t.total /\ t.dc = "open"
    BY <1>3 DEF SendChunk, c
  <2>7. s' \in SenderRec
    <3>1. c + 1 \in Nat
      BY <1>1
    <3> QED
      BY <2>1, <3>1, Assigned, Zenon
  <2>2. s'.next <= s'.total /\ s'.state = t.state /\ s'.dc = t.dc
    BY <2>1, <1>1 DEF SenderRec
  <2>3. toR' = Append(toR, e)
    BY <1>3 DEF SendChunk, c
  <2>4. e \in ToR /\ e.type = "CHUNK"
    BY <1>1 DEF ToR
  <2> HIDE DEF e
  <2>5. ~HasDone(toR) /\ t.next # t.total
    BY <1>1, <2>1
  <2>6. toR' \in Seq(ToR) /\ DoneLast(toR') /\ ~HasDone(toR')
    BY <2>3, <2>4, <2>5, Appending
  <2> QED
    BY <2>1, <2>2, <2>5, <2>6, <2>7
<1>4. CASE Pause(t, b) \/ ChunkFails(t, b)
  <2>1. /\ c < t.total /\ toR' = toR
        /\ s' = [t EXCEPT !.next = c, !.paused = TRUE] \/ s' = [t EXCEPT !.next = c, !.state = "Failed"]
    BY <1>4 DEF Pause, ChunkFails, c
  <2>2. c \in Nat
    BY <1>1
  <2>3. s' \in SenderRec
    BY <2>1, <2>2, Assigned, Zenon
  <2>4. s'.next = c /\ s'.total = t.total /\ s'.state \in {t.state, "Failed"} /\ s'.dc = t.dc
    <3>1. CASE s' = [t EXCEPT !.next = c, !.paused = TRUE]
      BY <3>1 DEF SenderRec
    <3>2. CASE s' = [t EXCEPT !.next = c, !.state = "Failed"]
      BY <3>2 DEF SenderRec
    <3> QED
      BY <2>1, <3>1, <3>2
  <2>5. ~HasDone(toR) /\ t.next # t.total
    BY <1>1, <2>1
  <2> QED
    BY <1>1, <2>1, <2>3, <2>4, <2>5
<1> QED
  BY <1>2, <1>3, <1>4 DEF SendNext

(* What a step that sends leaves of the invariant. *)
LEMMA SendingInv ==
  ASSUME Inv, link # "new", NEW t \in SenderRec, t.next <= t.total, t.state = s.state, NEW b,
         SendNext(t, b), HasDone(toR) \/ Verified => t.next = t.total,
         toS' = toS \/ (toS # <<>> /\ toS' = Tail(toS)),
         UNCHANGED <<src, link, r, disk>>
  PROVE  Inv'
<1> USE DEF Inv, disk
<1>1. /\ s' \in SenderRec /\ s'.next <= s'.total /\ toR' \in Seq(ToR)
      /\ DoneLast(toR') /\ (HasDone(toR') => Ended')
      /\ t.next = t.total => Ended' /\ (NoData(toR) => NoData(toR'))
      /\ s'.state \in {t.state, "Failed"}
  BY Sends DEF Typed, Ends
<1>2. toS' \in Seq(ToS) /\ (OkAck(toS') => OkAck(toS))
  BY Taking DEF Typed
<1>3. (Verified' => Verified) /\ (Hashed' => Hashed)
  BY <1>1, <1>2 DEF Verified, Hashed, Ending
<1>4. Typed' /\ Unopened'
  BY <1>1, <1>2 DEF Typed, Unopened
<1>5. Ends'
  BY <1>1, <1>3 DEF Ends
<1>6. Keeps'
  BY <1>3, SameDisk
<1> QED
  BY <1>4, <1>5, <1>6

LEMMA TimerInv == Inv /\ Timer => Inv'
<1> SUFFICES ASSUME Inv, Timer PROVE Inv'
  OBVIOUS
<1> DEFINE t == [s EXCEPT !.timer = FALSE]
<1>1. t \in SenderRec /\ t.next = s.next /\ t.total = s.total /\ t.state = s.state
  BY DEF Inv, Typed, SenderRec
<1>2. SendNext(t, buffered) /\ UNCHANGED <<src, link, toS, r, disk>>
  BY DEF Timer
<1>3. link # "new" /\ t.next <= t.total
  BY <1>1 DEF Inv, Typed, Unopened, Timer
<1>4. HasDone(toR) \/ Verified => t.next = t.total
  BY <1>1 DEF Inv, Ends, Ended
<1>5. toS' = toS
  BY <1>2
<1> HIDE DEF t
<1> QED
  BY <1>1, <1>2, <1>3, <1>4, <1>5, SendingInv

LEMMA DryInv == Inv /\ Dry => Inv'
<1> SUFFICES ASSUME Inv, Dry PROVE Inv'
  OBVIOUS
<1>1. /\ s.dc = "open" /\ link = "up" /\ toS' = toS
      /\ UNCHANGED <<src, link, toS, r, disk>>
  BY DEF Dry
<1>2. CASE s.paused
  <2> DEFINE t == [s EXCEPT !.paused = FALSE]
  <2>1. t \in SenderRec /\ t.next = s.next /\ t.total = s.total /\ t.state = s.state
    BY DEF Inv, Typed, SenderRec
  <2>2. SendNext(t, 0)
    BY <1>2 DEF Dry
  <2>3. t.next <= t.total /\ (HasDone(toR) \/ Verified => t.next = t.total)
    BY <2>1 DEF Inv, Typed, Ends, Ended
  <2> HIDE DEF t
  <2> QED
    BY <1>1, <2>1, <2>2, <2>3, SendingInv
<1>3. CASE ~s.paused
  <2>1. UNCHANGED <<src, link, toS, r, part, dirty, bits, final, s, toR>>
    BY <1>1, <1>3 DEF Dry, disk
  <2> QED
    BY <2>1 DEF Inv, Typed, Unopened, Ends, Ended, Verified, Ending, Keeps, Hashed, Somewhere
<1> QED
  BY <1>2, <1>3

(* A step that keeps the sender's place and adds no data before the        *)
(* receiver: what is left to show is what it does to the files.            *)
LEMMA KeepsPlace ==
  ASSUME Inv, Typed', Unopened', Keeps', Verified' => Verified,
         Ended => Ended', HasDone(toR') => HasDone(toR), DoneLast(toR'),
         NoData(toR) => NoData(toR'), dirty' \in {dirty, {}}
  PROVE  Inv'
BY DEF Inv, Ends

(* A step after which nothing is verified yet. *)
LEMMA StaysUnverified ==
  ASSUME Inv, Typed', Unopened', ~Verified', DoneLast(toR'), HasDone(toR') => Ended',
         final' = final
  PROVE  Inv'
BY DEF Inv, Ends, Keeps, Verified, Ending, Hashed

(* A message leaves the sender's queue. *)
LEMMA TakesS ==
  ASSUME Inv, toS # <<>>, toS' = Tail(toS)
  PROVE  /\ Head(toS) \in ToS /\ toS' \in Seq(ToS)
         /\ OkAck(toS') => OkAck(toS)
         /\ IsOk(Head(toS)) => OkAck(toS)
BY Taking DEF Inv, Typed

LEMMA ResumeInv == Inv /\ Resume => Inv'
<1> SUFFICES ASSUME Inv, Resume PROVE Inv'
  OBVIOUS
<1> DEFINE m == Head(toS)
<1>1. /\ link = "up" /\ toS # <<>> /\ m.type = "RESUME" /\ toS' = Tail(toS)
      /\ UNCHANGED <<src, link, r, disk>>
  BY DEF Resume
<1>2. CASE s.dc = "open" /\ s.waiting = "resume"
  <2> DEFINE t == [s EXCEPT !.resume = m.has, !.waiting = "none"]
  <2>1. SendNext(t, buffered)
    BY <1>2 DEF Resume
  <2>2. m.has \in SUBSET Nat
    BY <1>1, TakesS DEF ToS
  <2>3. "none" \in Waits
    BY DEF Waits
  <2>4. t \in SenderRec /\ t.next = s.next /\ t.total = s.total /\ t.state = s.state
    BY <2>2, <2>3 DEF Inv, Typed, SenderRec
  <2>5. ~Ended
    BY <1>2 DEF Ended
  <2>6. t.next <= t.total /\ ~(HasDone(toR) \/ Verified)
    BY <2>4, <2>5 DEF Inv, Typed, Ends
  <2> HIDE DEF t
  <2> QED
    BY <1>1, <2>1, <2>4, <2>6, SendingInv
<1>3. CASE ~(s.dc = "open" /\ s.waiting = "resume")
  <2>1. UNCHANGED <<src, link, r, part, dirty, bits, final, s, toR>>
    BY <1>1, <1>3 DEF Resume, disk
  <2>2. toS' \in Seq(ToS) /\ (OkAck(toS') => OkAck(toS))
    BY <1>1, TakesS
  <2>3. (Verified' => Verified) /\ (Hashed' => Hashed)
    BY <2>1, <2>2 DEF Verified, Ending, Hashed
  <2>4. Typed' /\ Unopened'
    BY <1>1, <2>1, <2>2 DEF Inv, Typed, Unopened
  <2>5. Keeps'
    BY <2>1, <2>3, SameDisk DEF Inv
  <2>6. DoneLast(toR') /\ (Ended => Ended')
    BY <2>1 DEF Inv, Ends, Ended
  <2> QED
    BY <2>1, <2>3, <2>4, <2>5, <2>6, KeepsPlace
<1> QED
  BY <1>2, <1>3

(* What only touches the sender's record and its queue. *)
LEMMA SenderTurns ==
  ASSUME Inv, link = "up", toS # <<>>, toS' = Tail(toS), s' \in SenderRec,
         s'.next = s.next, s'.total = s.total,
         s.waiting # "resume" => s'.waiting # "resume",
         s'.state = "Done" => s.state = "Done" \/ IsOk(Head(toS)),
         UNCHANGED <<src, link, toR, r, disk>>
  PROVE  Inv'
<1> USE DEF disk
<1>1. toS' \in Seq(ToS) /\ (OkAck(toS') => OkAck(toS)) /\ (IsOk(Head(toS)) => OkAck(toS))
  BY TakesS
<1>2. (Verified' => Verified) /\ (Hashed' => Hashed)
  BY <1>1 DEF Verified, Ending, Hashed
<1>3. Typed' /\ Unopened'
  BY <1>1 DEF Inv, Typed, Unopened
<1>4. Keeps'
  BY <1>2, SameDisk DEF Inv
<1>5. DoneLast(toR') /\ (Ended => Ended')
  BY DEF Inv, Ends, Ended
<1> QED
  BY <1>2, <1>3, <1>4, <1>5, KeepsPlace

LEMMA AckInv == Inv /\ Ack => Inv'
<1> SUFFICES ASSUME Inv, Ack PROVE Inv'
  OBVIOUS
<1> DEFINE m == Head(toS)
           x == IF m.ok THEN "Done" ELSE "Failed"
<1>1. /\ link = "up" /\ toS # <<>> /\ m.type = "ACK" /\ toS' = Tail(toS)
      /\ UNCHANGED <<src, link, toR, r, disk>>
  BY DEF Ack
<1>2. s' = [s EXCEPT !.waiting = "none", !.state = x] \/ s' = s
  BY DEF Ack
<1>3. "none" \in Waits /\ x \in States /\ (x = "Done" => IsOk(m))
  BY <1>1 DEF Waits, States, IsOk
<1> HIDE DEF x
<1>4. /\ s' \in SenderRec /\ s'.next = s.next /\ s'.total = s.total
      /\ s'.waiting \in {s.waiting, "none"} /\ s'.state \in {s.state, x}
  BY <1>2, <1>3 DEF Inv, Typed, SenderRec
<1> QED
  BY <1>1, <1>3, <1>4, SenderTurns

LEMMA ResetAtSenderInv == Inv /\ ResetAtSender => Inv'
<1> SUFFICES ASSUME Inv, ResetAtSender PROVE Inv'
  OBVIOUS
<1>1. /\ link = "up" /\ toS # <<>> /\ toS' = Tail(toS)
      /\ s' = [s EXCEPT !.dc = "closed"] \/ s' = s
      /\ UNCHANGED <<src, link, toR, r, disk>>
  BY DEF ResetAtSender
<1>2. "closed" \in Dc
  BY DEF Dc
<1>3. /\ s' \in SenderRec /\ s'.next = s.next /\ s'.total = s.total
      /\ s'.waiting = s.waiting /\ s'.state = s.state
  BY <1>1, <1>2 DEF Inv, Typed, SenderRec
<1> QED
  BY <1>1, <1>3, SenderTurns
-------------------------------------------------------------------------------
(* The fields the receiver's steps assign. *)
LEMMA ReceiverAssigned ==
  ASSUME r \in ReceiverRec
  PROVE  /\ \A x \in PeerStates : [r EXCEPT !.state = x] \in ReceiverRec
         /\ \A x \in PeerStates, d \in Dc : [r EXCEPT !.state = x, !.dc = d] \in ReceiverRec
         /\ \A d \in Dc : [r EXCEPT !.dc = d] \in ReceiverRec
         /\ \A p \in Steps : [r EXCEPT !.step = p] \in ReceiverRec
         /\ \A p \in Steps, x \in PeerStates : [r EXCEPT !.step = p, !.state = x] \in ReceiverRec
         /\ \A p \in Steps, h \in Hashes : [r EXCEPT !.step = p, !.sha = h] \in ReceiverRec
         /\ \A B \in SUBSET Nat, p \in Steps :
              [r EXCEPT !.bitmap = B, !.step = p] \in ReceiverRec
         /\ \A n \in Nat, B \in SUBSET Nat, x \in PeerStates, p \in Steps :
              [r EXCEPT !.total = n, !.bitmap = B, !.state = x, !.step = p] \in ReceiverRec
BY DEF ReceiverRec

LEMMA Members ==
  /\ {"WaitingPeer", "Transferring", "Done", "Failed", "gone"} \subseteq PeerStates
  /\ {"none", "open", "closed", "null"} \subseteq Dc
  /\ {"idle", "save", "write", "saveAll", "writeAll", "verify", "rename", "remove"} \subseteq Steps
  /\ Versions \subseteq Hashes /\ None \in Hashes
BY DEF PeerStates, States, Dc, Steps, Hashes

(* A message leaves the receiver's queue. *)
LEMMA TakesR ==
  ASSUME Inv, toR # <<>>, toR' = Tail(toR)
  PROVE  /\ Head(toR) \in ToR /\ toR' \in Seq(ToR)
         /\ NoData(toR) => NoData(toR') /\ ~IsData(Head(toR))
         /\ HasDone(toR') => HasDone(toR)
         /\ Head(toR).type = "DONE" => HasDone(toR) /\ NoData(toR')
         /\ DoneLast(toR')
BY Taking DEF Inv, Typed, Ends

(* While data arrives nothing is verified, and after it nothing is. *)
LEMMA TakesData ==
  ASSUME Inv, NEW type \in {"META", "CHUNK"}, Take(type),
         toS' \in Seq(ToS), OkAck(toS') => OkAck(toS),
         r' \in ReceiverRec, r'.step \in {"idle", "save"},
         bits' = bits, final' = final
  PROVE  Inv'
<1>1. /\ link = "up" /\ toR # <<>> /\ toR' = Tail(toR) /\ IsData(Head(toR))
      /\ UNCHANGED <<src, link, s>>
  BY DEF Take, IsData
<1>2. /\ toR' \in Seq(ToR) /\ (HasDone(toR') => HasDone(toR)) /\ DoneLast(toR')
      /\ ~NoData(toR)
  BY <1>1, TakesR
<1>3. ~Verified
  BY <1>2 DEF Inv, Ends
<1>4. ~Verified'
  BY <1>1, <1>3 DEF Verified, Ending
<1>5. Typed' /\ Unopened'
  BY <1>1, <1>2 DEF Inv, Typed, Unopened
<1>6. HasDone(toR') => Ended'
  BY <1>1, <1>2 DEF Inv, Ends, Ended
<1> QED
  BY <1>2, <1>4, <1>5, <1>6, StaysUnverified

LEMMA MetaEmptyInv == Inv /\ MetaEmpty => Inv'
<1> SUFFICES ASSUME Inv, MetaEmpty PROVE Inv'
  OBVIOUS
<1>1. /\ Take("META") /\ r.step = "idle" /\ r' = [r EXCEPT !.state = "Failed"]
      /\ toS' = toS /\ bits' = bits /\ final' = final
  BY DEF MetaEmpty, Take, disk
<1>2. r' \in ReceiverRec /\ r'.step = r.step
  BY <1>1, ReceiverAssigned, Members DEF Inv, Typed, ReceiverRec
<1>3. toS' \in Seq(ToS)
  BY <1>1 DEF Inv, Typed
<1> QED
  BY <1>1, <1>2, <1>3, TakesData

LEMMA MetaInv == Inv /\ Meta => Inv'
<1> SUFFICES ASSUME Inv, Meta PROVE Inv'
  OBVIOUS
<1> DEFINE n == Head(toR).total
           has == IF Loadable(n) THEN bits.has ELSE {}
           e == [type |-> "RESUME", has |-> has]
<1>1. /\ Take("META") /\ bits' = bits /\ final' = final
      /\ r' = [r EXCEPT !.total = n, !.bitmap = has, !.state = "Transferring", !.step = "save"]
      /\ toS' = Append(toS, e)
  BY DEF Meta, disk
<1>2. toR # <<>> /\ Head(toR) \in ToR /\ Head(toR).type = "META"
  BY <1>1, Taking DEF Take, Inv, Typed
<1>3. n \in Nat
  BY <1>2 DEF ToR
<1>4. has \in SUBSET Nat
  BY DEF Inv, Typed, Loadable, Saved
<1> HIDE DEF n, has
<1>5. e \in ToS /\ ~IsOk(e)
  BY <1>4 DEF ToS, IsOk
<1>6. toS' \in Seq(ToS) /\ (OkAck(toS') => OkAck(toS))
  BY <1>1, <1>5, Appending DEF Inv, Typed
<1>7. r' \in ReceiverRec
  BY <1>1, <1>3, <1>4, ReceiverAssigned, Members DEF Inv, Typed
<1>8. r'.step = "save"
  BY <1>1 DEF Inv, Typed, ReceiverRec
<1> QED
  BY <1>1, <1>6, <1>7, <1>8, TakesData

LEMMA ChunkInv == Inv /\ Chunk => Inv'
<1> SUFFICES ASSUME Inv, Chunk PROVE Inv'
  OBVIOUS
<1> DEFINE has == r.bitmap \cup {Head(toR).id}
           p == IF Cardinality(has) % PersistEvery = 0 THEN "save" ELSE "idle"
<1>1. /\ Take("CHUNK") /\ bits' = bits /\ final' = final /\ toS' = toS
      /\ r' = [r EXCEPT !.bitmap = has, !.step = p]
  BY DEF Chunk
<1>2. toR # <<>> /\ Head(toR) \in ToR /\ Head(toR).type = "CHUNK"
  BY <1>1, Taking DEF Take, Inv, Typed
<1>3. has \in SUBSET Nat
  BY <1>2 DEF ToR, Inv, Typed, ReceiverRec
<1>4. p \in {"idle", "save"} /\ p \in Steps
  BY DEF Steps
<1> HIDE DEF has, p
<1>5. r' \in ReceiverRec
  BY <1>1, <1>3, <1>4, ReceiverAssigned DEF Inv, Typed
<1>6. r'.step = p
  BY <1>1 DEF Inv, Typed, ReceiverRec
<1>7. toS' \in Seq(ToS)
  BY <1>1 DEF Inv, Typed
<1> QED
  BY <1>1, <1>4, <1>5, <1>6, <1>7, TakesData

LEMMA WriteFailsInv == Inv /\ WriteFails => Inv'
<1> SUFFICES ASSUME Inv, WriteFails PROVE Inv'
  OBVIOUS
<1>1. /\ Take("CHUNK") /\ r.step = "idle" /\ r' = [r EXCEPT !.state = "Failed"]
      /\ toS' = toS /\ bits' = bits /\ final' = final
  BY DEF WriteFails, Take
<1>2. r' \in ReceiverRec /\ r'.step = r.step
  BY <1>1, ReceiverAssigned, Members DEF Inv, Typed, ReceiverRec
<1>3. toS' \in Seq(ToS)
  BY <1>1 DEF Inv, Typed
<1> QED
  BY <1>1, <1>2, <1>3, TakesData

(* The receiver finishes: steps that leave the links and the sender alone. *)
LEMMA LocalStep ==
  ASSUME Inv, UNCHANGED <<src, link, toR, s>>, toS' \in Seq(ToS),
         OkAck(toS') => Verified, r' \in ReceiverRec, Ending' => Ending,
         link = "new" => toS' = toS /\ r'.step = r.step /\ r'.dc = r.dc,
         bits' \in {None, Torn} \cup [total : Nat, has : SUBSET Nat],
         dirty' = dirty, Keeps'
  PROVE  Inv'
<1>1. Typed' /\ Unopened'
  BY DEF Inv, Typed, Unopened
<1>2. Verified' => Verified
  BY DEF Verified
<1>3. DoneLast(toR') /\ (Ended => Ended')
  BY DEF Inv, Ends, Ended
<1> QED
  BY <1>1, <1>2, <1>3, KeepsPlace

LEMMA DoneInv == Inv /\ Done => Inv'
<1> SUFFICES ASSUME Inv, Done PROVE Inv'
  OBVIOUS
<1> DEFINE h == Head(toR).sha
<1>1. /\ link = "up" /\ toR # <<>> /\ toR' = Tail(toR) /\ Head(toR).type = "DONE"
      /\ r' = [r EXCEPT !.step = "saveAll", !.sha = h] /\ r.step = "idle"
      /\ dirty' = {} /\ UNCHANGED <<src, link, s, toS, part, bits, final>>
  BY DEF Done, Take
<1>2. /\ Head(toR) \in ToR /\ toR' \in Seq(ToR) /\ HasDone(toR) /\ NoData(toR')
      /\ DoneLast(toR')
  BY <1>1, TakesR
<1>3. h \in Versions
  BY <1>1, <1>2 DEF ToR
<1> HIDE DEF h
<1>4. r' \in ReceiverRec
  BY <1>1, <1>3, ReceiverAssigned, Members DEF Inv, Typed
<1>5. r'.step = "saveAll" /\ r'.sha = h
  BY <1>1 DEF Inv, Typed, ReceiverRec
<1>6. Ended'
  BY <1>1, <1>2 DEF Inv, Ends, Ended
<1>7. Typed' /\ Unopened'
  BY <1>1, <1>2, <1>4 DEF Inv, Typed, Unopened
<1>8. Ends'
  BY <1>1, <1>2, <1>6 DEF Ends
<1>9. Hashed' => Hashed
  BY <1>1, <1>5 DEF Hashed
<1>10. Keeps'
  BY <1>1, <1>3, <1>5, <1>9 DEF Inv, Keeps, Somewhere
<1> QED
  BY <1>7, <1>8, <1>10 DEF Inv

LEMMA SaveOpenInv == Inv /\ SaveOpen => Inv'
<1> SUFFICES ASSUME Inv, SaveOpen PROVE Inv'
  OBVIOUS
<1> DEFINE p == IF r.step = "save" THEN "write" ELSE "writeAll"
<1>1. /\ r.step \in {"save", "saveAll"} /\ bits' = Torn /\ r' = [r EXCEPT !.step = p]
      /\ UNCHANGED <<src, link, toR, toS, s, part, dirty, final>>
  BY DEF SaveOpen, wire
<1>2. p \in Steps
  BY DEF Steps
<1>3. r' \in ReceiverRec
  BY <1>1, <1>2, ReceiverAssigned DEF Inv, Typed
<1>4. r'.step = p /\ r'.sha = r.sha
  BY <1>1 DEF Inv, Typed, ReceiverRec
<1>5. link # "new" /\ toS' \in Seq(ToS) /\ (OkAck(toS') => Verified)
  BY <1>1 DEF Inv, Typed, Unopened, Verified
<1>6. (Ending' => Ending) /\ (Hashed' => Hashed)
  BY <1>1, <1>4 DEF Ending, Hashed
<1>7. Keeps'
  BY <1>1, <1>4, <1>6 DEF Inv, Keeps, Somewhere
<1> QED
  BY <1>1, <1>3, <1>5, <1>6, <1>7, LocalStep

LEMMA SaveWriteInv == Inv /\ SaveWrite => Inv'
<1> SUFFICES ASSUME Inv, SaveWrite PROVE Inv'
  OBVIOUS
<1> DEFINE p == IF r.step = "write" THEN "idle" ELSE "verify"
<1>1. /\ r.step \in {"write", "writeAll"} /\ r' = [r EXCEPT !.step = p]
      /\ bits' = [total |-> r.total, has |-> r.bitmap]
      /\ UNCHANGED <<src, link, toR, toS, s, part, dirty, final>>
  BY DEF SaveWrite, wire
<1>2. p \in Steps
  BY DEF Steps
<1>3. r' \in ReceiverRec
  BY <1>1, <1>2, ReceiverAssigned DEF Inv, Typed
<1>4. r'.step = p /\ r'.sha = r.sha
  BY <1>1 DEF Inv, Typed, ReceiverRec
<1>5. link # "new" /\ toS' \in Seq(ToS) /\ (OkAck(toS') => Verified)
  BY <1>1 DEF Inv, Typed, Unopened, Verified
<1>6. (Ending' => Ending) /\ (Hashed' => Hashed)
  BY <1>1, <1>4 DEF Ending, Hashed
<1>7. Keeps'
  BY <1>1, <1>4, <1>6 DEF Inv, Keeps, Somewhere
<1>8. bits' \in [total : Nat, has : SUBSET Nat]
  BY <1>1 DEF Inv, Typed, ReceiverRec
<1> QED
  BY <1>1, <1>3, <1>5, <1>6, <1>7, <1>8, LocalStep

(* What is acknowledged was hashed whole. *)
LEMMA VerifyInv == Inv /\ Verify => Inv'
<1> SUFFICES ASSUME Inv, Verify PROVE Inv'
  OBVIOUS
<1> DEFINE ok == part = Content(r.sha)
           e == [type |-> "ACK", ok |-> ok]
           p == IF ok THEN "rename" ELSE "idle"
           x == IF ok THEN r.state ELSE "Failed"
<1>1. /\ r.step = "verify" /\ toS' = Append(toS, e)
      /\ r' = [r EXCEPT !.step = p, !.state = x]
      /\ UNCHANGED <<src, link, toR, s, part, dirty, bits, final>>
  BY DEF Verify, disk
<1>2. p \in Steps /\ x \in PeerStates /\ (p = "rename" => ok) /\ p \in {"rename", "idle"}
  BY Members DEF Inv, Typed, ReceiverRec
<1>3. ok \in BOOLEAN
  OBVIOUS
<1>4. r.sha \in Versions
  BY <1>1 DEF Inv, Keeps
<1>5. ok => part # None /\ Whole(part)
  BY <1>4, WholeFile
<1> HIDE DEF ok, p, x
<1>6. e \in ToS /\ (IsOk(e) => ok)
  BY <1>3 DEF ToS, IsOk
<1>7. toS' \in Seq(ToS) /\ (OkAck(toS') => OkAck(toS) \/ ok)
  BY <1>1, <1>6, Appending DEF Inv, Typed
<1>8. r' \in ReceiverRec
  BY <1>1, <1>2, ReceiverAssigned DEF Inv, Typed
<1>9. r'.step = p
  BY <1>1 DEF Inv, Typed, ReceiverRec
<1>10. link # "new" /\ Verified /\ Ending
  BY <1>1 DEF Inv, Unopened, Verified, Ending
<1>11. Hashed' => Hashed \/ ok
  BY <1>1, <1>2, <1>7, <1>9 DEF Hashed
<1>12. Keeps'
  BY <1>1, <1>2, <1>5, <1>9, <1>11 DEF Inv, Keeps, Somewhere
<1> QED
  BY <1>1, <1>7, <1>8, <1>10, <1>12, LocalStep DEF Inv, Typed

(* The whole file gets its name, or stays where it was. *)
LEMMA RenameInv == Inv /\ Rename => Inv'
<1> SUFFICES ASSUME Inv, Rename PROVE Inv'
  OBVIOUS
<1>1. /\ r.step = "rename" /\ r' = [r EXCEPT !.step = "remove"]
      /\ (final' = part /\ part' = None) \/ UNCHANGED <<final, part>>
      /\ UNCHANGED <<src, link, toR, toS, s, dirty, bits>>
  BY DEF Rename, wire
<1>2. r' \in ReceiverRec
  BY <1>1, ReceiverAssigned, Members DEF Inv, Typed
<1>3. r'.step = "remove"
  BY <1>1 DEF Inv, Typed, ReceiverRec
<1>4. link # "new" /\ Verified /\ Ending /\ toS' \in Seq(ToS)
  BY <1>1 DEF Inv, Unopened, Verified, Ending, Typed
<1>5. Keeps'
  BY <1>1, <1>3 DEF Inv, Keeps, Somewhere, Hashed, Whole
<1> QED
  BY <1>1, <1>2, <1>4, <1>5, LocalStep DEF Inv, Typed

LEMMA RemoveInv == Inv /\ Remove => Inv'
<1> SUFFICES ASSUME Inv, Remove PROVE Inv'
  OBVIOUS
<1>1. /\ r.step = "remove" /\ r' = [r EXCEPT !.step = "idle", !.state = "Done"]
      /\ bits' = None /\ UNCHANGED <<src, link, toR, toS, s, part, dirty, final>>
  BY DEF Remove, wire
<1>2. r' \in ReceiverRec
  BY <1>1, ReceiverAssigned, Members DEF Inv, Typed
<1>3. r'.step = "idle"
  BY <1>1 DEF Inv, Typed, ReceiverRec
<1>4. link # "new" /\ Verified /\ Ending /\ toS' \in Seq(ToS)
  BY <1>1 DEF Inv, Unopened, Verified, Ending, Typed
<1>5. Keeps'
  BY <1>1, <1>3 DEF Inv, Keeps, Somewhere, Hashed
<1> QED
  BY <1>1, <1>2, <1>4, <1>5, LocalStep
-------------------------------------------------------------------------------
(* Faults, and what only drops messages: the sender keeps its place and    *)
(* the receiver its step.                                                  *)
LEMMA QuietStep ==
  ASSUME Inv, src' \in Versions, s' \in SenderRec, s'.next = s.next, s'.total = s.total,
         s'.waiting = s.waiting, s'.state \in {s.state, "Failed"},
         r' \in ReceiverRec, r'.step = r.step, r'.sha = r.sha,
         toR' \in Seq(ToR), toS' \in Seq(ToS), DoneLast(toR'),
         HasDone(toR') => HasDone(toR), NoData(toR) => NoData(toR'),
         OkAck(toS') => OkAck(toS), Unopened',
         UNCHANGED <<part, dirty, bits, final>>
  PROVE  Inv'
<1>1. (Verified' => Verified) /\ (Hashed' => Hashed) /\ (Ended => Ended')
  BY DEF Verified, Hashed, Ending, Ended
<1>2. Typed'
  BY DEF Inv, Typed
<1>3. Keeps'
  BY <1>1 DEF Inv, Keeps, Somewhere
<1> QED
  BY <1>1, <1>2, <1>3, KeepsPlace

LEMMA ResetAtReceiverInv == Inv /\ ResetAtReceiver => Inv'
<1> SUFFICES ASSUME Inv, ResetAtReceiver PROVE Inv'
  OBVIOUS
<1>1. /\ link = "up" /\ toR # <<>> /\ toR' = Tail(toR) /\ r' = [r EXCEPT !.dc = "closed"]
      /\ UNCHANGED <<src, link, s, toS, part, dirty, bits, final>>
  BY DEF ResetAtReceiver, Take, disk
<1>2. r' \in ReceiverRec
  BY <1>1, ReceiverAssigned, Members DEF Inv, Typed
<1>3. r'.step = r.step /\ r'.sha = r.sha
  BY <1>1 DEF Inv, Typed, ReceiverRec
<1>4. Unopened'
  BY <1>1 DEF Unopened
<1> QED
  BY <1>1, <1>2, <1>3, <1>4, TakesR, QuietStep DEF Inv, Typed

LEMMA DropAtReceiverInv == Inv /\ DropAtReceiver => Inv'
<1> SUFFICES ASSUME Inv, DropAtReceiver PROVE Inv'
  OBVIOUS
<1>1. /\ link = "up" /\ toR # <<>> /\ toR' = Tail(toR)
      /\ UNCHANGED <<src, link, s, r, toS, part, dirty, bits, final>>
  BY DEF DropAtReceiver, disk
<1>2. Unopened'
  BY <1>1 DEF Unopened
<1> QED
  BY <1>1, <1>2, TakesR, QuietStep DEF Inv, Typed

(* A reset is neither data nor an end nor an acknowledgement. *)
LEMMA Resets ==
  ASSUME Inv, NEW e, e = [type |-> "RESET"]
  PROVE  /\ Append(toR, e) \in Seq(ToR) /\ DoneLast(Append(toR, e))
         /\ HasDone(Append(toR, e)) => HasDone(toR)
         /\ NoData(toR) => NoData(Append(toR, e))
         /\ Append(toS, e) \in Seq(ToS) /\ (OkAck(Append(toS, e)) => OkAck(toS))
<1>1. e \in ToR /\ e \in ToS /\ ~IsData(e) /\ ~IsOk(e) /\ e.type # "DONE"
  BY DEF ToR, ToS, IsData, IsOk
<1> QED
  BY <1>1, Appending DEF Inv, Typed, Ends

LEMMA CancelSenderInv == Inv /\ CancelSender => Inv'
<1> SUFFICES ASSUME Inv, CancelSender PROVE Inv'
  OBVIOUS
<1> DEFINE e == [type |-> "RESET"]
           d == IF s.dc = "none" THEN s.dc ELSE "null"
<1>1. /\ s' = [s EXCEPT !.state = "Failed", !.dc = d]
      /\ IF s.dc = "open" THEN toR' = Append(toR, e) ELSE toR' = toR
      /\ UNCHANGED <<src, link, toS, r, part, dirty, bits, final>>
  BY DEF CancelSender, Hangup, disk
<1>2. d \in Dc /\ d \in {"none", "null"} /\ "Failed" \in States
  BY DEF Dc, States
<1> HIDE DEF d
<1>3. /\ s' \in SenderRec /\ s'.next = s.next /\ s'.total = s.total
      /\ s'.waiting = s.waiting /\ s'.state = "Failed" /\ s'.dc = d /\ s'.timer = s.timer
  BY <1>1, <1>2 DEF Inv, Typed, SenderRec
<1>4. /\ toR' \in Seq(ToR) /\ DoneLast(toR') /\ (HasDone(toR') => HasDone(toR))
      /\ NoData(toR) => NoData(toR')
  BY <1>1, Resets DEF Inv, Typed, Ends
<1>5. Unopened'
  BY <1>1, <1>2, <1>3 DEF Inv, Unopened
<1> QED
  BY <1>1, <1>3, <1>4, <1>5, QuietStep DEF Inv, Typed

LEMMA CancelReceiverInv == Inv /\ CancelReceiver => Inv'
<1> SUFFICES ASSUME Inv, CancelReceiver PROVE Inv'
  OBVIOUS
<1> DEFINE e == [type |-> "RESET"]
           d == IF r.dc = "none" THEN r.dc ELSE "null"
<1>1. /\ r' = [r EXCEPT !.state = "Failed", !.dc = d]
      /\ IF r.dc = "open" THEN toS' = Append(toS, e) ELSE toS' = toS
      /\ UNCHANGED <<src, link, toR, s, part, dirty, bits, final>>
  BY DEF CancelReceiver, Hangup, disk
<1>2. d \in Dc /\ d \in {"none", "null"} /\ "Failed" \in PeerStates
  BY DEF Dc, PeerStates, States
<1> HIDE DEF d
<1>3. r' \in ReceiverRec
  BY <1>1, <1>2, ReceiverAssigned DEF Inv, Typed
<1>4. r'.step = r.step /\ r'.sha = r.sha /\ r'.dc = d
  BY <1>1 DEF Inv, Typed, ReceiverRec
<1>5. toS' \in Seq(ToS) /\ (OkAck(toS') => OkAck(toS))
  BY <1>1, Resets DEF Inv, Typed
<1>6. link = "new" => r.dc \in {"none", "null"}
  BY DEF Inv, Unopened
<1>7. Unopened'
  BY <1>1, <1>2, <1>4, <1>6 DEF Inv, Unopened
<1> QED
  BY <1>1, <1>3, <1>4, <1>5, <1>7, QuietStep DEF Inv, Typed, Ends

LEMMA CutInv == Inv /\ Cut => Inv'
<1> SUFFICES ASSUME Inv, Cut PROVE Inv'
  OBVIOUS
<1>1. link' = "down" /\ UNCHANGED <<src, toR, toS, s, r, part, dirty, bits, final>>
  BY DEF Cut, disk
<1>2. Unopened'
  BY <1>1 DEF Unopened
<1> QED
  BY <1>1, <1>2, QuietStep DEF Inv, Typed, Ends

LEMMA EditInv == Inv /\ Edit => Inv'
<1> SUFFICES ASSUME Inv, Edit PROVE Inv'
  OBVIOUS
<1>1. src' \in Versions /\ UNCHANGED <<link, toR, toS, s, r, part, dirty, bits, final>>
  BY DEF Edit, wire, disk
<1>2. Unopened'
  BY <1>1 DEF Inv, Unopened
<1> QED
  BY <1>1, <1>2, QuietStep DEF Inv, Typed, Ends

(* What is lost with the process was not flushed; a verified file was.     *)
LEMMA CrashInv == Inv /\ Crash => Inv'
<1> SUFFICES ASSUME Inv, Crash PROVE Inv'
  OBVIOUS
<1>1. /\ link' = "down" /\ dirty' = {} /\ r' = [NewReceiver EXCEPT !.state = "gone"]
      /\ UNCHANGED <<src, toR, toS, s, bits, final>>
  BY DEF Crash
<1>2. r' \in ReceiverRec /\ r'.step = "idle"
  BY <1>1, Members DEF NewReceiver, ReceiverRec
<1>3. Typed' /\ Unopened'
  BY <1>1, <1>2 DEF Inv, Typed, Unopened
<1>4. (Verified' => Verified) /\ (Hashed' => Hashed /\ Verified)
  BY <1>1, <1>2 DEF Verified, Hashed, Ending
<1>5. ASSUME Verified, part # None, Whole(part)
      PROVE  part' = part
  <2>1. dirty = {}
    BY <1>5 DEF Inv, Ends
  <2>2. part' = [c \in DOMAIN part |-> part[c]]
    BY <1>5, <2>1 DEF Crash
  <2>3. PICK v \in Versions : part = Content(v)
    BY <1>5 DEF Whole
  <2>4. part = [c \in DOMAIN part |-> part[c]]
    BY <2>3 DEF Content
  <2> QED
    BY <2>2, <2>4
<1>6. Keeps'
  BY <1>1, <1>2, <1>4, <1>5 DEF Inv, Keeps, Somewhere
<1>7. DoneLast(toR') /\ (Ended => Ended')
  BY <1>1 DEF Inv, Ends, Ended
<1> QED
  BY <1>1, <1>3, <1>4, <1>6, <1>7, KeepsPlace

LEMMA RestartInv == Inv /\ Restart => Inv'
<1> SUFFICES ASSUME Inv, Restart PROVE Inv'
  OBVIOUS
<1>1. /\ s' = NewSender(src) /\ r' = NewReceiver /\ toR' = <<>> /\ toS' = <<>>
      /\ UNCHANGED <<src, part, bits, final>>
  BY DEF Restart
<1>2. /\ s' \in SenderRec /\ s'.next <= s'.total /\ s'.state = "WaitingPeer"
      /\ s'.dc = "none" /\ s'.timer = FALSE
  BY <1>1, VersionsSize DEF Inv, Typed, NewSender, SenderRec, States, Waits, Dc
<1>3. r' \in ReceiverRec /\ r'.step = "idle" /\ r'.dc = "none"
  BY <1>1, Members DEF NewReceiver, ReceiverRec
<1>4. Typed' /\ Unopened'
  BY <1>1, <1>2, <1>3 DEF Inv, Typed, Unopened
<1>5. ~Verified'
  BY <1>1, <1>2, <1>3, EmptyWire DEF Verified, Ending
<1> QED
  BY <1>1, <1>4, <1>5, EmptyWire, StaysUnverified

LEMMA OpenInv == Inv /\ Open => Inv'
<1> SUFFICES ASSUME Inv, Open PROVE Inv'
  OBVIOUS
<1> DEFINE e == [type |-> "META", total |-> s.total]
<1>1. /\ link = "new" /\ link' = "up" /\ r' = [r EXCEPT !.dc = "open"]
      /\ s' = [s EXCEPT !.state = "Transferring", !.dc = "open", !.waiting = "resume"]
      /\ toR' = <<e>> /\ UNCHANGED <<src, toS, part, dirty, bits, final>>
  BY DEF Open, disk
<1>2. toS = <<>> /\ r.step = "idle"
  BY <1>1 DEF Inv, Unopened
<1>3. "Transferring" \in States /\ "open" \in Dc /\ "resume" \in Waits
  BY DEF States, Dc, Waits
<1>4. /\ s' \in SenderRec /\ s'.next = s.next /\ s'.total = s.total
      /\ s'.state = "Transferring"
  BY <1>1, <1>3 DEF Inv, Typed, SenderRec
<1>5. r' \in ReceiverRec /\ r'.step = "idle"
  BY <1>1, <1>2, <1>3 DEF Inv, Typed, ReceiverRec
<1>6. e \in ToR /\ e.type = "META"
  BY DEF Inv, Typed, SenderRec, ToR
<1> HIDE DEF e
<1>7. toR' \in Seq(ToR) /\ ~HasDone(toR') /\ DoneLast(toR')
  BY <1>1, <1>6 DEF HasDone, DoneLast
<1>8. Typed' /\ Unopened'
  BY <1>1, <1>4, <1>5, <1>7 DEF Inv, Typed, Unopened
<1>9. ~Verified'
  BY <1>1, <1>2, <1>4, <1>5, EmptyWire DEF Verified, Ending
<1> QED
  BY <1>1, <1>7, <1>8, <1>9, StaysUnverified

LEMMA StutterInv == Inv /\ UNCHANGED vars => Inv'
BY DEF Inv, vars, wire, disk, Typed, Unopened, Ends, Ended, Verified, Ending, Keeps, Hashed, Somewhere

LEMMA NextInv == Inv /\ [Next]_vars => Inv'
BY TimerInv, DryInv, ResumeInv, AckInv, ResetAtSenderInv, MetaEmptyInv, MetaInv, ChunkInv,
   DoneInv, SaveOpenInv, SaveWriteInv, VerifyInv, RenameInv, RemoveInv, ResetAtReceiverInv,
   DropAtReceiverInv, WriteFailsInv, CancelSenderInv, CancelReceiverInv, CutInv, EditInv,
   CrashInv, RestartInv, OpenInv, StutterInv
DEF Next, Handlers

(* Inv, from the initial states on: sender, receiver, what is in flight    *)
(* and the receiver's disk agree on how far the file got.                  *)
THEOREM Invariance == Spec => []Inv
<1>1. Init => Inv
  BY InitInv
<1>2. Inv /\ [Next]_vars => Inv'
  BY NextInv
<1> QED
  BY <1>1, <1>2, PTL DEF Spec

(* The file's name only ever holds a version of the source, and a sender   *)
(* told Done has a receiver that holds all of one: a mixture that edits    *)
(* and resumes leave in .part is found by the hash and never acknowledged. *)
THEOREM Delivered == Spec => []DeliveredWhole
<1>1. Inv => DeliveredWhole
  BY DEF Inv, Keeps, Hashed, Somewhere, DeliveredWhole
<1> QED
  BY <1>1, Invariance, PTL
-------------------------------------------------------------------------------
(* The two ends: what the sender still says fits what the receiver heard.  *)
Msgs(q)       == {q[i] : i \in 1..Len(q)}
OnlyResets(q) == \A m \in Msgs(q) : m.type = "RESET"
HasResume(q)  == \E m \in Msgs(q) : m.type = "RESUME"
EndLast(q)    == \A i, j \in 1..Len(q) : i < j /\ q[i].type = "DONE" => q[j].type = "RESET"

(* The sender has a turn to come only with a timer, a pause or an answer   *)
(* to wait for, one of the three; after the end of the file it has none.   *)
Quiet   == ~s.timer /\ ~s.paused /\ s.waiting # "resume"
Turns   == ~(s.timer /\ s.paused) /\ (s.timer \/ s.paused => s.waiting = "none")
Closing == Ending \/ r.state = "Done"

InFlight(m) ==
  /\ m.type = "META" => m.total = s.total
  /\ m.type = "CHUNK" => m.id < s.total /\ s.waiting # "resume"
  /\ m.type = "DONE" => Quiet

(* Past the answer of the receiver both know the number of chunks. *)
Met == link = "up" /\ (HasResume(toS) \/ s.waiting # "resume")

Talk ==
  /\ s.total \in {Size[v] : v \in Versions} /\ Turns
  /\ EndLast(toR) /\ \A m \in Msgs(toR) : InFlight(m)
  /\ Closing => Quiet /\ OnlyResets(toR)
  /\ link = "new" => r.state # "Done" /\ ~s.paused
  /\ Met => r.total = s.total /\ r.total > 0

LEMMA Adding ==
  ASSUME NEW S, NEW q \in Seq(S), NEW e \in S
  PROVE  /\ Msgs(Append(q, e)) = Msgs(q) \cup {e}
         /\ EndLast(q) /\ (HasDone(q) => e.type = "RESET") => EndLast(Append(q, e))
<1> DEFINE a == Append(q, e)
<1>1. /\ Len(q) \in Nat /\ Len(a) = Len(q) + 1
      /\ a[Len(q) + 1] = e /\ \A i \in 1..Len(q) : a[i] = q[i]
  OBVIOUS
<1> HIDE DEF a
<1>2. Msgs(a) = Msgs(q) \cup {e}
  BY <1>1 DEF Msgs
<1>3. EndLast(q) /\ (HasDone(q) => e.type = "RESET") => EndLast(a)
  BY <1>1 DEF EndLast, HasDone
<1> QED
  BY <1>2, <1>3 DEF a

LEMMA Dropping ==
  ASSUME NEW S, NEW q \in Seq(S), q # <<>>
  PROVE  /\ Head(q) \in Msgs(q) /\ Msgs(Tail(q)) \subseteq Msgs(q)
         /\ EndLast(q) => EndLast(Tail(q))
         /\ EndLast(q) /\ Head(q).type = "DONE" => OnlyResets(Tail(q))
<1> DEFINE t == Tail(q)
<1>1. /\ Len(q) \in Nat \ {0} /\ Len(t) = Len(q) - 1
      /\ Head(q) = q[1] /\ \A i \in 1..Len(t) : t[i] = q[i + 1]
  BY HeadTailProperties, EmptySeq
<1> HIDE DEF t
<1>2. Head(q) \in Msgs(q) /\ Msgs(t) \subseteq Msgs(q)
  BY <1>1 DEF Msgs
<1>3. EndLast(q) => EndLast(t)
  BY <1>1 DEF EndLast
<1>4. EndLast(q) /\ Head(q).type = "DONE" => OnlyResets(t)
  BY <1>1 DEF EndLast, OnlyResets, Msgs
<1> QED
  BY <1>2, <1>3, <1>4 DEF t

LEMMA Silence == Msgs(<<>>) = {} /\ EndLast(<<>>)
BY DEF Msgs, EndLast

(* An end of file in flight means that no turn is left. *)
LEMMA DoneIsQuiet == Talk /\ HasDone(toR) => Quiet
BY DEF Talk, HasDone, Msgs, InFlight

(* A turn of the sender leaves it one turn or, at the end, none. *)
LEMMA Speaks ==
  ASSUME Inv, Talk, ~Quiet, NEW t \in SenderRec, t.next <= t.total, t.total = s.total,
         ~t.timer, ~t.paused, t.waiting = "none", NEW b, SendNext(t, b),
         link # "new", link = "up" => r.total = s.total /\ r.total > 0, UNCHANGED <<link, r>>
  PROVE  Talk'
<1> DEFINE c == NextChunk(t)
<1>1. c \in t.next..t.total /\ t.next \in Nat /\ t.total \in Nat
  BY NextChunkRange DEF SenderRec
<1> HIDE DEF c
<1>2. ~HasDone(toR) /\ ~Closing /\ ~Closing'
  BY DoneIsQuiet DEF Talk, Closing, Ending
<1>3. /\ EndLast(toR) /\ toR \in Seq(ToR) /\ src \in Versions
      /\ \A m \in Msgs(toR) : InFlight(m) /\ m.type # "DONE"
  BY <1>2, Zenon DEF Talk, Inv, Typed, HasDone, Msgs
<1>4. CASE SendDone(t, b)
  <2> DEFINE e == [type |-> "DONE", sha |-> src]
  <2>1. /\ s' = [t EXCEPT !.next = t.total, !.waiting = "ack"]
        /\ toR' = Append(toR, e) \/ toR' = toR
    BY <1>4 DEF SendDone
  <2>2. s'.total = s.total /\ ~s'.timer /\ ~s'.paused /\ s'.waiting = "ack"
    BY <2>1 DEF SenderRec
  <2>3. e \in ToR /\ e.type = "DONE"
    BY <1>3 DEF ToR
  <2> HIDE DEF e
  <2>4. EndLast(toR') /\ Msgs(toR') \subseteq Msgs(toR) \cup {e}
    <3>1. CASE toR' = toR
      BY <1>3, <3>1
    <3>2. CASE toR' = Append(toR, e)
      BY <1>2, <1>3, <2>3, <3>2, Adding
    <3> QED
      BY <2>1, <3>1, <3>2
  <2>5. \A m \in Msgs(toR') : InFlight(m)'
    BY <1>3, <2>2, <2>3, <2>4 DEF InFlight, Quiet
  <2> QED
    BY <1>2, <2>2, <2>4, <2>5 DEF Talk, Turns, Met
<1>5. CASE SendChunk(t, b)
  <2> DEFINE e == [type |-> "CHUNK", id |-> c, data |-> src]
  <2>1. /\ s' = [t EXCEPT !.next = c + 1, !.timer = TRUE] /\ c < t.total
        /\ toR' = Append(toR, e)
    BY <1>5 DEF SendChunk, c
  <2>2. s'.total = s.total /\ ~s'.paused /\ s'.waiting = "none"
    BY <2>1 DEF SenderRec
  <2>3. e \in ToR /\ e.type = "CHUNK" /\ e.id < s.total
    BY <1>1, <1>3, <2>1 DEF ToR
  <2> HIDE DEF e
  <2>4. EndLast(toR') /\ Msgs(toR') = Msgs(toR) \cup {e}
    BY <1>2, <1>3, <2>1, <2>3, Adding
  <2>5. \A m \in Msgs(toR') : InFlight(m)'
    BY <1>3, <2>2, <2>3, <2>4 DEF InFlight
  <2> QED
    BY <1>2, <2>2, <2>4, <2>5 DEF Talk, Turns, Met
<1>6. CASE Pause(t, b) \/ ChunkFails(t, b)
  <2>1. /\ toR' = toR
        /\ s' = [t EXCEPT !.next = c, !.paused = TRUE] \/ s' = [t EXCEPT !.next = c, !.state = "Failed"]
    BY <1>6 DEF Pause, ChunkFails, c
  <2>2. s'.total = s.total /\ ~s'.timer /\ s'.waiting = "none"
    <3>1. CASE s' = [t EXCEPT !.next = c, !.paused = TRUE]
      BY <3>1 DEF SenderRec
    <3>2. CASE s' = [t EXCEPT !.next = c, !.state = "Failed"]
      BY <3>2 DEF SenderRec
    <3> QED
      BY <2>1, <3>1, <3>2
  <2>3. \A m \in Msgs(toR') : InFlight(m)'
    BY <1>3, <2>1, <2>2 DEF InFlight
  <2> QED
    BY <1>2, <1>3, <2>1, <2>2, <2>3 DEF Talk, Turns, Met
<1> QED
  BY <1>4, <1>5, <1>6 DEF SendNext

LEMMA InitTalk == Init => Talk
<1> SUFFICES ASSUME Init PROVE Talk
  OBVIOUS
<1>1. 1 \in Versions
  BY SizeAssumption DEF Versions
<1> QED
  BY <1>1, Silence DEF Init, Talk, NewSender, NewReceiver, Turns, Closing, Ending, Met

LEMMA TimerTalk == Inv /\ Talk /\ Timer => Talk'
<1> SUFFICES ASSUME Inv, Talk, Timer PROVE Talk'
  OBVIOUS
<1> DEFINE t == [s EXCEPT !.timer = FALSE]
<1>1. /\ t \in SenderRec /\ t.next = s.next /\ t.total = s.total /\ ~t.timer
      /\ t.paused = s.paused /\ t.waiting = s.waiting
  BY DEF Inv, Typed, SenderRec
<1>2. s.timer /\ SendNext(t, buffered) /\ UNCHANGED <<link, r>>
  BY DEF Timer
<1> HIDE DEF t
<1>3. ~s.paused /\ s.waiting = "none" /\ ~Quiet
  BY <1>2 DEF Talk, Turns, Quiet
<1>4. link # "new" /\ s.next <= s.total
  BY <1>2 DEF Inv, Unopened, Typed
<1>5. link = "up" => r.total = s.total /\ r.total > 0
  BY <1>3 DEF Talk, Met
<1> QED
  BY <1>1, <1>2, <1>3, <1>4, <1>5, Speaks

LEMMA DryTalk == Inv /\ Talk /\ Dry => Talk'
<1> SUFFICES ASSUME Inv, Talk, Dry PROVE Talk'
  OBVIOUS
<1>1. link = "up" /\ UNCHANGED <<link, toS, r>>
  BY DEF Dry
<1>2. CASE s.paused
  <2> DEFINE t == [s EXCEPT !.paused = FALSE]
  <2>1. /\ t \in SenderRec /\ t.next = s.next /\ t.total = s.total /\ ~t.paused
        /\ t.timer = s.timer /\ t.waiting = s.waiting
    BY DEF Inv, Typed, SenderRec
  <2>2. SendNext(t, 0)
    BY <1>2 DEF Dry
  <2> HIDE DEF t
  <2>3. ~s.timer /\ s.waiting = "none" /\ ~Quiet
    BY <1>2 DEF Talk, Turns, Quiet
  <2>4. s.next <= s.total
    BY DEF Inv, Typed
  <2>5. link = "up" => r.total = s.total /\ r.total > 0
    BY <2>3 DEF Talk, Met
  <2> QED
    BY <1>1, <2>1, <2>2, <2>3, <2>4, <2>5, Speaks
<1>3. CASE ~s.paused
  <2>1. UNCHANGED <<link, toS, toR, r, s>>
    BY <1>1, <1>3 DEF Dry
  <2> QED
    BY <2>1 DEF Talk, Turns, Closing, Ending, Quiet, InFlight, Met
<1> QED
  BY <1>2, <1>3

(* A message leaves the queue to the sender. *)
LEMMA HearsLess ==
  ASSUME Inv, toS # <<>>, toS' = Tail(toS)
  PROVE  Head(toS) \in Msgs(toS) /\ (HasResume(toS') => HasResume(toS))
BY Dropping DEF Inv, Typed, HasResume

(* What leaves the sender's turns and the receiver's answer as they are.   *)
LEMMA SameTurns ==
  ASSUME Talk, s'.total = s.total, s'.timer = s.timer, s'.paused = s.paused,
         s'.waiting = s.waiting, r'.total = r.total, Closing' => Closing,
         EndLast(toR'), \A m \in Msgs(toR') : m \in Msgs(toR) \/ m.type = "RESET",
         HasResume(toS') => HasResume(toS), link' \in {link, "down"},
         link = "new" => r'.state # "Done"
  PROVE  Talk'
<1>1. Quiet' = Quiet /\ (Turns => Turns') /\ (Met' => Met)
  BY DEF Quiet, Turns, Met
<1>2. \A m \in Msgs(toR') : InFlight(m)'
  BY <1>1 DEF Talk, InFlight
<1>3. OnlyResets(toR) => OnlyResets(toR')
  BY DEF OnlyResets
<1> QED
  BY <1>1, <1>2, <1>3 DEF Talk

LEMMA ResumeTalk == Inv /\ Talk /\ Resume => Talk'
<1> SUFFICES ASSUME Inv, Talk, Resume PROVE Talk'
  OBVIOUS
<1> DEFINE m == Head(toS)
<1>1. /\ link = "up" /\ toS # <<>> /\ m.type = "RESUME" /\ toS' = Tail(toS)
      /\ UNCHANGED <<link, r>>
  BY DEF Resume
<1>2. HasResume(toS) /\ (HasResume(toS') => HasResume(toS))
  BY <1>1, HearsLess DEF HasResume
<1>3. CASE s.dc = "open" /\ s.waiting = "resume"
  <2> DEFINE t == [s EXCEPT !.resume = m.has, !.waiting = "none"]
  <2>1. SendNext(t, buffered)
    BY <1>3 DEF Resume
  <2>2. m.has \in SUBSET Nat /\ "none" \in Waits
    BY <1>1, TakesS DEF ToS, Waits
  <2>3. /\ t \in SenderRec /\ t.next = s.next /\ t.total = s.total /\ t.waiting = "none"
        /\ t.timer = s.timer /\ t.paused = s.paused
    BY <2>2 DEF Inv, Typed, SenderRec
  <2> HIDE DEF t
  <2>4. ~Quiet /\ ~s.timer /\ ~s.paused /\ s.next <= s.total
    BY <1>3 DEF Talk, Turns, Quiet, Inv, Typed
  <2>5. r.total = s.total /\ r.total > 0
    BY <1>1, <1>2 DEF Talk, Met
  <2> QED
    BY <1>1, <2>1, <2>3, <2>4, <2>5, Speaks
<1>4. CASE ~(s.dc = "open" /\ s.waiting = "resume")
  <2>1. UNCHANGED <<link, r, s, toR>>
    BY <1>1, <1>4 DEF Resume
  <2>2. Closing' => Closing
    BY <2>1 DEF Closing, Ending
  <2> QED
    BY <1>2, <2>1, <2>2, SameTurns DEF Talk
<1> QED
  BY <1>3, <1>4

LEMMA AckTalk == Inv /\ Talk /\ Ack => Talk'
<1> SUFFICES ASSUME Inv, Talk, Ack PROVE Talk'
  OBVIOUS
<1> DEFINE x == IF Head(toS).ok THEN "Done" ELSE "Failed"
<1>1. link = "up" /\ toS # <<>> /\ toS' = Tail(toS) /\ UNCHANGED <<link, toR, r>>
  BY DEF Ack
<1>2. HasResume(toS') => HasResume(toS)
  BY <1>1, HearsLess
<1>3. Closing' <=> Closing
  BY <1>1 DEF Closing, Ending
<1>4. CASE s' = s
  BY <1>1, <1>2, <1>3, <1>4, SameTurns DEF Talk
<1>5. CASE s.waiting = "ack" /\ s' = [s EXCEPT !.waiting = "none", !.state = x]
  <2> HIDE DEF x
  <2>1. /\ s'.total = s.total /\ s'.timer = s.timer /\ s'.paused = s.paused
        /\ s'.waiting = "none"
    BY <1>5 DEF Inv, Typed, SenderRec
  <2>2. ~s.timer /\ ~s.paused
    BY <1>5 DEF Talk, Turns
  <2>3. Quiet' /\ Turns' /\ (Met' => Met)
    BY <1>1, <1>2, <1>5, <2>1, <2>2 DEF Quiet, Turns, Met
  <2>4. \A m \in Msgs(toR') : InFlight(m)'
    BY <1>1, <2>1, <2>3 DEF Talk, InFlight
  <2> QED
    BY <1>1, <1>3, <2>1, <2>3, <2>4 DEF Talk
<1>6. s' = s \/ (s.waiting = "ack" /\ s' = [s EXCEPT !.waiting = "none", !.state = x])
  BY DEF Ack
<1> QED
  BY <1>4, <1>5, <1>6

LEMMA ResetAtSenderTalk == Inv /\ Talk /\ ResetAtSender => Talk'
<1> SUFFICES ASSUME Inv, Talk, ResetAtSender PROVE Talk'
  OBVIOUS
<1>1. /\ link = "up" /\ toS # <<>> /\ toS' = Tail(toS) /\ UNCHANGED <<link, toR, r>>
      /\ s' = [s EXCEPT !.dc = "closed"] \/ s' = s
  BY DEF ResetAtSender
<1>2. /\ s'.total = s.total /\ s'.timer = s.timer /\ s'.paused = s.paused
      /\ s'.waiting = s.waiting
  BY <1>1 DEF Inv, Typed, SenderRec
<1>3. (HasResume(toS') => HasResume(toS)) /\ (Closing' => Closing)
  BY <1>1, HearsLess DEF Closing, Ending
<1> QED
  BY <1>1, <1>2, <1>3, SameTurns DEF Talk

(* A message leaves the queue to the receiver. *)
LEMMA ReceiverTakes ==
  ASSUME Inv, Talk, toR # <<>>, toR' = Tail(toR)
  PROVE  /\ Head(toR) \in ToR /\ InFlight(Head(toR))
         /\ EndLast(toR') /\ \A m \in Msgs(toR') : m \in Msgs(toR)
         /\ Head(toR).type = "DONE" => OnlyResets(toR')
         /\ Closing => Head(toR).type = "RESET"
BY Dropping, TakesR DEF Inv, Typed, Talk, OnlyResets

LEMMA ReceiverTalk ==
  ASSUME Inv, Talk, NEW type \in {"META", "CHUNK"}, Take(type),
         r'.step \in {"idle", "save"}, r'.state # "Done", r'.total \in {r.total, s.total},
         (r'.total = s.total /\ r'.total > 0) \/ (r'.total = r.total /\ toS' = toS)
  PROVE  Talk'
<1>1. link = "up" /\ toR # <<>> /\ toR' = Tail(toR) /\ UNCHANGED <<link, s>>
  BY DEF Take
<1>2. EndLast(toR') /\ \A m \in Msgs(toR') : InFlight(m)'
  BY <1>1, ReceiverTakes DEF Talk, InFlight, Quiet
<1>3. ~Closing' /\ Turns' /\ s'.total = s.total /\ link' = "up"
  BY <1>1 DEF Closing, Ending, Talk, Turns
<1>4. Met' => r'.total = s'.total /\ r'.total > 0
  BY <1>1 DEF Talk, Met
<1> QED
  BY <1>2, <1>3, <1>4 DEF Talk

(* What the receiver takes with data: it knows the number of chunks. *)
LEMMA ChunkFits ==
  ASSUME Inv, Talk, Take("CHUNK")
  PROVE  /\ r.step = "idle" /\ r.state # "Done" /\ r.total = s.total /\ r.total > 0
         /\ Head(toR).id \in 0..r.total - 1 /\ Head(toR).data \in Versions
<1>1. /\ link = "up" /\ toR # <<>> /\ toR' = Tail(toR) /\ r.step = "idle"
      /\ Head(toR).type = "CHUNK"
  BY DEF Take
<1>2. Head(toR) \in ToR /\ InFlight(Head(toR)) /\ ~Closing
  BY <1>1, ReceiverTakes
<1>3. Head(toR).id \in Nat /\ Head(toR).data \in Versions
  BY <1>1, <1>2 DEF ToR
<1>4. r.total = s.total /\ r.total > 0 /\ Head(toR).id < s.total /\ r.total \in Nat
  BY <1>1, <1>2 DEF InFlight, Talk, Met, Inv, Typed, ReceiverRec
<1> QED
  BY <1>1, <1>2, <1>3, <1>4 DEF Closing

LEMMA MetaFits ==
  ASSUME Inv, Talk, Take("META")
  PROVE  /\ r.step = "idle" /\ r.state # "Done" /\ Head(toR).total = s.total
         /\ s.total \in Nat
<1>1. /\ link = "up" /\ toR # <<>> /\ toR' = Tail(toR) /\ r.step = "idle"
      /\ Head(toR).type = "META"
  BY DEF Take
<1> QED
  BY <1>1, ReceiverTakes DEF Closing, InFlight, Inv, Typed, SenderRec

LEMMA MetaEmptyTalk == Inv /\ Talk /\ MetaEmpty => Talk'
<1> SUFFICES ASSUME Inv, Talk, MetaEmpty PROVE Talk'
  OBVIOUS
<1>1. Take("META") /\ r.step = "idle" /\ r' = [r EXCEPT !.state = "Failed"] /\ toS' = toS
  BY DEF MetaEmpty, Take
<1>2. r'.step = "idle" /\ r'.state = "Failed" /\ r'.total = r.total
  BY <1>1 DEF Inv, Typed, ReceiverRec
<1> QED
  BY <1>1, <1>2, ReceiverTalk

LEMMA MetaTalk == Inv /\ Talk /\ Meta => Talk'
<1> SUFFICES ASSUME Inv, Talk, Meta PROVE Talk'
  OBVIOUS
<1> DEFINE n == Head(toR).total
           has == IF Loadable(n) THEN bits.has ELSE {}
<1>1. /\ Take("META") /\ n > 0
      /\ r' = [r EXCEPT !.total = n, !.bitmap = has, !.state = "Transferring", !.step = "save"]
  BY DEF Meta
<1> HIDE DEF has
<1>2. r'.step = "save" /\ r'.state = "Transferring" /\ r'.total = n
  BY <1>1 DEF Inv, Typed, ReceiverRec
<1> QED
  BY <1>1, <1>2, MetaFits, ReceiverTalk

LEMMA ChunkTalk == Inv /\ Talk /\ Chunk => Talk'
<1> SUFFICES ASSUME Inv, Talk, Chunk PROVE Talk'
  OBVIOUS
<1> DEFINE has == r.bitmap \cup {Head(toR).id}
           p == IF Cardinality(has) % PersistEvery = 0 THEN "save" ELSE "idle"
<1>1. Take("CHUNK") /\ toS' = toS /\ r' = [r EXCEPT !.bitmap = has, !.step = p]
  BY DEF Chunk
<1>2. p \in {"idle", "save"}
  OBVIOUS
<1> HIDE DEF has, p
<1>3. r'.step = p /\ r'.state = r.state /\ r'.total = r.total
  BY <1>1 DEF Inv, Typed, ReceiverRec
<1> QED
  BY <1>1, <1>2, <1>3, ChunkFits, ReceiverTalk

LEMMA WriteFailsTalk == Inv /\ Talk /\ WriteFails => Talk'
<1> SUFFICES ASSUME Inv, Talk, WriteFails PROVE Talk'
  OBVIOUS
<1>1. Take("CHUNK") /\ r.step = "idle" /\ r' = [r EXCEPT !.state = "Failed"] /\ toS' = toS
  BY DEF WriteFails, Take
<1>2. r'.step = "idle" /\ r'.state = "Failed" /\ r'.total = r.total
  BY <1>1 DEF Inv, Typed, ReceiverRec
<1> QED
  BY <1>1, <1>2, ReceiverTalk

LEMMA DoneTalk == Inv /\ Talk /\ Done => Talk'
<1> SUFFICES ASSUME Inv, Talk, Done PROVE Talk'
  OBVIOUS
<1> DEFINE h == Head(toR).sha
<1>1. /\ link = "up" /\ toR # <<>> /\ toR' = Tail(toR) /\ Head(toR).type = "DONE"
      /\ r' = [r EXCEPT !.step = "saveAll", !.sha = h]
      /\ UNCHANGED <<link, s, toS>>
  BY DEF Done, Take
<1> HIDE DEF h
<1>2. r'.total = r.total
  BY <1>1 DEF Inv, Typed, ReceiverRec
<1>3. Quiet /\ OnlyResets(toR') /\ EndLast(toR') /\ \A m \in Msgs(toR') : m \in Msgs(toR)
  BY <1>1, ReceiverTakes DEF InFlight
<1>4. Quiet' /\ Turns' /\ (Met' => Met)
  BY <1>1, <1>3 DEF Quiet, Talk, Turns, Met
<1>5. \A m \in Msgs(toR') : InFlight(m)'
  BY <1>1, <1>3, <1>4 DEF Talk, InFlight
<1> QED
  BY <1>1, <1>2, <1>3, <1>4, <1>5 DEF Talk

(* The receiver finishes: nobody hears of it but by an acknowledgement. *)
LEMMA FinishTalk ==
  ASSUME Inv, Talk, UNCHANGED <<link, toR, s>>, r.step # "idle", r'.total = r.total,
         Closing' => Closing, HasResume(toS') => HasResume(toS)
  PROVE  Talk'
<1>1. link # "new"
  BY DEF Inv, Unopened
<1> QED
  BY <1>1, SameTurns DEF Talk

LEMMA SaveOpenTalk == Inv /\ Talk /\ SaveOpen => Talk'
<1> SUFFICES ASSUME Inv, Talk, SaveOpen PROVE Talk'
  OBVIOUS
<1> DEFINE p == IF r.step = "save" THEN "write" ELSE "writeAll"
<1>1. /\ r.step \in {"save", "saveAll"} /\ r' = [r EXCEPT !.step = p]
      /\ UNCHANGED <<link, toR, toS, s>>
  BY DEF SaveOpen, wire
<1>2. r'.step = p /\ r'.state = r.state /\ r'.total = r.total
  BY <1>1 DEF Inv, Typed, ReceiverRec
<1>3. Closing' => Closing
  BY <1>1, <1>2 DEF Closing, Ending
<1> QED
  BY <1>1, <1>2, <1>3, FinishTalk

LEMMA SaveWriteTalk == Inv /\ Talk /\ SaveWrite => Talk'
<1> SUFFICES ASSUME Inv, Talk, SaveWrite PROVE Talk'
  OBVIOUS
<1> DEFINE p == IF r.step = "write" THEN "idle" ELSE "verify"
<1>1. /\ r.step \in {"write", "writeAll"} /\ r' = [r EXCEPT !.step = p]
      /\ UNCHANGED <<link, toR, toS, s>>
  BY DEF SaveWrite, wire
<1>2. r'.step = p /\ r'.state = r.state /\ r'.total = r.total
  BY <1>1 DEF Inv, Typed, ReceiverRec
<1>3. Closing' => Closing
  BY <1>1, <1>2 DEF Closing, Ending
<1> QED
  BY <1>1, <1>2, <1>3, FinishTalk

LEMMA VerifyTalk == Inv /\ Talk /\ Verify => Talk'
<1> SUFFICES ASSUME Inv, Talk, Verify PROVE Talk'
  OBVIOUS
<1> DEFINE ok == part = Content(r.sha)
           e == [type |-> "ACK", ok |-> ok]
           p == IF ok THEN "rename" ELSE "idle"
           x == IF ok THEN r.state ELSE "Failed"
<1>1. /\ r.step = "verify" /\ toS' = Append(toS, e)
      /\ r' = [r EXCEPT !.step = p, !.state = x] /\ UNCHANGED <<link, toR, s>>
  BY DEF Verify
<1>2. ok \in BOOLEAN
  OBVIOUS
<1> HIDE DEF ok, p, x
<1>3. r'.total = r.total
  BY <1>1 DEF Inv, Typed, ReceiverRec
<1>4. e \in ToS /\ e.type = "ACK"
  BY <1>2 DEF ToS
<1> HIDE DEF e
<1>5. Msgs(toS') = Msgs(toS) \cup {e}
  BY <1>1, <1>4, Adding DEF Inv, Typed
<1>6. HasResume(toS') => HasResume(toS)
  BY <1>4, <1>5 DEF HasResume
<1>7. Closing
  BY <1>1 DEF Closing, Ending
<1> QED
  BY <1>1, <1>3, <1>6, <1>7, FinishTalk

LEMMA RenameTalk == Inv /\ Talk /\ Rename => Talk'
<1> SUFFICES ASSUME Inv, Talk, Rename PROVE Talk'
  OBVIOUS
<1>1. /\ r.step = "rename" /\ r' = [r EXCEPT !.step = "remove"]
      /\ UNCHANGED <<link, toR, toS, s>>
  BY DEF Rename, wire
<1>2. r'.total = r.total /\ Closing
  BY <1>1 DEF Inv, Typed, ReceiverRec, Closing, Ending
<1> QED
  BY <1>1, <1>2, FinishTalk

LEMMA RemoveTalk == Inv /\ Talk /\ Remove => Talk'
<1> SUFFICES ASSUME Inv, Talk, Remove PROVE Talk'
  OBVIOUS
<1>1. /\ r.step = "remove" /\ r' = [r EXCEPT !.step = "idle", !.state = "Done"]
      /\ UNCHANGED <<link, toR, toS, s>>
  BY DEF Remove, wire
<1>2. r'.total = r.total /\ Closing
  BY <1>1 DEF Inv, Typed, ReceiverRec, Closing, Ending
<1> QED
  BY <1>1, <1>2, FinishTalk

LEMMA ResetAtReceiverTalk == Inv /\ Talk /\ ResetAtReceiver => Talk'
<1> SUFFICES ASSUME Inv, Talk, ResetAtReceiver PROVE Talk'
  OBVIOUS
<1>1. /\ link = "up" /\ toR # <<>> /\ toR' = Tail(toR) /\ r' = [r EXCEPT !.dc = "closed"]
      /\ UNCHANGED <<link, s, toS>>
  BY DEF ResetAtReceiver, Take
<1>2. r'.total = r.total /\ r'.step = r.step /\ r'.state = r.state
  BY <1>1 DEF Inv, Typed, ReceiverRec
<1>3. Closing' => Closing
  BY <1>2 DEF Closing, Ending
<1> QED
  BY <1>1, <1>2, <1>3, ReceiverTakes, SameTurns

LEMMA DropAtReceiverTalk == Inv /\ Talk /\ DropAtReceiver => Talk'
<1> SUFFICES ASSUME Inv, Talk, DropAtReceiver PROVE Talk'
  OBVIOUS
<1>1. link = "up" /\ toR # <<>> /\ toR' = Tail(toR) /\ UNCHANGED <<link, s, r, toS>>
  BY DEF DropAtReceiver
<1>2. Closing' => Closing
  BY <1>1 DEF Closing, Ending
<1> QED
  BY <1>1, <1>2, ReceiverTakes, SameTurns

(* A reset asks for nothing. *)
LEMMA ResetTalks ==
  ASSUME Inv, Talk, NEW e, e = [type |-> "RESET"]
  PROVE  /\ EndLast(Append(toR, e))
         /\ \A m \in Msgs(Append(toR, e)) : m \in Msgs(toR) \/ m.type = "RESET"
         /\ HasResume(Append(toS, e)) => HasResume(toS)
<1>1. e \in ToR /\ e \in ToS /\ e.type = "RESET"
  BY DEF ToR, ToS
<1>2. toR \in Seq(ToR) /\ toS \in Seq(ToS) /\ EndLast(toR)
  BY DEF Inv, Typed, Talk
<1>3. Msgs(Append(toR, e)) = Msgs(toR) \cup {e} /\ EndLast(Append(toR, e))
  BY <1>1, <1>2, Adding
<1>4. Msgs(Append(toS, e)) = Msgs(toS) \cup {e}
  BY <1>1, <1>2, Adding
<1> QED
  BY <1>1, <1>3, <1>4 DEF HasResume

LEMMA CancelSenderTalk == Inv /\ Talk /\ CancelSender => Talk'
<1> SUFFICES ASSUME Inv, Talk, CancelSender PROVE Talk'
  OBVIOUS
<1> DEFINE e == [type |-> "RESET"]
           d == IF s.dc = "none" THEN s.dc ELSE "null"
<1>1. /\ s' = [s EXCEPT !.state = "Failed", !.dc = d]
      /\ IF s.dc = "open" THEN toR' = Append(toR, e) ELSE toR' = toR
      /\ UNCHANGED <<link, toS, r>>
  BY DEF CancelSender, Hangup
<1> HIDE DEF d
<1>2. /\ s'.total = s.total /\ s'.timer = s.timer /\ s'.paused = s.paused
      /\ s'.waiting = s.waiting
  BY <1>1 DEF Inv, Typed, SenderRec
<1>3. EndLast(toR') /\ \A m \in Msgs(toR') : m \in Msgs(toR) \/ m.type = "RESET"
  BY <1>1, ResetTalks DEF Talk
<1>4. Closing' => Closing
  BY <1>1 DEF Closing, Ending
<1> QED
  BY <1>1, <1>2, <1>3, <1>4, SameTurns DEF Talk

LEMMA CancelReceiverTalk == Inv /\ Talk /\ CancelReceiver => Talk'
<1> SUFFICES ASSUME Inv, Talk, CancelReceiver PROVE Talk'
  OBVIOUS
<1> DEFINE e == [type |-> "RESET"]
           d == IF r.dc = "none" THEN r.dc ELSE "null"
<1>1. /\ r' = [r EXCEPT !.state = "Failed", !.dc = d]
      /\ IF r.dc = "open" THEN toS' = Append(toS, e) ELSE toS' = toS
      /\ UNCHANGED <<link, toR, s>>
  BY DEF CancelReceiver, Hangup
<1> HIDE DEF d
<1>2. r'.total = r.total /\ r'.step = r.step /\ r'.state = "Failed"
  BY <1>1 DEF Inv, Typed, ReceiverRec
<1>3. HasResume(toS') => HasResume(toS)
  BY <1>1, ResetTalks
<1>4. Closing' => Closing
  BY <1>2 DEF Closing, Ending
<1> QED
  BY <1>1, <1>2, <1>3, <1>4, SameTurns DEF Talk

LEMMA CutTalk == Talk /\ Cut => Talk'
<1> SUFFICES ASSUME Talk, Cut PROVE Talk'
  OBVIOUS
<1>1. link = "up" /\ link' = "down" /\ UNCHANGED <<toR, toS, s, r>>
  BY DEF Cut
<1>2. Closing' => Closing
  BY <1>1 DEF Closing, Ending
<1> QED
  BY <1>1, <1>2, SameTurns DEF Talk

LEMMA EditTalk == Talk /\ (Edit \/ UNCHANGED vars) => Talk'
<1> SUFFICES ASSUME Talk, Edit \/ UNCHANGED vars PROVE Talk'
  OBVIOUS
<1>1. UNCHANGED <<link, toR, toS, s, r>>
  BY DEF Edit, vars, wire
<1>2. Closing' => Closing
  BY <1>1 DEF Closing, Ending
<1> QED
  BY <1>1, <1>2, SameTurns DEF Talk

LEMMA CrashTalk == Talk /\ Crash => Talk'
<1> SUFFICES ASSUME Talk, Crash PROVE Talk'
  OBVIOUS
<1>1. link' = "down" /\ r' = [NewReceiver EXCEPT !.state = "gone"] /\ UNCHANGED <<toR, toS, s>>
  BY DEF Crash
<1>2. ~Closing' /\ ~Met'
  BY <1>1 DEF NewReceiver, Closing, Ending, Met
<1> QED
  BY <1>1, <1>2 DEF Talk, Turns, InFlight, Quiet

LEMMA RestartTalk == Inv /\ Restart => Talk'
<1> SUFFICES ASSUME Inv, Restart PROVE Talk'
  OBVIOUS
<1>1. /\ s' = NewSender(src) /\ r' = NewReceiver /\ toR' = <<>> /\ link' = "new"
      /\ src \in Versions
  BY DEF Restart, Inv, Typed
<1>2. /\ s'.total = Size[src] /\ ~s'.timer /\ ~s'.paused
      /\ r'.step = "idle" /\ r'.state = "WaitingPeer"
  BY <1>1 DEF NewSender, NewReceiver
<1>3. ~Closing' /\ ~Met' /\ Turns'
  BY <1>1, <1>2 DEF Closing, Ending, Met, Turns
<1> QED
  BY <1>1, <1>2, <1>3, Silence DEF Talk

LEMMA OpenTalk == Inv /\ Talk /\ Open => Talk'
<1> SUFFICES ASSUME Inv, Talk, Open PROVE Talk'
  OBVIOUS
<1>0. PICK e : e = [type |-> "META", total |-> s.total]
  OBVIOUS
<1>1. /\ link = "new" /\ link' = "up" /\ r' = [r EXCEPT !.dc = "open"]
      /\ s' = [s EXCEPT !.state = "Transferring", !.dc = "open", !.waiting = "resume"]
      /\ toR' = <<e>> /\ toS' = toS
  BY <1>0 DEF Open
<1>2. toS = <<>> /\ r.step = "idle" /\ r.state # "Done" /\ ~s.timer /\ ~s.paused
  BY <1>1 DEF Inv, Unopened, Talk
<1>3. /\ s'.total = s.total /\ ~s'.timer /\ ~s'.paused /\ s'.waiting = "resume"
      /\ r'.step = "idle" /\ r'.state = r.state
  BY <1>1, <1>2 DEF Inv, Typed, SenderRec, ReceiverRec
<1>4. e.type = "META" /\ e.total = s.total
  BY <1>0
<1>5. EndLast(toR') /\ Msgs(toR') = {e}
  BY <1>1, <1>4 DEF EndLast, Msgs
<1>6. ~Closing' /\ ~Met' /\ Turns'
  BY <1>1, <1>2, <1>3, Silence DEF Closing, Ending, Met, HasResume, Turns
<1>7. InFlight(e)'
  BY <1>3, <1>4 DEF InFlight
<1> QED
  BY <1>1, <1>3, <1>5, <1>6, <1>7 DEF Talk

LEMMA NextTalk == Inv /\ Talk /\ [Next]_vars => Talk'
BY TimerTalk, DryTalk, ResumeTalk, AckTalk, ResetAtSenderTalk, MetaEmptyTalk, MetaTalk,
   ChunkTalk, DoneTalk, SaveOpenTalk, SaveWriteTalk, VerifyTalk, RenameTalk, RemoveTalk,
   ResetAtReceiverTalk, DropAtReceiverTalk, WriteFailsTalk, CancelSenderTalk,
   CancelReceiverTalk, CutTalk, EditTalk, CrashTalk, RestartTalk, OpenTalk
DEF Next, Handlers
-------------------------------------------------------------------------------
(* The receiver's files against its bitmap.                                *)
Contents == UNION {[0..Size[v] - 1 -> Versions \cup {0}] : v \in Versions}
Known    == bits \notin {None, Torn}

Honest(n, has) == DOMAIN part = 0..n - 1 => \A c \in has : part[c] # 0

Ranges ==
  /\ r.bitmap \subseteq 0..r.total - 1 /\ dirty = {} /\ part \in Contents \cup {None}
  /\ Known => bits.has \subseteq 0..bits.total - 1
  /\ r.step # "idle" => r.total > 0 /\ r.state # "Done"

(* While a file is received .part is there, with every chunk of the bitmap. *)
Holding == r.total > 0 /\ r.step # "remove" /\ r.state # "Done"
Held    == Holding => part # None /\ Honest(r.total, r.bitmap)

(* Only a crash between the rename and the removal leaves a bitmap alone;  *)
(* the next META makes a file of holes beside it, until it is saved over.  *)
NoOrphan == crashes = 0 /\ Known => part # None \/ r.step = "remove"
SavedIsHonest ==
  Saved /\ (r.step = "save" => crashes = 0) => Honest(bits.total, bits.has)

Behind ==
  Known /\ r.total > 0 /\ r.step # "save" =>
    bits.total = r.total /\ bits.has \subseteq r.bitmap

(* The chunks since the last save are no more than those of this interval. *)
Close ==
  Known /\ r.state = "Transferring" /\ r.step = "idle" =>
    /\ r.total > 0
    /\ Cardinality(r.bitmap \ bits.has) <= Cardinality(r.bitmap) % PersistEvery

Files == Ranges /\ Held /\ NoOrphan /\ SavedIsHonest /\ Behind /\ Close

(* Nothing waits in the buffer, and the process dies once at most: the     *)
(* bitmap that a second crash finds may be another file's (see README).    *)
Flushed  == Kept = {}
DiesOnce == MaxCrashes <= 1

LEMMA Interval ==
  ASSUME NEW m \in Nat, NEW n \in Nat, n > 0, 0..m - 1 = 0..n - 1
  PROVE  m = n
<1>1. n - 1 \in 0..m - 1
  OBVIOUS
<1>2. m > 0
  BY <1>1
<1>3. m - 1 \in 0..n - 1
  BY <1>2
<1> QED
  BY <1>1, <1>3

(* The remainder of the next number is the next one, or zero. *)
LEMMA NextRemainder ==
  ASSUME NEW p \in Nat \ {0}, NEW n \in Nat, (n + 1) % p # 0
  PROVE  (n + 1) % p = (n % p) + 1
<1> DEFINE q == n \div p
           k == (n + 1) \div p
<1>1. n = p * q + (n % p) /\ n % p \in 0..p - 1 /\ q \in Nat
  OBVIOUS
<1>2. n + 1 = p * k + ((n + 1) % p) /\ (n + 1) % p \in 0..p - 1 /\ k \in Nat
  OBVIOUS
<1> DEFINE a == n % p
           b == (n + 1) % p
<1> HIDE DEF q, k, a, b
<1>3. a \in Nat /\ b \in Nat /\ a < p /\ b < p /\ b > 0 /\ p * k + b = p * q + a + 1
  BY <1>1, <1>2 DEF a, b
<1>4. k = q
  <2>1. CASE k > q
    <3>1. p * k >= p * q + p
      BY <1>1, <1>2, <2>1
    <3> QED
      BY <1>1, <1>2, <1>3, <3>1
  <2>2. CASE k < q
    <3>1. p * q >= p * k + p
      BY <1>1, <1>2, <2>2
    <3> QED
      BY <1>1, <1>2, <1>3, <3>1
  <2> QED
    BY <1>1, <1>2, <2>1, <2>2
<1> QED
  BY <1>1, <1>3, <1>4 DEF a, b

LEMMA RemainderBelow ==
  ASSUME NEW p \in Nat \ {0}, NEW n \in Nat
  PROVE  n % p \in Nat /\ n % p < p
OBVIOUS

(* Writing one chunk. *)
LEMMA Written ==
  ASSUME NEW f \in Contents, NEW c, NEW x, c \in DOMAIN f => x \in Versions \cup {0}
  PROVE  LET g == [f EXCEPT ![c] = x]
         IN /\ f # None /\ g \in Contents /\ g # None /\ DOMAIN g = DOMAIN f
            /\ \A d \in DOMAIN f : g[d] = IF d = c THEN x ELSE f[d]
<1> DEFINE g == [f EXCEPT ![c] = x]
<1>1. PICK v \in Versions : f \in [0..Size[v] - 1 -> Versions \cup {0}]
  BY DEF Contents
<1>2. g \in [0..Size[v] - 1 -> Versions \cup {0}] /\ DOMAIN g = DOMAIN f
  BY <1>1
<1>3. \A d \in DOMAIN f : g[d] = IF d = c THEN x ELSE f[d]
  BY <1>1
<1>4. f # None /\ g # None
  BY <1>1, <1>2, NoneAssumption
<1>5. g \in Contents
  BY <1>2 DEF Contents
<1> QED
  BY <1>2, <1>3, <1>4, <1>5

(* A file of holes for the announced size. *)
LEMMA Preallocated ==
  ASSUME NEW v \in Versions
  PROVE  /\ Holes(Size[v]) \in Contents /\ Holes(Size[v]) # None
         /\ DOMAIN Holes(Size[v]) = 0..Size[v] - 1
<1>1. Holes(Size[v]) \in [0..Size[v] - 1 -> Versions \cup {0}]
  BY DEF Holes
<1> QED
  BY <1>1, NoneAssumption DEF Contents, Holes

LEMMA BitmapFinite ==
  ASSUME NEW n \in Nat, NEW B, B \subseteq 0..n - 1
  PROVE  IsFiniteSet(B) /\ Cardinality(B) \in Nat
<1>1. 0 \in Int /\ n - 1 \in Int
  OBVIOUS
<1>2. IsFiniteSet(0..n - 1)
  BY <1>1, FS_Interval
<1>3. IsFiniteSet(B)
  BY <1>2, FS_Subset
<1> QED
  BY <1>3, FS_CardinalityType

LEMMA InitFiles == Init => Files
BY DEF Init, NewReceiver, Files, Ranges, Held, Holding, NoOrphan, SavedIsHonest, Saved, Behind,
  Close, Known

(* A step that leaves the files, and the receiver where it is or failed.   *)
LEMMA SameFiles ==
  ASSUME Files, UNCHANGED <<part, dirty, bits, crashes>>, r'.total = r.total,
         r'.bitmap = r.bitmap, r'.step = r.step,
         r'.state = r.state \/ (r.state # "Done" /\ r'.state = "Failed")
  PROVE  Files'
<1>1. Known' = Known /\ Saved' = Saved /\ (Holding' => Holding)
  BY DEF Known, Saved, Holding
<1>2. Ranges' /\ NoOrphan' /\ Behind'
  BY <1>1 DEF Files, Ranges, NoOrphan, Behind
<1>3. Held' /\ SavedIsHonest'
  BY <1>1 DEF Files, Held, SavedIsHonest, Honest
<1>4. Close'
  BY <1>1 DEF Files, Close
<1> QED
  BY <1>2, <1>3, <1>4 DEF Files

LEMMA SenderFiles == Files /\ (Timer \/ Dry \/ Resume \/ Ack \/ ResetAtSender) => Files'
<1> SUFFICES ASSUME Files, Timer \/ Dry \/ Resume \/ Ack \/ ResetAtSender PROVE Files'
  OBVIOUS
<1>1. UNCHANGED <<r, part, dirty, bits, crashes>>
  BY DEF Timer, Dry, Resume, Ack, ResetAtSender, disk, budget
<1> QED
  BY <1>1, SameFiles

LEMMA FaultFiles == Files /\ (CancelSender \/ Cut \/ Edit \/ UNCHANGED vars) => Files'
<1> SUFFICES ASSUME Files, CancelSender \/ Cut \/ Edit \/ UNCHANGED vars PROVE Files'
  OBVIOUS
<1>1. UNCHANGED <<r, part, dirty, bits, crashes>>
  BY DEF CancelSender, Cut, Edit, vars, Fault, disk, budget
<1> QED
  BY <1>1, SameFiles

LEMMA DropFiles == Inv /\ Files /\ (ResetAtReceiver \/ DropAtReceiver \/ Open) => Files'
<1> SUFFICES ASSUME Inv, Files, ResetAtReceiver \/ DropAtReceiver \/ Open PROVE Files'
  OBVIOUS
<1>1. UNCHANGED <<part, dirty, bits, crashes>>
  BY DEF ResetAtReceiver, DropAtReceiver, Open, disk, budget
<1>2. r' = r \/ r' = [r EXCEPT !.dc = "closed"] \/ r' = [r EXCEPT !.dc = "open"]
  BY DEF ResetAtReceiver, DropAtReceiver, Open
<1>3. r'.total = r.total /\ r'.bitmap = r.bitmap /\ r'.step = r.step /\ r'.state = r.state
  BY <1>2 DEF Inv, Typed, ReceiverRec
<1> QED
  BY <1>1, <1>3, SameFiles

LEMMA CancelReceiverFiles == Inv /\ Files /\ CancelReceiver => Files'
<1> SUFFICES ASSUME Inv, Files, CancelReceiver PROVE Files'
  OBVIOUS
<1> DEFINE d == IF r.dc = "none" THEN r.dc ELSE "null"
<1>1. /\ r.state # "Done" /\ r' = [r EXCEPT !.state = "Failed", !.dc = d]
      /\ UNCHANGED <<part, dirty, bits, crashes>>
  BY DEF CancelReceiver, Live, Hangup, Fault, disk
<1> HIDE DEF d
<1>2. r'.total = r.total /\ r'.bitmap = r.bitmap /\ r'.step = r.step /\ r'.state = "Failed"
  BY <1>1 DEF Inv, Typed, ReceiverRec
<1> QED
  BY <1>1, <1>2, SameFiles

LEMMA MetaEmptyFiles == Inv /\ Talk /\ Files /\ MetaEmpty => Files'
<1> SUFFICES ASSUME Inv, Talk, Files, MetaEmpty PROVE Files'
  OBVIOUS
<1>1. /\ Take("META") /\ r' = [r EXCEPT !.state = "Failed"]
      /\ UNCHANGED <<part, dirty, bits, crashes>>
  BY DEF MetaEmpty, disk, budget
<1>2. r'.total = r.total /\ r'.bitmap = r.bitmap /\ r'.step = r.step /\ r'.state = "Failed"
  BY <1>1 DEF Inv, Typed, ReceiverRec
<1> QED
  BY <1>1, <1>2, MetaFits, SameFiles

(* FILE_META: the saved bitmap is taken up with its file, or holes are.    *)
LEMMA MetaFiles == Inv /\ Talk /\ Files /\ Meta => Files'
<1> SUFFICES ASSUME Inv, Talk, Files, Meta PROVE Files'
  OBVIOUS
<1> DEFINE n == Head(toR).total
           has == IF Loadable(n) THEN bits.has ELSE {}
<1>1. /\ Take("META") /\ n > 0 /\ UNCHANGED <<bits, crashes>>
      /\ r' = [r EXCEPT !.total = n, !.bitmap = has, !.state = "Transferring", !.step = "save"]
      /\ IF Loadable(n) THEN UNCHANGED <<part, dirty>> ELSE part' = Holes(n) /\ dirty' = {}
  BY DEF Meta, disk, budget
<1>2. r.step = "idle" /\ n = s.total /\ n \in Nat
  BY <1>1, MetaFits
<1>3. PICK v \in Versions : n = Size[v]
  BY <1>2 DEF Talk
<1> HIDE DEF n, has
<1>4. /\ r'.total = n /\ r'.bitmap = has /\ r'.step = "save" /\ r'.state = "Transferring"
  BY <1>1 DEF Inv, Typed, ReceiverRec
<1>5. CASE Loadable(n)
  <2>1. has = bits.has /\ bits.total = n /\ Known /\ part # None /\ Saved /\ Saved' /\ Known'
    BY <1>1, <1>5 DEF has, Loadable, Saved, Known
  <2>2. Honest(n, has)
    BY <1>2, <2>1 DEF Files, SavedIsHonest
  <2>3. Ranges' /\ Held' /\ NoOrphan'
    BY <1>1, <1>4, <1>5, <2>1, <2>2 DEF Files, Ranges, Held, NoOrphan, Honest
  <2>4. SavedIsHonest'
    BY <1>1, <1>5, <2>1, <2>2 DEF SavedIsHonest, Honest
  <2> QED
    BY <1>4, <2>3, <2>4 DEF Files, Behind, Close
<1>6. CASE ~Loadable(n)
  <2>1. has = {} /\ part' = Holes(n) /\ dirty' = {}
    BY <1>1, <1>6 DEF has
  <2>2. part' \in Contents /\ part' # None /\ DOMAIN part' = 0..n - 1
    BY <1>3, <2>1, Preallocated
  <2>3. Ranges'
    BY <1>1, <1>4, <2>1, <2>2 DEF Files, Ranges, Known
  <2>4. Held' /\ NoOrphan'
    BY <1>4, <2>1, <2>2 DEF Held, Honest, NoOrphan
  <2>5. ASSUME Known, crashes = 0 PROVE DOMAIN part' # 0..bits.total - 1
    <3>1. part # None /\ bits.total # n
      BY <1>2, <1>6, <2>5 DEF Files, NoOrphan, Known, Loadable, Saved
    <3>2. bits.total \in Nat
      BY <2>5 DEF Inv, Typed, Known
    <3> QED
      BY <1>1, <1>2, <2>2, <3>1, <3>2, Interval
  <2>6. SavedIsHonest'
    BY <1>1, <1>4, <2>5 DEF SavedIsHonest, Honest, Saved, Known
  <2> QED
    BY <1>4, <2>3, <2>4, <2>6 DEF Files, Behind, Close
<1> QED
  BY <1>5, <1>6

(* FILE_CHUNK: one more chunk is in the file and in the bitmap. *)
LEMMA ChunkFiles ==
  ASSUME Flushed, Inv, Talk, Files, Chunk
  PROVE  Files'
<1> DEFINE c == Head(toR).id
           x == Head(toR).data
           has == r.bitmap \cup {c}
           p == IF Cardinality(has) % PersistEvery = 0 THEN "save" ELSE "idle"
<1>1. /\ Take("CHUNK") /\ c \notin r.bitmap /\ UNCHANGED <<bits, crashes>>
      /\ part' = [part EXCEPT ![c] = x] /\ dirty' = {}
      /\ r' = [r EXCEPT !.bitmap = has, !.step = p]
  BY DEF Chunk, Flushed, budget
<1>2. /\ r.step = "idle" /\ r.state # "Done" /\ r.total > 0 /\ r.total \in Nat
      /\ c \in 0..r.total - 1 /\ x \in Versions
  BY <1>1, ChunkFits DEF Inv, Typed, ReceiverRec
<1>3. p \in {"idle", "save"} /\ (p = "idle" => Cardinality(has) % PersistEvery # 0)
  OBVIOUS
<1>4. has = r.bitmap \cup {c}
  OBVIOUS
<1> HIDE DEF c, x, has, p
<1>5. r'.bitmap = has /\ r'.step = p /\ r'.total = r.total /\ r'.state = r.state
  BY <1>1 DEF Inv, Typed, ReceiverRec
<1>6. part # None /\ Honest(r.total, r.bitmap) /\ part \in Contents
  BY <1>2 DEF Files, Held, Holding, Ranges
<1>7. /\ part' \in Contents /\ part' # None /\ DOMAIN part' = DOMAIN part
      /\ \A d \in DOMAIN part : part'[d] = IF d = c THEN x ELSE part[d]
  BY <1>1, <1>2, <1>6, Written
<1>8. x # 0
  BY <1>2 DEF Versions
<1>9. Ranges'
  BY <1>1, <1>2, <1>4, <1>5, <1>7 DEF Files, Ranges, Known
<1>10. Held'
  <2>1. ASSUME DOMAIN part' = 0..r.total - 1, NEW d \in has
        PROVE  part'[d] # 0
    <3>1. d \in DOMAIN part
      BY <1>2, <1>4, <1>7, <2>1 DEF Files, Ranges
    <3>2. d # c => part[d] # 0
      BY <1>4, <1>6, <1>7, <2>1 DEF Honest
    <3> QED
      BY <1>7, <1>8, <3>1, <3>2
  <2> QED
    BY <1>5, <1>7, <2>1 DEF Held, Honest
<1>11. NoOrphan'
  BY <1>7 DEF NoOrphan
<1>12. SavedIsHonest'
  <2> SUFFICES ASSUME Saved, DOMAIN part = 0..bits.total - 1, NEW d \in bits.has
               PROVE  part'[d] # 0
    BY <1>1, <1>6, <1>7 DEF SavedIsHonest, Honest, Saved
  <2>1. part[d] # 0
    BY <1>2 DEF Files, SavedIsHonest, Honest
  <2>2. d \in DOMAIN part
    BY DEF Files, Ranges, Known, Saved
  <2> QED
    BY <1>7, <1>8, <2>1, <2>2
<1>13. Behind'
  BY <1>1, <1>2, <1>4, <1>5 DEF Files, Behind, Known
<1>14. Close'
  <2> SUFFICES ASSUME Known, r.state = "Transferring", p = "idle"
               PROVE  Cardinality(has \ bits.has) <= Cardinality(has) % PersistEvery
    BY <1>1, <1>2, <1>5 DEF Close, Known
  <2> DEFINE B == r.bitmap
             D == r.bitmap \ bits.has
  <2>1. bits.has \subseteq B
    BY <1>2 DEF Files, Behind
  <2>2. IsFiniteSet(B) /\ IsFiniteSet(D) /\ Cardinality(B) \in Nat /\ Cardinality(D) \in Nat
    <3>1. B \subseteq 0..r.total - 1 /\ D \subseteq 0..r.total - 1
      BY DEF Files, Ranges
    <3> QED
      BY <1>2, <3>1, BitmapFinite
  <2>3. c \notin B /\ c \notin D /\ has = B \cup {c} /\ has \ bits.has = D \cup {c}
    BY <1>1, <1>4, <2>1
  <2>4. Cardinality(D) <= Cardinality(B) % PersistEvery
    BY <1>2 DEF Files, Close
  <2> HIDE DEF B, D
  <2>5. Cardinality(has) = Cardinality(B) + 1 /\ Cardinality(has \ bits.has) = Cardinality(D) + 1
    BY <2>2, <2>3, FS_AddElement
  <2>6. PersistEvery \in Nat \ {0}
    BY BoundAssumption
  <2>7. (Cardinality(B) + 1) % PersistEvery # 0
    BY <1>3, <2>5
  <2>8. (Cardinality(B) + 1) % PersistEvery = (Cardinality(B) % PersistEvery) + 1
    BY <2>2, <2>6, <2>7, NextRemainder
  <2>9. Cardinality(B) % PersistEvery \in Nat
    BY <2>2, <2>6, RemainderBelow
  <2> DEFINE a == Cardinality(B) % PersistEvery
             b == (Cardinality(B) + 1) % PersistEvery
  <2> HIDE DEF a, b
  <2>10. a \in Nat /\ b = a + 1 /\ Cardinality(D) <= a
    BY <2>4, <2>8, <2>9 DEF a, b
  <2>11. Cardinality(D) + 1 <= b
    BY <2>2, <2>10
  <2> QED
    BY <2>5, <2>11 DEF b
<1> QED
  BY <1>9, <1>10, <1>11, <1>12, <1>13, <1>14 DEF Files

(* The chunk that could not be written is in no bitmap. *)
LEMMA WriteFailsFiles == Inv /\ Talk /\ Files /\ WriteFails => Files'
<1> SUFFICES ASSUME Inv, Talk, Files, WriteFails PROVE Files'
  OBVIOUS
<1> DEFINE c == Head(toR).id
<1>1. /\ Take("CHUNK") /\ c \notin r.bitmap /\ UNCHANGED <<bits, crashes>>
      /\ dirty' = {} /\ r' = [r EXCEPT !.state = "Failed"]
  BY DEF WriteFails, Fault
<1>2. PICK x \in {part[c], 0} : part' = [part EXCEPT ![c] = x]
  BY DEF WriteFails
<1>3. /\ r.step = "idle" /\ r.state # "Done" /\ r.total > 0 /\ r.total \in Nat
      /\ c \in 0..r.total - 1
  BY <1>1, ChunkFits DEF Inv, Typed, ReceiverRec
<1> HIDE DEF c
<1>4. r'.bitmap = r.bitmap /\ r'.step = "idle" /\ r'.total = r.total /\ r'.state = "Failed"
  BY <1>1, <1>3 DEF Inv, Typed, ReceiverRec
<1>5. part # None /\ Honest(r.total, r.bitmap) /\ part \in Contents
  BY <1>3 DEF Files, Held, Holding, Ranges
<1>6. c \in DOMAIN part => x \in Versions \cup {0}
  <2>1. PICK v \in Versions : part \in [0..Size[v] - 1 -> Versions \cup {0}]
    BY <1>5 DEF Contents
  <2> QED
    BY <1>2, <2>1
<1>7. /\ part' \in Contents /\ part' # None /\ DOMAIN part' = DOMAIN part
      /\ \A d \in DOMAIN part : d # c => part'[d] = part[d]
  BY <1>2, <1>5, <1>6, Written
<1>8. Ranges'
  BY <1>1, <1>4, <1>7 DEF Files, Ranges, Known
<1>9. Held'
  <2> SUFFICES ASSUME DOMAIN part = 0..r.total - 1, NEW d \in r.bitmap
               PROVE  part'[d] # 0
    BY <1>4, <1>7 DEF Held, Honest
  <2>1. d \in DOMAIN part /\ d # c /\ part[d] # 0
    BY <1>1, <1>5 DEF Files, Ranges, Honest
  <2> QED
    BY <1>7, <2>1
<1>10. NoOrphan' /\ Close'
  BY <1>4, <1>7 DEF NoOrphan, Close
<1>11. SavedIsHonest'
  <2> SUFFICES ASSUME Saved, DOMAIN part = 0..bits.total - 1, NEW d \in bits.has
               PROVE  part'[d] # 0
    BY <1>1, <1>5, <1>7 DEF SavedIsHonest, Honest, Saved
  <2>1. part[d] # 0 /\ d \in DOMAIN part
    BY <1>3 DEF Files, SavedIsHonest, Honest, Ranges, Known, Saved
  <2>2. d # c
    BY <1>1, <1>3 DEF Files, Behind, Known, Saved
  <2> QED
    BY <1>7, <2>1, <2>2
<1>12. Behind'
  BY <1>1, <1>3, <1>4 DEF Files, Behind, Known
<1> QED
  BY <1>8, <1>9, <1>10, <1>11, <1>12 DEF Files

LEMMA DoneFiles == Inv /\ Talk /\ Files /\ Done => Files'
<1> SUFFICES ASSUME Inv, Talk, Files, Done PROVE Files'
  OBVIOUS
<1> DEFINE h == Head(toR).sha
<1>1. /\ link = "up" /\ toR # <<>> /\ toR' = Tail(toR) /\ Head(toR).type = "DONE"
      /\ r.step = "idle" /\ r' = [r EXCEPT !.step = "saveAll", !.sha = h]
      /\ dirty' = {} /\ UNCHANGED <<part, bits, crashes>>
  BY DEF Done, Take, budget
<1> HIDE DEF h
<1>2. r'.bitmap = r.bitmap /\ r'.total = r.total /\ r'.state = r.state /\ r'.step = "saveAll"
  BY <1>1 DEF Inv, Typed, ReceiverRec
<1>3. Head(toR).type # "RESET" /\ InFlight(Head(toR)) /\ ~Closing
  BY <1>1, ReceiverTakes
<1>4. r.total > 0 /\ r.state # "Done"
  BY <1>1, <1>3 DEF Talk, Met, InFlight, Quiet, Closing
<1>5. Known' = Known /\ Saved' = Saved /\ Holding
  BY <1>1, <1>4 DEF Known, Saved, Holding
<1>6. Ranges' /\ Held' /\ NoOrphan'
  BY <1>1, <1>2, <1>4, <1>5 DEF Files, Ranges, Held, NoOrphan, Honest
<1>7. SavedIsHonest' /\ Behind' /\ Close'
  BY <1>1, <1>2, <1>5 DEF Files, SavedIsHonest, Honest, Behind, Close
<1> QED
  BY <1>6, <1>7 DEF Files

LEMMA SaveOpenFiles == Inv /\ Files /\ SaveOpen => Files'
<1> SUFFICES ASSUME Inv, Files, SaveOpen PROVE Files'
  OBVIOUS
<1> DEFINE p == IF r.step = "save" THEN "write" ELSE "writeAll"
<1>1. /\ r.step \in {"save", "saveAll"} /\ bits' = Torn /\ r' = [r EXCEPT !.step = p]
      /\ UNCHANGED <<part, dirty, crashes>>
  BY DEF SaveOpen, budget
<1>2. p \in {"write", "writeAll"}
  OBVIOUS
<1> HIDE DEF p
<1>3. r'.bitmap = r.bitmap /\ r'.total = r.total /\ r'.state = r.state /\ r'.step = p
  BY <1>1 DEF Inv, Typed, ReceiverRec
<1>4. ~Known' /\ ~Saved' /\ (Holding' => Holding)
  BY <1>1, <1>2, <1>3 DEF Known, Saved, Holding
<1>5. Ranges'
  BY <1>1, <1>3, <1>4 DEF Files, Ranges
<1>6. Held'
  BY <1>1, <1>3, <1>4 DEF Files, Held, Honest
<1> QED
  BY <1>4, <1>5, <1>6 DEF Files, NoOrphan, SavedIsHonest, Behind, Close

LEMMA SaveWriteFiles == Inv /\ Files /\ SaveWrite => Files'
<1> SUFFICES ASSUME Inv, Files, SaveWrite PROVE Files'
  OBVIOUS
<1> DEFINE p == IF r.step = "write" THEN "idle" ELSE "verify"
<1>1. /\ r.step \in {"write", "writeAll"} /\ r' = [r EXCEPT !.step = p]
      /\ bits' = [total |-> r.total, has |-> r.bitmap]
      /\ UNCHANGED <<part, dirty, crashes>>
  BY DEF SaveWrite, budget
<1>2. p \in {"idle", "verify"}
  OBVIOUS
<1> HIDE DEF p
<1>3. r'.bitmap = r.bitmap /\ r'.total = r.total /\ r'.state = r.state /\ r'.step = p
  BY <1>1 DEF Inv, Typed, ReceiverRec
<1>4. bits'.total = r.total /\ bits'.has = r.bitmap
  BY <1>1
<1>5. r.total > 0 /\ r.state # "Done" /\ r.total \in Nat /\ r.bitmap \subseteq 0..r.total - 1
  BY <1>1 DEF Files, Ranges, Inv, Typed, ReceiverRec
<1>6. part # None /\ Honest(r.total, r.bitmap)
  BY <1>1, <1>5 DEF Files, Held, Holding
<1>7. Ranges'
  BY <1>1, <1>3, <1>4, <1>5 DEF Files, Ranges
<1>8. Held' /\ NoOrphan' /\ SavedIsHonest'
  BY <1>1, <1>3, <1>4, <1>6 DEF Held, NoOrphan, SavedIsHonest, Honest
<1>9. Behind'
  BY <1>3, <1>4 DEF Behind
<1>10. Close'
  <2>1. Cardinality(r.bitmap \ r.bitmap) = 0
    BY FS_EmptySet
  <2>2. Cardinality(r.bitmap) % PersistEvery \in Nat
    BY <1>5, BitmapFinite, RemainderBelow, BoundAssumption
  <2> QED
    BY <1>3, <1>4, <1>5, <2>1, <2>2 DEF Close
<1> QED
  BY <1>7, <1>8, <1>9, <1>10 DEF Files

LEMMA VerifyFiles == Inv /\ Files /\ Verify => Files'
<1> SUFFICES ASSUME Inv, Files, Verify PROVE Files'
  OBVIOUS
<1> DEFINE ok == part = Content(r.sha)
           p == IF ok THEN "rename" ELSE "idle"
           x == IF ok THEN r.state ELSE "Failed"
<1>1. /\ r.step = "verify" /\ r' = [r EXCEPT !.step = p, !.state = x]
      /\ UNCHANGED <<part, dirty, bits, crashes>>
  BY DEF Verify, disk, budget
<1>2. p \in {"rename", "idle"} /\ (p = "idle" => x = "Failed") /\ x \in {r.state, "Failed"}
  OBVIOUS
<1> HIDE DEF p, x
<1>3. r'.bitmap = r.bitmap /\ r'.total = r.total /\ r'.state = x /\ r'.step = p
  BY <1>1 DEF Inv, Typed, ReceiverRec
<1>8. r.state # "Done"
  BY <1>1 DEF Files, Ranges
<1>4. Known' = Known /\ Saved' = Saved /\ (Holding' => Holding)
  BY <1>1, <1>2, <1>3, <1>8 DEF Known, Saved, Holding
<1>5. Ranges'
  BY <1>1, <1>2, <1>3, <1>4 DEF Files, Ranges
<1>6. Held' /\ NoOrphan'
  BY <1>1, <1>3, <1>4 DEF Files, Held, Honest, NoOrphan
<1>7. SavedIsHonest' /\ Behind' /\ Close'
  BY <1>1, <1>2, <1>3, <1>4 DEF Files, SavedIsHonest, Honest, Behind, Close
<1> QED
  BY <1>5, <1>6, <1>7 DEF Files

LEMMA RenameFiles == Inv /\ Files /\ Rename => Files'
<1> SUFFICES ASSUME Inv, Files, Rename PROVE Files'
  OBVIOUS
<1>1. /\ r.step = "rename" /\ r' = [r EXCEPT !.step = "remove"]
      /\ part' \in {part, None} /\ UNCHANGED <<dirty, bits, crashes>>
  BY DEF Rename, Fault, budget
<1>2. r'.bitmap = r.bitmap /\ r'.total = r.total /\ r'.state = r.state /\ r'.step = "remove"
  BY <1>1 DEF Inv, Typed, ReceiverRec
<1>3. (Known' <=> Known) /\ ~Holding'
  BY <1>1, <1>2 DEF Known, Holding
<1>6. Saved' => Saved /\ part' = part
  BY <1>1 DEF Saved
<1>4. Ranges'
  BY <1>1, <1>2, <1>3 DEF Files, Ranges
<1>5. SavedIsHonest'
  BY <1>1, <1>6 DEF Files, SavedIsHonest, Honest
<1> QED
  BY <1>1, <1>2, <1>3, <1>4, <1>5 DEF Files, Held, NoOrphan, Behind, Close

LEMMA RemoveFiles == Inv /\ Files /\ Remove => Files'
<1> SUFFICES ASSUME Inv, Files, Remove PROVE Files'
  OBVIOUS
<1>1. /\ r' = [r EXCEPT !.step = "idle", !.state = "Done"]
      /\ bits' = None /\ UNCHANGED <<part, dirty, crashes>>
  BY DEF Remove, budget
<1>2. r'.bitmap = r.bitmap /\ r'.total = r.total /\ r'.state = "Done" /\ r'.step = "idle"
  BY <1>1 DEF Inv, Typed, ReceiverRec
<1>3. ~Known' /\ ~Saved' /\ ~Holding'
  BY <1>1, <1>2 DEF Known, Saved, Holding
<1>4. Ranges'
  BY <1>1, <1>2, <1>3 DEF Files, Ranges
<1> QED
  BY <1>3, <1>4 DEF Files, Held, NoOrphan, SavedIsHonest, Behind, Close

LEMMA RestartFiles == Files /\ Restart => Files'
<1> SUFFICES ASSUME Files, Restart PROVE Files'
  OBVIOUS
<1>1. /\ r.step = "idle" /\ r' = NewReceiver /\ dirty' = {}
      /\ UNCHANGED <<part, bits, crashes>>
  BY DEF Restart
<1>2. r'.bitmap = {} /\ r'.total = 0 /\ r'.state = "WaitingPeer" /\ r'.step = "idle"
  BY <1>1 DEF NewReceiver
<1>3. Known' = Known /\ Saved' = Saved /\ ~Holding'
  BY <1>1, <1>2 DEF Known, Saved, Holding
<1>4. Ranges' /\ NoOrphan'
  BY <1>1, <1>2, <1>3 DEF Files, Ranges, NoOrphan
<1>5. SavedIsHonest'
  BY <1>1, <1>3 DEF Files, SavedIsHonest, Honest
<1> QED
  BY <1>2, <1>3, <1>4, <1>5 DEF Files, Held, Behind, Close

(* What the bounds of the model count. *)
Bounds ==
  /\ link \in {"new", "up", "down"} /\ attempt \in 1..MaxAttempts
  /\ faults \in 0..MaxFaults /\ crashes \in 0..MaxCrashes

LEMMA InitBounds == Init => Bounds
BY BoundAssumption DEF Init, Bounds

LEMMA NextBounds == Bounds /\ [Next]_vars => Bounds'
<1> SUFFICES ASSUME Bounds, [Next]_vars PROVE Bounds'
  OBVIOUS
<1> USE BoundAssumption DEF Bounds, budget, wire
<1>1. CASE Open \/ Timer \/ Dry \/ Resume \/ Ack \/ ResetAtSender
  BY <1>1 DEF Open, Timer, Dry, Resume, Ack, ResetAtSender
<1>2. CASE MetaEmpty \/ Meta \/ Chunk \/ Done \/ ResetAtReceiver \/ DropAtReceiver
  BY <1>2 DEF MetaEmpty, Meta, Chunk, Done, ResetAtReceiver, DropAtReceiver, Take
<1>3. CASE SaveOpen \/ SaveWrite \/ Verify \/ Remove \/ Edit
  BY <1>3 DEF SaveOpen, SaveWrite, Verify, Remove, Edit
<1>4. CASE Rename \/ WriteFails \/ CancelSender \/ CancelReceiver \/ Cut
  BY <1>4 DEF Rename, WriteFails, Take, CancelSender, CancelReceiver, Cut, Fault
<1>5. CASE Crash \/ Restart
  BY <1>5 DEF Crash, Restart
<1>6. CASE UNCHANGED vars
  BY <1>6 DEF vars
<1> QED
  BY <1>1, <1>2, <1>3, <1>4, <1>5, <1>6 DEF Next, Handlers

(* All that was written is on the disk, and no crash follows another one.  *)
LEMMA CrashFiles ==
  ASSUME DiesOnce, Bounds, Inv, Files, Crash
  PROVE  Files'
<1>1. /\ crashes < MaxCrashes /\ crashes' = crashes + 1 /\ dirty' = {}
      /\ r' = [NewReceiver EXCEPT !.state = "gone"] /\ bits' = bits
  BY DEF Crash
<1>2. r'.bitmap = {} /\ r'.total = 0 /\ r'.state = "gone" /\ r'.step = "idle"
  BY <1>1 DEF NewReceiver
<1>3. crashes = 0 /\ crashes' = 1
  BY <1>1, BoundAssumption DEF Bounds, DiesOnce
<1>4. CASE part = None
  <2>1. part' = None
    BY <1>4 DEF Crash
  <2>2. Ranges'
    BY <1>1, <1>2, <2>1 DEF Files, Ranges, Known
  <2> QED
    BY <1>2, <1>3, <2>1, <2>2 DEF Files, Held, Holding, NoOrphan, SavedIsHonest, Saved, Behind, Close
<1>5. CASE part # None
  <2>1. PICK v \in Versions : part \in [0..Size[v] - 1 -> Versions \cup {0}]
    BY <1>5 DEF Files, Ranges, Contents
  <2>2. part' = [c \in DOMAIN part |-> part[c]]
    BY <1>5 DEF Crash, Files, Ranges
  <2>3. part' = part
    BY <2>1, <2>2
  <2>4. Ranges'
    BY <1>1, <1>2, <2>3 DEF Files, Ranges, Known
  <2>5. SavedIsHonest'
    BY <1>1, <1>3, <2>3 DEF Files, SavedIsHonest, Saved, Honest
  <2> QED
    BY <1>2, <1>3, <2>4, <2>5 DEF Files, Held, Holding, NoOrphan, Behind, Close
<1> QED
  BY <1>4, <1>5

LEMMA NextFiles ==
  ASSUME Flushed, DiesOnce, Bounds, Inv, Talk, Files, [Next]_vars
  PROVE  Files'
BY SenderFiles, FaultFiles, DropFiles, CancelReceiverFiles, MetaEmptyFiles, MetaFiles,
   ChunkFiles, WriteFailsFiles, DoneFiles, SaveOpenFiles, SaveWriteFiles, VerifyFiles,
   RenameFiles, RemoveFiles, RestartFiles, CrashFiles
DEF Next, Handlers

(* The two ends agree, for every source and any faults: chunks fit the     *)
(* announced size, turns do not overlap, and one end of the file is sent.  *)
THEOREM EndsAgree == Spec => []Talk
<1>1. Init => Talk
  BY InitTalk
<1>2. Inv /\ Talk /\ [Next]_vars => Talk'
  BY NextTalk
<1> QED
  BY <1>1, <1>2, Invariance, PTL DEF Spec

(* What the run checks follows: a remainder is less than the interval.     *)
LEMMA FilesImply ==
  ASSUME Bounds, Inv, Talk, Files
  PROVE  FilesInv
<1>1. TypeOK
  <2>1. s.next \in 0..s.total
    BY DEF Inv, Typed, SenderRec
  <2>2. s.state \in States /\ s.dc \in Dc /\ s.waiting \in Waits
    BY DEF Inv, Typed, SenderRec
  <2>3. r.state \in PeerStates /\ r.dc \in Dc /\ r.step \in Steps
    BY DEF Inv, Typed, ReceiverRec
  <2> QED
    BY <2>1, <2>2, <2>3 DEF TypeOK, Bounds, Inv, Typed, Files, Ranges, States, PeerStates, Waits, Steps
<1>2. ASSUME Saved, DOMAIN part = 0..bits.total - 1, r.step # "save", NEW c \in bits.has
      PROVE  part[c] # 0
  BY <1>2 DEF Files, SavedIsHonest, Honest
<1>3. ASSUME Saved, r.state = "Transferring", r.step = "idle"
      PROVE  Cardinality(r.bitmap \ bits.has) < PersistEvery
  <2> DEFINE D == r.bitmap \ bits.has
  <2>1. Cardinality(D) <= Cardinality(r.bitmap) % PersistEvery
    BY <1>3 DEF Files, Close, Saved, Known
  <2>2. r.bitmap \subseteq 0..r.total - 1 /\ D \subseteq 0..r.total - 1 /\ r.total \in Nat
    BY DEF Files, Ranges, Inv, Typed, ReceiverRec
  <2>3. Cardinality(D) \in Nat /\ Cardinality(r.bitmap) \in Nat
    BY <2>2, BitmapFinite
  <2>4. PersistEvery \in Nat \ {0}
    BY BoundAssumption
  <2> DEFINE m == Cardinality(r.bitmap) % PersistEvery
  <2>5. m \in Nat /\ m < PersistEvery
    BY <2>3, <2>4, RemainderBelow
  <2> HIDE DEF m
  <2>6. Cardinality(D) <= m
    BY <2>1 DEF m
  <2> QED
    BY <2>3, <2>4, <2>5, <2>6
<1>4. ResumeIsHonest
  BY <1>2, <1>3 DEF ResumeIsHonest
<1> QED
  BY <1>1, <1>4 DEF FilesInv

(* FilesInv for a receiver that flushes what it writes and dies once at    *)
(* most: what a resumed transfer takes from the disk is really there, and  *)
(* a crash costs less than one interval of chunks.                         *)
THEOREM ResumeHolds == Flushed /\ DiesOnce => (Spec => []FilesInv)
<1> SUFFICES ASSUME Flushed, DiesOnce PROVE Spec => []FilesInv
  OBVIOUS
<1>1. Init => Bounds /\ Files
  BY InitBounds, InitFiles
<1>2. Bounds /\ [Next]_vars => Bounds'
  BY NextBounds
<1>3. Bounds /\ Inv /\ Talk /\ Files /\ [Next]_vars => Files'
  BY NextFiles
<1>4. Bounds /\ Inv /\ Talk /\ Files => FilesInv
  BY FilesImply
<1> QED
  BY <1>1, <1>2, <1>3, <1>4, Invariance, EndsAgree, PTL DEF Spec
===============================================================================
