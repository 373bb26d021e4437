-------------------------------- MODULE Xfer --------------------------------
(***************************************************************************)
(* File transfer of libx/x/fer: a sender and a receiver (xTransfer) over   *)
(* one ordered reliable data channel, with backpressure, resume from a     *)
(* saved chunk bitmap and verification of the whole file, across attempts. *)
(*                                                                         *)
(* A file is a sequence of chunks and a chunk is the version of the source *)
(* it was read from, 0 for the hole that preallocation leaves.  The        *)
(* receiver's disk holds NAME.part, NAME.bitmap and NAME.  One step per    *)
(* handler; the receiver's handlers are cut where a crash leaves another   *)
(* disk.  A link that is down delivers nothing and tells nobody: nothing   *)
(* of p2p reports the loss of an established connection.                   *)
(***************************************************************************)
EXTENDS Naturals, FiniteSets, Sequences, FiniteSetsExt

CONSTANTS
  None, Torn,   \* no file; a bitmap file whose save was cut short
  Size,         \* number of chunks of each version of the source
  PersistEvery, \* XFER_BITMAP_PERSIST_INTERVAL
  HighWater,    \* XFER_SEND_HIGH_WATER_MARK, in messages
  SendBuffer,   \* messages the SCTP socket holds before EAGAIN
  Kept,         \* chunks whose tail stays in the stdio buffer until a flush
  MaxAttempts, MaxFaults, MaxCrashes \* bounds of the model

ASSUME SizeAssumption ==
  Size \in Seq(Nat) /\ Len(Size) > 0 /\ Kept \in SUBSET Nat
ASSUME BoundAssumption ==
  /\ {PersistEvery, SendBuffer, MaxAttempts} \subseteq Nat \ {0}
  /\ {HighWater, MaxFaults, MaxCrashes} \subseteq Nat

VARIABLES
  src,      \* version of the source file
  link,     \* new, up or down
  toR, toS, \* messages in flight to the receiver and to the sender
  buffered, \* messages sent since the channel was last dry
  s, r,     \* the two transfers
  part, dirty, bits, final, \* receiver's disk; dirty: chunks not flushed yet
  refused,  \* a FILE_DONE got EAGAIN
  attempt, faults, crashes

disk   == <<part, dirty, bits, final>>
wire   == <<link, toR, toS, buffered, refused>>
budget == <<attempt, faults, crashes>>
vars   == <<src, wire, s, r, disk, budget>>

Versions == 1..Len(Size)
Holes(n) == [c \in 0..n - 1 |-> 0]
Content(v) == [c \in 0..Size[v] - 1 |-> v]

ASSUME NoneAssumption ==
  \A v \in Versions : None \notin [0..Size[v] - 1 -> Versions \cup {0}]

NewSender(v) ==
  [state |-> "WaitingPeer", dc |-> "none", total |-> Size[v], next |-> 0,
   resume |-> {}, waiting |-> "none", paused |-> FALSE, timer |-> FALSE]
NewReceiver ==
  [state |-> "WaitingPeer", dc |-> "none", total |-> 0, bitmap |-> {},
   step |-> "idle", sha |-> None]

Init ==
  /\ src = 1 /\ link = "new" /\ toR = <<>> /\ toS = <<>> /\ buffered = 0
  /\ s = NewSender(1) /\ r = NewReceiver
  /\ part = None /\ dirty = {} /\ bits = None /\ final = None
  /\ refused = FALSE /\ attempt = 1 /\ faults = 0 /\ crashes = 0

Fault == faults < MaxFaults /\ faults' = faults + 1 /\ UNCHANGED <<attempt, crashes>>

-------------------------------------------------------------------------------
(* Sender.  t is its record and b the buffered amount when it sends.       *)
(* SendBinary succeeds on an open channel with room.                       *)
Room == Len(toR) < SendBuffer
Amount(t, b) == IF t.dc = "null" THEN 0 ELSE b

(* The first chunk from t.next on that the receiver does not have. *)
NextChunk(t) == Min({c \in t.next..t.total : c = t.total \/ c \notin t.resume})

(* All chunks sent: FILE_DONE with the hash of the source as it is now.    *)
(* What SendBinary returns is not looked at.                               *)
SendDone(t, b) ==
  /\ NextChunk(t) = t.total
  /\ s' = [t EXCEPT !.next = t.total, !.waiting = "ack"]
  /\ IF t.dc = "open" /\ Room
     THEN /\ toR' = Append(toR, [type |-> "DONE", sha |-> src])
          /\ buffered' = b + 1 /\ UNCHANGED refused
     ELSE refused' = (refused \/ t.dc = "open") /\ buffered' = b /\ UNCHANGED toR

Pause(t, b) ==
  LET c == NextChunk(t)
  IN /\ c < t.total
     /\ Amount(t, b) > HighWater \/ (c < Size[src] /\ t.dc = "open" /\ ~Room)
     /\ s' = [t EXCEPT !.next = c, !.paused = TRUE]
     /\ buffered' = b /\ UNCHANGED <<toR, refused>>

SendChunk(t, b) ==
  LET c == NextChunk(t)
  IN /\ c < t.total /\ b <= HighWater /\ c < Size[src] /\ t.dc = "open" /\ Room
     /\ toR' = Append(toR, [type |-> "CHUNK", id |-> c, data |-> src])
     /\ s' = [t EXCEPT !.next = c + 1, !.timer = TRUE]
     /\ buffered' = b + 1 /\ UNCHANGED refused

(* The source became shorter, or the channel is closed. *)
ChunkFails(t, b) ==
  LET c == NextChunk(t)
  IN /\ c < t.total /\ Amount(t, b) <= HighWater /\ (c >= Size[src] \/ t.dc # "open")
     /\ s' = [t EXCEPT !.next = c, !.state = "Failed"]
     /\ buffered' = b /\ UNCHANGED <<toR, refused>>

(* sender_send_next_chunk *)
SendNext(t, b) == SendDone(t, b) \/ Pause(t, b) \/ SendChunk(t, b) \/ ChunkFails(t, b)

(* Both sides reach the channel: sender_on_dc_open, on_pc_datachannel. *)
Open ==
  /\ link = "new" /\ link' = "up" /\ r.state # "gone"
  /\ s' = [s EXCEPT !.state = "Transferring", !.dc = "open", !.waiting = "resume"]
  /\ r' = [r EXCEPT !.dc = "open"]
  /\ toR' = <<[type |-> "META", total |-> s.total]>> /\ buffered' = 1
  /\ UNCHANGED <<src, toS, refused, disk, budget>>

(* sender_schedule_next *)
Timer ==
  /\ s.timer /\ SendNext([s EXCEPT !.timer = FALSE], buffered)
  /\ UNCHANGED <<src, link, toS, r, disk, budget>>

(* Mutant: what was paused is marked as running but nothing is sent. *)
DryForgets ==
  /\ toR = <<>> /\ buffered > 0 /\ s.dc = "open" /\ link = "up"
  /\ s' = [s EXCEPT !.paused = FALSE] /\ buffered' = 0
  /\ UNCHANGED <<toR, refused, src, link, toS, r, disk, budget>>

(* SENDER_DRY, sender_on_buffered_amount_low: nothing left in the socket. *)
Dry ==
  /\ toR = <<>> /\ buffered > 0 /\ s.dc = "open" /\ link = "up"
  /\ IF s.paused THEN SendNext([s EXCEPT !.paused = FALSE], 0)
     ELSE buffered' = 0 /\ UNCHANGED <<s, toR, refused>>
  /\ UNCHANGED <<src, link, toS, r, disk, budget>>

(* A message for the sender; a channel that is not open drops it. *)
Resume ==
  LET m == Head(toS)
      t == [s EXCEPT !.resume = m.has, !.waiting = "none"]
  IN /\ link = "up" /\ toS # <<>> /\ m.type = "RESUME" /\ toS' = Tail(toS)
     /\ IF s.dc = "open" /\ s.waiting = "resume"
        THEN SendNext(t, buffered)
        ELSE UNCHANGED <<s, toR, buffered, refused>>
     /\ UNCHANGED <<src, link, r, disk, budget>>

Ack ==
  LET m == Head(toS)
  IN /\ link = "up" /\ toS # <<>> /\ m.type = "ACK" /\ toS' = Tail(toS)
     /\ s' = IF s.dc = "open" /\ s.waiting = "ack"
             THEN [s EXCEPT !.waiting = "none", !.state = IF m.ok THEN "Done" ELSE "Failed"]
             ELSE s
     /\ UNCHANGED <<src, link, toR, buffered, refused, r, disk, budget>>

-------------------------------------------------------------------------------
(* Receiver: the next message of an open channel. *)
Take(type) ==
  /\ link = "up" /\ toR # <<>> /\ Head(toR).type = type /\ toR' = Tail(toR)
  /\ r.step = "idle" /\ r.dc = "open"
  /\ UNCHANGED <<src, link, buffered, refused, s>>

(* The saved bitmap can be taken up. *)
Saved == bits \notin {None, Torn} /\ part # None

Loadable(n) == Saved /\ bits.total = n

(* FILE_META of an empty file: there is no bitmap of no bits. *)
MetaEmpty ==
  /\ Take("META") /\ Head(toR).total = 0
  /\ r' = [r EXCEPT !.state = "Failed"] /\ UNCHANGED <<toS, disk, budget>>

(* FILE_META: take up the saved bitmap, or start afresh; answer with the   *)
(* bitmap, then save it.                                                   *)
Meta ==
  LET n == Head(toR).total
      has == IF Loadable(n) THEN bits.has ELSE {}
  IN /\ Take("META") /\ n > 0
     /\ IF Loadable(n) THEN UNCHANGED disk
        ELSE part' = Holes(n) /\ dirty' = {} /\ UNCHANGED <<bits, final>>
     /\ r' = [r EXCEPT !.total = n, !.bitmap = has,
                       !.state = "Transferring", !.step = "save"]
     /\ toS' = Append(toS, [type |-> "RESUME", has |-> has])
     /\ UNCHANGED budget

(* FILE_CHUNK.  A seek flushes what the last write left in the buffer. *)
Chunk ==
  LET m == Head(toR)
      has == r.bitmap \cup {m.id}
  IN /\ Take("CHUNK") /\ m.id \notin r.bitmap
     /\ part' = [part EXCEPT ![m.id] = m.data] /\ dirty' = {m.id} \cap Kept
     /\ r' = [r EXCEPT !.bitmap = has,
                !.step = IF Cardinality(has) % PersistEvery = 0 THEN "save" ELSE "idle"]
     /\ UNCHANGED <<toS, bits, final, budget>>

(* Mutant: the bit is set before the write is known to have worked. *)
MarkThenWrite ==
  LET c == Head(toR).id
  IN /\ Take("CHUNK") /\ c \notin r.bitmap /\ Fault
     /\ r' = [r EXCEPT !.state = "Failed", !.bitmap = @ \cup {c}]
     /\ \E data \in {part[c], 0} : part' = [part EXCEPT ![c] = data]
     /\ dirty' = {} /\ UNCHANGED <<toS, bits, final>>

WriteFails ==
  LET c == Head(toR).id
  IN /\ Take("CHUNK") /\ c \notin r.bitmap /\ Fault
     /\ r' = [r EXCEPT !.state = "Failed"]
     /\ \E data \in {part[c], 0} : part' = [part EXCEPT ![c] = data]
     /\ dirty' = {} /\ UNCHANGED <<toS, bits, final>>

(* FILE_DONE: flush, close, save the bitmap, then verify. *)
Done ==
  /\ Take("DONE")
  /\ r' = [r EXCEPT !.step = "saveAll", !.sha = Head(toR).sha] /\ dirty' = {}
  /\ UNCHANGED <<toS, part, bits, final, budget>>

(* xfer_bitmap_save empties the file before it writes it. *)
SaveOpen ==
  /\ r.step \in {"save", "saveAll"} /\ bits' = Torn
  /\ r' = [r EXCEPT !.step = IF @ = "save" THEN "write" ELSE "writeAll"]
  /\ UNCHANGED <<src, wire, s, part, dirty, final, budget>>

SaveWrite ==
  /\ r.step \in {"write", "writeAll"}
  /\ bits' = [total |-> r.total, has |-> r.bitmap]
  /\ r' = [r EXCEPT !.step = IF @ = "write" THEN "idle" ELSE "verify"]
  /\ UNCHANGED <<src, wire, s, part, dirty, final, budget>>

(* Mutant: the chunks are counted instead of hashed. *)
VerifyCount ==
  LET ok == Cardinality(r.bitmap) = r.total
  IN /\ r.step = "verify" /\ toS' = Append(toS, [type |-> "ACK", ok |-> ok])
     /\ r' = [r EXCEPT !.step = IF ok THEN "rename" ELSE "idle",
                       !.state = IF ok THEN @ ELSE "Failed"]
     /\ UNCHANGED <<src, link, toR, buffered, refused, s, disk, budget>>

(* Hash .part and tell the sender; only then rename and clean up. *)
Verify ==
  LET ok == part = Content(r.sha)
  IN /\ r.step = "verify" /\ toS' = Append(toS, [type |-> "ACK", ok |-> ok])
     /\ r' = [r EXCEPT !.step = IF ok THEN "rename" ELSE "idle",
                       !.state = IF ok THEN @ ELSE "Failed"]
     /\ UNCHANGED <<src, link, toR, buffered, refused, s, disk, budget>>

(* The result of the rename is not looked at. *)
Rename ==
  /\ r.step = "rename" /\ r' = [r EXCEPT !.step = "remove"]
  /\ \/ final' = part /\ part' = None /\ UNCHANGED budget
     \/ Fault /\ UNCHANGED <<final, part>>
  /\ UNCHANGED <<src, wire, s, dirty, bits>>

Remove ==
  /\ r.step = "remove" /\ bits' = None
  /\ r' = [r EXCEPT !.step = "idle", !.state = "Done"]
  /\ UNCHANGED <<src, wire, s, part, dirty, final, budget>>

-------------------------------------------------------------------------------
Live(t) == t.state \notin {"Done", "Failed", "gone"}
Hangup(t) == [t EXCEPT !.state = "Failed", !.dc = IF @ = "none" THEN @ ELSE "null"]

(* xTransferCancel.  The stream reset reaches the peer behind the data and *)
(* closes its channel there, which nothing reports to the transfer.        *)
CancelSender ==
  /\ Live(s) /\ Fault /\ s' = Hangup(s)
  /\ toR' = IF s.dc = "open" THEN Append(toR, [type |-> "RESET"]) ELSE toR
  /\ UNCHANGED <<src, link, toS, buffered, refused, r, disk>>

CancelReceiver ==
  /\ Live(r) /\ r.step = "idle" /\ Fault /\ r' = Hangup(r)
  /\ toS' = IF r.dc = "open" THEN Append(toS, [type |-> "RESET"]) ELSE toS
  /\ UNCHANGED <<src, link, toR, buffered, refused, s, disk>>

(* xDataChannelMgrOnStreamClose *)
ResetAtReceiver ==
  /\ Take("RESET") /\ r' = [r EXCEPT !.dc = "closed"] /\ UNCHANGED <<toS, disk, budget>>
ResetAtSender ==
  /\ link = "up" /\ toS # <<>> /\ Head(toS).type = "RESET" /\ toS' = Tail(toS)
  /\ s' = IF s.dc = "open" THEN [s EXCEPT !.dc = "closed"] ELSE s
  /\ UNCHANGED <<src, link, toR, buffered, refused, r, disk, budget>>

(* A channel that is not open drops what arrives. *)
DropAtReceiver ==
  /\ link = "up" /\ toR # <<>> /\ r.dc \in {"closed", "null"} /\ r.step = "idle"
  /\ toR' = Tail(toR)
  /\ UNCHANGED <<src, link, toS, buffered, refused, s, r, disk, budget>>

(* The network goes away: nobody is told. *)
Cut ==
  /\ link = "up" /\ Fault /\ link' = "down"
  /\ UNCHANGED <<src, toR, toS, buffered, refused, s, r, disk>>

(* The receiving process is killed: unflushed data is lost. *)
Crash ==
  /\ r.state # "gone" /\ crashes < MaxCrashes /\ crashes' = crashes + 1
  /\ r' = [NewReceiver EXCEPT !.state = "gone"] /\ link' = "down"
  /\ part' = IF part = None THEN None
             ELSE [c \in DOMAIN part |-> IF c \in dirty THEN 0 ELSE part[c]]
  /\ dirty' = {}
  /\ UNCHANGED <<src, toR, toS, buffered, refused, s, bits, final, attempt, faults>>

(* Somebody writes the source file. *)
Edit ==
  /\ \E v \in Versions : v > src /\ src' = v
  /\ UNCHANGED <<wire, s, r, disk, budget>>

(* The users destroy both transfers and try again: a failure was reported, *)
(* they gave up on a dead peer, or they send the file once more.           *)
Restart ==
  /\ attempt < MaxAttempts /\ attempt' = attempt + 1
  /\ "Failed" \in {s.state, r.state} \/ link = "down" \/ s.state = "Done"
  /\ r.step = "idle"
  /\ s' = NewSender(src) /\ r' = NewReceiver /\ link' = "new"
  /\ toR' = <<>> /\ toS' = <<>> /\ buffered' = 0 /\ refused' = FALSE /\ dirty' = {}
  /\ UNCHANGED <<src, part, bits, final, faults, crashes>>

Handlers ==
  \/ Open \/ Timer \/ Dry \/ Resume \/ Ack \/ ResetAtSender
  \/ MetaEmpty \/ Meta \/ Chunk \/ Done \/ SaveOpen \/ SaveWrite
  \/ Verify \/ Rename \/ Remove \/ ResetAtReceiver \/ DropAtReceiver
Next ==
  \/ Handlers \/ Restart
  \/ WriteFails \/ CancelSender \/ CancelReceiver \/ Cut \/ Crash \/ Edit

(* The loops dispatch what is ready; a user with a failed or dead transfer *)
(* tries again.                                                            *)
Spec == Init /\ [][Next]_vars /\ WF_vars(Handlers) /\ WF_vars(Restart)

-------------------------------------------------------------------------------
Dc == {"none", "open", "closed", "null"}
TypeOK ==
  /\ src \in Versions /\ link \in {"new", "up", "down"}
  /\ s.state \in {"WaitingPeer", "Transferring", "Done", "Failed"} /\ s.dc \in Dc
  /\ r.state \in {"WaitingPeer", "Transferring", "Done", "Failed", "gone"} /\ r.dc \in Dc
  /\ s.waiting \in {"none", "resume", "ack"} /\ s.next \in 0..s.total
  /\ r.step \in {"idle", "save", "write", "saveAll", "writeAll", "verify", "rename", "remove"}
  /\ r.bitmap \subseteq 0..r.total - 1 /\ (dirty # {} => part # None)
  /\ attempt \in 1..MaxAttempts /\ faults \in 0..MaxFaults /\ crashes \in 0..MaxCrashes

Whole(content) == \E v \in Versions : content = Content(v)

(* What the transfer promises: the name of the file only ever holds a      *)
(* version of the source, never a mixture of two or one with holes, and a  *)
(* sender told Done has a receiver with all of it, under its name or, when *)
(* the process died or the rename failed, in .part.  (The receiver answers *)
(* before it renames, and the source may be edited under the sender.)      *)
DeliveredWhole ==
  /\ final # None => Whole(final)
  /\ s.state = "Done" => (part # None /\ Whole(part)) \/ (final # None /\ Whole(final))

(* A saved bitmap that the next META would load claims only chunks that    *)
(* .part really holds, and while chunks arrive it is behind the bitmap in  *)
(* memory by less than the interval of the saves: what a crash costs.      *)
ResumeIsHonest ==
  /\ Saved /\ DOMAIN part = 0..bits.total - 1 /\ r.step # "save" =>
       \A c \in bits.has : part[c] # 0
  /\ Saved /\ r.state = "Transferring" /\ r.step = "idle" =>
       Cardinality(r.bitmap \ bits.has) < PersistEvery

(* Both ends and what they keep on disk, between any two steps. *)
FilesInv == TypeOK /\ ResumeIsHonest

(* A transfer that was cancelled, or failed, stays failed: what the header *)
(* says of xTransferCancel and the state diagram of Failed.  A cancel      *)
(* before the channel opens leaves the connection to be made.              *)
CancelSticks ==
  [][attempt' = attempt =>
       /\ s.state = "Failed" => s'.state = "Failed"
       /\ r.state = "Failed" => r'.state \in {"Failed", "gone"}]_vars

(* Under bounded faults, retries deliver the file, unless somebody edits   *)
(* the source (chunks of two versions are then kept for ever) or FILE_DONE *)
(* finds the socket full (its refusal is dropped, both sides then wait).   *)
Calm == src = 1 /\ ~refused
TransferCompletes == []Calm => <>(s.state = "Done")
=============================================================================
