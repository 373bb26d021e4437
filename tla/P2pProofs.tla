------------------------------ MODULE P2pProofs ------------------------------
(***************************************************************************)
(* The peer-to-peer layers: those of two peer connections fit what they    *)
(* report, and messages stay on their channel, for any number of channels  *)
(* and any table size; and an ICE agent credits each answer to the pair    *)
(* that was checked, keeps its tables and timers in order, and reports its *)
(* states in the order the peer connection relies on, for any number of    *)
(* hosts, servers and candidates.                                          *)
(***************************************************************************)
EXTENDS PeerConnection, IceAgent, FiniteSetTheorems, SequenceTheorems, TLAPS

Ices    == {"New", "Gathering", "Checking", "Connected", "Failed", "Closed"}
Dtls    == {"none", "New", "Connecting", "Connected", "Failed", "Closed"}
Roles   == {"none", "passive", "active"}
Sctps   == {"none", "connecting", "stuck", "late", "up", "lost"}
Pcs     == {"New", "Connecting", "Connected", "Failed", "Closed"}
Stages  == {"Connecting", "Open", "Closing", "Closed"}
Kinds   == {"open", "ack", "data", "reset", "done"}
Nexts   == {2 * n : n \in 0..MaxCreates}

(* A channel, and a message, is named by its creator and its stream. *)
Ids           == [by : Creators, sid : Sids]
IdsOn(sid)    == [by : Creators, sid : {sid}]
Chans         == {c \in [sid : Sids, id : Ids, st : Stages] : c.id.sid = c.sid}
Messages(sid) == [kind : Kinds, id : IdsOn(sid)]

PeerRec ==
  [ice : Ices, dtls : Dtls, role : Roles, sctp : Sctps, pc : Pcs, remote : BOOLEAN,
   pending : Nat, next : Nexts, chans : Seq(Chans)]

IsWire(w) ==
  /\ w = [p \in Peers |-> [s \in Sids |-> w[p][s]]]
  /\ \A p \in Peers, s \in Sids : w[p][s] \in Seq(Messages(s))

(* What the layers of one peer know of each other *)
Layers(x) ==
  /\ x.ice = "New" => x.dtls = "none"
  /\ x.dtls = "Closed" => x.ice = "Closed"
  /\ x.dtls \in {"Connecting", "Connected", "Failed"} => x.ice = "Connected"
  /\ x.ice = "Connected" => x.remote
  /\ x.sctp # "none" => x.dtls = "Connected"
  /\ x.pc = "Connected" <=> HasMgr(x)

(* Channels wait before there is a manager, and are in its table after.    *)
Waiting(p, x) ==
  /\ HasMgr(x) => x.pending = 0
  /\ ~HasMgr(x) => x.chans = <<>>
  /\ x.pending > 0 => p \in Creators
  /\ x.pending <= MaxChannels /\ Len(x.chans) <= MaxChannels
  /\ x.next + 2 * x.pending <= 2 * MaxCreates

(* The roles are settled before a handshake can start. *)
Role(p, x) ==
  /\ p = "offerer" /\ x.remote => x.role = "active" /\ x.dtls # "none"
  /\ p = "answerer" /\ x.dtls \notin {"none", "Closed"} => x.role = "passive"

Fits(p, x) == x \in PeerRec /\ Layers(x) /\ Waiting(p, x) /\ Role(p, x)

Inv ==
  /\ peer = [p \in Peers |-> peer[p]]
  /\ \A p \in Peers : Fits(p, peer[p])
  /\ IsWire(wire)
  /\ routed \subseteq {r \in [sent : Ids, got : Ids] : r.sent.sid = r.got.sid}

LEMMA Numbers ==
  /\ MaxChannels \in Nat \ {0} /\ MaxCreates \in Nat \ {0} /\ Creators \subseteq Peers
  /\ Sids \subseteq Nat /\ Nexts \subseteq Nat
  /\ \A a \in Nexts, k \in Nat :
       /\ a + 2 * k < 2 * MaxCreates =>
            a + 2 * k \in Sids /\ a + 2 * (k + 1) <= 2 * MaxCreates
       /\ a + 2 * k <= 2 * MaxCreates => a + 2 * k \in Nexts
<1>1. MaxChannels \in Nat \ {0} /\ MaxCreates \in Nat \ {0} /\ Creators \subseteq Peers
  BY PeerAssumption
<1>2. Sids \subseteq Nat /\ Nexts \subseteq Nat
  BY <1>1 DEF Sids, Nexts
<1>3. ASSUME NEW a \in Nexts, NEW k \in Nat
      PROVE  /\ a + 2 * k < 2 * MaxCreates =>
                  a + 2 * k \in Sids /\ a + 2 * (k + 1) <= 2 * MaxCreates
             /\ a + 2 * k <= 2 * MaxCreates => a + 2 * k \in Nexts
  <2>1. PICK n \in 0..MaxCreates : a = 2 * n
    BY DEF Nexts
  <2>2. a + 2 * k = 2 * (n + k)
    BY <1>1, <2>1
  <2>3. a + 2 * k < 2 * MaxCreates =>
          n + k \in 0..MaxCreates - 1 /\ a + 2 * (k + 1) <= 2 * MaxCreates
    BY <1>1, <2>1
  <2>4. a + 2 * k <= 2 * MaxCreates => n + k \in 0..MaxCreates
    BY <1>1, <2>1
  <2> QED
    BY <2>2, <2>3, <2>4 DEF Sids, Nexts
<1> QED
  BY <1>1, <1>2, <1>3

LEMMA Names ==
  /\ {"New", "Gathering", "Checking", "Connected", "Failed", "Closed"} \subseteq Ices
  /\ {"none", "New", "Connecting", "Connected", "Failed", "Closed"} \subseteq Dtls
  /\ {"none", "passive", "active"} \subseteq Roles
  /\ {"none", "connecting", "stuck", "late", "up", "lost"} \subseteq Sctps
  /\ {"New", "Connecting", "Connected", "Failed", "Closed"} \subseteq Pcs
  /\ {"Connecting", "Open", "Closing", "Closed"} \subseteq Stages
  /\ {"open", "ack", "data", "reset", "done"} \subseteq Kinds
BY DEF Ices, Dtls, Roles, Sctps, Pcs, Stages, Kinds

LEMMA Others == \A p \in Peers : Other(p) \in Peers /\ Other(p) # p
BY DEF Other, Peers

(* What ICE may report next; it never leaves Connected. *)
LEMMA PhaseOrder ==
  ASSUME NEW p, NEW i \in Ices, NEW s, s \in Phases(p)!Follows[i]
  PROVE  s \in Ices \ {"New", "Closed"} /\ i \notin {"Connected", "Closed"}
BY DEF Phases!Follows, Ices

LEMMA FreshTyped == Fresh \in PeerRec
<1>1. 0 = 2 * 0 /\ 0 \in 0..MaxCreates
  BY Numbers
<1>2. 0 \in Nexts
  BY <1>1 DEF Nexts
<1> QED
  BY <1>2, Names DEF Fresh, PeerRec

LEMMA InitInv == Init => Inv
<1> SUFFICES ASSUME Init PROVE Inv
  OBVIOUS
<1>1. peer = [p \in Peers |-> Fresh] /\ wire = [p \in Peers |-> [s \in Sids |-> <<>>]] /\ routed = {}
  BY DEF Init
<1>3. Fresh \in PeerRec
  BY FreshTyped
<1>4. \A p : Layers(Fresh) /\ Waiting(p, Fresh) /\ Role(p, Fresh)
  BY Numbers DEF Fresh, Layers, Waiting, Role, HasMgr
<1>5. IsWire(wire)
  BY <1>1 DEF IsWire
<1> QED
  BY <1>1, <1>3, <1>4, <1>5 DEF Inv, Fits

(* A step of one peer *)
LEMMA OnePeer ==
  ASSUME Inv, NEW p \in Peers, NEW x, Fits(p, x), peer' = [peer EXCEPT ![p] = x],
         IsWire(wire'), routed' = routed
  PROVE  Inv'
<1>1. \A q \in Peers : peer'[q] = IF q = p THEN x ELSE peer[q]
  BY DEF Inv
<1>2. peer' = [q \in Peers |-> peer'[q]]
  BY DEF Inv
<1>3. \A q \in Peers : Fits(q, peer'[q])
  BY <1>1 DEF Inv
<1> QED
  BY <1>2, <1>3 DEF Inv
-------------------------------------------------------------------------------
(* The fields that connecting assigns *)
LEMMA Assigned ==
  ASSUME NEW x \in PeerRec
  PROVE  /\ \A i \in Ices : [x EXCEPT !.ice = i] \in PeerRec
         /\ \A c \in Pcs : [x EXCEPT !.pc = c] \in PeerRec
         /\ \A d \in Dtls : [x EXCEPT !.dtls = d] \in PeerRec
         /\ \A d \in Dtls, o \in Roles : [x EXCEPT !.dtls = d, !.role = o] \in PeerRec
         /\ \A o \in Roles : [x EXCEPT !.remote = TRUE, !.role = o] \in PeerRec
         /\ \A d \in Dtls, c \in Pcs : [x EXCEPT !.dtls = d, !.pc = c] \in PeerRec
         /\ \A i \in Ices, d \in Dtls, c \in Pcs, n \in Nexts :
              [x EXCEPT !.ice = i, !.dtls = d, !.pc = c, !.next = n] \in PeerRec
         /\ \A u \in Sctps : [x EXCEPT !.sctp = u] \in PeerRec
         /\ \A d \in Dtls, u \in Sctps, c \in Pcs :
              [x EXCEPT !.dtls = d, !.sctp = u, !.pc = c] \in PeerRec
BY DEF PeerRec

LEMMA OnIceFields ==
  ASSUME NEW x \in PeerRec, NEW s \in Ices \ {"New", "Closed"}
  PROVE  LET y == OnIce(x, s)
         IN  /\ y \in PeerRec /\ y.ice = s
             /\ y.role = x.role /\ y.sctp = x.sctp /\ y.remote = x.remote
             /\ y.pending = x.pending /\ y.next = x.next /\ y.chans = x.chans
             /\ y.dtls = IF s = "Connected" /\ x.dtls = "New" THEN "Connecting" ELSE x.dtls
             /\ y.pc = CASE s = "Checking" -> "Connecting"
                         [] s = "Failed" -> "Failed"
                         [] OTHER -> x.pc
<1> DEFINE z == [x EXCEPT !.ice = s]
<1>1. z \in PeerRec
  BY Assigned
<1>2. /\ z.ice = s /\ z.role = x.role /\ z.sctp = x.sctp /\ z.remote = x.remote
      /\ z.pending = x.pending /\ z.next = x.next /\ z.chans = x.chans
      /\ z.dtls = x.dtls /\ z.pc = x.pc
  BY DEF PeerRec
<1> HIDE DEF z
<1>3. CASE s = "Checking"
  <2>1. OnIce(x, s) = [z EXCEPT !.pc = "Connecting"]
    BY <1>3 DEF OnIce, z
  <2>2. [z EXCEPT !.pc = "Connecting"] \in PeerRec
    BY <1>1, Assigned, Names
  <2> QED
    BY <1>1, <1>2, <1>3, <2>1, <2>2 DEF PeerRec
<1>4. CASE s = "Failed"
  <2>1. OnIce(x, s) = [z EXCEPT !.pc = "Failed"]
    BY <1>4 DEF OnIce, z
  <2>2. [z EXCEPT !.pc = "Failed"] \in PeerRec
    BY <1>1, Assigned, Names
  <2> QED
    BY <1>1, <1>2, <1>4, <2>1, <2>2 DEF PeerRec
<1>5. CASE s = "Connected" /\ x.dtls = "New"
  <2>1. OnIce(x, s) = [z EXCEPT !.dtls = "Connecting"]
    BY <1>5 DEF OnIce, z
  <2>2. [z EXCEPT !.dtls = "Connecting"] \in PeerRec
    BY <1>1, Assigned, Names
  <2> QED
    BY <1>1, <1>2, <1>5, <2>1, <2>2 DEF PeerRec
<1>6. CASE s \notin {"Checking", "Failed"} /\ ~(s = "Connected" /\ x.dtls = "New")
  <2>1. OnIce(x, s) = z
    BY <1>6 DEF OnIce, z
  <2> QED
    BY <1>1, <1>2, <1>6, <2>1
<1> QED
  BY <1>3, <1>4, <1>5, <1>6

(* Below a handshake nothing stands: ICE may move, once both descriptions  *)
(* are there to Connected, which starts the handshake.                     *)
LEMMA OnIceFits ==
  ASSUME NEW p \in Peers, NEW x, Fits(p, x), NEW s \in Ices \ {"New", "Closed"},
         x.ice \notin {"New", "Connected", "Closed"}, s = "Connected" => x.remote
  PROVE  Fits(p, OnIce(x, s))
<1> DEFINE y == OnIce(x, s)
<1>1. /\ y \in PeerRec /\ y.ice = s
      /\ y.role = x.role /\ y.sctp = x.sctp /\ y.remote = x.remote
      /\ y.pending = x.pending /\ y.next = x.next /\ y.chans = x.chans
      /\ y.dtls = IF s = "Connected" /\ x.dtls = "New" THEN "Connecting" ELSE x.dtls
      /\ y.pc = CASE s = "Checking" -> "Connecting" [] s = "Failed" -> "Failed" [] OTHER -> x.pc
  BY OnIceFields DEF Fits
<1> HIDE DEF y
<1>2. x.sctp = "none" /\ x.dtls \in {"none", "New", "Closed"} /\ x.pc # "Connected" /\ ~HasMgr(x)
  BY DEF Fits, Layers, HasMgr, PeerRec, Dtls
<1>3. ~HasMgr(y) /\ y.pc # "Connected"
  BY <1>1, <1>2 DEF HasMgr
<1>4. x.dtls # "Closed"
  BY DEF Fits, Layers
<1>5. Layers(y)
  BY <1>1, <1>2, <1>3, <1>4 DEF Fits, Layers
<1>6. Waiting(p, y)
  BY <1>1, <1>2, <1>3 DEF Fits, Waiting
<1>7. Role(p, y)
  BY <1>1, <1>2 DEF Fits, Role
<1> QED
  BY <1>1, <1>5, <1>6, <1>7 DEF Fits, y

LEMMA IceReportsInv ==
  ASSUME Inv, NEW p \in Peers, IceReports(p) PROVE Inv'
<1> DEFINE x == peer[p]
<1>1. Fits(p, x) /\ x.ice \in Ices /\ x.ice # "New"
  BY DEF Inv, Fits, PeerRec, IceReports
<1>2. PICK s \in Reports(p) : peer' = [peer EXCEPT ![p] = OnIce(x, s)]
  BY DEF IceReports
<1>3. s \in Ices \ {"New", "Closed"} /\ x.ice \notin {"Connected", "Closed"}
  BY <1>1, <1>2, PhaseOrder DEF Reports
<1>4. s = "Connected" => x.remote
  BY <1>2 DEF Reports
<1>5. Fits(p, OnIce(x, s))
  BY <1>1, <1>3, <1>4, OnIceFits
<1>6. IsWire(wire') /\ routed' = routed
  BY DEF IceReports, Inv
<1> QED
  BY <1>2, <1>5, <1>6, OnePeer

LEMMA DescribeInv ==
  ASSUME Inv, NEW p \in Peers, Describe(p) PROVE Inv'
<1> DEFINE x == peer[p]
<1>1. Fits(p, x) /\ x.ice = "New" /\ x.dtls = "none"
  BY DEF Inv, Fits, Layers, Describe
<1>2. PICK s \in {"Gathering", "Failed", "Checking"} :
        peer' = [peer EXCEPT ![p] = [OnIce(x, s) EXCEPT !.dtls = "New", !.role = "passive"]]
  BY DEF Describe
<1>3. s \in Ices \ {"New", "Closed"} /\ s # "Connected"
  BY Names
<1> DEFINE y == OnIce(x, s)
           z == [y EXCEPT !.dtls = "New", !.role = "passive"]
<1>4. /\ y \in PeerRec /\ y.ice = s
      /\ y.sctp = x.sctp /\ y.remote = x.remote
      /\ y.pending = x.pending /\ y.next = x.next /\ y.chans = x.chans
      /\ y.pc = CASE s = "Checking" -> "Connecting" [] s = "Failed" -> "Failed" [] OTHER -> x.pc
  BY <1>1, <1>3, OnIceFields DEF Fits
<1> HIDE DEF y
<1>5. z \in PeerRec
  BY <1>4, Assigned, Names
<1>6. /\ z.ice = s /\ z.sctp = x.sctp /\ z.remote = x.remote /\ z.pending = x.pending
      /\ z.next = x.next /\ z.chans = x.chans /\ z.pc = y.pc
      /\ z.dtls = "New" /\ z.role = "passive"
  BY <1>4 DEF PeerRec
<1> HIDE DEF z
<1>7. x.sctp = "none" /\ x.pc # "Connected" /\ ~HasMgr(x)
  BY <1>1 DEF Fits, Layers, HasMgr
<1>8. ~HasMgr(z) /\ z.pc # "Connected"
  BY <1>4, <1>6, <1>7 DEF HasMgr
<1>9. Layers(z)
  BY <1>3, <1>6, <1>7, <1>8, <1>2 DEF Layers
<1>10. Waiting(p, z)
  BY <1>1, <1>6, <1>7, <1>8 DEF Fits, Waiting
<1>11. Role(p, z)
  BY <1>1, <1>6 DEF Fits, Role
<1>12. Fits(p, z) /\ peer' = [peer EXCEPT ![p] = z]
  BY <1>2, <1>5, <1>9, <1>10, <1>11 DEF Fits, y, z
<1>13. IsWire(wire') /\ routed' = routed
  BY DEF Describe, Inv
<1> QED
  BY <1>12, <1>13, OnePeer

LEMMA SetRemoteInv ==
  ASSUME Inv, NEW p \in Peers, SetRemote(p) PROVE Inv'
<1> DEFINE o == IF p = "offerer" /\ peer[p].dtls = "New" THEN "active" ELSE peer[p].role
           x == [peer[p] EXCEPT !.remote = TRUE, !.role = o]
           now == {s \in {"Checking", "Failed"} : x.ice # "New" /\ s \in Phases(p)!Follows[x.ice]}
<1>1. /\ Fits(p, peer[p]) /\ ~peer[p].remote /\ peer[p].ice # "Closed"
      /\ p = "offerer" => peer[p].dtls # "none"
      /\ peer' \in {[peer EXCEPT ![p] = y] : y \in {x} \cup {OnIce(x, s) : s \in now}}
      /\ UNCHANGED <<wire, routed>>
  BY DEF Inv, SetRemote
<1>2. o \in Roles
  BY <1>1, Names DEF Fits, PeerRec
<1>3. x \in PeerRec
  BY <1>1, <1>2, Assigned DEF Fits
<1>4. /\ x.ice = peer[p].ice /\ x.dtls = peer[p].dtls /\ x.sctp = peer[p].sctp
      /\ x.pc = peer[p].pc /\ x.pending = peer[p].pending /\ x.next = peer[p].next
      /\ x.chans = peer[p].chans /\ x.remote = TRUE /\ x.role = o
  BY <1>1 DEF Fits, PeerRec
<1> HIDE DEF x
<1>5. HasMgr(x) <=> HasMgr(peer[p])
  BY <1>4 DEF HasMgr
<1>6. Layers(x) /\ Waiting(p, x)
  BY <1>1, <1>4, <1>5 DEF Fits, Layers, Waiting
<1>7. p = "offerer" => peer[p].dtls = "New"
  BY <1>1 DEF Fits, Layers, PeerRec, Dtls
<1>8. Role(p, x)
  BY <1>1, <1>4, <1>7 DEF Fits, Role
<1>9. Fits(p, x)
  BY <1>3, <1>6, <1>8 DEF Fits
<1>10. ASSUME NEW s \in now PROVE Fits(p, OnIce(x, s))
  <2>1. s \in Ices \ {"New", "Closed"} /\ x.ice \notin {"New", "Connected", "Closed"}
    BY <1>3, PhaseOrder DEF PeerRec
  <2> QED
    BY <1>9, <2>1, <1>4, OnIceFits
<1>11. PICK y \in {x} \cup {OnIce(x, s) : s \in now} : peer' = [peer EXCEPT ![p] = y]
  BY <1>1
<1>12. Fits(p, y)
  BY <1>9, <1>10, <1>11
<1> QED
  BY <1>1, <1>11, <1>12, OnePeer DEF Inv

LEMMA DtlsDoneInv ==
  ASSUME Inv, NEW p \in Peers, DtlsDone(p) PROVE Inv'
<1> DEFINE x == peer[p]
<1>1. Fits(p, x) /\ x.dtls = "Connecting" /\ x.ice = "Connected" /\ x.sctp = "none"
  BY DEF Inv, Fits, Layers, DtlsDone
<1>2. PICK u \in {"connecting", "stuck", "none"} :
        peer' = [peer EXCEPT ![p] = [x EXCEPT !.dtls = "Connected", !.sctp = u,
                                              !.pc = IF u = "none" THEN "Failed" ELSE x.pc]]
  BY DEF DtlsDone
<1> DEFINE c == IF u = "none" THEN "Failed" ELSE x.pc
           y == [x EXCEPT !.dtls = "Connected", !.sctp = u, !.pc = c]
<1>3. c \in Pcs /\ c \in {"Failed", x.pc} /\ u \in Sctps
  BY <1>1, Names DEF Fits, PeerRec
<1> HIDE DEF c
<1>4. y \in PeerRec
  BY <1>1, <1>3, Assigned, Names DEF Fits
<1>5. /\ y.ice = "Connected" /\ y.remote = x.remote /\ y.pending = x.pending
      /\ y.next = x.next /\ y.chans = x.chans /\ y.role = x.role
      /\ y.dtls = "Connected" /\ y.sctp = u /\ y.pc = c
  BY <1>1 DEF Fits, PeerRec
<1> HIDE DEF y
<1>6. ~HasMgr(x) /\ ~HasMgr(y) /\ x.pc # "Connected"
  BY <1>1, <1>5 DEF Fits, Layers, HasMgr
<1>7. Layers(y)
  BY <1>1, <1>3, <1>5, <1>6 DEF Fits, Layers
<1>8. Waiting(p, y) /\ Role(p, y)
  BY <1>1, <1>5, <1>6 DEF Fits, Waiting, Role
<1>9. Fits(p, y) /\ peer' = [peer EXCEPT ![p] = y]
  BY <1>2, <1>4, <1>7, <1>8 DEF Fits, y, c
<1>10. IsWire(wire') /\ routed' = routed
  BY DEF DtlsDone, Inv
<1> QED
  BY <1>9, <1>10, OnePeer

LEMMA HandshakeFailsInv ==
  ASSUME Inv, NEW p \in Peers, HandshakeFails(p) PROVE Inv'
<1> DEFINE x == peer[p]
           y == [x EXCEPT !.dtls = "Failed", !.pc = "Failed"]
<1>1. /\ Fits(p, x) /\ x.dtls = "Connecting" /\ x.ice = "Connected" /\ x.sctp = "none"
      /\ peer' = [peer EXCEPT ![p] = y] /\ IsWire(wire') /\ routed' = routed
  BY DEF Inv, Fits, Layers, HandshakeFails
<1>2. y \in PeerRec
  BY <1>1, Assigned, Names DEF Fits
<1>3. /\ y.ice = "Connected" /\ y.remote = x.remote /\ y.pending = x.pending
      /\ y.next = x.next /\ y.chans = x.chans /\ y.role = x.role
      /\ y.dtls = "Failed" /\ y.sctp = "none" /\ y.pc = "Failed"
  BY <1>1 DEF Fits, PeerRec
<1> HIDE DEF y
<1>4. ~HasMgr(x) /\ ~HasMgr(y)
  BY <1>1, <1>3 DEF HasMgr
<1>5. Layers(y) /\ Waiting(p, y) /\ Role(p, y)
  BY <1>1, <1>3, <1>4 DEF Fits, Layers, Waiting, Role
<1> QED
  BY <1>1, <1>2, <1>5, OnePeer DEF Fits

(* The association moves on without anybody being told. *)
LEMMA SctpMoves ==
  ASSUME Inv, NEW p \in Peers, NEW u \in Sctps \ {"none"},
         peer[p].sctp # "none", u \in {"up", "lost"} <=> HasMgr(peer[p]),
         peer' = [peer EXCEPT ![p] = [peer[p] EXCEPT !.sctp = u]],
         UNCHANGED <<wire, routed>>
  PROVE  Inv'
<1> DEFINE x == peer[p]
           y == [x EXCEPT !.sctp = u]
<1>1. Fits(p, x) /\ peer' = [peer EXCEPT ![p] = y] /\ IsWire(wire')
  BY DEF Inv
<1>2. y \in PeerRec
  BY <1>1, Assigned DEF Fits
<1>3. /\ y.ice = x.ice /\ y.remote = x.remote /\ y.pending = x.pending
      /\ y.next = x.next /\ y.chans = x.chans /\ y.role = x.role
      /\ y.dtls = x.dtls /\ y.sctp = u /\ y.pc = x.pc
  BY <1>1 DEF Fits, PeerRec
<1> HIDE DEF y
<1>4. HasMgr(x) <=> HasMgr(y)
  BY <1>3 DEF HasMgr
<1>5. Layers(y) /\ Waiting(p, y) /\ Role(p, y)
  BY <1>1, <1>3, <1>4 DEF Fits, Layers, Waiting, Role
<1> QED
  BY <1>1, <1>2, <1>5, OnePeer DEF Fits

LEMMA AssocTimeoutInv ==
  ASSUME Inv, NEW p \in Peers, AssocTimeout(p) PROVE Inv'
<1>1. peer' = [peer EXCEPT ![p] = [peer[p] EXCEPT !.sctp = "late"]]
  BY DEF AssocTimeout
<1>2. peer[p].sctp = "connecting" /\ UNCHANGED <<wire, routed>>
  BY DEF AssocTimeout
<1>3. "late" \in Sctps \ {"none"}
  BY Names
<1>4. "late" \in {"up", "lost"} <=> HasMgr(peer[p])
  BY <1>2 DEF HasMgr
<1> QED
  BY <1>1, <1>2, <1>3, <1>4, SctpMoves, Zenon

LEMMA SctpLostInv ==
  ASSUME Inv, NEW p \in Peers, SctpLost(p) PROVE Inv'
<1>1. peer' = [peer EXCEPT ![p] = [peer[p] EXCEPT !.sctp = "lost"]]
  BY DEF SctpLost
<1>2. peer[p].sctp = "up" /\ UNCHANGED <<wire, routed>>
  BY DEF SctpLost
<1>3. "lost" \in Sctps \ {"none"}
  BY Names
<1>4. "lost" \in {"up", "lost"} <=> HasMgr(peer[p])
  BY <1>2 DEF HasMgr
<1> QED
  BY <1>1, <1>2, <1>3, <1>4, SctpMoves, Zenon

LEMMA DestroyInv ==
  ASSUME Inv, NEW p \in Peers, Destroy(p) PROVE Inv'
<1> DEFINE x == peer[p]
           y == [Fresh EXCEPT !.ice = "Closed", !.dtls = "Closed", !.pc = "Closed", !.next = x.next]
<1>1. Fits(p, x) /\ peer' = [peer EXCEPT ![p] = y] /\ routed' = routed
  BY DEF Inv, Destroy
<1>2. x.next \in Nexts /\ x.next + 2 * x.pending <= 2 * MaxCreates /\ x.pending \in Nat
  BY <1>1 DEF Fits, Waiting, PeerRec
<1>3. /\ y.ice = "Closed" /\ y.dtls = "Closed" /\ y.role = "none" /\ y.sctp = "none"
      /\ y.pc = "Closed" /\ y.remote = FALSE /\ y.pending = 0 /\ y.next = x.next /\ y.chans = <<>>
  BY DEF Fresh
<1>4. y \in PeerRec
  <2>1. "Closed" \in Ices /\ "Closed" \in Dtls /\ "Closed" \in Pcs
    BY Names
  <2> QED
    BY <1>2, <2>1, FreshTyped, Assigned, Zenon
<1> HIDE DEF y
<1>5. Layers(y) /\ Role(p, y) /\ ~HasMgr(y)
  BY <1>3 DEF Layers, Role, HasMgr
<1>6. Waiting(p, y)
  <2>3. x.next \in Nat /\ MaxCreates \in Nat
    BY <1>2, Numbers
  <2>1. y.next + 2 * y.pending <= 2 * MaxCreates
    BY <1>2, <1>3, <2>3
  <2>2. Len(y.chans) = 0
    BY <1>3
  <2> QED
    BY <1>3, <1>5, <2>1, <2>2, Numbers DEF Waiting
<1>7. IsWire(wire')
  <2>1. IsWire(wire) /\ wire' = [wire EXCEPT ![p] = [s \in Sids |-> <<>>]]
    BY DEF Inv, Destroy
  <2>2. wire' = [q \in Peers |-> [s \in Sids |-> wire'[q][s]]]
    BY <2>1 DEF IsWire
  <2>3. \A q \in Peers, s \in Sids : wire'[q][s] = IF q = p THEN <<>> ELSE wire[q][s]
    BY <2>1 DEF IsWire
  <2> QED
    BY <2>1, <2>2, <2>3 DEF IsWire
<1> QED
  BY <1>1, <1>4, <1>5, <1>6, <1>7, OnePeer DEF Fits
-------------------------------------------------------------------------------
(* Every message is on the stream of the channel it names. *)
LEMMA PostWire ==
  ASSUME NEW w, IsWire(w), NEW p \in Peers, NEW sid \in Sids, NEW kind \in Kinds,
         NEW id \in IdsOn(sid)
  PROVE  IsWire(Post(w, p, sid, kind, id))
<1> DEFINE m == [kind |-> kind, id |-> id]
           q == Append(w[p][sid], m)
           v == Post(w, p, sid, kind, id)
<1>1. m \in Messages(sid)
  BY DEF Messages
<1>2. w[p][sid] \in Seq(Messages(sid))
  BY DEF IsWire
<1> HIDE DEF m
<1>3. q \in Seq(Messages(sid))
  BY <1>1, <1>2
<1>4. v = [w EXCEPT ![p] = [w[p] EXCEPT ![sid] = q]]
  BY DEF Post, m
<1> HIDE DEF q, v
<1>5. \A r \in Peers, s \in Sids : v[r][s] = IF r = p /\ s = sid THEN q ELSE w[r][s]
  BY <1>4 DEF IsWire
<1>6. v = [r \in Peers |-> [s \in Sids |-> v[r][s]]]
  BY <1>4 DEF IsWire
<1>7. \A r \in Peers, s \in Sids : v[r][s] \in Seq(Messages(s))
  BY <1>3, <1>5 DEF IsWire
<1> QED
  BY <1>6, <1>7 DEF IsWire, v

LEMMA TakeWire ==
  ASSUME IsWire(wire), NEW p \in Peers, NEW sid \in Sids, wire[p][sid] # <<>>
  PROVE  /\ Head(wire[p][sid]) \in Messages(sid)
         /\ IsWire([wire EXCEPT ![p][sid] = Tail(@)])
<1> DEFINE q == Tail(wire[p][sid])
           v == [wire EXCEPT ![p] = [wire[p] EXCEPT ![sid] = q]]
<1>1. wire[p][sid] \in Seq(Messages(sid))
  BY DEF IsWire
<1>2. Head(wire[p][sid]) \in Messages(sid) /\ q \in Seq(Messages(sid))
  BY <1>1, HeadTailProperties
<1>3. [wire EXCEPT ![p][sid] = Tail(@)] = v
  OBVIOUS
<1> HIDE DEF q
<1>5. \A r \in Peers, s \in Sids : v[r][s] = IF r = p /\ s = sid THEN q ELSE wire[r][s]
  BY DEF IsWire
<1>6. v = [r \in Peers |-> [s \in Sids |-> v[r][s]]]
  BY DEF IsWire
<1> HIDE DEF v
<1>7. \A r \in Peers, s \in Sids : v[r][s] \in Seq(Messages(s))
  BY <1>2, <1>5 DEF IsWire
<1>8. IsWire(v)
  BY <1>6, <1>7 DEF IsWire
<1> QED
  BY <1>2, <1>3, <1>8

LEMMA PostOpensWire ==
  ASSUME IsWire(wire), NEW p \in Peers, NEW sids, sids # {} => p \in Creators
  PROVE  IsWire(PostOpens(wire, p, sids))
<1> DEFINE o == Other(p)
           M(s) == [kind |-> "open", id |-> [by |-> p, sid |-> s]]
           Q(s) == IF s \in sids THEN Append(wire[o][s], M(s)) ELSE wire[o][s]
           v == PostOpens(wire, p, sids)
<1>1. o \in Peers
  BY Others
<1>2. ASSUME NEW s \in Sids PROVE Q(s) \in Seq(Messages(s))
  <2>1. wire[o][s] \in Seq(Messages(s))
    BY <1>1 DEF IsWire
  <2>2. CASE s \in sids
    <3>1. M(s) \in Messages(s)
      BY <2>2, Names DEF Messages, IdsOn
    <3> HIDE DEF M
    <3> QED
      BY <2>1, <2>2, <3>1
  <2>3. CASE s \notin sids
    BY <2>1, <2>3
  <2> QED
    BY <2>2, <2>3
<1>3. v = [wire EXCEPT ![o] = [s \in Sids |-> Q(s)]]
  BY DEF PostOpens
<1> HIDE DEF Q, v, o
<1>4. \A r \in Peers, s \in Sids : v[r][s] = IF r = o THEN Q(s) ELSE wire[r][s]
  BY <1>1, <1>3 DEF IsWire
<1>5. v = [r \in Peers |-> [s \in Sids |-> v[r][s]]]
  BY <1>1, <1>3 DEF IsWire
<1>6. \A r \in Peers, s \in Sids : v[r][s] \in Seq(Messages(s))
  BY <1>2, <1>4 DEF IsWire
<1> QED
  BY <1>5, <1>6 DEF IsWire, v

(* A channel of this peer's, on one of its streams *)
LEMMA OwnChannel ==
  ASSUME NEW p \in Creators, NEW sid \in Sids
  PROVE  Channel(sid, [by |-> p, sid |-> sid], "Connecting") \in Chans
BY Names DEF Channel, Chans, Ids

(* A step that changes the table, the streams used and what waits *)
LEMMA ChannelsFit ==
  ASSUME NEW p \in Peers, NEW x, Fits(p, x), NEW y \in PeerRec,
         y.ice = x.ice, y.dtls = x.dtls, y.role = x.role, y.sctp = x.sctp, y.pc = x.pc,
         y.remote = x.remote, Waiting(p, y)
  PROVE  Fits(p, y)
<1>1. HasMgr(x) <=> HasMgr(y)
  BY DEF HasMgr
<1> QED
  BY <1>1 DEF Fits, Layers, Role

LEMMA SctpUpInv ==
  ASSUME Inv, NEW p \in Peers, SctpUp(p) PROVE Inv'
<1> DEFINE x == peer[p]
           Sid(k) == x.next + 2 * (k - 1)
           C(k) == Channel(Sid(k), [by |-> p, sid |-> Sid(k)], "Connecting")
           opened == [k \in 1..x.pending |-> C(k)]
           n == x.next + 2 * x.pending
           cs == x.chans \o opened
           y == [x EXCEPT !.sctp = "up", !.pc = "Connected", !.pending = 0, !.next = n, !.chans = cs]
           sids == {opened[k].sid : k \in DOMAIN opened}
<1>1. /\ Fits(p, x) /\ x.sctp \in {"connecting", "late"}
      /\ peer' = [peer EXCEPT ![p] = y] /\ wire' = PostOpens(wire, p, sids)
      /\ routed' = routed
  BY DEF Inv, SctpUp
<1>2. /\ ~HasMgr(x) /\ x.chans = <<>> /\ x.pending \in Nat /\ x.next \in Nexts /\ x.next \in Nat
      /\ x.pending <= MaxChannels /\ n <= 2 * MaxCreates /\ (x.pending > 0 => p \in Creators)
  BY <1>1, Numbers DEF Fits, Waiting, PeerRec, HasMgr
<1>3. opened \in Seq(Chans) /\ Len(opened) = x.pending
  <2>1. ASSUME NEW k \in 1..x.pending PROVE C(k) \in Chans
    <3>1. k - 1 \in Nat /\ x.next + 2 * (k - 1) < 2 * MaxCreates /\ p \in Creators
      BY <1>2, Numbers
    <3>2. Sid(k) \in Sids
      BY <1>2, <3>1, Numbers
    <3> HIDE DEF Sid
    <3> QED
      BY <3>1, <3>2, OwnChannel
  <2> HIDE DEF C, y, n
  <2>2. x.pending \in Nat
    BY <1>2
  <2> QED
    BY <2>1, <2>2
<1>4. sids # {} => p \in Creators
  <2> HIDE DEF C
  <2>1. sids # {} => 1..x.pending # {}
    OBVIOUS
  <2>2. 1..x.pending # {} => x.pending > 0
    BY <1>2
  <2> QED
    BY <1>2, <2>1, <2>2
<1>5. n \in Nexts
  BY <1>2, Numbers
<1> HIDE DEF opened, sids, n
<1>6. cs \in Seq(Chans) /\ Len(cs) = x.pending
  BY <1>2, <1>3
<1> HIDE DEF cs
<1>7. y \in PeerRec
  <2>1. "up" \in Sctps /\ "Connected" \in Pcs
    BY Names
  <2> QED
    BY <1>1, <1>5, <1>6, <2>1 DEF Fits, PeerRec
<1>8. /\ y.ice = x.ice /\ y.dtls = x.dtls /\ y.role = x.role /\ y.remote = x.remote
      /\ y.sctp = "up" /\ y.pc = "Connected" /\ y.pending = 0 /\ y.next = n /\ y.chans = cs
  BY <1>1 DEF Fits, PeerRec
<1> HIDE DEF y
<1>9. HasMgr(y)
  BY <1>8 DEF HasMgr
<1>10. Layers(y)
  BY <1>1, <1>8, <1>9 DEF Fits, Layers
<1>11. Waiting(p, y)
  <2>1. n \in Nat
    BY <1>5, Numbers
  <2>2. y.next + 2 * y.pending <= 2 * MaxCreates
    BY <1>2, <1>8, <2>1, Numbers DEF n
  <2> QED
    BY <1>2, <1>6, <1>8, <1>9, <2>2, Numbers DEF Waiting
<1>12. Role(p, y)
  BY <1>1, <1>8 DEF Fits, Role
<1>13. IsWire(wire')
  BY <1>1, <1>4, PostOpensWire DEF Inv
<1> QED
  BY <1>1, <1>7, <1>10, <1>11, <1>12, <1>13, OnePeer DEF Fits

LEMMA CreateFields ==
  ASSUME NEW p \in Creators, NEW x, Fits(p, x), HasMgr(x), x.next + 2 * x.pending < 2 * MaxCreates
  PROVE  Fits(p, Create(x, p))
<1> DEFINE c == Channel(x.next, [by |-> p, sid |-> x.next], "Connecting")
           y == [x EXCEPT !.next = x.next + 2]
           z == [y EXCEPT !.chans = Append(x.chans, c)]
<1>1. x \in PeerRec /\ x.next \in Nexts /\ x.next \in Nat /\ x.pending = 0 /\ p \in Peers
  BY Numbers DEF Fits, PeerRec, Waiting
<1>2. x.next < 2 * MaxCreates
  BY <1>1, Numbers
<1>3. x.next \in Sids /\ x.next + 2 <= 2 * MaxCreates
  <2>1. x.next + 2 * 0 < 2 * MaxCreates /\ 0 \in Nat
    BY <1>1, <1>2
  <2>2. x.next + 2 * 0 \in Sids /\ x.next + 2 * (0 + 1) <= 2 * MaxCreates
    BY <1>1, <2>1, Numbers
  <2> QED
    BY <1>1, <2>2
<1>4. x.next + 2 \in Nexts
  <2>1. x.next + 2 * 1 <= 2 * MaxCreates /\ 1 \in Nat
    BY <1>1, <1>3
  <2>2. x.next + 2 * 1 \in Nexts
    BY <1>1, <2>1, Numbers
  <2> QED
    BY <1>1, <2>2
<1>5. c \in Chans
  BY <1>3, OwnChannel
<1> HIDE DEF c
<1>6. y \in PeerRec
  BY <1>1, <1>4 DEF PeerRec
<1>7. /\ y.ice = x.ice /\ y.dtls = x.dtls /\ y.role = x.role /\ y.remote = x.remote
      /\ y.sctp = x.sctp /\ y.pc = x.pc /\ y.pending = 0 /\ y.next = x.next + 2 /\ y.chans = x.chans
  BY <1>1 DEF PeerRec
<1> HIDE DEF y
<1>8. Waiting(p, y)
  <2>1. HasMgr(y)
    BY <1>7 DEF HasMgr
  <2>2. y.next + 2 * y.pending <= 2 * MaxCreates
    BY <1>1, <1>3, <1>7
  <2> QED
    BY <1>7, <2>1, <2>2 DEF Fits, Waiting
<1>9. Fits(p, y)
  BY <1>1, <1>6, <1>7, <1>8, ChannelsFit
<1>10. ASSUME ~Full(x) PROVE Fits(p, z)
  <2>1. x.chans \in Seq(Chans) /\ Len(x.chans) \in Nat /\ Len(x.chans) < MaxChannels
    BY <1>1, <1>10, Numbers DEF Full, PeerRec
  <2>2. Append(x.chans, c) \in Seq(Chans) /\ Len(Append(x.chans, c)) <= MaxChannels
    BY <1>5, <2>1, Numbers
  <2>3. z \in PeerRec
    BY <1>6, <2>2 DEF PeerRec
  <2>4. /\ z.ice = y.ice /\ z.dtls = y.dtls /\ z.role = y.role /\ z.remote = y.remote
        /\ z.sctp = y.sctp /\ z.pc = y.pc /\ z.pending = y.pending /\ z.next = y.next
        /\ z.chans = Append(x.chans, c)
    BY <1>6 DEF PeerRec
  <2> HIDE DEF z
  <2>5. HasMgr(z)
    BY <1>7, <2>4 DEF HasMgr
  <2>6. Waiting(p, z)
    <3>1. z.pending = 0 /\ z.next + 2 * z.pending <= 2 * MaxCreates
      BY <1>1, <1>3, <1>7, <2>4
    <3> QED
      BY <2>2, <2>4, <2>5, <3>1, Numbers DEF Waiting
  <2> QED
    BY <1>1, <1>9, <2>3, <2>4, <2>6, ChannelsFit
<1>11. Create(x, p) = y \/ (~Full(x) /\ Create(x, p) = z)
  BY <1>7 DEF Create, c, y
<1> QED
  BY <1>9, <1>10, <1>11

LEMMA CreateChannelInv ==
  ASSUME Inv, NEW p \in Peers, CreateChannel(p) PROVE Inv'
<1> DEFINE x == peer[p]
<1>1. /\ Fits(p, x) /\ p \in Creators /\ x.next + 2 * x.pending < 2 * MaxCreates
      /\ routed' = routed
  BY DEF Inv, CreateChannel
<1>2. CASE HasMgr(x)
  <2>1. peer' = [peer EXCEPT ![p] = Create(x, p)]
    BY <1>2 DEF CreateChannel
  <2>2. \E sids : wire' = PostOpens(wire, p, sids)
    BY <1>2 DEF CreateChannel
  <2>3. IsWire(wire')
    BY <1>1, <2>2, PostOpensWire DEF Inv
  <2>4. Fits(p, Create(x, p))
    BY <1>1, <1>2, CreateFields
  <2> QED
    BY <1>1, <2>1, <2>3, <2>4, OnePeer
<1>3. CASE ~HasMgr(x)
  <2> DEFINE y == [x EXCEPT !.pending = x.pending + 1]
  <2>1. /\ x.pending < MaxChannels /\ peer' = [peer EXCEPT ![p] = y] /\ wire' = wire
    BY <1>3 DEF CreateChannel
  <2>2. x.pending \in Nat /\ x.next \in Nexts /\ x.next \in Nat /\ x \in PeerRec
    BY <1>1, Numbers DEF Fits, PeerRec
  <2>3. y \in PeerRec
    BY <2>2 DEF PeerRec
  <2>4. /\ y.ice = x.ice /\ y.dtls = x.dtls /\ y.role = x.role /\ y.remote = x.remote
        /\ y.sctp = x.sctp /\ y.pc = x.pc /\ y.pending = x.pending + 1 /\ y.next = x.next
        /\ y.chans = x.chans
    BY <2>2 DEF PeerRec
  <2> HIDE DEF y
  <2>5. x.next + 2 * (x.pending + 1) <= 2 * MaxCreates
    BY <1>1, <2>2, Numbers
  <2>6. ~HasMgr(y)
    BY <1>3, <2>4 DEF HasMgr
  <2>7. Waiting(p, y)
    BY <1>1, <1>3, <2>1, <2>2, <2>4, <2>5, <2>6, Numbers DEF Fits, Waiting
  <2>8. Fits(p, y)
    BY <1>1, <2>3, <2>4, <2>7, ChannelsFit
  <2> QED
    BY <1>1, <2>1, <2>8, OnePeer DEF Inv
<1> QED
  BY <1>2, <1>3

(* Channels change their state and nothing else. *)
LEMMA Restage ==
  ASSUME NEW cs \in Seq(Chans), NEW I, NEW st \in Stages
  PROVE  LET ds == [i \in DOMAIN cs |-> IF i \in I THEN [cs[i] EXCEPT !.st = st] ELSE cs[i]]
         IN  ds \in Seq(Chans) /\ Len(ds) = Len(cs)
<1> DEFINE D(i) == IF i \in I THEN [cs[i] EXCEPT !.st = st] ELSE cs[i]
           ds == [i \in 1..Len(cs) |-> D(i)]
<1>1. Len(cs) \in Nat /\ DOMAIN cs = 1..Len(cs) /\ \A i \in 1..Len(cs) : cs[i] \in Chans
  OBVIOUS
<1>2. \A c \in Chans : [c EXCEPT !.st = st] \in Chans
  BY DEF Chans
<1>3. \A i \in 1..Len(cs) : D(i) \in Chans
  BY <1>1, <1>2
<1>4. [i \in DOMAIN cs |-> IF i \in I THEN [cs[i] EXCEPT !.st = st] ELSE cs[i]] = ds
  BY <1>1
<1> HIDE DEF D
<1>5. ds \in Seq(Chans) /\ Len(ds) = Len(cs)
  BY <1>1, <1>3
<1> QED
  BY <1>4, <1>5

(* A step that only changes the table of channels *)
LEMMA TableFits ==
  ASSUME NEW p \in Peers, NEW x, Fits(p, x), HasMgr(x), NEW cs \in Seq(Chans), Len(cs) <= MaxChannels
  PROVE  Fits(p, [x EXCEPT !.chans = cs])
<1> DEFINE y == [x EXCEPT !.chans = cs]
<1>1. x \in PeerRec
  BY DEF Fits
<1>2. y \in PeerRec
  BY <1>1 DEF PeerRec
<1>3. /\ y.ice = x.ice /\ y.dtls = x.dtls /\ y.role = x.role /\ y.remote = x.remote
      /\ y.sctp = x.sctp /\ y.pc = x.pc /\ y.pending = x.pending /\ y.next = x.next
      /\ y.chans = cs
  BY <1>1 DEF PeerRec
<1> HIDE DEF y
<1>4. HasMgr(y) /\ y.next + 2 * y.pending <= 2 * MaxCreates
  <2>1. x.next + 2 * x.pending <= 2 * MaxCreates
    BY DEF Fits, Waiting
  <2> QED
    BY <1>3, <2>1 DEF HasMgr
<1>5. Waiting(p, y)
  BY <1>3, <1>4 DEF Fits, Waiting
<1> QED
  BY <1>2, <1>3, <1>5, ChannelsFit DEF y

LEMMA ChanOf ==
  ASSUME NEW c \in Chans
  PROVE  c.sid \in Sids /\ c.id \in IdsOn(c.sid) /\ c.id \in Ids /\ c.id.sid = c.sid
BY DEF Chans, Ids, IdsOn

LEMMA SendInv ==
  ASSUME Inv, NEW p \in Peers, NEW i \in DOMAIN peer[p].chans, Send(p, i) PROVE Inv'
<1> DEFINE c == peer[p].chans[i]
<1>1. c \in Chans
  BY DEF Inv, Fits, PeerRec
<1>2. wire' = Post(wire, Other(p), c.sid, "data", c.id) /\ UNCHANGED <<peer, routed>>
  BY DEF Send
<1> HIDE DEF c
<1>3. IsWire(wire')
  BY <1>1, <1>2, ChanOf, Others, Names, PostWire DEF Inv
<1> QED
  BY <1>2, <1>3 DEF Inv

LEMMA CloseChannelInv ==
  ASSUME Inv, NEW p \in Peers, NEW i \in DOMAIN peer[p].chans, CloseChannel(p, i) PROVE Inv'
<1> DEFINE x == peer[p]
           c == x.chans[i]
           cs == [j \in DOMAIN x.chans |->
                    IF j \in {i} THEN [x.chans[j] EXCEPT !.st = "Closing"] ELSE x.chans[j]]
           y == [x EXCEPT !.chans = cs]
<1>1. Fits(p, x) /\ x \in PeerRec /\ x.chans \in Seq(Chans) /\ Len(x.chans) <= MaxChannels
  BY DEF Inv, Fits, PeerRec, Waiting
<1>2. c \in Chans /\ x.chans # <<>>
  BY <1>1
<1>3. HasMgr(x)
  BY <1>1, <1>2 DEF Fits, Waiting
<1>4. cs \in Seq(Chans) /\ Len(cs) <= MaxChannels
  BY <1>1, Restage, Names
<1>5. peer' = [peer EXCEPT ![p].chans[i].st = "Closing"] /\ routed' = routed
  BY DEF CloseChannel
<1>6. [x.chans EXCEPT ![i].st = "Closing"] = cs
  BY <1>1
<1>7. peer' = [peer EXCEPT ![p] = [x EXCEPT !.chans = [x.chans EXCEPT ![i].st = "Closing"]]]
  BY <1>5
<1> HIDE DEF cs
<1>8. peer' = [peer EXCEPT ![p] = y]
  BY <1>6, <1>7
<1>9. Fits(p, y)
  BY <1>1, <1>3, <1>4, TableFits
<1>10. wire' = wire \/ wire' = Post(wire, Other(p), c.sid, "reset", c.id)
  BY DEF CloseChannel
<1> HIDE DEF c
<1>11. IsWire(wire')
  BY <1>2, <1>10, ChanOf, Others, Names, PostWire DEF Inv
<1> QED
  BY <1>5, <1>8, <1>9, <1>11, OnePeer

(* What arrives is looked up by its stream, and its stream is part of what *)
(* names it.                                                               *)
LEMMA DeliverInv ==
  ASSUME Inv, NEW p \in Peers, NEW sid \in Sids, Deliver(p, sid) PROVE Inv'
<1> DEFINE m == Head(wire[p][sid])
           w == [wire EXCEPT ![p][sid] = Tail(@)]
           x == peer[p]
           at == First(x, sid)
           T(from, st) == [i \in DOMAIN x.chans |->
                             IF i \in at /\ x.chans[i].st \in from
                             THEN [x.chans[i] EXCEPT !.st = st] ELSE x.chans[i]]
           Set(from, st) == [peer EXCEPT ![p].chans = T(from, st)]
           all == {"Connecting", "Open", "Closing", "Closed"}
<1>1. /\ x.sctp = "up" /\ HasMgr(x) /\ wire[p][sid] # <<>> /\ Fits(p, x) /\ IsWire(wire)
      /\ peer = [q \in Peers |-> peer[q]]
  BY DEF Deliver, HasMgr, Inv
<1>2. x \in PeerRec /\ x.chans \in Seq(Chans) /\ Len(x.chans) <= MaxChannels /\ Len(x.chans) \in Nat
  BY <1>1 DEF Fits, PeerRec, Waiting
<1>3. m \in Messages(sid) /\ IsWire(w)
  BY <1>1, TakeWire
<1>4. m.id \in IdsOn(sid) /\ m.id \in Ids /\ m.id.sid = sid
  BY <1>3 DEF Messages, IdsOn, Ids
<1>5. \/ /\ peer' = IF Full(x) THEN peer
                    ELSE [peer EXCEPT ![p].chans = Append(@, Channel(sid, m.id, "Open"))]
         /\ wire' = IF Full(x) THEN w ELSE Post(w, Other(p), sid, "ack", m.id)
         /\ UNCHANGED routed
      \/ /\ peer' = Set({"Connecting"}, "Open")
         /\ wire' = w /\ UNCHANGED routed
      \/ /\ routed' = routed \cup {[sent |-> m.id, got |-> x.chans[i].id] :
                                     i \in {j \in at : x.chans[j].st = "Open"}}
         /\ wire' = w /\ UNCHANGED peer
      \/ /\ peer' = Set(all, "Closed")
         /\ wire' = Post(w, Other(p), sid, "done", m.id)
         /\ UNCHANGED routed
      \/ /\ peer' = Set(all, "Closed")
         /\ wire' = w /\ UNCHANGED routed
  BY DEF Deliver
<1>6. IsWire(Post(w, Other(p), sid, "ack", m.id)) /\ IsWire(Post(w, Other(p), sid, "done", m.id))
  BY <1>3, <1>4, Others, Names, PostWire
<1>7. ASSUME NEW from, NEW st \in Stages, peer' = Set(from, st), IsWire(wire'), UNCHANGED routed
      PROVE  Inv'
  <2> DEFINE I == {i \in at : x.chans[i].st \in from}
             cs == [i \in DOMAIN x.chans |->
                      IF i \in I THEN [x.chans[i] EXCEPT !.st = st] ELSE x.chans[i]]
  <2>1. cs \in Seq(Chans) /\ Len(cs) <= MaxChannels
    BY <1>2, Restage
  <2>2. T(from, st) = cs
    OBVIOUS
  <2> HIDE DEF T, cs
  <2>3. peer' = [peer EXCEPT ![p] = [x EXCEPT !.chans = cs]]
    BY <1>7, <2>2
  <2>4. Fits(p, [x EXCEPT !.chans = cs])
    BY <1>1, <2>1, TableFits
  <2> QED
    BY <1>7, <2>3, <2>4, OnePeer
<1>8. ASSUME ~Full(x), peer' = [peer EXCEPT ![p].chans = Append(@, Channel(sid, m.id, "Open"))],
             IsWire(wire'), UNCHANGED routed
      PROVE  Inv'
  <2> DEFINE c == Channel(sid, m.id, "Open")
             cs == Append(x.chans, c)
  <2>1. c \in Chans
    BY <1>4, Names DEF Channel, Chans
  <2> HIDE DEF c
  <2>2. cs \in Seq(Chans) /\ Len(cs) <= MaxChannels
    BY <1>2, <1>8, <2>1, Numbers DEF Full
  <2>3. peer' = [peer EXCEPT ![p] = [x EXCEPT !.chans = cs]]
    BY <1>8 DEF c
  <2> HIDE DEF cs
  <2>4. Fits(p, [x EXCEPT !.chans = cs])
    BY <1>1, <2>2, TableFits
  <2> QED
    BY <1>8, <2>3, <2>4, OnePeer
<1>9. ASSUME peer' = peer, IsWire(wire'), UNCHANGED routed
      PROVE  Inv'
  BY <1>9 DEF Inv
<1>10. ASSUME routed' = routed \cup {[sent |-> m.id, got |-> x.chans[i].id] :
                                       i \in {j \in at : x.chans[j].st = "Open"}},
              wire' = w, UNCHANGED peer
       PROVE  Inv'
  <2>1. \A i \in at : x.chans[i] \in Chans /\ x.chans[i].sid = sid
    BY <1>2 DEF First
  <2>2. \A i \in at : x.chans[i].id \in Ids /\ x.chans[i].id.sid = sid
    BY <2>1, ChanOf
  <2>3. routed' \subseteq {r \in [sent : Ids, got : Ids] : r.sent.sid = r.got.sid}
    BY <1>4, <1>10, <2>2 DEF Inv
  <2> QED
    BY <1>3, <1>10, <2>3 DEF Inv
<1> HIDE DEF Set, w, at, all
<1> QED
  BY <1>3, <1>5, <1>6, <1>7, <1>8, <1>9, <1>10, Names
-------------------------------------------------------------------------------
LEMMA StutterInv == Inv /\ UNCHANGED vars => Inv'
<1> SUFFICES ASSUME Inv, UNCHANGED <<peer, wire, routed>> PROVE Inv'
  BY DEF vars
<1> QED
  BY DEF Inv

LEMMA NextInv == Inv /\ [Next]_vars => Inv'
<1> SUFFICES ASSUME Inv, [Next]_vars PROVE Inv'
  OBVIOUS
<1>1. ASSUME NEW p \in Peers, Connects(p) PROVE Inv'
  BY <1>1, DescribeInv, SetRemoteInv, IceReportsInv, DtlsDoneInv, HandshakeFailsInv,
     SctpUpInv, AssocTimeoutInv, SctpLostInv, DestroyInv DEF Connects
<1>2. ASSUME NEW p \in Peers, Channels(p) PROVE Inv'
  BY <1>2, CreateChannelInv, SendInv, CloseChannelInv, DeliverInv DEF Channels
<1> QED
  BY <1>1, <1>2, StutterInv DEF Next

(* Inv from the initial states on: what the layers of each peer know of    *)
(* each other, and that every message is on its channel's stream.          *)
THEOREM Invariance == Spec => []Inv
BY InitInv, NextInv, PTL DEF Spec

(* Connected is reported exactly while the whole stack stands, two peers   *)
(* in a handshake have opposite roles, and tables and streams stay within  *)
(* their limits.                                                           *)
THEOREM StackHolds == Spec => []StackInv
<1>1. Inv => StackInv
  <2> SUFFICES ASSUME Inv PROVE StackInv
    OBVIOUS
  <2>1. \A p \in Peers : Fits(p, peer[p]) /\ peer[p] \in PeerRec
    BY DEF Inv, Fits
  <2>2. ASSUME NEW p \in Peers
        PROVE  /\ peer[p].ice \in DOMAIN Phases(p)!Follows
               /\ peer[p].dtls \in {"none", "New", "Connecting", "Connected", "Failed", "Closed"}
               /\ peer[p].role \in {"none", "passive", "active"}
               /\ peer[p].sctp \in {"none", "connecting", "stuck", "late", "up", "lost"}
               /\ peer[p].pc \in {"New", "Connecting", "Connected", "Failed", "Closed"}
    BY <2>1 DEF PeerRec, Phases!Follows, Ices, Dtls, Roles, Sctps, Pcs
  <2>3. ASSUME NEW p \in Peers
        PROVE  /\ peer[p].pending \in 0..MaxChannels /\ Len(peer[p].chans) <= MaxChannels
               /\ \A i \in DOMAIN peer[p].chans :
                    /\ peer[p].chans[i].sid \in Sids
                    /\ peer[p].chans[i].st \in {"Connecting", "Open", "Closing", "Closed"}
    <3>1. \A i \in DOMAIN peer[p].chans : peer[p].chans[i] \in Chans
      BY <2>1 DEF PeerRec
    <3>2. \A c \in Chans : c.sid \in Sids /\ c.st \in {"Connecting", "Open", "Closing", "Closed"}
      BY DEF Chans, Stages
    <3>3. peer[p].pending \in 0..MaxChannels /\ Len(peer[p].chans) <= MaxChannels
      BY <2>1, Numbers DEF Fits, Waiting, PeerRec
    <3> QED
      BY <3>1, <3>2, <3>3
  <2>4. TypeOK
    BY <2>2, <2>3 DEF TypeOK
  <2>5. ConnectedMeansStack
    BY <2>1 DEF ConnectedMeansStack, Fits, Layers, Waiting, HasMgr
  <2>6. RolesDiffer
    <3>1. "offerer" \in Peers /\ "answerer" \in Peers
      BY DEF Peers
    <3> QED
      BY <2>1, <3>1 DEF RolesDiffer, Fits, Layers, Role
  <2> QED
    BY <2>4, <2>5, <2>6 DEF StackInv
<1> QED
  BY <1>1, Invariance, PTL

(* Only one peer creates channels: with two, both number their streams     *)
(* from 0.                                                                 *)
OneCreator == \A p, q \in Creators : p = q

(* Then a message comes out of the channel it was sent on. *)
THEOREM MessagesKeepTheirChannel == OneCreator => (Spec => []MessagesStay)
<1> SUFFICES ASSUME OneCreator PROVE Spec => []MessagesStay
  OBVIOUS
<1>1. Inv => MessagesStay
  <2> SUFFICES ASSUME Inv, NEW r \in routed PROVE r.sent = r.got
    BY DEF MessagesStay
  <2>1. r.sent \in Ids /\ r.got \in Ids /\ r.sent.sid = r.got.sid
    BY DEF Inv
  <2>2. r.sent.by = r.got.by
    BY <2>1 DEF OneCreator, Ids
  <2> QED
    BY <2>1, <2>2 DEF Ids
<1> QED
  BY <1>1, Invariance, PTL

-------------------------------------------------------------------------------
(* The phases of the ICE agent *)

(* The names of the agent's fields. *)
Fields == {"state", "role", "remoteSet", "locals", "remotes", "pairs", "nominated", "txns",
           "armed", "held", "checkIndex", "sprayIndex", "gatheringDone", "resolving", "pending",
           "received", "mapped", "expected", "symmetric", "aggressive"}

(* b differs from a in nothing the phases depend on. *)
KeepsPhase(a, b) ==
  /\ DOMAIN b = Fields /\ b.state = a.state /\ b.remoteSet = a.remoteSet
  /\ b.gatheringDone = a.gatheringDone
  /\ a.state = "Checking" \/ b.pairs = a.pairs

(* What a timer's start or stop, a request, a candidate and an answer of a  *)
(* server leave alone.                                                      *)
LEMMA QuietHelpers ==
  ASSUME NEW a, DOMAIN a = Fields, NEW k, NEW h, NEW s, NEW q
  PROVE  /\ KeepsPhase(a, Arm(a, k)) /\ KeepsPhase(a, Fired(a, k)) /\ KeepsPhase(a, Disarm(a, k))
         /\ KeepsPhase(a, Enter(a, s)) /\ KeepsPhase(a, AddLocals(a, h, s))
         /\ KeepsPhase(a, Taken(a, s)) /\ KeepsPhase(a, GivenUp(a, s))
         /\ KeepsPhase(a, Learn(a, s))
<1>1. KeepsPhase(a, Arm(a, k))
  BY DEF KeepsPhase, Fields, Arm
<1>2. KeepsPhase(a, Fired(a, k)) /\ KeepsPhase(a, a)
  BY DEF KeepsPhase, Fields, Fired
<1>3. KeepsPhase(a, Disarm(a, k))
  BY <1>2 DEF Disarm
<1>4. KeepsPhase(a, Enter(a, s))
  BY DEF KeepsPhase, Fields, Enter
<1>5. KeepsPhase(a, AddLocals(a, h, s))
  BY DEF KeepsPhase, Fields, AddLocals
<1>6. KeepsPhase(a, Taken(a, s)) /\ KeepsPhase(a, GivenUp(a, s))
  BY DEF KeepsPhase, Fields, Taken, GivenUp
<1>7. KeepsPhase(a, Learn(a, s))
  BY DEF KeepsPhase, Fields, Learn
<1> QED
  BY <1>1, <1>2, <1>3, <1>4, <1>5, <1>6, <1>7

(* Candidates that a server's answers bring. *)
LEMMA FinalizePhase ==
  ASSUME NEW a, DOMAIN a = Fields, NEW h, NEW nat
  PROVE  KeepsPhase(a, FinalizeSrflx(a, h, nat))
<1> DEFINE t == <<"srflx">>
           b == AddLocals(a, h, t)
           c == [b EXCEPT !.symmetric = TRUE]
<1>1. KeepsPhase(a, b)
  BY QuietHelpers
<1>2. KeepsPhase(a, c)
  BY <1>1 DEF KeepsPhase, Fields
<1>3. \A u : KeepsPhase(a, AddLocals(a, h, u))
  BY QuietHelpers
<1> QED
  BY <1>2, <1>3 DEF FinalizeSrflx

(* A check that ends, a nomination or a failure of a checking agent. *)
Moves(a, b) ==
  /\ DOMAIN b = Fields /\ b.remoteSet = a.remoteSet /\ b.gatheringDone = a.gatheringDone
  /\ b.state = a.state \/ (a.state = "Checking" /\ b.state \in {"Connected", "Failed"})
  /\ a.state = "Checking" \/ b.pairs = a.pairs

(* What two steps leave alone, both leave alone. *)
LEMMA KeepsTrans ==
  ASSUME NEW a, NEW b, NEW c, KeepsPhase(a, b), KeepsPhase(b, c)
  PROVE  KeepsPhase(a, c)
  BY DEF KeepsPhase

(* A step that leaves the phase alone, then one that may move it. *)
LEMMA KeepsMoves ==
  ASSUME NEW a, NEW b, NEW c, KeepsPhase(a, b), Moves(b, c)
  PROVE  Moves(a, c)
  BY DEF KeepsPhase, Moves

(* A port spray adds candidates and pairs to a checking agent. *)
LEMMA SprayPhase ==
  ASSUME NEW a, DOMAIN a = Fields, a.state = "Checking"
  PROVE  KeepsPhase(a, StartSpray(a))
<1> DEFINE b == Arm(Disarm(a, "timeout"), "timeout")
           r == Len(b.remotes) + 1
           x == [b EXCEPT !.remotes = Append(@, [addr |-> Guess, type |-> "srflx"])]
           c == IF Len(b.remotes) >= MaxCandidates THEN b ELSE AppendPairs(x, r)
           d == [c EXCEPT !.aggressive = "spray", !.sprayIndex = Len(a.pairs) + 1]
<1>1. KeepsPhase(a, Disarm(a, "timeout"))
  BY QuietHelpers
<1>2. KeepsPhase(Disarm(a, "timeout"), b)
  BY <1>1, QuietHelpers DEF KeepsPhase
<1>3. KeepsPhase(a, b)
  BY <1>1, <1>2, KeepsTrans
<1>4. KeepsPhase(a, x)
  BY <1>3 DEF KeepsPhase, Fields
<1>5. KeepsPhase(a, AppendPairs(x, r))
  BY <1>4 DEF KeepsPhase, Fields, AppendPairs
<1>6. KeepsPhase(a, c)
  BY <1>3, <1>5
<1>7. KeepsPhase(a, d)
  BY <1>6 DEF KeepsPhase, Fields
<1>8. KeepsPhase(a, Arm(d, "burst"))
  <2>1. DOMAIN d = Fields
    BY <1>7 DEF KeepsPhase
  <2>2. KeepsPhase(d, Arm(d, "burst"))
    BY <2>1, QuietHelpers
  <2> QED
    BY <1>7, <2>2, KeepsTrans
<1>9. StartSpray(a) = IF Len(c.pairs) = Len(a.pairs) THEN c ELSE Arm(d, "burst")
  BY DEF StartSpray
<1> QED
  BY <1>6, <1>8, <1>9

(* A nomination and a failure end the checks. *)
LEMMA NominatePhase ==
  ASSUME NEW a, DOMAIN a = Fields, a.state = "Checking"
  PROVE  Moves(a, Nominate(a)) /\ Moves(a, Fail(a))
<1>1. Moves(a, Nominate(a))
  BY DEF Moves, Fields, Nominate
<1>2. Moves(a, Fail(a))
  BY DEF Moves, Fields, Fail
<1> QED
  BY <1>1, <1>2

(* A step that may move the phase, then one that leaves it alone. *)
LEMMA MovesKeeps ==
  ASSUME NEW a, NEW b, NEW c, Moves(a, b), KeepsPhase(b, c), a.state = "Checking"
  PROVE  Moves(a, c)
  BY DEF KeepsPhase, Moves

(* try_nominate leaves Checking or nothing. *)
LEMMA TryNominatePhase ==
  ASSUME NEW a, DOMAIN a = Fields
  PROVE  Moves(a, TryNominate(a))
<1> DEFINE b == Arm(Nominate(a), "consent")
           c == Disarm(b, "timeout")
           d == Disarm(c, "burst")
<1>1. Moves(a, a)
  BY DEF Moves
<1>2. CASE a.state # "Checking"
  BY <1>1, <1>2 DEF TryNominate
<1>3. CASE a.state = "Checking"
  <2>1. Moves(a, Nominate(a)) /\ Moves(a, Fail(a))
    BY <1>3, NominatePhase
  <2>2. DOMAIN Nominate(a) = Fields
    BY <2>1 DEF Moves
  <2>3. Moves(a, b) /\ DOMAIN b = Fields
    BY <1>3, <2>1, <2>2, QuietHelpers, MovesKeeps DEF KeepsPhase
  <2>4. Moves(a, c) /\ DOMAIN c = Fields
    BY <1>3, <2>3, QuietHelpers, MovesKeeps DEF KeepsPhase
  <2>5. Moves(a, d)
    BY <1>3, <2>4, QuietHelpers, MovesKeeps
  <2>6. Moves(a, StartSpray(a))
    BY <1>1, <1>3, SprayPhase, MovesKeeps
  <2>7. TryNominate(a) \in {a, d, StartSpray(a), Fail(a)}
    BY DEF TryNominate
  <2> QED
    BY <1>1, <2>1, <2>5, <2>6, <2>7
<1> QED
  BY <1>2, <1>3

(* Pairs are made and checked: the agent checks, or fails without any. *)
LEMMA RestartPhase ==
  ASSUME NEW a, DOMAIN a = Fields
  PROVE  /\ DOMAIN Restart(a) = Fields /\ Restart(a).state \in {"Checking", "Failed"}
         /\ Restart(a).remoteSet = a.remoteSet /\ Restart(a).gatheringDone = a.gatheringDone
<1> DEFINE g == GeneratePairs(a)
           c == [g EXCEPT !.state = "Checking", !.checkIndex = 1]
<1>1. DOMAIN g = Fields /\ g.remoteSet = a.remoteSet /\ g.gatheringDone = a.gatheringDone
  BY DEF Fields, GeneratePairs
<1>2. /\ DOMAIN c = Fields /\ c.state = "Checking" /\ c.remoteSet = a.remoteSet
      /\ c.gatheringDone = a.gatheringDone
  BY <1>1 DEF Fields
<1>3. KeepsPhase(c, Arm(c, "check"))
  BY <1>2, QuietHelpers
<1>4. KeepsPhase(c, Arm(Arm(c, "check"), "timeout"))
  BY <1>3, QuietHelpers, KeepsTrans DEF KeepsPhase
<1>5. DOMAIN Fail(g) = Fields /\ Fail(g).state = "Failed" /\ Fail(g).remoteSet = a.remoteSet
      /\ Fail(g).gatheringDone = a.gatheringDone
  BY <1>1 DEF Fields, Fail
<1>6. Restart(a) = IF g.pairs = <<>> THEN Fail(g) ELSE Arm(Arm(c, "check"), "timeout")
  BY DEF Restart, StartChecks
<1> QED
  BY <1>2, <1>4, <1>5, <1>6 DEF KeepsPhase

(* Gathering ends: with the remote description there, checks begin. *)
Ended(a, b) ==
  /\ a.state = "Gathering" /\ DOMAIN b = Fields
  /\ b.remoteSet = a.remoteSet /\ b.gatheringDone = TRUE
  /\ IF a.remoteSet THEN b.state \in {"Checking", "Failed"}
     ELSE b.state = "Gathering" /\ b.pairs = a.pairs

(* The end of gathering, with or without the description. *)
LEMMA EndGatheringPhase ==
  ASSUME NEW a, DOMAIN a = Fields, a.state = "Gathering"
  PROVE  Ended(a, EndGathering(a))
<1> DEFINE b == [a EXCEPT !.gatheringDone = TRUE]
<1>1. /\ DOMAIN b = Fields /\ b.state = "Gathering" /\ b.remoteSet = a.remoteSet
      /\ b.gatheringDone = TRUE /\ b.pairs = a.pairs
  BY DEF Fields
<1>2. EndGathering(a) = IF a.remoteSet THEN Restart(b) ELSE b
  BY <1>1 DEF EndGathering
<1> QED
  BY <1>1, <1>2, RestartPhase DEF Ended

(* Gathering ends or nothing changes. *)
LEMMA GatherCheckPhase ==
  ASSUME NEW a, DOMAIN a = Fields
  PROVE  KeepsPhase(a, GatherCheckDone(a)) \/ Ended(a, GatherCheckDone(a))
<1>1. KeepsPhase(a, a)
  BY DEF KeepsPhase
<1>2. KeepsPhase(a, Disarm(a, "gather"))
  BY QuietHelpers
<1>3. a.state = "Gathering" => Ended(Disarm(a, "gather"), EndGathering(Disarm(a, "gather")))
  BY <1>2, EndGatheringPhase DEF KeepsPhase
<1>4. a.state = "Gathering" => Ended(a, EndGathering(Disarm(a, "gather")))
  BY <1>2, <1>3 DEF KeepsPhase, Ended
<1> QED
  BY <1>1, <1>4 DEF GatherCheckDone

-----------------------------------------------------------------------------
(* The states the agent can be in. *)
States == {"New", "Gathering", "Checking", "Connected", "Failed", "Closed"}

(* Where the agent can be: before the checks there are no pairs, and with    *)
(* no remote description no checks.                                          *)
PhaseInv(a) ==
  /\ DOMAIN a = Fields /\ a.state \in States
  /\ a.state \in {"New", "Gathering"} => a.pairs = <<>>
  /\ ~a.remoteSet => a.state \in {"New", "Gathering", "Failed", "Closed"}
  /\ ~a.remoteSet /\ a.gatheringDone => a.state = "Gathering"

(* A step from s to t as the peer connection may see it. *)
MayReport(s, t) ==
  s = t \/ (t # "Closed" /\ t \in Reported!Follows[s]) \/ (s # "Closed" /\ t = "Closed")

(* A step that keeps PhaseInv and may be reported. *)
PhaseStep(a, b) == PhaseInv(b) /\ MayReport(a.state, b.state)

(* Leaving the phase alone reports nothing. *)
LEMMA KeepsIsStep ==
  ASSUME NEW a, NEW b, PhaseInv(a), KeepsPhase(a, b)
  PROVE  PhaseStep(a, b)
  BY DEF PhaseInv, KeepsPhase, PhaseStep, MayReport

(* The end of the checks may be reported. *)
LEMMA MovesIsStep ==
  ASSUME NEW a, NEW b, PhaseInv(a), Moves(a, b)
  PROVE  PhaseStep(a, b)
<1>1. MayReport("Checking", "Connected") /\ MayReport("Checking", "Failed")
  BY DEF MayReport, Reported!Follows
<1>2. MayReport(a.state, b.state)
  BY <1>1 DEF Moves, MayReport
<1>3. PhaseInv(b)
  BY DEF PhaseInv, Moves, States
<1> QED
  BY <1>2, <1>3 DEF PhaseStep

(* So may the end of gathering. *)
LEMMA EndedIsStep ==
  ASSUME NEW a, NEW b, PhaseInv(a), Ended(a, b)
  PROVE  PhaseStep(a, b)
<1>1. MayReport("Gathering", "Checking") /\ MayReport("Gathering", "Failed")
      /\ MayReport("Gathering", "Gathering")
  BY DEF MayReport, Reported!Follows
<1>2. MayReport(a.state, b.state)
  BY <1>1 DEF Ended
<1>3. PhaseInv(b)
  BY DEF PhaseInv, Ended, States
<1> QED
  BY <1>2, <1>3 DEF PhaseStep

(* A step after one that reports nothing. *)
LEMMA KeepsThenStep ==
  ASSUME NEW a, NEW b, NEW c, PhaseInv(a), KeepsPhase(a, b), PhaseStep(b, c)
  PROVE  PhaseStep(a, c)
  BY DEF PhaseInv, KeepsPhase, PhaseStep

(* With the remote description, gathering over or failed: checks may begin. *)
LEMMA RestartIsStep ==
  ASSUME NEW a, PhaseInv(a), a.state \in {"Gathering", "Failed"}, a.remoteSet
  PROVE  PhaseStep(a, Restart(a))
<1>1. /\ MayReport("Gathering", "Checking") /\ MayReport("Gathering", "Failed")
      /\ MayReport("Failed", "Checking") /\ MayReport("Failed", "Failed")
  BY DEF MayReport, Reported!Follows
<1>2. DOMAIN a = Fields
  BY DEF PhaseInv
<1> QED
  BY <1>1, <1>2, RestartPhase DEF PhaseStep, PhaseInv, States

(* xIceAgentGather reports that it gathers, that it failed, or more at once. *)
LEMMA GatherPhase ==
  ASSUME PhaseInv(agent), Gather
  PROVE  PhaseStep(agent, agent')
<1>1. agent.state = "New" /\ DOMAIN agent = Fields
  BY DEF Gather, PhaseInv
<1>2. CASE agent' = [agent EXCEPT !.state = "Failed"]
  <2>1. /\ DOMAIN agent' = Fields /\ agent'.state = "Failed" /\ agent'.remoteSet = agent.remoteSet
        /\ agent'.gatheringDone = agent.gatheringDone
    BY <1>1, <1>2 DEF Fields
  <2>2. MayReport("New", "Failed")
    BY DEF MayReport, Reported!Follows
  <2> QED
    BY <1>1, <2>1, <2>2 DEF PhaseStep, PhaseInv, States
<1>3. CASE agent' # [agent EXCEPT !.state = "Failed"]
  <2> DEFINE hs == Cut(SetToSeq(Hosts), MaxCandidates)
             a  == [agent EXCEPT !.state = "Gathering",
                        !.locals = [i \in DOMAIN hs |-> [sock |-> hs[i], type |-> "host"]]]
             b  == [a EXCEPT !.resolving = TRUE, !.pending = 1]
  <2>1. agent' = IF Servers = {} THEN GatherCheckDone(a) ELSE Arm(b, "gather")
    BY <1>3 DEF Gather
  <2>2. /\ DOMAIN a = Fields /\ a.state = "Gathering" /\ a.remoteSet = agent.remoteSet
        /\ a.gatheringDone = agent.gatheringDone /\ a.pairs = agent.pairs
    BY <1>1 DEF Fields
  <2>3. KeepsPhase(a, b)
    BY <2>2 DEF Fields, KeepsPhase
  <2>4. KeepsPhase(a, Arm(b, "gather"))
    <3>1. DOMAIN b = Fields
      BY <2>3 DEF KeepsPhase
    <3>2. KeepsPhase(b, Arm(b, "gather"))
      BY <3>1, QuietHelpers
    <3> QED
      BY <2>3, <3>2, KeepsTrans
  <2>5. KeepsPhase(a, agent') \/ Ended(a, agent')
    BY <2>1, <2>2, <2>4, GatherCheckPhase
  <2>6. PhaseInv(agent')
    BY <1>1, <2>2, <2>5 DEF PhaseInv, KeepsPhase, Ended, States
  <2>7. agent'.state \in {"Gathering", "Checking", "Failed"}
    BY <2>2, <2>5 DEF KeepsPhase, Ended
  <2>8. /\ MayReport("New", "Gathering") /\ MayReport("New", "Checking")
        /\ MayReport("New", "Failed")
    BY DEF MayReport, Reported!Follows
  <2> QED
    BY <1>1, <2>6, <2>7, <2>8 DEF PhaseStep
<1> QED
  BY <1>2, <1>3

(* The resolution of the servers may end gathering. *)
LEMMA ResolvedPhase ==
  ASSUME PhaseInv(agent), NEW ok, Resolved(ok)
  PROVE  PhaseStep(agent, agent')
<1> DEFINE qs == SetToSeq(Hosts \X ok)
           a  == Enter(agent, [i \in DOMAIN qs |-> Ask(qs[i][1], qs[i][2])])
           b  == [a EXCEPT !.resolving = FALSE, !.pending = @ - 1 + Len(qs),
                           !.expected = [h \in Hosts |-> Cardinality(ok)]]
<1>1. DOMAIN agent = Fields
  BY DEF PhaseInv
<1>2. KeepsPhase(agent, a)
  BY <1>1, QuietHelpers
<1>3. KeepsPhase(agent, b)
  BY <1>2 DEF KeepsPhase, Fields
<1>4. PhaseInv(b)
  BY <1>3, KeepsIsStep DEF PhaseStep
<1>5. KeepsPhase(b, GatherCheckDone(b)) \/ Ended(b, GatherCheckDone(b))
  BY <1>3, GatherCheckPhase DEF KeepsPhase
<1>6. PhaseStep(b, GatherCheckDone(b))
  <2> HIDE DEF b
  <2> QED
    BY <1>4, <1>5, KeepsIsStep, EndedIsStep
<1>7. agent' = GatherCheckDone(b)
  BY DEF Resolved
<1> QED
  BY <1>3, <1>6, <1>7, KeepsThenStep

(* So may an answer of a server, *)
LEMMA SrflxPhase ==
  ASSUME NEW a, PhaseInv(a), NEW q, NEW ok, NEW nat
  PROVE  PhaseStep(a, SrflxResponse(a, q, ok, nat))
<1> DEFINE h == q.host
           b == [a EXCEPT !.received[h] = @ + 1,
                          !.mapped[h] = IF ok THEN @ \cup {q.server} ELSE @]
           f == FinalizeSrflx(b, h, nat)
           g == [f EXCEPT !.received[h] = 0, !.mapped[h] = {}, !.expected[h] = 0]
           c == IF b.received[h] >= b.expected[h] THEN g ELSE b
           d == [c EXCEPT !.pending = @ - 1]
<1>1. DOMAIN a = Fields
  BY DEF PhaseInv
<1>2. KeepsPhase(a, b)
  BY <1>1 DEF KeepsPhase, Fields
<1>3. KeepsPhase(b, f)
  <2>1. DOMAIN b = Fields
    BY <1>2 DEF KeepsPhase
  <2> QED
    BY <2>1, FinalizePhase
<1>4. KeepsPhase(f, g)
  BY <1>3 DEF KeepsPhase, Fields
<1>5. KeepsPhase(a, g)
  <2>1. KeepsPhase(a, f)
    BY <1>2, <1>3, KeepsTrans
  <2> QED
    BY <2>1, <1>4, KeepsTrans
<1>6. KeepsPhase(a, c)
  BY <1>2, <1>5
<1>7. KeepsPhase(a, d)
  BY <1>6 DEF KeepsPhase, Fields
<1>8. PhaseInv(d)
  BY <1>7, KeepsIsStep DEF PhaseStep
<1>9. KeepsPhase(d, GatherCheckDone(d)) \/ Ended(d, GatherCheckDone(d))
  <2>1. DOMAIN d = Fields
    BY <1>7 DEF KeepsPhase
  <2> QED
    BY <2>1, GatherCheckPhase
<1>10. PhaseStep(d, GatherCheckDone(d))
  <2> HIDE DEF d
  <2> QED
    BY <1>8, <1>9, KeepsIsStep, EndedIsStep
<1>11. SrflxResponse(a, q, ok, nat) = GatherCheckDone(d)
  BY DEF SrflxResponse
<1> QED
  BY <1>7, <1>10, <1>11, KeepsThenStep

(* in time, *)
LEMMA SrflxAnswerPhase ==
  ASSUME PhaseInv(agent), NEW s, NEW ok, SrflxAnswer(s, ok)
  PROVE  PhaseStep(agent, agent')
<1>1. KeepsPhase(agent, Taken(agent, s))
  BY QuietHelpers DEF PhaseInv
<1>2. PhaseInv(Taken(agent, s))
  BY <1>1, KeepsIsStep DEF PhaseStep
<1>3. PICK nat : agent' = SrflxResponse(Taken(agent, s), agent.txns[s], ok, nat)
  BY DEF SrflxAnswer
<1>4. PhaseStep(Taken(agent, s), agent')
  BY <1>2, <1>3, SrflxPhase
<1> QED
  BY <1>1, <1>4, KeepsThenStep

(* or given up, *)
LEMMA SrflxTimeoutPhase ==
  ASSUME PhaseInv(agent), NEW s, SrflxTimeout(s)
  PROVE  PhaseStep(agent, agent')
<1>1. KeepsPhase(agent, GivenUp(agent, s))
  BY QuietHelpers DEF PhaseInv
<1>2. PhaseInv(GivenUp(agent, s))
  BY <1>1, KeepsIsStep DEF PhaseStep
<1>3. PICK nat : agent' = SrflxResponse(GivenUp(agent, s), agent.txns[s], FALSE, nat)
  BY DEF SrflxTimeout
<1>4. PhaseStep(GivenUp(agent, s), agent')
  BY <1>2, <1>3, SrflxPhase
<1> QED
  BY <1>1, <1>4, KeepsThenStep

(* and the gathering timeout. *)
LEMMA GatherTimeoutPhase ==
  ASSUME PhaseInv(agent), GatherTimeout
  PROVE  PhaseStep(agent, agent')
<1> DEFINE a == Fired(agent, "gather")
<1>1. KeepsPhase(agent, a)
  BY QuietHelpers DEF PhaseInv
<1>2. PhaseInv(a)
  BY <1>1, KeepsIsStep DEF PhaseStep
<1>3. DOMAIN a = Fields
  BY <1>2 DEF PhaseInv
<1>4. a.state = "Gathering" => PhaseStep(a, EndGathering(a))
  BY <1>2, <1>3, EndGatheringPhase, EndedIsStep
<1>5. agent' = IF a.state = "Gathering" THEN EndGathering(a) ELSE a
  BY DEF GatherTimeout
<1> QED
  BY <1>1, <1>4, <1>5, KeepsIsStep, KeepsThenStep

(* The description comes once, before any check. *)
LEMMA DescriptionPhase ==
  ASSUME ~Renegotiate, PhaseInv(agent), NEW cs, SetRemoteDescription(cs)
  PROVE  PhaseStep(agent, agent')
<1> DEFINE r == [agent EXCEPT !.remoteSet = TRUE]
           a == Learn(r, cs)
<1>1. DOMAIN agent = Fields /\ ~agent.remoteSet /\ agent.state # "Closed"
  BY DEF PhaseInv, SetRemoteDescription
<1>2. /\ DOMAIN r = Fields /\ r.remoteSet = TRUE /\ r.state = agent.state
      /\ r.gatheringDone = agent.gatheringDone /\ r.pairs = agent.pairs
  BY <1>1 DEF Fields
<1>3. KeepsPhase(r, a)
  BY <1>2, QuietHelpers
<1>4. PhaseInv(a) /\ a.state = agent.state /\ a.remoteSet
      /\ a.gatheringDone = agent.gatheringDone
  BY <1>1, <1>2, <1>3 DEF KeepsPhase, PhaseInv, States
<1>5. agent' = IF a.gatheringDone /\ a.state # "Checking" THEN Restart(a) ELSE a
  BY DEF SetRemoteDescription
<1>6. a.gatheringDone => a.state = "Gathering"
  BY <1>1, <1>4 DEF PhaseInv
<1>7. a.gatheringDone => PhaseStep(a, Restart(a))
  BY <1>4, <1>6, RestartIsStep
<1> QED
  BY <1>4, <1>5, <1>7 DEF PhaseStep, MayReport

(* Sending checks reports nothing. *)
LEMMA ChecksPhase ==
  ASSUME NEW a, DOMAIN a = Fields, a.state = "Checking", NEW S
  PROVE  KeepsPhase(a, SendChecks(a, S))
<1> DEFINE b == [a EXCEPT !.pairs = [i \in DOMAIN a.pairs |->
                   IF i \in S THEN [a.pairs[i] EXCEPT !.st = "InProgress"] ELSE a.pairs[i]]]
           r == [n \in 1 .. Cardinality(S) |-> Check(a, Nth(S, n))]
<1>1. KeepsPhase(a, b) /\ DOMAIN b = Fields
  BY DEF KeepsPhase, Fields
<1>2. KeepsPhase(b, Enter(b, r))
  BY <1>1, QuietHelpers
<1>3. KeepsPhase(a, Enter(b, r))
  BY <1>1, <1>2, KeepsTrans
<1> QED
  BY <1>3 DEF SendChecks

(* A pair that is checked again outside of Checking stays in the list. *)
LEMMA ChecksAnywhere ==
  ASSUME NEW a, PhaseInv(a), NEW S
  PROVE  PhaseInv(SendChecks(a, S)) /\ SendChecks(a, S).state = a.state
<1> DEFINE b == [a EXCEPT !.pairs = [i \in DOMAIN a.pairs |->
                   IF i \in S THEN [a.pairs[i] EXCEPT !.st = "InProgress"] ELSE a.pairs[i]]]
           r == [n \in 1 .. Cardinality(S) |-> Check(a, Nth(S, n))]
<1>1. a.pairs = <<>> => b.pairs = <<>>
  BY DEF PhaseInv, Fields
<1>2. PhaseInv(b) /\ b.state = a.state /\ DOMAIN b = Fields
  BY <1>1 DEF PhaseInv, Fields
<1>3. KeepsPhase(b, Enter(b, r))
  BY <1>2, QuietHelpers
<1>4. PhaseInv(Enter(b, r)) /\ Enter(b, r).state = a.state
  BY <1>2, <1>3 DEF KeepsPhase, PhaseInv
<1> QED
  BY <1>4 DEF SendChecks

(* A late candidate starts a failed agent over, and no other. *)
LEMMA AddPhase ==
  ASSUME PhaseInv(agent), NEW c, AddRemoteCandidate(c)
  PROVE  PhaseStep(agent, agent')
<1> DEFINE a == Learn(agent, {c})
           b == AppendPairs(a, Len(a.remotes))
           r == [a EXCEPT !.nominated = 0]
<1>1. KeepsPhase(agent, a)
  BY QuietHelpers DEF PhaseInv
<1>2. PhaseInv(a) /\ DOMAIN a = Fields
  BY <1>1, KeepsIsStep DEF PhaseStep, PhaseInv
<1>3. ASSUME a.state = "Checking"
      PROVE  PhaseStep(a, SendChecks(b, Len(a.pairs) + 1 .. Len(b.pairs)))
  <2>1. KeepsPhase(a, b) /\ DOMAIN b = Fields /\ b.state = "Checking"
    BY <1>2, <1>3 DEF KeepsPhase, Fields, AppendPairs
  <2>2. KeepsPhase(b, SendChecks(b, Len(a.pairs) + 1 .. Len(b.pairs)))
    BY <2>1, ChecksPhase
  <2> QED
    BY <1>2, <2>1, <2>2, KeepsTrans, KeepsIsStep
<1>4. ASSUME a.state = "Failed" /\ a.gatheringDone
      PROVE  PhaseStep(a, Restart(r))
  <2>1. KeepsPhase(a, r)
    BY <1>2 DEF KeepsPhase, Fields
  <2>2. PhaseInv(r) /\ r.state = "Failed" /\ r.gatheringDone
    BY <1>2, <1>4, <2>1, KeepsIsStep DEF PhaseStep, KeepsPhase
  <2>3. r.remoteSet
    BY <2>2 DEF PhaseInv
  <2>4. PhaseStep(r, Restart(r))
    BY <2>2, <2>3, RestartIsStep
  <2> QED
    BY <1>2, <2>1, <2>4, KeepsThenStep
<1>5. \/ a.state = "Checking" /\ agent' = SendChecks(b, Len(a.pairs) + 1 .. Len(b.pairs))
      \/ a.state = "Failed" /\ a.gatheringDone /\ agent' = Restart(r)
      \/ agent' = a
  BY DEF AddRemoteCandidate
<1>6. PhaseStep(a, a)
  BY <1>2 DEF PhaseStep, MayReport
<1>7. PhaseStep(a, agent')
  BY <1>3, <1>4, <1>5, <1>6
<1> QED
  BY <1>1, <1>7, KeepsThenStep

(* The pacing timer sends a check or tries to nominate. *)
LEMMA PacePhase ==
  ASSUME PhaseInv(agent), Pace
  PROVE  PhaseStep(agent, agent')
<1> DEFINE a    == Fired(agent, "check")
           todo == {i \in InState(a, {"Frozen", "Waiting"}) : i >= a.checkIndex}
           x    == SendCheck(a, Least(todo))
           y    == [x EXCEPT !.checkIndex = Least(todo) + 1]
           z    == [a EXCEPT !.checkIndex = Len(a.pairs) + 1]
<1>1. KeepsPhase(agent, a)
  BY QuietHelpers DEF PhaseInv
<1>2. PhaseInv(a) /\ DOMAIN a = Fields
  BY <1>1, KeepsIsStep DEF PhaseStep, PhaseInv
<1>3. ASSUME a.state = "Checking" PROVE PhaseStep(a, Arm(y, "check"))
  <2>1. KeepsPhase(a, x)
    BY <1>2, <1>3, ChecksPhase DEF SendCheck
  <2>2. KeepsPhase(x, y) /\ DOMAIN y = Fields
    BY <2>1 DEF KeepsPhase, Fields
  <2>3. KeepsPhase(y, Arm(y, "check"))
    BY <2>2, QuietHelpers
  <2>4. KeepsPhase(a, y)
    BY <2>1, <2>2, KeepsTrans
  <2>5. KeepsPhase(a, Arm(y, "check"))
    BY <2>4, <2>3, KeepsTrans
  <2> QED
    BY <1>2, <2>5, KeepsIsStep
<1>4. PhaseStep(a, TryNominate(z))
  <2>1. KeepsPhase(a, z) /\ DOMAIN z = Fields
    BY <1>2 DEF KeepsPhase, Fields
  <2>2. Moves(a, TryNominate(z))
    BY <2>1, TryNominatePhase, KeepsMoves
  <2> QED
    BY <1>2, <2>2, MovesIsStep
<1>5. PhaseStep(a, a)
  BY <1>2 DEF PhaseStep, MayReport
<1>6. \/ agent' = a
      \/ a.state = "Checking" /\ agent' = Arm(y, "check")
      \/ agent' = TryNominate(z)
  BY DEF Pace
<1>7. PhaseStep(a, agent')
  BY <1>3, <1>4, <1>5, <1>6
<1> QED
  BY <1>1, <1>7, KeepsThenStep

(* The keepalive checks pairs and starts a timer. *)
LEMMA KeepalivePhase ==
  ASSUME NEW a, DOMAIN a = Fields, a.state = "Checking"
  PROVE  KeepsPhase(a, Keepalive(a))
<1> DEFINE S == {i \in DOMAIN a.pairs : Type(a, i) = "srflx"}
           b == SendChecks(a, S)
<1>1. KeepsPhase(a, b)
  BY ChecksPhase
<1>2. DOMAIN b = Fields
  BY <1>1 DEF KeepsPhase
<1>3. KeepsPhase(b, Arm(b, "burst"))
  BY <1>2, QuietHelpers
<1>4. KeepsPhase(a, Arm(b, "burst"))
  BY <1>1, <1>3, KeepsTrans
<1> QED
  BY <1>4 DEF Keepalive

(* The check timeout ends the checks or lengthens them. *)
LEMMA CheckTimeoutPhase ==
  ASSUME PhaseInv(agent), CheckTimeout
  PROVE  PhaseStep(agent, agent')
<1> DEFINE a == Fired(agent, "timeout")
           k == [a EXCEPT !.aggressive = "keepalive"]
           m == Arm(k, "timeout")
           d == Disarm(a, "burst")
<1>1. KeepsPhase(agent, a)
  BY QuietHelpers DEF PhaseInv
<1>2. PhaseInv(a) /\ DOMAIN a = Fields
  BY <1>1, KeepsIsStep DEF PhaseStep, PhaseInv
<1>3. PhaseStep(a, a)
  BY <1>2 DEF PhaseStep, MayReport
<1>4. ASSUME a.state = "Checking"
      PROVE  /\ PhaseStep(a, Nominate(a)) /\ PhaseStep(a, StartSpray(a))
             /\ PhaseStep(a, Keepalive(m)) /\ PhaseStep(a, Fail(d))
  <2>1. PhaseStep(a, Nominate(a))
    BY <1>2, <1>4, NominatePhase, MovesIsStep
  <2>2. PhaseStep(a, StartSpray(a))
    BY <1>2, <1>4, SprayPhase, KeepsIsStep
  <2>3. KeepsPhase(a, k) /\ DOMAIN k = Fields
    BY <1>2 DEF KeepsPhase, Fields
  <2>4. KeepsPhase(k, m)
    BY <2>3, QuietHelpers
  <2>5. KeepsPhase(a, m)
    BY <2>3, <2>4, KeepsTrans
  <2>6. DOMAIN m = Fields /\ m.state = "Checking"
    BY <1>4, <2>5 DEF KeepsPhase
  <2>7. KeepsPhase(a, Keepalive(m))
    BY <2>5, <2>6, KeepalivePhase, KeepsTrans
  <2>8. KeepsPhase(a, d)
    BY <1>2, QuietHelpers
  <2>9. DOMAIN d = Fields /\ d.state = "Checking"
    BY <1>4, <2>8 DEF KeepsPhase
  <2>10. Moves(a, Fail(d))
    BY <2>8, <2>9, NominatePhase, KeepsMoves
  <2> QED
    BY <1>2, <2>1, <2>2, <2>7, <2>10, KeepsIsStep, MovesIsStep
<1>5. \/ agent' = a
      \/ /\ a.state = "Checking"
         /\ agent' \in {Nominate(a), StartSpray(a), Keepalive(m), Fail(d)}
  BY DEF CheckTimeout
<1>6. PhaseStep(a, agent')
  BY <1>3, <1>4, <1>5
<1> QED
  BY <1>1, <1>6, KeepsThenStep

(* The timer of the spray or the keepalive reports nothing. *)
LEMMA BurstPhase ==
  ASSUME PhaseInv(agent), Burst
  PROVE  PhaseStep(agent, agent')
<1> DEFINE a    == Fired(agent, "burst")
           todo == {i \in InState(a, {"Frozen", "Waiting"}) : i >= a.sprayIndex}
           now  == {i \in todo : Cardinality({j \in todo : j < i}) < SprayBatch}
           next == IF now # todo THEN 1 + CHOOSE i \in now : \A j \in now : j <= i
                   ELSE Len(a.pairs) + 1
           x    == SendChecks(a, now)
           b    == [x EXCEPT !.sprayIndex = next]
<1>1. KeepsPhase(agent, a)
  BY QuietHelpers DEF PhaseInv
<1>2. PhaseInv(a) /\ DOMAIN a = Fields
  BY <1>1, KeepsIsStep DEF PhaseStep, PhaseInv
<1>3. PhaseStep(a, a)
  BY <1>2 DEF PhaseStep, MayReport
<1>4. ASSUME a.state = "Checking"
      PROVE  PhaseStep(a, Keepalive(a)) /\ PhaseStep(a, b) /\ PhaseStep(a, Arm(b, "burst"))
  <2>1. KeepsPhase(a, x)
    BY <1>2, <1>4, ChecksPhase
  <2>2. KeepsPhase(a, b) /\ DOMAIN b = Fields
    <3>1. KeepsPhase(x, b) /\ DOMAIN b = Fields
      BY <2>1 DEF KeepsPhase, Fields
    <3> QED
      BY <2>1, <3>1, KeepsTrans
  <2>3. KeepsPhase(b, Arm(b, "burst"))
    BY <2>2, QuietHelpers
  <2>4. KeepsPhase(a, Arm(b, "burst"))
    BY <2>2, <2>3, KeepsTrans
  <2> QED
    BY <1>2, <1>4, <2>2, <2>4, KeepalivePhase, KeepsIsStep
<1>5. \/ agent' = a
      \/ a.state = "Checking" /\ agent' \in {Keepalive(a), b, Arm(b, "burst")}
  BY DEF Burst
<1>6. PhaseStep(a, agent')
  BY <1>3, <1>4, <1>5
<1> QED
  BY <1>1, <1>6, KeepsThenStep

(* Nor does the consent timer. *)
LEMMA ConsentPhase ==
  ASSUME PhaseInv(agent), Consent
  PROVE  PhaseStep(agent, agent')
<1> DEFINE a == Fired(agent, "consent")
<1>1. KeepsPhase(agent, a)
  BY QuietHelpers DEF PhaseInv
<1>2. DOMAIN a = Fields
  BY <1>1 DEF KeepsPhase
<1>3. KeepsPhase(a, Arm(a, "consent"))
  BY <1>2, QuietHelpers
<1>4. KeepsPhase(agent, Arm(a, "consent"))
  BY <1>1, <1>3, KeepsTrans
<1>5. agent' \in {a, Arm(a, "consent")}
  BY DEF Consent
<1> QED
  BY <1>1, <1>4, <1>5, KeepsIsStep

(* An answer to a check settles its pair. *)
LEMMA SettledPhase ==
  ASSUME NEW a, PhaseInv(a), NEW t, NEW st
  PROVE  PhaseStep(a, Settled(a, t, st))
<1> DEFINE b == [a EXCEPT !.pairs[t.at].st = st]
<1>1. a.pairs = <<>> => b.pairs = <<>>
  BY DEF PhaseInv, Fields
<1>2. PhaseInv(b) /\ b.state = a.state /\ DOMAIN b = Fields
  BY <1>1 DEF PhaseInv, Fields
<1>3. PhaseStep(b, TryNominate(b))
  BY <1>2, TryNominatePhase, MovesIsStep
<1> QED
  BY <1>2, <1>3 DEF PhaseStep, Settled

(* The answer to a check, or its loss, may end the checks. *)
LEMMA AnswerPhase ==
  ASSUME PhaseInv(agent), NEW s, Succeeds(s) \/ Refused(s) \/ TxnTimeout(s)
  PROVE  PhaseStep(agent, agent')
<1>1. KeepsPhase(agent, Taken(agent, s)) /\ KeepsPhase(agent, GivenUp(agent, s))
  BY QuietHelpers DEF PhaseInv
<1>2. PhaseInv(Taken(agent, s)) /\ PhaseInv(GivenUp(agent, s))
  BY <1>1, KeepsIsStep DEF PhaseStep
<1>3. PICK st : agent' \in {Settled(Taken(agent, s), agent.txns[s], st),
                             Settled(GivenUp(agent, s), agent.txns[s], st)}
  BY DEF Succeeds, Refused, TxnTimeout
<1>4. /\ PhaseStep(Taken(agent, s), Settled(Taken(agent, s), agent.txns[s], st))
      /\ PhaseStep(GivenUp(agent, s), Settled(GivenUp(agent, s), agent.txns[s], st))
  BY <1>2, SettledPhase
<1> QED
  BY <1>1, <1>3, <1>4, KeepsThenStep

(* A role conflict sends the check again. *)
LEMMA ConflictPhase ==
  ASSUME PhaseInv(agent), NEW s, Conflict(s)
  PROVE  PhaseStep(agent, agent')
<1> DEFINE a == Taken(agent, s)
           b == [a EXCEPT !.role = IF @ = "Controlling" THEN "Controlled" ELSE "Controlling"]
<1>1. KeepsPhase(agent, a)
  BY QuietHelpers DEF PhaseInv
<1>2. KeepsPhase(a, b)
  BY <1>1 DEF KeepsPhase, Fields
<1>3. KeepsPhase(agent, b)
  BY <1>1, <1>2, KeepsTrans
<1>4. PhaseInv(b)
  BY <1>3, KeepsIsStep DEF PhaseStep
<1>5. agent' = SendChecks(b, {agent.txns[s].at})
  BY DEF Conflict, SendCheck
<1>6. PhaseInv(agent') /\ agent'.state = b.state
  BY <1>4, <1>5, ChecksAnywhere
<1> QED
  BY <1>3, <1>6 DEF PhaseStep, MayReport, KeepsPhase

(* A nomination by the peer connects an agent that has pairs. *)
LEMMA RequestPhase ==
  ASSUME PhaseInv(agent), NEW h, NEW from, NEW use, Request(h, from, use)
  PROVE  PhaseStep(agent, agent')
<1> DEFINE p == [agent EXCEPT !.remotes = Append(@, [addr |-> from, type |-> "prflx"])]
           o == Observe(agent, from)
           a == Trigger(o, h, from)
           mine == {i \in PairsWith(o, from) : o.locals[o.pairs[i].l].sock = h}
           i == Least(PairsWith(a, from))
           n == [a EXCEPT !.nominated = i, !.pairs[i].st = "Succeeded", !.state = "Connected"]
<1>1. DOMAIN agent = Fields /\ agent.state # "Closed" /\ agent.remoteSet
  BY DEF Request, PhaseInv
<1>2. KeepsPhase(agent, p) /\ KeepsPhase(agent, agent)
  BY <1>1 DEF KeepsPhase, Fields
<1>3. p.state = "Checking" => KeepsPhase(agent, AppendPairs(p, Len(p.remotes)))
  BY <1>2 DEF KeepsPhase, Fields, AppendPairs
<1>4. KeepsPhase(agent, o)
  BY <1>2, <1>3 DEF Observe
<1>5. DOMAIN o = Fields
  BY <1>4 DEF KeepsPhase
<1>6. o.state = "Checking" => KeepsPhase(o, SendChecks(o, {Least(mine)}))
  BY <1>5, ChecksPhase
<1>7. KeepsPhase(agent, a)
  <2>1. a = o \/ (o.state = "Checking" /\ a = SendChecks(o, {Least(mine)}))
    BY DEF Trigger, SendCheck
  <2> QED
    BY <1>4, <1>6, <2>1, KeepsTrans
<1>8. PhaseInv(a)
  BY <1>7, KeepsIsStep DEF PhaseStep
<1>9. ASSUME PairsWith(a, from) # {}
      PROVE  PhaseStep(a, Arm(n, "consent"))
  <2>1. a.pairs # <<>>
    BY <1>9 DEF PairsWith
  <2>2. a.state \in {"Checking", "Failed", "Connected"}
    BY <1>1, <1>7, <1>8, <2>1 DEF PhaseInv, KeepsPhase, States
  <2>3. /\ DOMAIN n = Fields /\ n.state = "Connected" /\ n.remoteSet = a.remoteSet
        /\ n.gatheringDone = a.gatheringDone
    BY <1>8 DEF PhaseInv, Fields
  <2>4. KeepsPhase(n, Arm(n, "consent"))
    BY <2>3, QuietHelpers
  <2>5. PhaseInv(Arm(n, "consent")) /\ Arm(n, "consent").state = "Connected"
    BY <1>1, <1>7, <2>3, <2>4 DEF PhaseInv, KeepsPhase, States
  <2>6. /\ MayReport("Checking", "Connected") /\ MayReport("Failed", "Connected")
        /\ MayReport("Connected", "Connected")
    BY DEF MayReport, Reported!Follows
  <2> QED
    BY <2>2, <2>5, <2>6 DEF PhaseStep
<1>10. agent' = a \/ (PairsWith(a, from) # {} /\ agent' = Arm(n, "consent"))
  BY DEF Request, TakeNomination
<1>11. PhaseStep(a, a)
  BY <1>8 DEF PhaseStep, MayReport
<1> QED
  BY <1>7, <1>9, <1>10, <1>11, KeepsThenStep

(* A destroyed agent is closed. *)
LEMMA DestroyPhase ==
  ASSUME PhaseInv(agent), DestroyAgent
  PROVE  PhaseStep(agent, agent')
<1>1. PICK x : agent' = [InitAgent(agent.role) EXCEPT !.state = "Closed", !.armed = x]
  BY DEF DestroyAgent
<1>2. agent.state # "Closed"
  BY DEF DestroyAgent
<1>3. /\ DOMAIN agent' = Fields /\ agent'.state = "Closed" /\ agent'.remoteSet = FALSE
      /\ agent'.gatheringDone = FALSE
  BY <1>1 DEF InitAgent, Fields
<1> QED
  BY <1>2, <1>3 DEF PhaseStep, PhaseInv, MayReport, States

(* Every step reports what the peer connection expects, or nothing. *)
LEMMA StepPhase ==
  ASSUME ~Renegotiate, PhaseInv(agent), [IceNext]_agent
  PROVE  PhaseInv(agent') /\ [Reported!PhaseNext]_(agent.state)
<1>1. PhaseStep(agent, agent')
  <2>1. CASE UNCHANGED agent
    BY <2>1 DEF PhaseStep, MayReport
  <2>2. CASE IceNext
    BY <2>2, GatherPhase, DescriptionPhase, AddPhase, DestroyPhase, ResolvedPhase,
       SrflxAnswerPhase, AnswerPhase, ConflictPhase, RequestPhase, GatherTimeoutPhase,
       PacePhase, CheckTimeoutPhase, BurstPhase, ConsentPhase, SrflxTimeoutPhase
       DEF IceNext, Called, Heard, Elapsed
  <2> QED
    BY <2>1, <2>2
<1>2. ASSUME NEW s \in States, NEW t \in States, MayReport(s, t)
      PROVE  s = t \/ (t \in {"Gathering", "Checking", "Connected", "Failed"}
                       /\ t \in Reported!Follows[s]) \/ (s # "Closed" /\ t = "Closed")
  BY <1>2 DEF MayReport, States, Reported!Follows
<1>3. agent.state \in States /\ agent'.state \in States /\ MayReport(agent.state, agent'.state)
  BY <1>1 DEF PhaseStep, PhaseInv
<1> QED
  BY <1>1, <1>2, <1>3 DEF PhaseStep, Reported!PhaseNext, Reported!Report, Reported!Close

(* The agent reports its states in the order PeerConnection relies on, when *)
(* its remote description is set once.                                      *)
THEOREM AgentReports ==
  ASSUME ~Renegotiate
  PROVE  IceSpec => ReportsPhases
<1>1. ASSUME IceInit PROVE PhaseInv(agent) /\ agent.state = "New"
  <2>1. PICK role : agent = InitAgent(role)
    BY <1>1 DEF IceInit
  <2> QED
    BY <2>1 DEF InitAgent, PhaseInv, Fields, States
<1>2. PhaseInv(agent) /\ [IceNext]_agent => PhaseInv(agent)' /\ [Reported!PhaseNext]_(agent.state)
  BY StepPhase
<1> QED
  BY <1>1, <1>2, PTL DEF IceSpec, ReportsPhases, Reported!PhaseSpec, Reported!PhaseInit

-------------------------------------------------------------------------------
(* Positions in finite sets *)

(* A strict order of S, given by its pairs. *)
Orders(L, S) ==
  /\ \A x \in S : <<x, x>> \notin L
  /\ \A x, y \in S : x # y => <<x, y>> \in L \/ <<y, x>> \in L
  /\ \A x, y, z \in S : <<x, y>> \in L /\ <<y, z>> \in L => <<x, z>> \in L

(* How many come before. *)
Rank(L, S) == [x \in S |-> Cardinality({y \in S : <<y, x>> \in L})]

(* In a strict order of a finite set the ranks differ. *)
LEMMA RanksDiffer ==
  ASSUME NEW S, IsFiniteSet(S), NEW L, Orders(L, S)
  PROVE  /\ Cardinality(S) \in Nat
         /\ \A x \in S : Rank(L, S)[x] \in 0 .. Cardinality(S) - 1
         /\ \A x, y \in S : Rank(L, S)[x] = Rank(L, S)[y] => x = y
<1> DEFINE B(x) == {y \in S : <<y, x>> \in L}
<1>1. Cardinality(S) \in Nat
  BY FS_CardinalityType
<1>2. ASSUME NEW x \in S PROVE Rank(L, S)[x] \in 0 .. Cardinality(S) - 1
  <2>1. B(x) \in SUBSET (S \ {x})
    BY DEF Orders
  <2>2. IsFiniteSet(S \ {x}) /\ Cardinality(S \ {x}) = Cardinality(S) - 1
    BY <1>2, FS_RemoveElement
  <2>3. IsFiniteSet(B(x)) /\ Cardinality(B(x)) <= Cardinality(S) - 1
    BY <2>1, <2>2, FS_Subset
  <2>4. Cardinality(B(x)) \in Nat
    BY <2>3, FS_CardinalityType
  <2>5. Rank(L, S)[x] = Cardinality(B(x))
    BY DEF Rank
  <2> QED
    BY <1>1, <2>3, <2>4, <2>5
<1>3. ASSUME NEW x \in S, NEW y \in S, <<x, y>> \in L
      PROVE  Rank(L, S)[x] # Rank(L, S)[y]
  <2>1. B(x) \in SUBSET B(y) /\ x \in B(y) /\ x \notin B(x)
    BY <1>3 DEF Orders
  <2>2. B(y) \in SUBSET S
    OBVIOUS
  <2>3. IsFiniteSet(B(y))
    BY <2>2, FS_Subset
  <2>4. Cardinality(B(x)) = Cardinality(B(y)) => B(x) = B(y)
    BY <2>1, <2>3, FS_Subset
  <2>5. Cardinality(B(x)) # Cardinality(B(y))
    BY <2>1, <2>4
  <2>6. Rank(L, S)[x] = Cardinality(B(x)) /\ Rank(L, S)[y] = Cardinality(B(y))
    BY DEF Rank
  <2> QED
    BY <2>5, <2>6
<1>4. ASSUME NEW x \in S, NEW y \in S, Rank(L, S)[x] = Rank(L, S)[y]
      PROVE  x = y
  <2>1. x # y => <<x, y>> \in L \/ <<y, x>> \in L
    BY DEF Orders
  <2>2. <<x, y>> \notin L /\ <<y, x>> \notin L
    BY <1>3, <1>4
  <2> QED
    BY <2>1, <2>2
<1> QED
  BY <1>1, <1>2, <1>4

(* Every place is taken. *)
LEMMA RanksFill ==
  ASSUME NEW S, IsFiniteSet(S), NEW L, Orders(L, S), NEW m \in 0 .. Cardinality(S) - 1
  PROVE  \E x \in S : Rank(L, S)[x] = m
<1> DEFINE T == 0 .. Cardinality(S) - 1
<1>1. Cardinality(S) \in Nat
  BY FS_CardinalityType
<1>2. Rank(L, S) \in Injection(S, T)
  <2>1. /\ \A x \in S : Rank(L, S)[x] \in T
        /\ \A x, y \in S : Rank(L, S)[x] = Rank(L, S)[y] => x = y
    BY RanksDiffer
  <2>2. Rank(L, S) = [x \in S |-> Rank(L, S)[x]]
    BY DEF Rank
  <2>3. Rank(L, S) \in [S -> T] /\ DOMAIN Rank(L, S) = S
    BY <2>1, <2>2
  <2> HIDE DEF T
  <2> QED
    BY <2>1, <2>3 DEF Injection, IsInjective
<1>3. IsFiniteSet(T) /\ Cardinality(T) = Cardinality(S)
  <2>1. 0 \in Int /\ Cardinality(S) - 1 \in Int
    BY <1>1
  <2>2. IsFiniteSet(T) /\ Cardinality(T) = IF 0 > Cardinality(S) - 1 THEN 0 ELSE Cardinality(S) - 1 - 0 + 1
    BY <2>1, FS_Interval
  <2> QED
    BY <1>1, <2>2
<1>4. Rank(L, S) \in Surjection(S, T)
  BY <1>2, <1>3, FS_Injection
<1> QED
  BY <1>4 DEF Surjection

(* The n-th of a finite set of numbers, and its place. *)
LEMMA NthFacts ==
  ASSUME NEW S, IsFiniteSet(S), S \subseteq Nat, NEW n \in 1 .. Cardinality(S)
  PROVE  Nth(S, n) \in S /\ Place(S, Nth(S, n)) = n - 1
<1> DEFINE L == {p \in S \X S : p[1] < p[2]}
<1>1. Orders(L, S)
  BY DEF Orders
<1>2. Cardinality(S) \in Nat /\ n - 1 \in 0 .. Cardinality(S) - 1
  BY FS_CardinalityType
<1>3. PICK x \in S : Rank(L, S)[x] = n - 1
  BY <1>1, <1>2, RanksFill
<1>4. {j \in S : j < x} = {j \in S : <<j, x>> \in L}
  OBVIOUS
<1>5. Place(S, x) = n - 1
  BY <1>3, <1>4 DEF Place, Rank
<1> QED
  BY <1>5 DEF Nth

(* Places in a set of numbers differ. *)
LEMMA PlacesDiffer ==
  ASSUME NEW S, IsFiniteSet(S), S \subseteq Nat
  PROVE  /\ \A x \in S : Place(S, x) \in Nat
         /\ \A x, y \in S : Place(S, x) = Place(S, y) => x = y
<1> DEFINE L == {p \in S \X S : p[1] < p[2]}
<1>1. Orders(L, S)
  BY DEF Orders
<1>2. ASSUME NEW x \in S PROVE Place(S, x) = Rank(L, S)[x]
  <2>1. {j \in S : j < x} = {j \in S : <<j, x>> \in L}
    OBVIOUS
  <2> QED
    BY <2>1 DEF Place, Rank
<1>3. Cardinality(S) \in Nat
  BY FS_CardinalityType
<1> QED
  BY <1>1, <1>2, <1>3, RanksDiffer

(* The first of some numbers. *)
LEMMA LeastFacts ==
  ASSUME NEW S, S \subseteq Nat, S # {}
  PROVE  Least(S) \in S /\ \A j \in S : Least(S) <= j
<1>1. PICK n \in Nat : n \in S
  OBVIOUS
<1> DEFINE T == {j \in S : j <= n}
           L == {p \in T \X T : p[1] < p[2]}
<1>2. T \in SUBSET (0 .. n) /\ n \in T /\ T \subseteq Nat
  <2>1. n \in T
    BY <1>1
  <2>2. T \subseteq Nat
    OBVIOUS
  <2>3. \A j \in T : j <= n
    OBVIOUS
  <2>4. \A j \in T : j \in 0 .. n
    BY <1>1, <2>2, <2>3
  <2> HIDE DEF T
  <2> QED
    BY <2>1, <2>2, <2>4
<1>3. IsFiniteSet(T)
  <2>1. IsFiniteSet(0 .. n)
    BY <1>1, FS_Interval
  <2> QED
    BY <1>2, <2>1, FS_Subset
<1>4. Cardinality(T) \in Nat /\ Cardinality(T) # 0
  BY <1>2, <1>3, FS_CardinalityType, FS_EmptySet
<1>5. Orders(L, T)
  BY <1>2 DEF Orders
<1>6. PICK x \in T : Rank(L, T)[x] = 0
  <2>1. 0 \in 0 .. Cardinality(T) - 1
    BY <1>4
  <2> HIDE DEF T, L
  <2> QED
    BY <1>3, <1>5, <2>1, RanksFill
<1>7. Cardinality({y \in T : <<y, x>> \in L}) = 0
  BY <1>6 DEF Rank
<1>8. {y \in T : <<y, x>> \in L} = {}
  BY <1>3, <1>7, FS_Subset, FS_EmptySet
<1>9. \A j \in S : x <= j
  <2>1. \A j \in T : ~(j < x)
    BY <1>8
  <2>2. x \in Nat /\ x <= n
    BY <1>2
  <2>3. ASSUME NEW j \in S PROVE x <= j
    <3>1. CASE j \in T
      BY <1>2, <2>1, <2>2, <3>1
    <3>2. CASE j \notin T
      BY <1>1, <2>2, <3>2
    <3> QED
      BY <3>1, <3>2
  <2> QED
    BY <2>3
<1>10. x \in S
  OBVIOUS
<1> QED
  BY <1>9, <1>10 DEF Least

-------------------------------------------------------------------------------
(* The tables of the ICE agent: candidates, pairs, transactions *)

(* The addresses of candidates, and the shapes of what the tables hold. *)
Spots       == Addresses \cup {Guess}
RemoteTypes == [addr : Spots, type : {"host", "srflx", "prflx"}]
PairTypes   == [l : Nat, r : Nat, st : {"Frozen", "Waiting", "InProgress", "Succeeded", "Failed"}]
Asks        == [kind : {"ask"}, host : Hosts, server : Servers]
ChecksOf(n) == [kind : {"check"}, at : 1 .. n, l : Nat, r : Nat]

(* How many servers owe an answer. *)
Asked(a) == Cardinality(InTable(a, "ask"))

(* The lists of candidates and pairs. *)
Lists(a) ==
  /\ a.locals \in Seq(LocalTypes) /\ Len(a.locals) <= MaxCandidates
  /\ a.remotes \in Seq(RemoteTypes) /\ Len(a.remotes) <= MaxCandidates
  /\ a.pairs \in Seq(PairTypes) /\ Len(a.pairs) <= MaxPairs
  /\ \A i \in 1 .. Len(a.pairs) :
       a.pairs[i].l \in 1 .. Len(a.locals) /\ a.pairs[i].r \in 1 .. Len(a.remotes)
  /\ a.nominated \in 0 .. Len(a.pairs)

(* A check in the table points at the pair it was sent on. *)
Credits(a) ==
  /\ a.txns \in [Slots -> {Free, Dead} \cup Asks \cup ChecksOf(Len(a.pairs))]
  /\ \A s \in Slots : a.txns[s].kind = "check" =>
       LET t == a.txns[s] IN a.pairs[t.at].l = t.l /\ a.pairs[t.at].r = t.r

(* What is pending counts the requests to the servers, and the resolution. *)
Owes(a, n) ==
  /\ a.resolving \in BOOLEAN /\ a.pending \in Nat
  /\ Asked(a) + (IF a.resolving THEN 1 ELSE 0) + n <= a.pending
  /\ a.state = "New" => a.pending = 0

(* The tables of an agent between two handlers. *)
Tables(a) ==
  /\ DOMAIN a = Fields /\ a.role \in {"Controlling", "Controlled"}
  /\ Lists(a) /\ Credits(a) /\ Owes(a, 0)

(* b has the tables of a. *)
SameTables(a, b) ==
  /\ DOMAIN b = Fields /\ b.role = a.role /\ (b.state = "New" => a.state = "New")
  /\ b.locals = a.locals /\ b.remotes = a.remotes /\ b.pairs = a.pairs
  /\ b.nominated = a.nominated /\ b.txns = a.txns
  /\ b.resolving = a.resolving /\ b.pending = a.pending

(* The bounds are positive numbers, the slots are finitely many numbers. *)
LEMMA Bounds ==
  /\ MaxCandidates \in Nat \ {0} /\ MaxPairs \in Nat \ {0} /\ MaxTxns \in Nat \ {0}
  /\ Predicted \in Nat \ {0} /\ SprayBatch \in Nat \ {0}
  /\ IsFiniteSet(Slots) /\ Slots \subseteq Nat
<1>1. /\ MaxCandidates \in Nat \ {0} /\ MaxPairs \in Nat \ {0} /\ MaxTxns \in Nat \ {0}
      /\ Predicted \in Nat \ {0} /\ SprayBatch \in Nat \ {0}
  BY IceAssumption
<1>2. IsFiniteSet(1 .. MaxTxns)
  BY <1>1, FS_Interval
<1> QED
  BY <1>1, <1>2 DEF Slots

(* The tables do not depend on anything else. *)
LEMMA TablesCarry ==
  ASSUME NEW a, NEW b, SameTables(a, b)
  PROVE  /\ Tables(a) => Tables(b)
         /\ InTable(b, "ask") = InTable(a, "ask") /\ InTable(b, "check") = InTable(a, "check")
<1>1. \A k : InTable(b, k) = InTable(a, k)
  BY DEF SameTables, InTable
<1>2. Lists(a) => Lists(b)
  BY DEF SameTables, Lists
<1>3. Credits(a) => Credits(b)
  BY DEF SameTables, Credits
<1>4. Owes(a, 0) => Owes(b, 0)
  BY <1>1 DEF SameTables, Owes, Asked
<1> QED
  BY <1>1, <1>2, <1>3, <1>4 DEF SameTables, Tables

(* Sets of slots are finite. *)
LEMMA InTableFacts ==
  ASSUME NEW a, NEW k
  PROVE  /\ IsFiniteSet(InTable(a, k)) /\ Cardinality(InTable(a, k)) \in Nat
         /\ InTable(a, k) \subseteq Nat /\ InTable(a, k) \subseteq Slots
<1>1. InTable(a, k) \in SUBSET Slots
  BY DEF InTable
<1> QED
  BY <1>1, Bounds, FS_Subset, FS_CardinalityType

(* Requests entered into free places. *)
LEMMA EnterFacts ==
  ASSUME NEW a, DOMAIN a = Fields, NEW r, Len(r) \in Nat
  PROVE  LET b == Enter(a, r) IN
         /\ DOMAIN b = Fields /\ b.role = a.role /\ b.locals = a.locals /\ b.remotes = a.remotes
         /\ b.pairs = a.pairs /\ b.nominated = a.nominated
         /\ b.resolving = a.resolving /\ b.pending = a.pending
         /\ DOMAIN b.txns = Slots /\ b.txns = [s \in Slots |-> b.txns[s]]
         /\ \A s \in Slots :
              \/ b.txns[s] = a.txns[s]
              \/ /\ a.txns[s].kind = "free" /\ Place(InTable(a, "free"), s) < Len(r)
                 /\ Place(InTable(a, "free"), s) + 1 \in 1 .. Len(r)
                 /\ b.txns[s] = r[Place(InTable(a, "free"), s) + 1]
<1> DEFINE free == InTable(a, "free")
           x == [s \in Slots |-> IF s \in free /\ Place(free, s) < Len(r)
                                 THEN r[Place(free, s) + 1] ELSE a.txns[s]]
<1>1. Enter(a, r) = [a EXCEPT !.txns = x]
  BY DEF Enter
<1>2. /\ DOMAIN Enter(a, r) = Fields /\ Enter(a, r).role = a.role
      /\ Enter(a, r).locals = a.locals /\ Enter(a, r).remotes = a.remotes
      /\ Enter(a, r).pairs = a.pairs /\ Enter(a, r).nominated = a.nominated
      /\ Enter(a, r).resolving = a.resolving /\ Enter(a, r).pending = a.pending
      /\ Enter(a, r).txns = x
  BY <1>1 DEF Fields
<1>3. ASSUME NEW s \in Slots
      PROVE  \/ x[s] = a.txns[s]
             \/ /\ a.txns[s].kind = "free" /\ Place(free, s) < Len(r)
                /\ Place(free, s) + 1 \in 1 .. Len(r)
                /\ x[s] = r[Place(free, s) + 1]
  <2>1. CASE s \in free /\ Place(free, s) < Len(r)
    <3>1. Place(free, s) \in Nat
      BY <2>1, InTableFacts, PlacesDiffer
    <3>2. a.txns[s].kind = "free"
      BY <2>1 DEF InTable
    <3> QED
      BY <2>1, <3>1, <3>2
  <2>2. CASE ~(s \in free /\ Place(free, s) < Len(r))
    BY <2>2
  <2> QED
    BY <2>1, <2>2
<1> HIDE DEF x, free
<1>4. DOMAIN x = Slots /\ x = [s \in Slots |-> x[s]]
  BY DEF x
<1> QED
  BY <1>2, <1>3, <1>4 DEF free

(* b is in the state of a and has its timers. *)
SameTimers(a, b) ==
  /\ b.state = a.state /\ b.armed = a.armed /\ b.held = a.held
  /\ b.aggressive = a.aggressive /\ b.gatheringDone = a.gatheringDone

(* A request entered touches no timer. *)
LEMMA EnterTimers ==
  ASSUME NEW a, DOMAIN a = Fields, NEW r
  PROVE  SameTimers(a, Enter(a, r))
  BY DEF Fields, Enter, SameTimers

(* Checks are sent of pairs in the list: they fill free places. *)
LEMMA ChecksKeep ==
  ASSUME NEW a, Tables(a), NEW S, S \subseteq 1 .. Len(a.pairs)
  PROVE  LET b == SendChecks(a, S) IN
         /\ Tables(b) /\ SameTimers(a, b)
         /\ b.locals = a.locals /\ b.remotes = a.remotes /\ b.nominated = a.nominated
         /\ Len(b.pairs) = Len(a.pairs)
         /\ b.resolving = a.resolving /\ InTable(b, "ask") = InTable(a, "ask")
<1> DEFINE p == [i \in DOMAIN a.pairs |->
                   IF i \in S THEN [a.pairs[i] EXCEPT !.st = "InProgress"] ELSE a.pairs[i]]
           m == [a EXCEPT !.pairs = p]
           r == [n \in 1 .. Cardinality(S) |-> Check(a, Nth(S, n))]
           b == Enter(m, r)
<1>1. SendChecks(a, S) = b
  BY DEF SendChecks
<1>2. /\ DOMAIN a = Fields /\ a.pairs \in Seq(PairTypes) /\ Len(a.pairs) \in Nat
      /\ DOMAIN a.pairs = 1 .. Len(a.pairs)
      /\ \A i \in 1 .. Len(a.pairs) : a.pairs[i] \in PairTypes
  <2>1. DOMAIN a = Fields /\ a.pairs \in Seq(PairTypes)
    BY DEF Tables, Lists
  <2> QED
    BY <2>1, LenProperties, ElementOfSeq
<1>3. S \in SUBSET (1 .. Len(a.pairs)) /\ S \subseteq Nat
  BY <1>2
<1>4. IsFiniteSet(S) /\ Cardinality(S) \in Nat
  <2>1. IsFiniteSet(1 .. Len(a.pairs))
    BY <1>2, FS_Interval
  <2> QED
    BY <1>3, <2>1, FS_Subset, FS_CardinalityType
<1>5. Len(r) = Cardinality(S) /\ Len(r) \in Nat
  BY <1>4
<1>6. \A n \in 1 .. Len(r) : \E i \in S : r[n] = Check(a, i)
  BY <1>3, <1>4, <1>5, NthFacts
<1>7. /\ DOMAIN m = Fields /\ m.role = a.role /\ m.locals = a.locals /\ m.remotes = a.remotes
      /\ m.pairs = p /\ m.nominated = a.nominated /\ m.txns = a.txns
      /\ m.resolving = a.resolving /\ m.pending = a.pending /\ SameTimers(a, m)
  BY <1>2 DEF Fields, SameTimers
<1>8. /\ p \in Seq(PairTypes) /\ Len(p) = Len(a.pairs)
      /\ \A i \in 1 .. Len(a.pairs) : p[i].l = a.pairs[i].l /\ p[i].r = a.pairs[i].r
  <2>1. \A i \in 1 .. Len(a.pairs) :
          p[i] \in PairTypes /\ p[i].l = a.pairs[i].l /\ p[i].r = a.pairs[i].r
    BY <1>2 DEF PairTypes
  <2>2. p = [i \in 1 .. Len(a.pairs) |-> p[i]]
    BY <1>2
  <2> HIDE DEF p
  <2>3. p \in [1 .. Len(a.pairs) -> PairTypes]
    BY <2>1, <2>2
  <2>4. p \in Seq(PairTypes) /\ Len(p) = Len(a.pairs)
    BY <1>2, <2>3
  <2> QED
    BY <2>1, <2>4
<1> HIDE DEF p, m, r
<1>9. /\ DOMAIN b = Fields /\ b.role = a.role /\ b.locals = a.locals /\ b.remotes = a.remotes
      /\ b.pairs = p /\ b.nominated = a.nominated
      /\ b.resolving = a.resolving /\ b.pending = a.pending
      /\ b.txns = [s \in Slots |-> b.txns[s]]
      /\ \A s \in Slots :
           \/ b.txns[s] = a.txns[s]
           \/ a.txns[s].kind = "free" /\ \E n \in 1 .. Len(r) : b.txns[s] = r[n]
  <2>1. \A s \in Slots : m.txns[s] = a.txns[s]
    BY <1>7
  <2> QED
    BY <1>5, <1>7, <2>1, EnterFacts
<1>10. SameTimers(a, b)
  BY <1>7, EnterTimers DEF SameTimers
<1> HIDE DEF b
<1>11. ASSUME NEW s \in Slots
       PROVE  \/ b.txns[s] = a.txns[s]
              \/ a.txns[s].kind = "free" /\ \E i \in S : b.txns[s] = Check(a, i)
  BY <1>6, <1>9
<1>12. ASSUME NEW i \in S
       PROVE  /\ Check(a, i) \in ChecksOf(Len(a.pairs)) /\ Check(a, i).kind = "check"
              /\ Check(a, i).at = i /\ Check(a, i).l = a.pairs[i].l /\ Check(a, i).r = a.pairs[i].r
  BY <1>2, <1>3 DEF Check, ChecksOf, PairTypes
<1>13. Lists(b)
  BY <1>8, <1>9 DEF Tables, Lists
<1>14. Credits(b)
  <2>1. Credits(a)
    BY DEF Tables
  <2>2. \A s \in Slots : b.txns[s] \in {Free, Dead} \cup Asks \cup ChecksOf(Len(a.pairs))
    BY <1>11, <1>12, <2>1 DEF Credits
  <2>3. b.txns \in [Slots -> {Free, Dead} \cup Asks \cup ChecksOf(Len(b.pairs))]
    BY <1>8, <1>9, <2>2
  <2>4. ASSUME NEW s \in Slots, b.txns[s].kind = "check"
        PROVE  b.pairs[b.txns[s].at].l = b.txns[s].l /\ b.pairs[b.txns[s].at].r = b.txns[s].r
    <3>1. CASE b.txns[s] = a.txns[s]
      <4>1. a.txns[s] \in ChecksOf(Len(a.pairs))
        BY <2>1, <2>4, <3>1 DEF Credits, Asks, Free, Dead
      <4>2. a.txns[s].at \in 1 .. Len(a.pairs)
        BY <4>1 DEF ChecksOf
      <4> QED
        BY <1>8, <1>9, <2>1, <2>4, <3>1, <4>2 DEF Credits
    <3>2. CASE \E i \in S : b.txns[s] = Check(a, i)
      BY <1>3, <1>8, <1>9, <1>12, <3>2
    <3> QED
      BY <1>11, <3>1, <3>2
  <2> QED
    BY <2>3, <2>4 DEF Credits
<1>15. InTable(b, "ask") = InTable(a, "ask")
  <2>1. \A s \in Slots : b.txns[s].kind = "ask" <=> a.txns[s].kind = "ask"
    BY <1>11, <1>12
  <2> QED
    BY <2>1 DEF InTable
<1>16. Owes(b, 0)
  BY <1>9, <1>10, <1>15 DEF Tables, Owes, Asked, SameTimers
<1>17. Tables(b)
  BY <1>9, <1>13, <1>14, <1>16 DEF Tables
<1> QED
  BY <1>1, <1>8, <1>9, <1>10, <1>15, <1>17

(* b has the lists of a and possibly more, whose pairs stay what they are. *)
Grown(a, b) ==
  /\ DOMAIN b = Fields /\ b.role = a.role /\ (b.state = "New" => a.state = "New")
  /\ b.nominated = a.nominated /\ b.txns = a.txns
  /\ b.resolving = a.resolving /\ b.pending = a.pending
  /\ b.locals \in Seq(LocalTypes) /\ Len(a.locals) <= Len(b.locals)
  /\ Len(b.locals) <= MaxCandidates
  /\ b.remotes \in Seq(RemoteTypes) /\ Len(a.remotes) <= Len(b.remotes)
  /\ Len(b.remotes) <= MaxCandidates
  /\ b.pairs \in Seq(PairTypes) /\ Len(a.pairs) <= Len(b.pairs) /\ Len(b.pairs) <= MaxPairs
  /\ \A i \in 1 .. Len(a.pairs) : b.pairs[i].l = a.pairs[i].l /\ b.pairs[i].r = a.pairs[i].r
  /\ \A i \in 1 .. Len(b.pairs) : i > Len(a.pairs) =>
       b.pairs[i].l \in 1 .. Len(b.locals) /\ b.pairs[i].r \in 1 .. Len(b.remotes)

(* Lists that only grow keep what the tables say. *)
LEMMA GrownKeep ==
  ASSUME NEW a, Tables(a), NEW b, Grown(a, b)
  PROVE  Tables(b)
<1>1. /\ Len(a.locals) \in Nat /\ Len(b.locals) \in Nat /\ Len(a.remotes) \in Nat
      /\ Len(b.remotes) \in Nat /\ Len(a.pairs) \in Nat /\ Len(b.pairs) \in Nat
      /\ Lists(a) /\ Credits(a) /\ Owes(a, 0)
  BY DEF Tables, Lists, Grown
<1>2. \A i \in 1 .. Len(a.pairs) :
        a.pairs[i].l \in 1 .. Len(a.locals) /\ a.pairs[i].r \in 1 .. Len(a.remotes)
  BY <1>1 DEF Lists
<1>3. ASSUME NEW i \in 1 .. Len(b.pairs)
      PROVE  b.pairs[i].l \in 1 .. Len(b.locals) /\ b.pairs[i].r \in 1 .. Len(b.remotes)
  <2>1. CASE i > Len(a.pairs)
    BY <2>1 DEF Grown
  <2>2. CASE ~(i > Len(a.pairs))
    <3>1. i \in 1 .. Len(a.pairs)
      BY <1>1, <2>2
    <3>2. b.pairs[i].l = a.pairs[i].l /\ b.pairs[i].r = a.pairs[i].r
      BY <3>1 DEF Grown
    <3>3. a.pairs[i].l \in 1 .. Len(a.locals) /\ a.pairs[i].r \in 1 .. Len(a.remotes)
      BY <1>2, <3>1
    <3>4. Len(a.locals) <= Len(b.locals) /\ Len(a.remotes) <= Len(b.remotes)
      BY DEF Grown
    <3>5. b.pairs[i].l \in 1 .. Len(b.locals)
      BY <1>1, <3>2, <3>3, <3>4
    <3>6. b.pairs[i].r \in 1 .. Len(b.remotes)
      BY <1>1, <3>2, <3>3, <3>4
    <3> QED
      BY <3>5, <3>6
  <2> QED
    BY <2>1, <2>2
<1>4. b.nominated \in 0 .. Len(b.pairs)
  BY <1>1 DEF Lists, Grown
<1>5. Lists(b)
  BY <1>3, <1>4 DEF Lists, Grown
<1>6. Credits(b)
  <2>1. ChecksOf(Len(a.pairs)) \subseteq ChecksOf(Len(b.pairs))
    BY <1>1 DEF ChecksOf, Grown
  <2>2. b.txns \in [Slots -> {Free, Dead} \cup Asks \cup ChecksOf(Len(b.pairs))]
    BY <1>1, <2>1 DEF Credits, Grown
  <2>3. ASSUME NEW s \in Slots, b.txns[s].kind = "check"
        PROVE  b.pairs[b.txns[s].at].l = b.txns[s].l /\ b.pairs[b.txns[s].at].r = b.txns[s].r
    <3>1. a.txns[s] \in ChecksOf(Len(a.pairs))
      BY <1>1, <2>3 DEF Credits, Asks, Free, Dead, Grown
    <3>2. a.txns[s].at \in 1 .. Len(a.pairs)
      BY <3>1 DEF ChecksOf
    <3> QED
      BY <1>1, <2>3, <3>2 DEF Credits, Grown
  <2> QED
    BY <2>2, <2>3 DEF Credits
<1>7. Owes(b, 0)
  BY <1>1 DEF Owes, Asked, InTable, Grown
<1> QED
  BY <1>5, <1>6, <1>7 DEF Tables, Grown, Tables

(* The part of a sequence there is room for. *)
LEMMA CutFacts ==
  ASSUME NEW S, NEW s \in Seq(S), NEW n \in Nat
  PROVE  /\ Cut(s, n) \in Seq(S) /\ Len(Cut(s, n)) <= n /\ Len(Cut(s, n)) <= Len(s)
         /\ Len(Cut(s, n)) \in Nat /\ (Len(s) > 0 /\ n > 0 => Len(Cut(s, n)) > 0)
<1> DEFINE m == Lesser(Len(s), n)
<1>1. Len(s) \in Nat /\ \A i \in 1 .. Len(s) : s[i] \in S
  BY LenProperties, ElementOfSeq
<1>2. m \in Nat /\ m <= Len(s) /\ m <= n /\ (Len(s) > 0 /\ n > 0 => m > 0)
  BY <1>1 DEF Lesser
<1>3. \A i \in 1 .. m : s[i] \in S
  BY <1>1, <1>2
<1> HIDE DEF m
<1>4. SubSeq(s, 1, m) \in Seq(S) /\ Len(SubSeq(s, 1, m)) = IF 1 <= m THEN m - 1 + 1 ELSE 0
  BY <1>2, <1>3, SubSeqProperties
<1>5. Cut(s, n) = SubSeq(s, 1, m)
  BY DEF Cut, m
<1> QED
  BY <1>1, <1>2, <1>4, <1>5

(* Local candidates are added. *)
LEMMA LocalsKeep ==
  ASSUME NEW a, Tables(a), NEW h \in Hosts, NEW t \in Seq({"srflx", "void"})
  PROVE  LET b == AddLocals(a, h, t) IN
         /\ Tables(b) /\ SameTimers(a, b) /\ b.resolving = a.resolving
         /\ b.pending = a.pending /\ b.txns = a.txns
         /\ b.pairs = a.pairs /\ b.nominated = a.nominated
<1> DEFINE n == MaxCandidates - Len(a.locals)
           k == Cut(t, n)
           x == [i \in DOMAIN k |-> [sock |-> h, type |-> k[i]]]
           b == [a EXCEPT !.locals = @ \o x]
<1>1. AddLocals(a, h, t) = b
  BY DEF AddLocals
<1>2. /\ DOMAIN a = Fields /\ a.locals \in Seq(LocalTypes) /\ Len(a.locals) <= MaxCandidates
      /\ Len(a.locals) \in Nat /\ MaxCandidates \in Nat
      /\ a.remotes \in Seq(RemoteTypes) /\ Len(a.remotes) <= MaxCandidates /\ Len(a.remotes) \in Nat
      /\ a.pairs \in Seq(PairTypes) /\ Len(a.pairs) <= MaxPairs /\ Len(a.pairs) \in Nat
  BY Bounds DEF Tables, Lists
<1>3. n \in Nat
  BY <1>2
<1> HIDE DEF n
<1>4. k \in Seq({"srflx", "void"}) /\ Len(k) \in Nat /\ Len(k) <= n
  BY <1>3, CutFacts
<1> HIDE DEF k
<1>5. DOMAIN k = 1 .. Len(k) /\ \A i \in 1 .. Len(k) : k[i] \in {"srflx", "void"}
  BY <1>4, LenProperties, ElementOfSeq
<1>6. x \in [1 .. Len(k) -> LocalTypes]
  BY <1>5 DEF LocalTypes
<1>7. x \in Seq(LocalTypes) /\ Len(x) = Len(k)
  BY <1>4, <1>6
<1> HIDE DEF x
<1>8. a.locals \o x \in Seq(LocalTypes) /\ Len(a.locals \o x) = Len(a.locals) + Len(k)
  <2>1. a.locals \o x \in Seq(LocalTypes) /\ Len(a.locals \o x) = Len(a.locals) + Len(x)
    BY <1>2, <1>7, ConcatProperties
  <2> QED
    BY <1>7, <2>1
<1>9. Len(a.locals) <= Len(a.locals \o x) /\ Len(a.locals \o x) <= MaxCandidates
  BY <1>2, <1>4, <1>8 DEF n
<1>10. /\ DOMAIN b = Fields /\ b.role = a.role /\ b.locals = a.locals \o x /\ b.remotes = a.remotes
       /\ b.pairs = a.pairs /\ b.nominated = a.nominated /\ b.txns = a.txns
       /\ b.resolving = a.resolving /\ b.pending = a.pending /\ SameTimers(a, b)
  BY <1>2 DEF Fields, SameTimers
<1> HIDE DEF b
<1>11. Grown(a, b)
  BY <1>2, <1>8, <1>9, <1>10 DEF Grown, SameTimers
<1>12. Tables(b)
  BY <1>11, GrownKeep
<1> QED
  BY <1>1, <1>10, <1>12

(* Remote candidates are added at the end. *)
LEMMA RemotesKeep ==
  ASSUME NEW a, Tables(a), NEW x \in Seq(RemoteTypes), Len(a.remotes) + Len(x) <= MaxCandidates,
         NEW b, b = [a EXCEPT !.remotes = a.remotes \o x]
  PROVE  /\ Tables(b) /\ SameTimers(a, b) /\ b.remotes = a.remotes \o x
         /\ Len(b.remotes) = Len(a.remotes) + Len(x)
         /\ b.pairs = a.pairs /\ b.nominated = a.nominated /\ b.txns = a.txns
         /\ b.resolving = a.resolving /\ b.locals = a.locals
<1>1. /\ DOMAIN a = Fields /\ a.locals \in Seq(LocalTypes) /\ Len(a.locals) <= MaxCandidates
      /\ Len(a.locals) \in Nat /\ MaxCandidates \in Nat
      /\ a.remotes \in Seq(RemoteTypes) /\ Len(a.remotes) <= MaxCandidates /\ Len(a.remotes) \in Nat
      /\ a.pairs \in Seq(PairTypes) /\ Len(a.pairs) <= MaxPairs /\ Len(a.pairs) \in Nat
      /\ Len(x) \in Nat
  BY Bounds DEF Tables, Lists
<1>2. a.remotes \o x \in Seq(RemoteTypes) /\ Len(a.remotes \o x) = Len(a.remotes) + Len(x)
  BY <1>1, ConcatProperties
<1>3. /\ DOMAIN b = Fields /\ b.role = a.role /\ b.locals = a.locals /\ b.remotes = a.remotes \o x
      /\ b.pairs = a.pairs /\ b.nominated = a.nominated /\ b.txns = a.txns
      /\ b.resolving = a.resolving /\ b.pending = a.pending /\ SameTimers(a, b)
  BY <1>1 DEF Fields, SameTimers
<1>4. Grown(a, b)
  BY <1>1, <1>2, <1>3 DEF Grown, SameTimers
<1>5. Tables(b)
  BY <1>4, GrownKeep
<1> QED
  BY <1>2, <1>3, <1>5

(* Once a set is listed, each of its elements is. *)
LEMMA Listed ==
  ASSUME NEW S, IsFiniteSet(S)
  PROVE  /\ SetToSeq(S) \in Seq(S) /\ Len(SetToSeq(S)) = Cardinality(S)
         /\ Cardinality(S) \in Nat
<1>1. Cardinality(S) \in Nat /\ ExistsBijection(1 .. Cardinality(S), S)
  BY FS_CardinalityType
<1>2. \E f \in [1 .. Cardinality(S) -> S] : IsInjective(f)
  BY <1>1 DEF ExistsBijection, Bijection, Injection
<1>3. SetToSeq(S) \in [1 .. Cardinality(S) -> S]
  BY <1>2 DEF SetToSeq
<1> QED
  BY <1>1, <1>3

(* The locals that pair are finitely many places of their list. *)
LEMMA PairedFacts ==
  ASSUME NEW a, a.locals \in Seq(LocalTypes)
  PROVE  /\ Paired(a) \subseteq 1 .. Len(a.locals) /\ Paired(a) \subseteq Nat
         /\ IsFiniteSet(Paired(a)) /\ Cardinality(Paired(a)) \in Nat
<1>1. Len(a.locals) \in Nat /\ DOMAIN a.locals = 1 .. Len(a.locals)
  OBVIOUS
<1>2. Paired(a) \in SUBSET (1 .. Len(a.locals))
  BY <1>1 DEF Paired
<1>3. IsFiniteSet(1 .. Len(a.locals))
  <2>1. 1 \in Int /\ Len(a.locals) \in Int
    BY <1>1
  <2> QED
    BY <2>1, FS_Interval
<1> QED
  BY <1>1, <1>2, <1>3, FS_Subset, FS_CardinalityType

(* A candidate is paired at the end of the list. *)
LEMMA AppendKeep ==
  ASSUME NEW a, Tables(a), NEW r \in 1 .. Len(a.remotes)
  PROVE  LET b == AppendPairs(a, r) IN
         /\ Tables(b) /\ SameTimers(a, b) /\ b.locals = a.locals /\ b.remotes = a.remotes
         /\ Len(a.pairs) <= Len(b.pairs) /\ b.nominated = a.nominated /\ b.txns = a.txns
         /\ Len(b.pairs) \in Nat
<1> DEFINE n == Lesser(Cardinality(Paired(a)), MaxPairs - Len(a.pairs))
           x == [i \in 1 .. n |-> Frozen(Nth(Paired(a), i), r)]
           b == [a EXCEPT !.pairs = @ \o x]
<1>1. AppendPairs(a, r) = b
  BY DEF AppendPairs
<1>2. /\ DOMAIN a = Fields /\ a.locals \in Seq(LocalTypes) /\ Len(a.locals) <= MaxCandidates
      /\ Len(a.locals) \in Nat /\ MaxPairs \in Nat
      /\ a.remotes \in Seq(RemoteTypes) /\ Len(a.remotes) <= MaxCandidates /\ Len(a.remotes) \in Nat
      /\ a.pairs \in Seq(PairTypes) /\ Len(a.pairs) <= MaxPairs /\ Len(a.pairs) \in Nat
  BY Bounds DEF Tables, Lists
<1>3. /\ Paired(a) \subseteq 1 .. Len(a.locals) /\ Paired(a) \subseteq Nat
      /\ IsFiniteSet(Paired(a)) /\ Cardinality(Paired(a)) \in Nat
  BY <1>2, PairedFacts
<1>4. n \in Nat /\ n <= Cardinality(Paired(a)) /\ Len(a.pairs) + n <= MaxPairs
  BY <1>2, <1>3 DEF Lesser
<1> HIDE DEF n
<1>5. ASSUME NEW i \in 1 .. n
      PROVE  Nth(Paired(a), i) \in 1 .. Len(a.locals)
  <2>1. i \in 1 .. Cardinality(Paired(a))
    BY <1>3, <1>4
  <2> QED
    BY <1>3, <2>1, NthFacts
<1>6. \A i \in 1 .. n : /\ x[i] \in PairTypes
                        /\ x[i].l \in 1 .. Len(a.locals) /\ x[i].r \in 1 .. Len(a.remotes)
  BY <1>2, <1>5 DEF Frozen, PairTypes
<1>7. x = [i \in 1 .. n |-> x[i]]
  OBVIOUS
<1> HIDE DEF x
<1>8. x \in [1 .. n -> PairTypes]
  BY <1>6, <1>7
<1>9. x \in Seq(PairTypes) /\ Len(x) = n
  BY <1>4, <1>8
<1>10. /\ a.pairs \o x \in Seq(PairTypes) /\ Len(a.pairs \o x) = Len(a.pairs) + Len(x)
       /\ \A i \in 1 .. Len(a.pairs) + Len(x) :
            (a.pairs \o x)[i] = IF i <= Len(a.pairs) THEN a.pairs[i] ELSE x[i - Len(a.pairs)]
  BY <1>2, <1>9, ConcatProperties
<1>11. /\ DOMAIN b = Fields /\ b.role = a.role /\ b.locals = a.locals /\ b.remotes = a.remotes
       /\ b.pairs = a.pairs \o x /\ b.nominated = a.nominated /\ b.txns = a.txns
       /\ b.resolving = a.resolving /\ b.pending = a.pending /\ SameTimers(a, b)
  BY <1>2 DEF Fields, SameTimers
<1> HIDE DEF b
<1>12. Len(b.pairs) = Len(a.pairs) + n /\ b.pairs \in Seq(PairTypes)
  BY <1>9, <1>10, <1>11
<1>13. \A i \in 1 .. Len(a.pairs) : b.pairs[i] = a.pairs[i]
  BY <1>2, <1>4, <1>9, <1>10, <1>11
<1>14. ASSUME NEW i \in 1 .. Len(b.pairs), i > Len(a.pairs)
       PROVE  b.pairs[i].l \in 1 .. Len(a.locals) /\ b.pairs[i].r \in 1 .. Len(a.remotes)
  <2>1. i - Len(a.pairs) \in 1 .. n
    BY <1>2, <1>4, <1>12, <1>14
  <2>2. b.pairs[i] = x[i - Len(a.pairs)]
    BY <1>2, <1>4, <1>9, <1>10, <1>11, <1>12, <1>14
  <2> QED
    BY <1>6, <2>1, <2>2
<1>15. Grown(a, b)
  BY <1>2, <1>4, <1>11, <1>12, <1>13, <1>14 DEF Grown, SameTimers
<1> QED
  BY <1>1, <1>2, <1>4, <1>11, <1>12, <1>15, GrownKeep

(* The weights are numbers. *)
LEMMA Weights == \A type : Weight(type) \in Nat
  BY DEF Weight

(* The pairs in the order they are made in, and in that of their weight. *)
LEMMA PairsOrdered ==
  ASSUME NEW a, NEW S, \A p \in S : p.l \in Nat /\ p.r \in Nat,
         \A p, q \in S : p.l = q.l /\ p.r = q.r => p = q
  PROVE  /\ Orders({p \in S \X S : Before(p[1], p[2])}, S)
         /\ Orders({p \in S \X S : Above(a, p[1], p[2])}, S)
<1>1. /\ \A p \in S : ~Before(p, p)
      /\ \A p, q \in S : p # q => Before(p, q) \/ Before(q, p)
      /\ \A p, q, r \in S : Before(p, q) /\ Before(q, r) => Before(p, r)
  BY DEF Before
<1> DEFINE u == [p \in S |-> Weight(a.locals[p.l].type)]
           v == [p \in S |-> Weight(a.remotes[p.r].type)]
           m == [p \in S |-> Lesser(u[p], v[p])]
           t == [p \in S |-> u[p] + v[p]]
<1>2. \A p \in S : u[p] \in Nat /\ v[p] \in Nat
  BY Weights
<1>3. \A p \in S : m[p] \in Nat /\ t[p] \in Nat
  BY <1>2 DEF Lesser
<1>4. \A p, q \in S : Above(a, p, q) <=>
        \/ m[p] > m[q]
        \/ m[p] = m[q] /\ t[p] > t[q]
        \/ m[p] = m[q] /\ t[p] = t[q] /\ Before(p, q)
  BY DEF Above
<1> HIDE DEF m, t
<1>5. \A p \in S : ~Above(a, p, p)
  BY <1>1, <1>3, <1>4
<1>6. \A p, q \in S : p # q => Above(a, p, q) \/ Above(a, q, p)
  BY <1>1, <1>3, <1>4
<1>7. \A p, q, r \in S : Above(a, p, q) /\ Above(a, q, r) => Above(a, p, r)
  BY <1>1, <1>3, <1>4
<1>8. Orders({p \in S \X S : Before(p[1], p[2])}, S)
  BY <1>1 DEF Orders
<1>9. Orders({p \in S \X S : Above(a, p[1], p[2])}, S)
  BY <1>5, <1>6, <1>7 DEF Orders
<1> QED
  BY <1>8, <1>9

(* The pairs of all candidates: as many as the list holds, each in its place. *)
LEMMA GenerateFacts ==
  ASSUME NEW a, Tables(a)
  PROVE  LET b == GeneratePairs(a) IN
         /\ b = [a EXCEPT !.pairs = b.pairs] /\ b.pairs \in Seq(PairTypes)
         /\ Len(b.pairs) \in Nat /\ Len(b.pairs) <= MaxPairs
         /\ \A i \in 1 .. Len(b.pairs) :
              b.pairs[i].l \in 1 .. Len(a.locals) /\ b.pairs[i].r \in 1 .. Len(a.remotes)
<1> DEFINE pq   == Paired(a) \X DOMAIN a.remotes
           all  == {Frozen(l, r) : l \in Paired(a), r \in DOMAIN a.remotes}
           kept == {p \in all : Cardinality({q \in all : Before(q, p)}) < MaxPairs}
           n    == Cardinality(kept)
           at(i) == CHOOSE p \in kept : Cardinality({q \in kept : Above(a, q, p)}) = i - 1
           x    == [i \in 1 .. n |-> at(i)]
           b    == [a EXCEPT !.pairs = x]
<1>1. GeneratePairs(a) = b
  BY DEF GeneratePairs
<1>2. /\ DOMAIN a = Fields /\ a.locals \in Seq(LocalTypes) /\ Len(a.locals) \in Nat
      /\ MaxPairs \in Nat \ {0} /\ a.remotes \in Seq(RemoteTypes) /\ Len(a.remotes) \in Nat
      /\ DOMAIN a.remotes = 1 .. Len(a.remotes)
  BY Bounds DEF Tables, Lists
<1>3. Paired(a) \subseteq 1 .. Len(a.locals) /\ IsFiniteSet(Paired(a))
  BY <1>2, PairedFacts
<1>4. IsFiniteSet(DOMAIN a.remotes)
  <2>1. 1 \in Int /\ Len(a.remotes) \in Int
    BY <1>2
  <2>2. IsFiniteSet(1 .. Len(a.remotes))
    BY <2>1, FS_Interval
  <2> QED
    BY <1>2, <2>2
<1>5. IsFiniteSet(all)
  <2>1. IsFiniteSet(pq)
    BY <1>3, <1>4, FS_Product
  <2> DEFINE f == [z \in pq |-> Frozen(z[1], z[2])]
  <2>2. f \in Surjection(pq, all)
    <3>1. \A z \in pq : f[z] \in all
      OBVIOUS
    <3>2. f \in [pq -> all]
      BY <3>1
    <3>3. ASSUME NEW y \in all PROVE \E z \in pq : f[z] = y
      <4>1. PICK l \in Paired(a), r \in DOMAIN a.remotes : y = Frozen(l, r)
        OBVIOUS
      <4>2. <<l, r>> \in pq /\ f[<<l, r>>] = y
        BY <4>1
      <4> QED
        BY <4>2
    <3> HIDE DEF f, pq, all
    <3> QED
      BY <3>2, <3>3 DEF Surjection
  <2> HIDE DEF f, pq, all
  <2> QED
    BY <2>1, <2>2, FS_Surjection
<1>6. \A p \in all : /\ p \in PairTypes
                      /\ p.l \in 1 .. Len(a.locals) /\ p.r \in 1 .. Len(a.remotes)
                      /\ p.l \in Nat /\ p.r \in Nat
  BY <1>2, <1>3 DEF Frozen, PairTypes
<1>7. \A p, q \in all : p.l = q.l /\ p.r = q.r => p = q
  BY DEF Frozen
<1> HIDE DEF all
<1>8. kept \in SUBSET all /\ IsFiniteSet(kept) /\ n \in Nat
  <2>1. kept \in SUBSET all
    OBVIOUS
  <2> HIDE DEF kept
  <2> QED
    BY <1>5, <2>1, FS_Subset, FS_CardinalityType
<1>9. n <= MaxPairs
  <2> DEFINE L == {p \in all \X all : Before(p[1], p[2])}
             T == 0 .. MaxPairs - 1
             f == [p \in kept |-> Rank(L, all)[p]]
  <2>1. Orders(L, all)
    BY <1>6, <1>7, PairsOrdered
  <2>2. ASSUME NEW p \in all
        PROVE  Rank(L, all)[p] = Cardinality({q \in all : Before(q, p)})
    <3>1. {q \in all : <<q, p>> \in L} = {q \in all : Before(q, p)}
      OBVIOUS
    <3> QED
      BY <3>1 DEF Rank
  <2>3. \A p \in kept : Rank(L, all)[p] < MaxPairs
    BY <2>2
  <2> HIDE DEF L, kept
  <2>4. /\ \A p \in all : Rank(L, all)[p] \in 0 .. Cardinality(all) - 1
        /\ \A p, q \in all : Rank(L, all)[p] = Rank(L, all)[q] => p = q
        /\ Cardinality(all) \in Nat
    BY <1>5, <2>1, RanksDiffer
  <2>5. \A p \in kept : f[p] \in T
    BY <1>2, <1>8, <2>3, <2>4
  <2>6. \A p, q \in kept : f[p] = f[q] => p = q
    BY <1>8, <2>4
  <2>7. f \in [kept -> T] /\ DOMAIN f = kept
    BY <2>5
  <2> HIDE DEF f, T
  <2>8. f \in Injection(kept, T)
    BY <2>6, <2>7 DEF Injection, IsInjective
  <2>9. IsFiniteSet(T) /\ Cardinality(T) = MaxPairs
    <3>1. 0 \in Int /\ MaxPairs - 1 \in Int
      BY <1>2
    <3>2. IsFiniteSet(T) /\ Cardinality(T) = IF 0 > MaxPairs - 1 THEN 0 ELSE MaxPairs - 1 - 0 + 1
      BY <3>1, FS_Interval DEF T
    <3> QED
      BY <1>2, <3>2
  <2> QED
    BY <2>8, <2>9, FS_Injection
<1>10. ASSUME NEW i \in 1 .. n PROVE x[i] \in kept
  <2> DEFINE L == {p \in kept \X kept : Above(a, p[1], p[2])}
  <2>1. Orders(L, kept)
    <3> HIDE DEF kept
    <3>1. \A p \in kept : p.l \in Nat /\ p.r \in Nat
      BY <1>6, <1>8
    <3>2. \A p, q \in kept : p.l = q.l /\ p.r = q.r => p = q
      BY <1>7, <1>8
    <3> QED
      BY <3>1, <3>2, PairsOrdered
  <2>2. i - 1 \in 0 .. Cardinality(kept) - 1
    BY <1>8
  <2>3. \A p \in kept : {q \in kept : <<q, p>> \in L} = {q \in kept : Above(a, q, p)}
    OBVIOUS
  <2> HIDE DEF L, kept
  <2>4. PICK p \in kept : Rank(L, kept)[p] = i - 1
    BY <1>8, <2>1, <2>2, RanksFill
  <2>5. Cardinality({q \in kept : Above(a, q, p)}) = i - 1
    BY <2>3, <2>4 DEF Rank
  <2> QED
    BY <2>5
<1> HIDE DEF at
<1>11. x = [i \in 1 .. n |-> x[i]]
  OBVIOUS
<1> HIDE DEF x, kept, n
<1>12. \A i \in 1 .. n : /\ x[i] \in PairTypes
                         /\ x[i].l \in 1 .. Len(a.locals) /\ x[i].r \in 1 .. Len(a.remotes)
  BY <1>6, <1>8, <1>10
<1>13. x \in Seq(PairTypes) /\ Len(x) = n
  <2>1. x \in [1 .. n -> PairTypes]
    BY <1>11, <1>12
  <2> QED
    BY <1>8, <2>1
<1>14. b.pairs = x /\ b = [a EXCEPT !.pairs = b.pairs]
  BY <1>2 DEF Fields
<1> HIDE DEF b
<1> QED
  BY <1>1, <1>8, <1>9, <1>12, <1>13, <1>14

(* Nothing refers to the pairs. *)
Idle(a) == InTable(a, "check") = {} /\ a.nominated = 0

(* The pairs may be made anew while nothing refers to them. *)
LEMMA GenerateKeep ==
  ASSUME NEW a, Tables(a), Idle(a)
  PROVE  LET b == GeneratePairs(a) IN
         /\ Tables(b) /\ SameTimers(a, b) /\ b.nominated = a.nominated /\ b.txns = a.txns
<1> DEFINE b == GeneratePairs(a)
           x == b.pairs
<1>1. DOMAIN a = Fields /\ Lists(a) /\ Credits(a) /\ Owes(a, 0)
  BY DEF Tables
<1>2. /\ b = [a EXCEPT !.pairs = x] /\ x \in Seq(PairTypes)
      /\ Len(x) \in Nat /\ Len(x) <= MaxPairs
      /\ \A i \in 1 .. Len(x) : x[i].l \in 1 .. Len(a.locals) /\ x[i].r \in 1 .. Len(a.remotes)
  BY GenerateFacts
<1> HIDE DEF b
<1>3. /\ DOMAIN b = Fields /\ b.role = a.role /\ b.locals = a.locals /\ b.remotes = a.remotes
      /\ b.nominated = a.nominated /\ b.txns = a.txns
      /\ b.resolving = a.resolving /\ b.pending = a.pending /\ SameTimers(a, b)
  BY <1>1, <1>2 DEF Fields, SameTimers
<1>4. Lists(b)
  BY <1>1, <1>2, <1>3 DEF Lists, Idle
<1>5. \A s \in Slots : a.txns[s] \in {Free, Dead} \cup Asks /\ a.txns[s].kind # "check"
  BY <1>1 DEF Idle, InTable, Credits, ChecksOf
<1>6. Credits(b)
  <2>1. a.txns = [s \in Slots |-> a.txns[s]]
    BY <1>1 DEF Credits
  <2>2. a.txns \in [Slots -> {Free, Dead} \cup Asks \cup ChecksOf(Len(x))]
    BY <1>5, <2>1
  <2> QED
    BY <1>3, <1>5, <2>2 DEF Credits
<1>7. Owes(b, 0)
  BY <1>1, <1>3 DEF Owes, Asked, InTable, SameTimers
<1> QED
  BY <1>1, <1>3, <1>4, <1>6, <1>7 DEF Tables, b

(* A request leaves the table, answered or given up. *)
LEMMA DropKeep ==
  ASSUME NEW a, Tables(a), NEW s \in Slots, NEW x \in {Free, Dead}
  PROVE  LET b == [a EXCEPT !.txns[s] = x] IN
         /\ Tables(b) /\ SameTimers(a, b)
         /\ b.locals = a.locals /\ b.remotes = a.remotes /\ b.pairs = a.pairs
         /\ b.nominated = a.nominated
         /\ a.txns[s].kind = "ask" => Owes(b, 1)
<1> DEFINE y == [a.txns EXCEPT ![s] = x]
           b == [a EXCEPT !.txns = y]
<1>1. DOMAIN a = Fields /\ Lists(a) /\ Credits(a) /\ Owes(a, 0)
  BY DEF Tables
<1>2. /\ DOMAIN b = Fields /\ b.role = a.role /\ b.locals = a.locals /\ b.remotes = a.remotes
      /\ b.pairs = a.pairs /\ b.nominated = a.nominated /\ b.txns = y
      /\ b.resolving = a.resolving /\ b.pending = a.pending /\ SameTimers(a, b)
  BY <1>1 DEF Fields, SameTimers
<1>3. DOMAIN a.txns = Slots
  BY <1>1 DEF Credits
<1>4. y[s] = x /\ x.kind \in {"free", "dead"} /\ \A q \in Slots : q # s => y[q] = a.txns[q]
  BY <1>3 DEF Free, Dead
<1>5. y \in [Slots -> {Free, Dead} \cup Asks \cup ChecksOf(Len(a.pairs))]
  BY <1>1 DEF Credits
<1> HIDE DEF y, b
<1>6. Lists(b)
  BY <1>1, <1>2 DEF Lists
<1>7. Credits(b)
  BY <1>1, <1>2, <1>4, <1>5 DEF Credits
<1>8. InTable(b, "ask") = InTable(a, "ask") \ {s}
  BY <1>2, <1>4 DEF InTable
<1>9. /\ IsFiniteSet(InTable(a, "ask")) /\ Asked(a) \in Nat
      /\ Asked(b) = IF s \in InTable(a, "ask") THEN Asked(a) - 1 ELSE Asked(a)
  BY <1>8, InTableFacts, FS_RemoveElement DEF Asked
<1>10. Owes(b, 0)
  BY <1>1, <1>2, <1>9 DEF Owes, SameTimers
<1>11. a.txns[s].kind = "ask" => Owes(b, 1)
  <2>1. a.txns[s].kind = "ask" => s \in InTable(a, "ask")
    BY DEF InTable
  <2> QED
    BY <1>1, <1>2, <1>9, <2>1 DEF Owes, SameTimers
<1>12. b = [a EXCEPT !.txns[s] = x]
  BY <1>1 DEF Fields, b, y
<1>13. Tables(b)
  BY <1>2, <1>6, <1>7, <1>10 DEF Tables, Tables
<1> QED
  BY <1>2, <1>11, <1>12, <1>13

(* A pair that exists takes a status. *)
Status(a, i, st) == [a EXCEPT !.pairs[i].st = st]

(* The tables stay what they are. *)
LEMMA StatusKeep ==
  ASSUME NEW a, Tables(a), NEW i \in 1 .. Len(a.pairs), NEW st \in {"Succeeded", "Failed"}
  PROVE  LET b == Status(a, i, st) IN
         /\ Tables(b) /\ SameTimers(a, b)
         /\ b.locals = a.locals /\ b.remotes = a.remotes /\ b.nominated = a.nominated
         /\ b.txns = a.txns /\ b.resolving = a.resolving /\ b.pending = a.pending
         /\ Len(b.pairs) = Len(a.pairs) /\ b.pairs[i].st = st
<1> DEFINE x == [a.pairs EXCEPT ![i] = [a.pairs[i] EXCEPT !.st = st]]
           b == [a EXCEPT !.pairs = x]
<1>1. /\ DOMAIN a = Fields /\ a.pairs \in Seq(PairTypes) /\ Len(a.pairs) \in Nat
      /\ DOMAIN a.pairs = 1 .. Len(a.pairs)
      /\ \A j \in 1 .. Len(a.pairs) : a.pairs[j] \in PairTypes
  <2>1. DOMAIN a = Fields /\ a.pairs \in Seq(PairTypes)
    BY DEF Tables, Lists
  <2> QED
    BY <2>1, LenProperties, ElementOfSeq
<1>2. \A j \in 1 .. Len(a.pairs) :
        x[j] \in PairTypes /\ x[j].l = a.pairs[j].l /\ x[j].r = a.pairs[j].r
  BY <1>1 DEF PairTypes
<1>3. x \in Seq(PairTypes) /\ Len(x) = Len(a.pairs) /\ x[i].st = st
  <2>1. x = [j \in 1 .. Len(a.pairs) |-> x[j]]
    BY <1>1
  <2>2. x[i].st = st
    BY <1>1 DEF PairTypes
  <2> HIDE DEF x
  <2>3. x \in [1 .. Len(a.pairs) -> PairTypes]
    BY <1>2, <2>1
  <2> QED
    BY <1>1, <2>2, <2>3
<1>4. /\ DOMAIN b = Fields /\ b.role = a.role /\ b.locals = a.locals /\ b.remotes = a.remotes
      /\ b.pairs = x /\ b.nominated = a.nominated /\ b.txns = a.txns
      /\ b.resolving = a.resolving /\ b.pending = a.pending /\ SameTimers(a, b)
  BY <1>1 DEF Fields, SameTimers
<1>5. b = Status(a, i, st)
  BY <1>1 DEF Fields, Status
<1> HIDE DEF x, b
<1>6. /\ Len(a.locals) <= MaxCandidates /\ a.locals \in Seq(LocalTypes) /\ Len(a.locals) \in Nat
      /\ Len(a.remotes) <= MaxCandidates /\ a.remotes \in Seq(RemoteTypes) /\ Len(a.remotes) \in Nat
      /\ Len(a.pairs) <= MaxPairs
  BY DEF Tables, Lists
<1>7. Grown(a, b)
  BY <1>1, <1>2, <1>3, <1>4, <1>6 DEF Grown, SameTimers
<1> QED
  BY <1>3, <1>4, <1>5, <1>7, GrownKeep

-------------------------------------------------------------------------------
(* The timers of the ICE agent *)

(* The timers the agent has a handle of. *)
On(a) == {k \in Timers : a.held[k]}

(* The loop has those, and each once. *)
Owned(a) ==
  /\ a.held \in [Timers -> BOOLEAN]
  /\ a.armed = [k \in Timers |-> IF k \in On(a) THEN 1 ELSE 0]

(* Which timers a state leaves alone, so that a start never meets a handle. *)
Ready(a) ==
  /\ a.state \in {"New", "Gathering"} => On(a) \subseteq {"gather"}
  /\ a.state = "New" => On(a) = {} /\ ~a.gatheringDone
  /\ a.gatheringDone => "gather" \notin On(a)
  /\ "consent" \in On(a) => a.state = "Connected"
  /\ a.state = "Connected" => a.nominated # 0
  /\ a.aggressive = "off" => "burst" \notin On(a)
  /\ a.state = "Closed" => On(a) = {}

(* The timers of an agent between two handlers. *)
Timed(a) == Owned(a) /\ Ready(a)

(* One timer more, or one less. *)
LEMMA Counts ==
  ASSUME NEW S, NEW k \in Timers, NEW f, f = [j \in Timers |-> IF j \in S THEN 1 ELSE 0]
  PROVE  /\ k \notin S => [f EXCEPT ![k] = @ + 1] = [j \in Timers |-> IF j \in S \cup {k} THEN 1 ELSE 0]
         /\ k \in S => [f EXCEPT ![k] = @ - 1] = [j \in Timers |-> IF j \in S \ {k} THEN 1 ELSE 0]
<1>1. ASSUME k \notin S
      PROVE  [f EXCEPT ![k] = @ + 1] = [j \in Timers |-> IF j \in S \cup {k} THEN 1 ELSE 0]
  BY <1>1
<1>2. ASSUME k \in S
      PROVE  [f EXCEPT ![k] = @ - 1] = [j \in Timers |-> IF j \in S \ {k} THEN 1 ELSE 0]
  BY <1>2
<1> QED
  BY <1>1, <1>2

(* Starting and stopping timers touches no table, and each timer once. *)
LEMMA TimerFacts ==
  ASSUME NEW a, DOMAIN a = Fields, NEW k \in Timers
  PROVE  /\ SameTables(a, Arm(a, k)) /\ SameTables(a, Fired(a, k)) /\ SameTables(a, Disarm(a, k))
         /\ \A b \in {Arm(a, k), Fired(a, k), Disarm(a, k)} :
              /\ b.state = a.state /\ b.aggressive = a.aggressive
              /\ b.gatheringDone = a.gatheringDone
         /\ Owned(a) /\ k \notin On(a) => Owned(Arm(a, k)) /\ On(Arm(a, k)) = On(a) \cup {k}
         /\ Owned(a) /\ a.armed[k] > 0 => Owned(Fired(a, k)) /\ On(Fired(a, k)) = On(a) \ {k}
         /\ Owned(a) => Owned(Disarm(a, k)) /\ On(Disarm(a, k)) = On(a) \ {k}
<1>1. SameTables(a, Arm(a, k)) /\ SameTables(a, Fired(a, k)) /\ SameTables(a, a)
  BY DEF SameTables, Fields, Arm, Fired
<1>2. /\ Arm(a, k).state = a.state /\ Arm(a, k).aggressive = a.aggressive
      /\ Arm(a, k).gatheringDone = a.gatheringDone
      /\ Fired(a, k).state = a.state /\ Fired(a, k).aggressive = a.aggressive
      /\ Fired(a, k).gatheringDone = a.gatheringDone
  BY DEF Fields, Arm, Fired
<1>3. /\ Arm(a, k).held = [a.held EXCEPT ![k] = TRUE]
      /\ Arm(a, k).armed = [a.armed EXCEPT ![k] = @ + 1]
      /\ Fired(a, k).held = [a.held EXCEPT ![k] = FALSE]
      /\ Fired(a, k).armed = [a.armed EXCEPT ![k] = @ - 1]
  BY DEF Fields, Arm, Fired
<1>4. ASSUME Owned(a), k \notin On(a)
      PROVE  Owned(Arm(a, k)) /\ On(Arm(a, k)) = On(a) \cup {k}
  <2>1. DOMAIN a.held = Timers
    BY <1>4 DEF Owned
  <2>2. On(Arm(a, k)) = On(a) \cup {k}
    BY <1>3, <2>1 DEF On
  <2>3. Arm(a, k).held \in [Timers -> BOOLEAN]
    BY <1>3, <1>4 DEF Owned
  <2>4. Arm(a, k).armed = [j \in Timers |-> IF j \in On(a) \cup {k} THEN 1 ELSE 0]
    <3>1. a.armed = [j \in Timers |-> IF j \in On(a) THEN 1 ELSE 0]
      BY <1>4 DEF Owned
    <3>2. Arm(a, k).armed = [a.armed EXCEPT ![k] = @ + 1]
      BY <1>3
    <3> QED
      BY <1>4, <3>1, <3>2, Counts
  <2> QED
    BY <2>2, <2>3, <2>4 DEF Owned
<1>5. ASSUME Owned(a), k \in On(a)
      PROVE  Owned(Fired(a, k)) /\ On(Fired(a, k)) = On(a) \ {k}
  <2>1. DOMAIN a.held = Timers
    BY <1>5 DEF Owned
  <2>2. On(Fired(a, k)) = On(a) \ {k}
    BY <1>3, <2>1 DEF On
  <2>3. Fired(a, k).held \in [Timers -> BOOLEAN]
    BY <1>3, <1>5 DEF Owned
  <2>4. Fired(a, k).armed = [j \in Timers |-> IF j \in On(a) \ {k} THEN 1 ELSE 0]
    <3>1. a.armed = [j \in Timers |-> IF j \in On(a) THEN 1 ELSE 0]
      BY <1>5 DEF Owned
    <3>2. Fired(a, k).armed = [a.armed EXCEPT ![k] = @ - 1]
      BY <1>3
    <3> QED
      BY <1>5, <3>1, <3>2, Counts
  <2> QED
    BY <2>2, <2>3, <2>4 DEF Owned
<1>6. Owned(a) /\ a.armed[k] > 0 => k \in On(a)
  BY DEF Owned
<1>7. Disarm(a, k) = (IF k \in On(a) THEN Fired(a, k) ELSE a)
  BY DEF Disarm, On
<1>8. Owned(a) => Owned(Disarm(a, k)) /\ On(Disarm(a, k)) = On(a) \ {k}
  <2>1. CASE k \in On(a)
    BY <1>5, <1>7, <2>1
  <2>2. CASE k \notin On(a)
    <3>1. On(a) \ {k} = On(a) /\ Disarm(a, k) = a
      BY <1>7, <2>2
    <3> QED
      BY <3>1
  <2> QED
    BY <2>1, <2>2
<1>9. SameTables(a, Disarm(a, k)) /\ Disarm(a, k) \in {a, Fired(a, k)}
  BY <1>1, <1>7
<1>10. /\ Disarm(a, k).state = a.state /\ Disarm(a, k).aggressive = a.aggressive
       /\ Disarm(a, k).gatheringDone = a.gatheringDone
  BY <1>2, <1>9
<1>11. \A b \in {Arm(a, k), Fired(a, k), Disarm(a, k)} :
         /\ b.state = a.state /\ b.aggressive = a.aggressive /\ b.gatheringDone = a.gatheringDone
  BY <1>2, <1>10
<1> QED
  BY <1>1, <1>4, <1>5, <1>6, <1>8, <1>9, <1>11

(* The timers depend on nothing else. *)
LEMMA TimersCarry ==
  ASSUME NEW a, NEW b, SameTimers(a, b)
  PROVE  On(b) = On(a) /\ (Owned(a) => Owned(b))
<1>1. On(b) = On(a)
  BY DEF On, SameTimers
<1> QED
  BY <1>1 DEF Owned, SameTimers

(* Nor does what the states say of them, but on the nomination. *)
LEMMA ReadyCarry ==
  ASSUME NEW a, NEW b, SameTimers(a, b), b.nominated = a.nominated
  PROVE  Timed(a) => Timed(b)
  BY TimersCarry DEF Timed, Ready, SameTimers

(* A step of the tables, and of the timers when they were in order. *)
Good(a, b) == Tables(b) /\ (Timed(a) => Timed(b))

(* The pairs in some states are places of the list. *)
LEMMA InStateFacts ==
  ASSUME NEW a, Tables(a), NEW S
  PROVE  /\ InState(a, S) \subseteq 1 .. Len(a.pairs) /\ InState(a, S) \subseteq Nat
         /\ Len(a.pairs) \in Nat
<1>1. Len(a.pairs) \in Nat /\ DOMAIN a.pairs = 1 .. Len(a.pairs)
  BY DEF Tables, Lists
<1> QED
  BY <1>1 DEF InState

(* A pair that succeeded is nominated. *)
LEMMA NominateGood ==
  ASSUME NEW a, Tables(a), a.state = "Checking", InState(a, {"Succeeded"}) # {}
  PROVE  LET b == Nominate(a) IN
         /\ Tables(b) /\ b.state = "Connected" /\ b.nominated # 0
         /\ b.armed = a.armed /\ b.held = a.held /\ b.aggressive = a.aggressive
         /\ b.gatheringDone = a.gatheringDone
<1> DEFINE ok == InState(a, {"Succeeded"})
           S  == IF Plain(a, ok) # {} THEN Plain(a, ok) ELSE ok
           b  == [a EXCEPT !.nominated = Least(S), !.state = "Connected"]
<1>1. ok \subseteq 1 .. Len(a.pairs) /\ ok \subseteq Nat /\ Len(a.pairs) \in Nat
  BY InStateFacts
<1>2. S \subseteq ok /\ S # {}
  BY DEF Plain
<1> HIDE DEF ok, S
<1>3. Least(S) \in 1 .. Len(a.pairs)
  <2>1. S \subseteq Nat
    BY <1>1, <1>2
  <2> QED
    BY <1>1, <1>2, <2>1, LeastFacts
<1>4. DOMAIN a = Fields
  BY DEF Tables
<1>5. /\ DOMAIN b = Fields /\ b.role = a.role /\ b.locals = a.locals /\ b.remotes = a.remotes
      /\ b.pairs = a.pairs /\ b.nominated = Least(S) /\ b.txns = a.txns
      /\ b.resolving = a.resolving /\ b.pending = a.pending /\ b.state = "Connected"
      /\ b.armed = a.armed /\ b.held = a.held /\ b.aggressive = a.aggressive
      /\ b.gatheringDone = a.gatheringDone
  BY <1>4 DEF Fields
<1>6. Nominate(a) = b
  BY DEF Nominate, S, ok
<1> HIDE DEF b
<1>7. Lists(b)
  BY <1>3, <1>5 DEF Tables, Lists
<1>8. Credits(b)
  BY <1>5 DEF Tables, Credits
<1>9. Owes(b, 0)
  BY <1>5 DEF Tables, Owes, Asked, InTable
<1>10. b.nominated # 0
  BY <1>1, <1>3, <1>5
<1>11. Tables(b)
  BY <1>5, <1>7, <1>8, <1>9 DEF Tables
<1> QED
  BY <1>5, <1>6, <1>10, <1>11

(* A failure changes the state alone. *)
LEMMA FailGood ==
  ASSUME NEW a, Tables(a), a.state \notin {"New", "Connected"}
  PROVE  Good(a, Fail(a))
<1> DEFINE b == Fail(a)
<1>1. DOMAIN a = Fields
  BY DEF Tables
<1>2. SameTables(a, b) /\ b.state = "Failed"
  BY <1>1 DEF SameTables, Fields, Fail
<1>3. b.armed = a.armed /\ b.held = a.held /\ b.aggressive = a.aggressive
      /\ b.gatheringDone = a.gatheringDone
  BY <1>1 DEF Fields, Fail
<1> HIDE DEF b
<1>4. Tables(b)
  BY <1>2, TablesCarry
<1>5. On(b) = On(a) /\ (Owned(a) => Owned(b))
  BY <1>3 DEF Owned, On
<1>6. Ready(a) => Ready(b)
  BY <1>2, <1>3, <1>5 DEF Ready
<1> QED
  BY <1>4, <1>5, <1>6 DEF Good, Timed, b

(* A timer that is not running starts, the tables stay. *)
LEMMA ArmGood ==
  ASSUME NEW a, Tables(a), NEW k \in Timers
  PROVE  LET b == Arm(a, k) IN
         /\ Tables(b) /\ SameTables(a, b) /\ b.state = a.state /\ b.aggressive = a.aggressive
         /\ b.gatheringDone = a.gatheringDone
         /\ Owned(a) /\ k \notin On(a) => Owned(b) /\ On(b) = On(a) \cup {k}
<1>1. DOMAIN a = Fields
  BY DEF Tables
<1>2. SameTables(a, Arm(a, k))
  BY <1>1, TimerFacts
<1>3. Tables(Arm(a, k))
  BY <1>2, TablesCarry
<1> QED
  BY <1>1, <1>2, <1>3, TimerFacts

(* A timer is stopped. *)
LEMMA DisarmGood ==
  ASSUME NEW a, Tables(a), NEW k \in Timers
  PROVE  LET b == Disarm(a, k) IN
         /\ Tables(b) /\ SameTables(a, b) /\ b.state = a.state /\ b.aggressive = a.aggressive
         /\ b.gatheringDone = a.gatheringDone
         /\ Owned(a) => Owned(b) /\ On(b) = On(a) \ {k}
<1>1. DOMAIN a = Fields
  BY DEF Tables
<1>2. SameTables(a, Disarm(a, k))
  BY <1>1, TimerFacts
<1>3. Tables(Disarm(a, k))
  BY <1>2, TablesCarry
<1> QED
  BY <1>1, <1>2, <1>3, TimerFacts

(* A timer fires. *)
LEMMA FiredGood ==
  ASSUME NEW a, Tables(a), NEW k \in Timers, a.armed[k] > 0
  PROVE  LET b == Fired(a, k) IN
         /\ Good(a, b) /\ SameTables(a, b) /\ b.state = a.state /\ b.aggressive = a.aggressive
         /\ b.gatheringDone = a.gatheringDone
         /\ Owned(a) => Owned(b) /\ On(b) = On(a) \ {k}
<1> DEFINE b == Fired(a, k)
<1>1. DOMAIN a = Fields
  BY DEF Tables
<1>2. SameTables(a, b) /\ b.state = a.state /\ b.aggressive = a.aggressive
      /\ b.gatheringDone = a.gatheringDone
      /\ (Owned(a) => Owned(b) /\ On(b) = On(a) \ {k})
  BY <1>1, TimerFacts
<1> HIDE DEF b
<1>3. Tables(b) /\ b.nominated = a.nominated
  BY <1>2, TablesCarry DEF SameTables
<1>4. Timed(a) => Timed(b)
  BY <1>2, <1>3 DEF Timed, Ready
<1> QED
  BY <1>2, <1>3, <1>4 DEF Good, b

(* A spray adds a candidate and pairs, and starts a timer nobody runs. *)
LEMMA SprayGood ==
  ASSUME NEW a, Tables(a), a.state = "Checking", a.aggressive = "off"
  PROVE  Good(a, StartSpray(a))
<1> DEFINE p == Disarm(a, "timeout")
           b == Arm(p, "timeout")
           n == Len(b.remotes) + 1
           y == [b EXCEPT !.remotes = Append(@, [addr |-> Guess, type |-> "srflx"])]
           c == IF Len(b.remotes) >= MaxCandidates THEN b ELSE AppendPairs(y, n)
           d == [c EXCEPT !.aggressive = "spray", !.sprayIndex = Len(a.pairs) + 1]
           e == Arm(d, "burst")
<1>1. StartSpray(a) = IF Len(c.pairs) = Len(a.pairs) THEN c ELSE e
  BY DEF StartSpray
<1>2. {"timeout", "burst", "gather", "consent", "check"} \subseteq Timers
  BY DEF Timers
<1>3. /\ Tables(p) /\ SameTables(a, p) /\ p.state = a.state /\ p.aggressive = a.aggressive
      /\ p.gatheringDone = a.gatheringDone
      /\ Owned(a) => Owned(p) /\ On(p) = On(a) \ {"timeout"}
  BY <1>2, DisarmGood
<1> HIDE DEF p
<1>4. /\ Tables(b) /\ SameTables(p, b) /\ b.state = p.state /\ b.aggressive = p.aggressive
      /\ b.gatheringDone = p.gatheringDone
      /\ Owned(p) /\ "timeout" \notin On(p) => Owned(b) /\ On(b) = On(p) \cup {"timeout"}
  BY <1>2, <1>3, ArmGood
<1> HIDE DEF b
<1>5. Len(b.remotes) < MaxCandidates =>
        /\ Tables(y) /\ SameTimers(b, y) /\ Len(y.remotes) = n /\ n \in Nat \ {0}
        /\ y.nominated = b.nominated
  <2> SUFFICES ASSUME Len(b.remotes) < MaxCandidates
               PROVE  /\ Tables(y) /\ SameTimers(b, y) /\ Len(y.remotes) = n /\ n \in Nat \ {0}
                      /\ y.nominated = b.nominated
    OBVIOUS
  <2> DEFINE z == <<[addr |-> Guess, type |-> "srflx"]>>
             w == [b EXCEPT !.remotes = b.remotes \o z]
  <2>1. z \in Seq(RemoteTypes) /\ Len(z) = 1
    BY DEF RemoteTypes, Spots
  <2>2. b.remotes \in Seq(RemoteTypes) /\ Len(b.remotes) \in Nat /\ MaxCandidates \in Nat
    BY <1>4, Bounds DEF Tables, Lists
  <2>3. b.remotes \o z = Append(b.remotes, [addr |-> Guess, type |-> "srflx"])
    BY <2>1, <2>2
  <2>4. y = w
    BY <2>3
  <2>5. Len(b.remotes) + Len(z) <= MaxCandidates
    BY <2>1, <2>2
  <2> HIDE DEF z, y
  <2>6. /\ Tables(w) /\ SameTimers(b, w) /\ Len(w.remotes) = Len(b.remotes) + Len(z)
        /\ w.nominated = b.nominated
    BY <1>4, <2>1, <2>5, RemotesKeep
  <2> QED
    BY <2>1, <2>2, <2>4, <2>6
<1> HIDE DEF y, n
<1>6. Tables(c) /\ SameTimers(b, c) /\ c.nominated = b.nominated
  <2>1. CASE Len(b.remotes) >= MaxCandidates
    BY <1>4, <2>1 DEF SameTimers
  <2>2. CASE Len(b.remotes) < MaxCandidates
    <3>1. Tables(y) /\ SameTimers(b, y) /\ n \in 1 .. Len(y.remotes) /\ y.nominated = b.nominated
      BY <1>5, <2>2
    <3>2. /\ Tables(AppendPairs(y, n)) /\ SameTimers(y, AppendPairs(y, n))
          /\ AppendPairs(y, n).nominated = y.nominated
      BY <3>1, AppendKeep
    <3>3. c = AppendPairs(y, n)
      <4>1. Len(b.remotes) \in Nat /\ MaxCandidates \in Nat
        BY <1>4, Bounds DEF Tables, Lists
      <4> QED
        BY <2>2, <4>1
    <3> QED
      BY <3>1, <3>2, <3>3 DEF SameTimers
  <2>3. Len(b.remotes) \in Nat /\ MaxCandidates \in Nat
    BY <1>4, Bounds DEF Tables, Lists
  <2> QED
    BY <2>1, <2>2, <2>3
<1> HIDE DEF c
<1>7. SameTables(c, d) /\ d.state = c.state /\ d.aggressive = "spray" /\ d.armed = c.armed
      /\ d.held = c.held /\ d.gatheringDone = c.gatheringDone
  <2>1. DOMAIN c = Fields
    BY <1>6 DEF Tables
  <2> QED
    BY <2>1 DEF SameTables, Fields
<1> HIDE DEF d
<1>8. Tables(d)
  BY <1>6, <1>7, TablesCarry
<1>9. /\ Tables(e) /\ SameTables(d, e) /\ e.state = d.state /\ e.aggressive = d.aggressive
      /\ e.gatheringDone = d.gatheringDone
      /\ Owned(d) /\ "burst" \notin On(d) => Owned(e) /\ On(e) = On(d) \cup {"burst"}
  BY <1>2, <1>8, ArmGood
<1> HIDE DEF e
<1>10. ASSUME Timed(a) PROVE Timed(c) /\ Timed(e)
  <2>1. /\ Owned(a) /\ "burst" \notin On(a) /\ "consent" \notin On(a)
        /\ a.gatheringDone => "gather" \notin On(a)
    BY <1>10 DEF Timed, Ready
  <2>2. Owned(b) /\ On(b) = (On(a) \ {"timeout"}) \cup {"timeout"}
    BY <1>3, <1>4, <2>1
  <2>3. Owned(c) /\ On(c) = On(b) /\ c.state = "Checking" /\ c.aggressive = "off"
        /\ c.gatheringDone = a.gatheringDone
    BY <1>3, <1>4, <1>6, <2>2, TimersCarry DEF SameTimers
  <2>4. Timed(c)
    BY <2>1, <2>2, <2>3 DEF Timed, Ready
  <2>5. Owned(d) /\ On(d) = On(c)
    BY <1>7, <2>3 DEF Owned, On
  <2>6. Owned(e) /\ On(e) = On(c) \cup {"burst"}
    BY <1>9, <2>1, <2>2, <2>3, <2>5
  <2>7. /\ e.state = "Checking" /\ e.aggressive = "spray" /\ e.gatheringDone = a.gatheringDone
        /\ "consent" \notin On(e) /\ (e.gatheringDone => "gather" \notin On(e))
    BY <1>7, <1>9, <2>1, <2>2, <2>3, <2>6
  <2>8. Timed(e)
    BY <2>6, <2>7 DEF Timed, Ready
  <2> QED
    BY <2>4, <2>8
<1> QED
  BY <1>1, <1>6, <1>9, <1>10 DEF Good

(* Nomination, spray and failure while the agent checks. *)
LEMMA TryNominateGood ==
  ASSUME NEW a, Tables(a)
  PROVE  Good(a, TryNominate(a))
<1> DEFINE n == Nominate(a)
           b == Arm(n, "consent")
           c == Disarm(b, "timeout")
           d == Disarm(c, "burst")
<1>1. Good(a, a)
  BY DEF Good
<1>2. ASSUME a.state = "Checking", InState(a, {"Succeeded"}) # {} PROVE Good(a, d)
  <2>1. /\ Tables(n) /\ n.state = "Connected" /\ n.nominated # 0
        /\ n.armed = a.armed /\ n.held = a.held /\ n.aggressive = a.aggressive
        /\ n.gatheringDone = a.gatheringDone
    BY <1>2, NominateGood
  <2>2. {"timeout", "burst", "consent"} \subseteq Timers
    BY DEF Timers
  <2> HIDE DEF n
  <2>3. /\ Tables(b) /\ SameTables(n, b) /\ b.state = n.state /\ b.aggressive = n.aggressive
        /\ b.gatheringDone = n.gatheringDone
        /\ Owned(n) /\ "consent" \notin On(n) => Owned(b) /\ On(b) = On(n) \cup {"consent"}
    BY <2>1, <2>2, ArmGood
  <2> HIDE DEF b
  <2>4. /\ Tables(c) /\ SameTables(b, c) /\ c.state = b.state /\ c.aggressive = b.aggressive
        /\ c.gatheringDone = b.gatheringDone
        /\ Owned(b) => Owned(c) /\ On(c) = On(b) \ {"timeout"}
    BY <2>2, <2>3, DisarmGood
  <2> HIDE DEF c
  <2>5. /\ Tables(d) /\ SameTables(c, d) /\ d.state = c.state /\ d.aggressive = c.aggressive
        /\ d.gatheringDone = c.gatheringDone
        /\ Owned(c) => Owned(d) /\ On(d) = On(c) \ {"burst"}
    BY <2>2, <2>4, DisarmGood
  <2> HIDE DEF d
  <2>6. ASSUME Timed(a) PROVE Timed(d)
    <3>1. Owned(n) /\ On(n) = On(a)
      BY <2>1, <2>6 DEF Timed, Owned, On
    <3>2. "consent" \notin On(a) /\ (a.gatheringDone => "gather" \notin On(a))
      BY <1>2, <2>6 DEF Timed, Ready
    <3>3. Owned(d) /\ On(d) = ((On(a) \cup {"consent"}) \ {"timeout"}) \ {"burst"}
      BY <2>3, <2>4, <2>5, <3>1, <3>2
    <3>4. d.state = "Connected" /\ d.nominated # 0 /\ d.gatheringDone = a.gatheringDone
      BY <2>1, <2>3, <2>4, <2>5 DEF SameTables
    <3> QED
      BY <3>2, <3>3, <3>4 DEF Timed, Ready
  <2> QED
    BY <2>5, <2>6 DEF Good
<1>3. ASSUME a.state = "Checking", CanSpray(a) PROVE Good(a, StartSpray(a))
  BY <1>3, SprayGood DEF CanSpray
<1>4. ASSUME a.state = "Checking" PROVE Good(a, Fail(a))
  BY <1>4, FailGood
<1>5. \/ TryNominate(a) = a
      \/ a.state = "Checking" /\ InState(a, {"Succeeded"}) # {} /\ TryNominate(a) = d
      \/ a.state = "Checking" /\ CanSpray(a) /\ TryNominate(a) = StartSpray(a)
      \/ a.state = "Checking" /\ TryNominate(a) = Fail(a)
  BY DEF TryNominate
<1> HIDE DEF d
<1> QED
  BY <1>1, <1>2, <1>3, <1>4, <1>5

(* A step after another. *)
LEMMA GoodTrans ==
  ASSUME NEW a, NEW b, NEW c, Good(a, b), Good(b, c)
  PROVE  Good(a, c)
  BY DEF Good

(* The checks begin with pairs made anew and no timer running. *)
LEMMA RestartGood ==
  ASSUME NEW a, Tables(a), Idle(a), a.state \in {"Gathering", "Failed"}
  PROVE  /\ Tables(Restart(a))
         /\ Timed(a) /\ On(a) = {} => Timed(Restart(a))
<1> DEFINE g == GeneratePairs(a)
           c == [g EXCEPT !.state = "Checking", !.checkIndex = 1]
           d == Arm(c, "check")
           e == Arm(d, "timeout")
<1>1. Restart(a) = IF g.pairs = <<>> THEN Fail(g) ELSE e
  BY DEF Restart, StartChecks
<1>2. Tables(g) /\ SameTimers(a, g) /\ g.nominated = a.nominated
  BY GenerateKeep
<1>3. (Timed(a) => Timed(g)) /\ On(g) = On(a)
  BY <1>2, ReadyCarry, TimersCarry
<1> HIDE DEF g
<1>4. Good(g, Fail(g))
  BY <1>2, FailGood DEF SameTimers
<1>5. /\ SameTables(g, c) /\ c.state = "Checking" /\ c.armed = g.armed /\ c.held = g.held
      /\ c.aggressive = g.aggressive /\ c.gatheringDone = g.gatheringDone
  <2>1. DOMAIN g = Fields
    BY <1>2 DEF Tables
  <2> QED
    BY <2>1 DEF SameTables, Fields
<1> HIDE DEF c
<1>6. Tables(c)
  BY <1>2, <1>5, TablesCarry
<1>7. {"check", "timeout"} \subseteq Timers
  BY DEF Timers
<1>8. /\ Tables(d) /\ d.state = c.state /\ d.aggressive = c.aggressive
      /\ d.gatheringDone = c.gatheringDone
      /\ Owned(c) /\ "check" \notin On(c) => Owned(d) /\ On(d) = On(c) \cup {"check"}
  BY <1>6, <1>7, ArmGood
<1> HIDE DEF d
<1>9. /\ Tables(e) /\ e.state = d.state /\ e.aggressive = d.aggressive
      /\ e.gatheringDone = d.gatheringDone
      /\ Owned(d) /\ "timeout" \notin On(d) => Owned(e) /\ On(e) = On(d) \cup {"timeout"}
  BY <1>7, <1>8, ArmGood
<1> HIDE DEF e
<1>10. ASSUME Timed(a), On(a) = {} PROVE Timed(e)
  <2>1. Owned(g) /\ On(g) = {}
    BY <1>3, <1>10 DEF Timed
  <2>2. Owned(c) /\ On(c) = {}
    BY <1>5, <2>1 DEF Owned, On
  <2>3. Owned(e) /\ On(e) = {"check", "timeout"} /\ e.state = "Checking"
    BY <1>5, <1>8, <1>9, <2>2
  <2> QED
    BY <2>3 DEF Timed, Ready
<1> QED
  BY <1>1, <1>3, <1>4, <1>9, <1>10 DEF Good

(* Without pairs no check is out and nothing is nominated. *)
LEMMA NoPairsIdle ==
  ASSUME NEW a, Tables(a), a.pairs = <<>>
  PROVE  Idle(a)
<1>1. Len(a.pairs) = 0
  OBVIOUS
<1>2. a.nominated = 0
  BY <1>1 DEF Tables, Lists
<1>3. \A s \in Slots : a.txns[s].kind # "check"
  <2>1. ChecksOf(Len(a.pairs)) = {}
    BY <1>1 DEF ChecksOf
  <2> QED
    BY <2>1 DEF Tables, Credits, Asks, Free, Dead
<1> QED
  BY <1>2, <1>3 DEF Idle, InTable

(* Gathering ends, its timer stopped. *)
LEMMA EndGatheringGood ==
  ASSUME NEW a, Tables(a), a.pairs = <<>>, a.state = "Gathering"
  PROVE  /\ Tables(EndGathering(a))
         /\ Timed(a) /\ On(a) = {} => Timed(EndGathering(a))
<1> DEFINE b == [a EXCEPT !.gatheringDone = TRUE]
<1>1. DOMAIN a = Fields
  BY DEF Tables
<1>2. /\ SameTables(a, b) /\ b.state = a.state /\ b.armed = a.armed /\ b.held = a.held
      /\ b.aggressive = a.aggressive /\ b.gatheringDone = TRUE
  BY <1>1 DEF SameTables, Fields
<1>3. EndGathering(a) = IF b.remoteSet THEN Restart(b) ELSE b
  BY DEF EndGathering
<1> HIDE DEF b
<1>4. Tables(b) /\ b.pairs = <<>>
  BY <1>2, TablesCarry DEF SameTables
<1>5. On(b) = On(a) /\ (Owned(a) => Owned(b))
  BY <1>2 DEF On, Owned
<1>6. Timed(a) /\ On(a) = {} => Timed(b)
  BY <1>2, <1>5 DEF Timed, Ready
<1>7. /\ Tables(Restart(b))
      /\ Timed(b) /\ On(b) = {} => Timed(Restart(b))
  BY <1>2, <1>4, NoPairsIdle, RestartGood
<1> QED
  BY <1>3, <1>4, <1>5, <1>6, <1>7

(* gather_check_done keeps the tables and the timers. *)
LEMMA GatherCheckGood ==
  ASSUME NEW a, Tables(a), a.state = "Gathering" => a.pairs = <<>>
  PROVE  Good(a, GatherCheckDone(a))
<1> DEFINE b == Disarm(a, "gather")
<1>1. "gather" \in Timers
  BY DEF Timers
<1>2. /\ Tables(b) /\ SameTables(a, b) /\ b.state = a.state /\ b.aggressive = a.aggressive
      /\ b.gatheringDone = a.gatheringDone
      /\ Owned(a) => Owned(b) /\ On(b) = On(a) \ {"gather"}
  BY <1>1, DisarmGood
<1>3. GatherCheckDone(a) = a \/ (a.state = "Gathering" /\ GatherCheckDone(a) = EndGathering(b))
  BY DEF GatherCheckDone
<1> HIDE DEF b
<1>4. ASSUME a.state = "Gathering" PROVE Good(a, EndGathering(b))
  <2>1. b.pairs = <<>> /\ b.state = "Gathering"
    BY <1>2, <1>4 DEF SameTables
  <2>2. Timed(a) => Timed(b) /\ On(b) = {}
    BY <1>2, <1>4, <2>1 DEF Timed, Ready
  <2> QED
    BY <1>2, <2>1, <2>2, EndGatheringGood DEF Good
<1>5. Good(a, a)
  BY DEF Good
<1> QED
  BY <1>3, <1>4, <1>5

(* What the answers of the servers change: locals alone. *)
Same(a, b) ==
  /\ b.resolving = a.resolving /\ b.pending = a.pending /\ b.txns = a.txns
  /\ b.pairs = a.pairs /\ b.nominated = a.nominated

(* The candidates of a host whose servers all answered. *)
LEMMA FinalizeKeep ==
  ASSUME NEW a, Tables(a), NEW h \in Hosts, NEW nat
  PROVE  LET b == FinalizeSrflx(a, h, nat) IN Tables(b) /\ SameTimers(a, b) /\ Same(a, b)
<1>1. Predicted \in Nat
  BY Bounds
<1>2. /\ <<"void">> \in Seq({"srflx", "void"}) /\ <<"srflx">> \in Seq({"srflx", "void"})
      /\ [i \in 1 .. 1 + Predicted |-> "srflx"] \in Seq({"srflx", "void"})
  BY <1>1
<1>3. \A t \in Seq({"srflx", "void"}) :
        /\ Tables(AddLocals(a, h, t)) /\ SameTimers(a, AddLocals(a, h, t))
        /\ Same(a, AddLocals(a, h, t))
  BY LocalsKeep DEF Same
<1> DEFINE u == <<"srflx">>
           b == AddLocals(a, h, u)
           c == [b EXCEPT !.symmetric = TRUE]
<1>4. Tables(b) /\ SameTimers(a, b) /\ Same(a, b)
  BY <1>2, <1>3
<1>5. Tables(c) /\ SameTimers(a, c) /\ Same(a, c)
  <2> HIDE DEF b
  <2>1. DOMAIN b = Fields
    BY <1>4 DEF Tables
  <2>2. SameTables(b, c) /\ SameTimers(b, c) /\ Same(b, c)
    BY <2>1 DEF SameTables, SameTimers, Same, Fields
  <2> HIDE DEF c
  <2>3. Tables(c)
    BY <1>4, <2>2, TablesCarry
  <2> QED
    BY <1>4, <2>2, <2>3 DEF SameTimers, Same
<1>6. \/ FinalizeSrflx(a, h, nat) = c
      \/ \E t \in Seq({"srflx", "void"}) : FinalizeSrflx(a, h, nat) = AddLocals(a, h, t)
  BY <1>2 DEF FinalizeSrflx
<1> HIDE DEF c
<1> QED
  BY <1>3, <1>5, <1>6

(* What is owed does not depend on the candidates. *)
LEMMA OwesCarry ==
  ASSUME NEW a, NEW b, SameTimers(a, b), Same(a, b), NEW n
  PROVE  Owes(a, n) => Owes(b, n)
  BY DEF Owes, Same, Asked, InTable, SameTimers

(* A server's answer is counted once. *)
LEMMA SrflxGood ==
  ASSUME NEW a, Tables(a), Owes(a, 1), a.state = "Gathering" => a.pairs = <<>>,
         NEW q, q.host \in Hosts, NEW ok, NEW nat
  PROVE  Good(a, SrflxResponse(a, q, ok, nat))
<1> DEFINE h == q.host
           b == [a EXCEPT !.received[h] = @ + 1,
                          !.mapped[h] = IF ok THEN @ \cup {q.server} ELSE @]
           f == FinalizeSrflx(b, h, nat)
           g == [f EXCEPT !.received[h] = 0, !.mapped[h] = {}, !.expected[h] = 0]
           c == IF b.received[h] >= b.expected[h] THEN g ELSE b
           d == [c EXCEPT !.pending = @ - 1]
<1>1. SrflxResponse(a, q, ok, nat) = GatherCheckDone(d)
  BY DEF SrflxResponse
<1>2. SameTables(a, b) /\ SameTimers(a, b) /\ Same(a, b)
  <2>1. DOMAIN a = Fields
    BY DEF Tables
  <2> QED
    BY <2>1 DEF SameTables, SameTimers, Same, Fields
<1> HIDE DEF b
<1>3. Tables(b)
  BY <1>2, TablesCarry
<1>4. Tables(f) /\ SameTimers(b, f) /\ Same(b, f)
  BY <1>3, FinalizeKeep
<1> HIDE DEF f
<1>5. SameTables(f, g) /\ SameTimers(f, g) /\ Same(f, g)
  <2>1. DOMAIN f = Fields
    BY <1>4 DEF Tables
  <2> QED
    BY <2>1 DEF SameTables, SameTimers, Same, Fields
<1> HIDE DEF g
<1>6. Tables(g)
  BY <1>4, <1>5, TablesCarry
<1>7. Tables(c) /\ SameTimers(a, c) /\ Same(a, c)
  BY <1>2, <1>3, <1>4, <1>5, <1>6 DEF SameTimers, Same
<1> HIDE DEF c
<1>8. Owes(c, 1)
  BY <1>7, OwesCarry
<1>9. /\ DOMAIN d = Fields /\ d.role = c.role /\ d.locals = c.locals /\ d.remotes = c.remotes
      /\ d.pairs = c.pairs /\ d.nominated = c.nominated /\ d.txns = c.txns
      /\ d.resolving = c.resolving /\ d.pending = c.pending - 1 /\ SameTimers(c, d)
  <2>1. DOMAIN c = Fields
    BY <1>7 DEF Tables
  <2> QED
    BY <2>1 DEF SameTimers, Fields
<1> HIDE DEF d
<1>10. Lists(d)
  BY <1>7, <1>9 DEF Tables, Lists
<1>11. Credits(d)
  BY <1>7, <1>9 DEF Tables, Credits
<1>12. Owes(d, 0)
  <2>1. Asked(d) = Asked(c) /\ Asked(c) \in Nat
    <3>1. InTable(d, "ask") = InTable(c, "ask")
      BY <1>9 DEF InTable
    <3>2. Cardinality(InTable(c, "ask")) \in Nat
      BY InTableFacts
    <3> QED
      BY <3>1, <3>2 DEF Asked
  <2> QED
    BY <1>8, <1>9, <2>1 DEF Owes, SameTimers
<1>13. Tables(d)
  BY <1>7, <1>9, <1>10, <1>11, <1>12 DEF Tables
<1>14. /\ SameTimers(a, d) /\ d.nominated = a.nominated
       /\ d.state = "Gathering" => d.pairs = <<>>
  BY <1>7, <1>9 DEF SameTimers, Same
<1>15. Good(a, d)
  BY <1>13, <1>14, ReadyCarry DEF Good
<1>16. Good(d, GatherCheckDone(d))
  BY <1>13, <1>14, GatherCheckGood
<1> QED
  BY <1>1, <1>15, <1>16, GoodTrans

(* Candidates are learnt while there is room. *)
LEMMA LearnKeep ==
  ASSUME NEW a, Tables(a), NEW cs \in SUBSET Signalled
  PROVE  LET b == Learn(a, cs) IN
         /\ Tables(b) /\ SameTimers(a, b) /\ b.locals = a.locals /\ b.pairs = a.pairs
         /\ b.nominated = a.nominated /\ b.txns = a.txns
         /\ Unknown(a, cs) # {} /\ Len(a.remotes) < MaxCandidates =>
              Len(b.remotes) \in 1 .. Len(b.remotes)
<1> DEFINE n == MaxCandidates - Len(a.remotes)
           x == Cut(SetToSeq(Unknown(a, cs)), n)
           b == [a EXCEPT !.remotes = a.remotes \o x]
<1>1. /\ a.remotes \in Seq(RemoteTypes) /\ Len(a.remotes) \in Nat /\ MaxCandidates \in Nat
      /\ Len(a.remotes) <= MaxCandidates
  BY Bounds DEF Tables, Lists
<1>2. n \in Nat
  BY <1>1
<1>3. Unknown(a, cs) \in SUBSET Signalled /\ Signalled \subseteq RemoteTypes
  BY IceAssumption DEF Unknown, RemoteTypes, Spots, Addresses
<1>4. IsFiniteSet(Unknown(a, cs))
  <2>1. IsFiniteSet(Signalled)
    BY IceAssumption
  <2> QED
    BY <1>3, <2>1, FS_Subset
<1>5. SetToSeq(Unknown(a, cs)) \in Seq(RemoteTypes)
  <2>1. SetToSeq(Unknown(a, cs)) \in Seq(Unknown(a, cs)) /\ Len(SetToSeq(Unknown(a, cs))) \in Nat
    BY <1>4, Listed
  <2>2. Unknown(a, cs) \subseteq RemoteTypes
    BY <1>3
  <2> DEFINE U == Unknown(a, cs)
             z == SetToSeq(U)
  <2> HIDE DEF U, z
  <2>3. z \in Seq(U) /\ U \subseteq RemoteTypes
    BY <2>1, <2>2 DEF U, z
  <2>4. z \in Seq(RemoteTypes)
    BY <2>3
  <2> QED
    BY <2>4 DEF U, z
<1>6. /\ x \in Seq(RemoteTypes) /\ Len(x) <= n /\ Len(x) \in Nat
      /\ Len(SetToSeq(Unknown(a, cs))) > 0 /\ n > 0 => Len(x) > 0
  BY <1>2, <1>5, CutFacts
<1>7. Unknown(a, cs) # {} => Len(SetToSeq(Unknown(a, cs))) > 0
  <2>1. Len(SetToSeq(Unknown(a, cs))) = Cardinality(Unknown(a, cs)) /\ Cardinality(Unknown(a, cs)) \in Nat
    BY <1>4, Listed
  <2>2. Unknown(a, cs) # {} => Cardinality(Unknown(a, cs)) # 0
    BY <1>4, FS_EmptySet
  <2> QED
    BY <2>1, <2>2
<1>8. Len(a.remotes) < MaxCandidates => n > 0
  BY <1>1
<1>9. Learn(a, cs) = b
  BY DEF Learn
<1>10. Len(a.remotes) + Len(x) <= MaxCandidates
  <2>1. n = MaxCandidates - Len(a.remotes)
    OBVIOUS
  <2> HIDE DEF n, x
  <2> QED
    BY <1>1, <1>6, <2>1
<1> HIDE DEF x, n
<1>11. /\ Tables(b) /\ SameTimers(a, b) /\ b.locals = a.locals /\ b.pairs = a.pairs
       /\ b.nominated = a.nominated /\ b.txns = a.txns
       /\ Len(b.remotes) = Len(a.remotes) + Len(x)
  BY <1>6, <1>10, RemotesKeep
<1>12. Unknown(a, cs) # {} /\ Len(a.remotes) < MaxCandidates => Len(b.remotes) \in 1 .. Len(b.remotes)
  BY <1>1, <1>6, <1>7, <1>8, <1>11
<1> QED
  BY <1>9, <1>11, <1>12

(* A candidate from the address of a request. *)
LEMMA ObserveKeep ==
  ASSUME NEW a, Tables(a), NEW from \in Spots
  PROVE  LET b == Observe(a, from) IN
         /\ Tables(b) /\ SameTimers(a, b) /\ b.nominated = a.nominated
<1> DEFINE z == <<[addr |-> from, type |-> "prflx"]>>
           p == [a EXCEPT !.remotes = a.remotes \o z]
<1>1. /\ a.remotes \in Seq(RemoteTypes) /\ Len(a.remotes) \in Nat /\ MaxCandidates \in Nat
      /\ Len(a.remotes) <= MaxCandidates
  BY Bounds DEF Tables, Lists
<1>2. z \in Seq(RemoteTypes) /\ Len(z) = 1
  BY DEF RemoteTypes
<1>3. a.remotes \o z = Append(a.remotes, [addr |-> from, type |-> "prflx"])
  BY <1>1, <1>2
<1>4. \/ Observe(a, from) = a
      \/ /\ Len(a.remotes) < MaxCandidates
         /\ Observe(a, from) \in {p, AppendPairs(p, Len(p.remotes))}
  <2>1. [a EXCEPT !.remotes = Append(@, [addr |-> from, type |-> "prflx"])] = p
    BY <1>3
  <2>2. ~(Len(a.remotes) >= MaxCandidates) => Len(a.remotes) < MaxCandidates
    BY <1>1
  <2> HIDE DEF p
  <2> QED
    BY <2>1, <2>2 DEF Observe
<1> HIDE DEF z
<1>5. ASSUME Len(a.remotes) < MaxCandidates
      PROVE  /\ Tables(p) /\ SameTimers(a, p) /\ p.nominated = a.nominated
             /\ Len(p.remotes) \in 1 .. Len(p.remotes)
  <2>1. Len(a.remotes) + Len(z) <= MaxCandidates
    BY <1>1, <1>2, <1>5
  <2>2. /\ Tables(p) /\ SameTimers(a, p) /\ p.nominated = a.nominated
        /\ Len(p.remotes) = Len(a.remotes) + Len(z)
    BY <1>2, <2>1, RemotesKeep
  <2> QED
    BY <1>1, <1>2, <2>2
<1> HIDE DEF p
<1>6. ASSUME Len(a.remotes) < MaxCandidates
      PROVE  LET b == AppendPairs(p, Len(p.remotes)) IN
             Tables(b) /\ SameTimers(a, b) /\ b.nominated = a.nominated
  <2>1. LET b == AppendPairs(p, Len(p.remotes)) IN
        Tables(b) /\ SameTimers(p, b) /\ b.nominated = p.nominated
    BY <1>5, <1>6, AppendKeep
  <2> QED
    BY <1>5, <1>6, <2>1 DEF SameTimers
<1>7. SameTimers(a, a)
  BY DEF SameTimers
<1> QED
  BY <1>4, <1>5, <1>6, <1>7

(* Only pairs of the list are triggered. *)
LEMMA TriggerKeep ==
  ASSUME NEW a, Tables(a), NEW h, NEW from
  PROVE  LET b == Trigger(a, h, from) IN
         /\ Tables(b) /\ SameTimers(a, b) /\ b.nominated = a.nominated
<1> DEFINE mine == {i \in PairsWith(a, from) : a.locals[a.pairs[i].l].sock = h}
<1>1. DOMAIN a.pairs = 1 .. Len(a.pairs) /\ Len(a.pairs) \in Nat
  BY DEF Tables, Lists
<1>2. mine \subseteq 1 .. Len(a.pairs)
  BY <1>1 DEF PairsWith
<1>3. Trigger(a, h, from) = a \/ (mine # {} /\ Trigger(a, h, from) = SendChecks(a, {Least(mine)}))
  BY DEF Trigger, SendCheck
<1> HIDE DEF mine
<1>4. mine # {} => {Least(mine)} \subseteq 1 .. Len(a.pairs)
  <2>1. mine \subseteq Nat
    BY <1>1, <1>2
  <2>2. mine # {} => Least(mine) \in mine
    BY <2>1, LeastFacts
  <2> QED
    BY <1>2, <2>2
<1>5. ASSUME mine # {}
      PROVE  LET b == SendChecks(a, {Least(mine)}) IN
             Tables(b) /\ SameTimers(a, b) /\ b.nominated = a.nominated
  BY <1>4, <1>5, ChecksKeep
<1>6. SameTimers(a, a)
  BY DEF SameTimers
<1> QED
  BY <1>3, <1>5, <1>6

-------------------------------------------------------------------------------
(* The actions of the ICE agent, one by one *)

(* A nomination by the peer. *)
LEMMA TakeNominationGood ==
  ASSUME NEW a, Tables(a), NEW from
  PROVE  Good(a, TakeNomination(a, from))
<1> DEFINE W == PairsWith(a, from)
           i == Least(W)
           b == Status(a, i, "Succeeded")
           c == [b EXCEPT !.nominated = i, !.state = "Connected"]
           d == [a EXCEPT !.nominated = i, !.pairs[i].st = "Succeeded", !.state = "Connected"]
           e == Arm(d, "consent")
<1>1. DOMAIN a = Fields /\ DOMAIN a.pairs = 1 .. Len(a.pairs) /\ Len(a.pairs) \in Nat
  BY DEF Tables, Lists
<1>2. W \subseteq 1 .. Len(a.pairs) /\ W \subseteq Nat
  BY <1>1 DEF PairsWith
<1>3. TakeNomination(a, from) = a \/ (a.nominated = 0 /\ W # {} /\ TakeNomination(a, from) = e)
  BY DEF TakeNomination
<1> HIDE DEF W
<1>4. ASSUME a.nominated = 0, W # {} PROVE Good(a, e)
  <2>1. i \in 1 .. Len(a.pairs) /\ i # 0
    <3>1. Least(W) \in W
      BY <1>2, <1>4, LeastFacts
    <3> DEFINE m == Least(W)
    <3>2. m \in W
      BY <3>1
    <3> HIDE DEF m
    <3>3. m \in 1 .. Len(a.pairs) /\ m # 0
      BY <1>1, <1>2, <3>2
    <3> QED
      BY <3>3 DEF m
  <2>2. d = c
    BY <1>1 DEF Fields, Status
  <2> HIDE DEF i, d
  <2>3. /\ Tables(b) /\ SameTimers(a, b) /\ b.nominated = a.nominated
        /\ Len(b.pairs) = Len(a.pairs)
    <3>1. "Succeeded" \in {"Succeeded", "Failed"}
      OBVIOUS
    <3> QED
      BY <2>1, <3>1, StatusKeep
  <2> HIDE DEF b
  <2>4. /\ DOMAIN c = Fields /\ c.role = b.role /\ c.locals = b.locals /\ c.remotes = b.remotes
        /\ c.pairs = b.pairs /\ c.nominated = i /\ c.txns = b.txns
        /\ c.resolving = b.resolving /\ c.pending = b.pending /\ c.state = "Connected"
        /\ c.armed = b.armed /\ c.held = b.held /\ c.aggressive = b.aggressive
        /\ c.gatheringDone = b.gatheringDone
    <3>1. DOMAIN b = Fields
      BY <2>3 DEF Tables
    <3> QED
      BY <3>1 DEF Fields
  <2> HIDE DEF c
  <2>5. Lists(c)
    BY <1>1, <2>1, <2>3, <2>4 DEF Tables, Lists
  <2>6. Credits(c)
    BY <2>3, <2>4 DEF Tables, Credits
  <2>7. Owes(c, 0)
    BY <2>3, <2>4 DEF Tables, Owes, Asked, InTable
  <2>8. Tables(d)
    BY <2>2, <2>3, <2>4, <2>5, <2>6, <2>7 DEF Tables
  <2>9. "consent" \in Timers
    BY DEF Timers
  <2>10. /\ Tables(e) /\ SameTables(d, e) /\ e.state = d.state /\ e.aggressive = d.aggressive
         /\ e.gatheringDone = d.gatheringDone
         /\ Owned(d) /\ "consent" \notin On(d) => Owned(e) /\ On(e) = On(d) \cup {"consent"}
    BY <2>8, <2>9, ArmGood
  <2> HIDE DEF e
  <2>11. ASSUME Timed(a) PROVE Timed(e)
    <3>1. d.held = a.held /\ d.armed = a.armed /\ d.aggressive = a.aggressive
          /\ d.gatheringDone = a.gatheringDone /\ d.state = "Connected" /\ d.nominated # 0
      BY <2>1, <2>2, <2>3, <2>4 DEF SameTimers
    <3>2. Owned(d) /\ On(d) = On(a)
      BY <2>11, <3>1 DEF Timed, Owned, On
    <3>3. /\ "consent" \notin On(a) /\ (a.gatheringDone => "gather" \notin On(a))
          /\ (a.aggressive = "off" => "burst" \notin On(a))
      BY <1>4, <2>11 DEF Timed, Ready
    <3>4. Owned(e) /\ On(e) = On(a) \cup {"consent"} /\ e.nominated # 0
      BY <2>10, <3>1, <3>2, <3>3 DEF SameTables
    <3> QED
      BY <2>10, <3>1, <3>3, <3>4 DEF Timed, Ready
  <2> QED
    BY <2>10, <2>11 DEF Good
<1>5. Good(a, a)
  BY DEF Good
<1> QED
  BY <1>3, <1>4, <1>5


(* A peer's request: observed, triggered, and taken as a nomination. *)
LEMMA RequestStep ==
  ASSUME Tables(agent), NEW h, NEW use,
         NEW from \in Addresses \cup {r.addr : r \in ToSet(agent.remotes)}, Request(h, from, use)
  PROVE  Good(agent, agent')
<1> DEFINE o == Observe(agent, from)
           a == Trigger(o, h, from)
<1>1. from \in Spots
  <2>1. \A i \in DOMAIN agent.remotes : agent.remotes[i] \in RemoteTypes
    BY DEF Tables, Lists
  <2> QED
    BY <2>1 DEF ToSet, RemoteTypes, Spots
<1>2. Tables(o) /\ SameTimers(agent, o) /\ o.nominated = agent.nominated
  BY <1>1, ObserveKeep
<1>3. agent' = IF use THEN TakeNomination(a, from) ELSE a
  BY DEF Request
<1> HIDE DEF o
<1>4. Tables(a) /\ SameTimers(o, a) /\ a.nominated = o.nominated
  BY <1>2, TriggerKeep
<1> HIDE DEF a
<1>5. Good(agent, a)
  BY <1>2, <1>4, ReadyCarry DEF Good
<1>6. Good(a, TakeNomination(a, from))
  BY <1>4, TakeNominationGood
<1> QED
  BY <1>3, <1>5, <1>6, GoodTrans

(* A check settles its pair, whatever the answer. *)
LEMMA AnswerStep ==
  ASSUME Tables(agent), NEW s \in Slots, Succeeds(s) \/ Refused(s) \/ TxnTimeout(s)
  PROVE  Good(agent, agent')
<1> DEFINE t == agent.txns[s]
<1>1. PICK x \in {Free, Dead}, st \in {"Succeeded", "Failed"} :
        agent' = Settled([agent EXCEPT !.txns[s] = x], t, st)
  BY DEF Succeeds, Refused, TxnTimeout, Taken, GivenUp
<1> DEFINE a == [agent EXCEPT !.txns[s] = x]
           b == Status(a, t.at, st)
<1>2. t.kind = "check"
  BY DEF Succeeds, Refused, TxnTimeout, InTable
<1>3. t \in ChecksOf(Len(agent.pairs))
  BY <1>2 DEF Tables, Credits, Asks, Free, Dead
<1>4. t.at \in 1 .. Len(agent.pairs)
  BY <1>3 DEF ChecksOf
<1>5. agent' = TryNominate(b)
  BY <1>1 DEF Settled, Status
<1> HIDE DEF t
<1>6. Tables(a) /\ SameTimers(agent, a) /\ a.nominated = agent.nominated /\ a.pairs = agent.pairs
  BY DropKeep
<1> HIDE DEF a
<1>7. Tables(b) /\ SameTimers(a, b) /\ b.nominated = a.nominated
  <2>1. t.at \in 1 .. Len(a.pairs) /\ Tables(a)
    BY <1>4, <1>6
  <2> QED
    BY <2>1, StatusKeep
<1> HIDE DEF b
<1>8. Good(agent, b)
  BY <1>6, <1>7, ReadyCarry DEF Good
<1> QED
  BY <1>5, <1>7, <1>8, TryNominateGood, GoodTrans

(* A role conflict: the entry is freed and the pair checked again. *)
LEMMA ConflictStep ==
  ASSUME Tables(agent), NEW s \in Slots, Conflict(s)
  PROVE  Good(agent, agent')
<1> DEFINE t == agent.txns[s]
           a == [agent EXCEPT !.txns[s] = Free]
           b == [a EXCEPT !.role = IF @ = "Controlling" THEN "Controlled" ELSE "Controlling"]
<1>1. t.kind = "check"
  BY DEF Conflict, InTable
<1>2. t \in ChecksOf(Len(agent.pairs))
  BY <1>1 DEF Tables, Credits, Asks, Free, Dead
<1>3. t.at \in 1 .. Len(agent.pairs)
  BY <1>2 DEF ChecksOf
<1>4. agent' = SendChecks(b, {t.at})
  BY DEF Conflict, Taken, SendCheck
<1> HIDE DEF t
<1>5. Tables(a) /\ SameTimers(agent, a) /\ a.nominated = agent.nominated /\ a.pairs = agent.pairs
  <2>1. Free \in {Free, Dead}
    OBVIOUS
  <2> QED
    BY <2>1, DropKeep
<1> HIDE DEF a
<1>6. /\ DOMAIN b = Fields /\ b.role \in {"Controlling", "Controlled"} /\ b.locals = a.locals
      /\ b.remotes = a.remotes /\ b.pairs = a.pairs /\ b.nominated = a.nominated
      /\ b.txns = a.txns /\ b.resolving = a.resolving /\ b.pending = a.pending
      /\ SameTimers(a, b)
  <2>1. DOMAIN a = Fields
    BY <1>5 DEF Tables
  <2> QED
    BY <2>1 DEF Fields, SameTimers
<1> HIDE DEF b
<1>7. Lists(b)
  BY <1>5, <1>6 DEF Tables, Lists
<1>8. Credits(b)
  BY <1>5, <1>6 DEF Tables, Credits
<1>9. Owes(b, 0)
  BY <1>5, <1>6 DEF Tables, Owes, Asked, InTable, SameTimers
<1>10. Tables(b)
  BY <1>6, <1>7, <1>8, <1>9 DEF Tables
<1>11. Tables(agent') /\ SameTimers(b, agent') /\ agent'.nominated = b.nominated
  <2>1. {t.at} \subseteq 1 .. Len(b.pairs)
    BY <1>3, <1>5, <1>6
  <2> QED
    BY <1>4, <1>10, <2>1, ChecksKeep
<1> QED
  BY <1>5, <1>6, <1>10, <1>11, ReadyCarry DEF Good

(* The pacing timer: a check, or the attempt to nominate. *)
LEMMA PaceStep ==
  ASSUME Tables(agent), Pace
  PROVE  Good(agent, agent')
<1> DEFINE a    == Fired(agent, "check")
           todo == {i \in InState(a, {"Frozen", "Waiting"}) : i >= a.checkIndex}
           x    == SendChecks(a, {Least(todo)})
           y    == [x EXCEPT !.checkIndex = Least(todo) + 1]
           w    == Arm(y, "check")
           z    == [a EXCEPT !.checkIndex = Len(a.pairs) + 1]
<1>1. agent.armed["check"] > 0 /\ "check" \in Timers
  BY DEF Pace, Timers
<1>2. /\ Good(agent, a) /\ a.state = agent.state
      /\ Owned(agent) => On(a) = On(agent) \ {"check"}
  BY <1>1, FiredGood
<1>3. Tables(a)
  BY <1>2 DEF Good
<1>4. \/ agent' = a
      \/ a.state = "Checking" /\ todo # {} /\ agent' = w
      \/ agent' = TryNominate(z)
  BY DEF Pace, SendCheck
<1> HIDE DEF a
<1>5. ASSUME a.state = "Checking", todo # {} PROVE Good(agent, w)
  <2>1. todo \subseteq 1 .. Len(a.pairs) /\ todo \subseteq Nat
    BY <1>3, InStateFacts
  <2>2. {Least(todo)} \subseteq 1 .. Len(a.pairs)
    BY <1>5, <2>1, LeastFacts
  <2> HIDE DEF todo
  <2>3. Tables(x) /\ SameTimers(a, x) /\ x.nominated = a.nominated
    BY <1>3, <2>2, ChecksKeep
  <2> HIDE DEF x
  <2>4. SameTables(x, y) /\ SameTimers(x, y) /\ y.nominated = x.nominated
    <3>1. DOMAIN x = Fields
      BY <2>3 DEF Tables
    <3> QED
      BY <3>1 DEF SameTables, SameTimers, Fields
  <2> HIDE DEF y
  <2>5. Tables(y)
    BY <2>3, <2>4, TablesCarry
  <2>6. /\ Tables(w) /\ SameTables(y, w) /\ w.state = y.state /\ w.aggressive = y.aggressive
        /\ w.gatheringDone = y.gatheringDone
        /\ Owned(y) /\ "check" \notin On(y) => Owned(w) /\ On(w) = On(y) \cup {"check"}
    BY <1>1, <2>5, ArmGood
  <2> HIDE DEF w
  <2>7. ASSUME Timed(agent) PROVE Timed(w)
    <3>1. Timed(a) /\ "check" \notin On(a)
      BY <1>2, <2>7 DEF Good, Timed
    <3>2. Timed(y) /\ On(y) = On(a) /\ y.state = "Checking"
      BY <1>5, <2>3, <2>4, <3>1, ReadyCarry, TimersCarry DEF SameTimers
    <3>3. Owned(w) /\ On(w) = On(y) \cup {"check"}
      BY <2>6, <3>1, <3>2 DEF Timed
    <3> QED
      BY <2>6, <3>2, <3>3 DEF Timed, Ready
  <2> QED
    BY <2>6, <2>7 DEF Good
<1>6. Good(agent, TryNominate(z))
  <2>1. SameTables(a, z) /\ SameTimers(a, z) /\ z.nominated = a.nominated
    <3>1. DOMAIN a = Fields
      BY <1>3 DEF Tables
    <3> QED
      BY <3>1 DEF SameTables, SameTimers, Fields
  <2> HIDE DEF z
  <2>2. Tables(z)
    BY <1>3, <2>1, TablesCarry
  <2>3. Good(agent, z)
    BY <1>2, <2>1, <2>2, ReadyCarry DEF Good
  <2> QED
    BY <2>2, <2>3, TryNominateGood, GoodTrans
<1> QED
  BY <1>2, <1>4, <1>5, <1>6

(* The keepalive checks what the peer may be reached by and starts a timer. *)
LEMMA KeepaliveGood ==
  ASSUME NEW a, Tables(a)
  PROVE  LET b == Keepalive(a) IN
         /\ Tables(b) /\ b.state = a.state /\ b.aggressive = a.aggressive
         /\ b.gatheringDone = a.gatheringDone
         /\ Owned(a) /\ "burst" \notin On(a) => Owned(b) /\ On(b) = On(a) \cup {"burst"}
<1> DEFINE S == {i \in DOMAIN a.pairs : Type(a, i) = "srflx"}
           c == SendChecks(a, S)
           b == Arm(c, "burst")
<1>1. S \subseteq 1 .. Len(a.pairs)
  BY DEF Tables, Lists
<1>2. Keepalive(a) = b
  BY DEF Keepalive
<1> HIDE DEF S
<1>3. Tables(c) /\ SameTimers(a, c)
  BY <1>1, ChecksKeep
<1> HIDE DEF c
<1>4. "burst" \in Timers
  BY DEF Timers
<1>5. /\ Tables(b) /\ b.state = c.state /\ b.aggressive = c.aggressive
      /\ b.gatheringDone = c.gatheringDone
      /\ Owned(c) /\ "burst" \notin On(c) => Owned(b) /\ On(b) = On(c) \cup {"burst"}
  BY <1>3, <1>4, ArmGood
<1>6. On(c) = On(a) /\ (Owned(a) => Owned(c))
  BY <1>3, TimersCarry
<1> QED
  BY <1>2, <1>3, <1>5, <1>6 DEF SameTimers

(* The timeout nominates, sprays, keeps alive or fails. *)
LEMMA CheckTimeoutStep ==
  ASSUME Tables(agent), CheckTimeout
  PROVE  Good(agent, agent')
<1> DEFINE a == Fired(agent, "timeout")
           m == [a EXCEPT !.aggressive = "keepalive"]
           n == Arm(m, "timeout")
           d == Disarm(a, "burst")
<1>1. agent.armed["timeout"] > 0 /\ {"timeout", "burst"} \subseteq Timers
  BY DEF CheckTimeout, Timers
<1>2. /\ Good(agent, a) /\ a.state = agent.state /\ a.aggressive = agent.aggressive
      /\ Owned(agent) => On(a) = On(agent) \ {"timeout"}
  BY <1>1, FiredGood
<1>3. Tables(a)
  BY <1>2 DEF Good
<1>4. \/ agent' = a
      \/ /\ a.state = "Checking"
         /\ \/ InState(a, {"Succeeded"}) # {} /\ agent' = Nominate(a)
            \/ CanSpray(a) /\ agent' = StartSpray(a)
            \/ a.aggressive = "off" /\ agent' = Keepalive(n)
            \/ agent' = Fail(d)
  BY DEF CheckTimeout
<1> HIDE DEF a
<1>5. ASSUME a.state = "Checking", InState(a, {"Succeeded"}) # {} PROVE Good(a, Nominate(a))
  <2> DEFINE b == Nominate(a)
  <2>1. /\ Tables(b) /\ b.state = "Connected" /\ b.nominated # 0
        /\ b.armed = a.armed /\ b.held = a.held /\ b.aggressive = a.aggressive
        /\ b.gatheringDone = a.gatheringDone
    BY <1>3, <1>5, NominateGood
  <2> HIDE DEF b
  <2>2. On(b) = On(a) /\ (Owned(a) => Owned(b))
    BY <2>1 DEF On, Owned
  <2>3. Timed(a) => Timed(b)
    BY <1>5, <2>1, <2>2 DEF Timed, Ready
  <2> QED
    BY <2>1, <2>3 DEF Good, b
<1>6. ASSUME a.state = "Checking", CanSpray(a) PROVE Good(a, StartSpray(a))
  BY <1>3, <1>6, SprayGood DEF CanSpray
<1>7. ASSUME a.state = "Checking", a.aggressive = "off" PROVE Good(agent, Keepalive(n))
  <2>1. /\ SameTables(a, m) /\ m.state = a.state /\ m.aggressive = "keepalive"
        /\ m.armed = a.armed /\ m.held = a.held /\ m.gatheringDone = a.gatheringDone
    <3>1. DOMAIN a = Fields
      BY <1>3 DEF Tables
    <3> QED
      BY <3>1 DEF SameTables, Fields
  <2> HIDE DEF m
  <2>2. Tables(m)
    BY <1>3, <2>1, TablesCarry
  <2>3. /\ Tables(n) /\ n.state = m.state /\ n.aggressive = m.aggressive
        /\ n.gatheringDone = m.gatheringDone
        /\ Owned(m) /\ "timeout" \notin On(m) => Owned(n) /\ On(n) = On(m) \cup {"timeout"}
    BY <1>1, <2>2, ArmGood
  <2> HIDE DEF n
  <2> DEFINE b == Keepalive(n)
  <2>4. /\ Tables(b) /\ b.state = n.state /\ b.aggressive = n.aggressive
        /\ b.gatheringDone = n.gatheringDone
        /\ Owned(n) /\ "burst" \notin On(n) => Owned(b) /\ On(b) = On(n) \cup {"burst"}
    BY <2>3, KeepaliveGood
  <2> HIDE DEF b
  <2>5. ASSUME Timed(agent) PROVE Timed(b)
    <3>1. Timed(a) /\ "timeout" \notin On(a)
      BY <1>2, <2>5 DEF Good, Timed
    <3>2. /\ Owned(a) /\ "burst" \notin On(a) /\ "consent" \notin On(a)
          /\ a.gatheringDone => "gather" \notin On(a)
      BY <1>7, <3>1 DEF Timed, Ready
    <3>3. Owned(m) /\ On(m) = On(a)
      BY <2>1, <3>2 DEF Owned, On
    <3>4. Owned(b) /\ On(b) = (On(a) \cup {"timeout"}) \cup {"burst"}
      BY <2>3, <2>4, <3>1, <3>2, <3>3
    <3>5. b.state = "Checking" /\ b.aggressive = "keepalive" /\ b.gatheringDone = a.gatheringDone
      BY <1>7, <2>1, <2>3, <2>4
    <3> QED
      BY <3>2, <3>4, <3>5 DEF Timed, Ready
  <2> QED
    BY <2>4, <2>5 DEF Good, b
<1>8. ASSUME a.state = "Checking" PROVE Good(a, Fail(d))
  <2>1. /\ Tables(d) /\ SameTables(a, d) /\ d.state = a.state /\ d.aggressive = a.aggressive
        /\ d.gatheringDone = a.gatheringDone
        /\ Owned(a) => Owned(d) /\ On(d) = On(a) \ {"burst"}
    BY <1>1, <1>3, DisarmGood
  <2> HIDE DEF d
  <2>2. Timed(a) => Timed(d)
    BY <1>8, <2>1 DEF Timed, Ready
  <2>3. Good(d, Fail(d))
    BY <1>8, <2>1, FailGood
  <2> QED
    BY <2>1, <2>2, <2>3, GoodTrans DEF Good
<1> QED
  BY <1>2, <1>4, <1>5, <1>6, <1>7, <1>8, GoodTrans

(* The timer of the spray or the keepalive. *)
LEMMA BurstStep ==
  ASSUME Tables(agent), Burst
  PROVE  Good(agent, agent')
<1> DEFINE a    == Fired(agent, "burst")
           todo == {i \in InState(a, {"Frozen", "Waiting"}) : i >= a.sprayIndex}
           now  == {i \in todo : Cardinality({j \in todo : j < i}) < SprayBatch}
           next == IF now # todo THEN 1 + CHOOSE i \in now : \A j \in now : j <= i
                   ELSE Len(a.pairs) + 1
           x    == SendChecks(a, now)
           b    == [x EXCEPT !.sprayIndex = next]
           w    == Arm(b, "burst")
           k    == Keepalive(a)
<1>1. agent.armed["burst"] > 0 /\ "burst" \in Timers
  BY DEF Burst, Timers
<1>2. /\ Good(agent, a) /\ a.state = agent.state /\ a.aggressive = agent.aggressive
      /\ Owned(agent) => On(a) = On(agent) \ {"burst"}
  BY <1>1, FiredGood
<1>3. Tables(a)
  BY <1>2 DEF Good
<1>4. \/ agent' = a \/ agent' = b
      \/ a.state = "Checking" /\ a.aggressive = "keepalive" /\ agent' = k
      \/ a.state = "Checking" /\ a.aggressive # "keepalive" /\ agent' = w
  BY DEF Burst
<1>5. now \subseteq 1 .. Len(a.pairs)
  <2>1. todo \subseteq 1 .. Len(a.pairs)
    BY <1>3, InStateFacts
  <2>2. now \subseteq todo
    OBVIOUS
  <2> HIDE DEF now, todo
  <2> QED
    BY <2>1, <2>2
<1> HIDE DEF now, next
<1>6. SameTables(x, b) /\ SameTimers(x, b) /\ b.nominated = x.nominated
      /\ Tables(x) /\ SameTimers(a, x) /\ x.nominated = a.nominated
  <2> HIDE DEF a
  <2>1. Tables(x) /\ SameTimers(a, x) /\ x.nominated = a.nominated
    BY <1>3, <1>5, ChecksKeep
  <2>2. DOMAIN x = Fields
    BY <2>1 DEF Tables
  <2> HIDE DEF x
  <2>3. SameTables(x, b) /\ SameTimers(x, b) /\ b.nominated = x.nominated
    BY <2>2 DEF SameTables, SameTimers, Fields
  <2> QED
    BY <2>1, <2>3
<1> HIDE DEF x, a, b
<1>7. Good(a, b) /\ Tables(b) /\ SameTimers(a, b)
  BY <1>6, TablesCarry, ReadyCarry DEF Good, SameTimers
<1>8. /\ Tables(w) /\ SameTables(b, w) /\ w.state = b.state /\ w.aggressive = b.aggressive
      /\ w.gatheringDone = b.gatheringDone
      /\ Owned(b) /\ "burst" \notin On(b) => Owned(w) /\ On(w) = On(b) \cup {"burst"}
  BY <1>1, <1>7, ArmGood
<1>9. /\ Tables(k) /\ k.state = a.state /\ k.aggressive = a.aggressive
      /\ k.gatheringDone = a.gatheringDone
      /\ Owned(a) /\ "burst" \notin On(a) => Owned(k) /\ On(k) = On(a) \cup {"burst"}
  BY <1>3, KeepaliveGood
<1> HIDE DEF w, k
<1>10. Timed(agent) => Timed(a) /\ "burst" \notin On(a)
               /\ (agent.aggressive # "off")
  <2>1. Timed(agent) => "burst" \in On(agent)
    BY <1>1 DEF Timed, Owned
  <2>2. Timed(agent) => agent.aggressive # "off"
    BY <2>1 DEF Timed, Ready
  <2> QED
    BY <1>2, <2>2 DEF Good, Timed
<1>11. ASSUME a.state = "Checking", Timed(agent)
       PROVE  Timed(w) /\ Timed(k)
  <2>1. /\ Owned(a) /\ On(b) = On(a) /\ Owned(b) /\ b.state = "Checking"
        /\ b.aggressive = a.aggressive /\ b.gatheringDone = a.gatheringDone
    BY <1>7, <1>10, <1>11, TimersCarry DEF Timed, SameTimers
  <2>2. "consent" \notin On(a) /\ (a.gatheringDone => "gather" \notin On(a))
    BY <1>10, <1>11 DEF Timed, Ready
  <2>3. a.aggressive # "off"
    BY <1>2, <1>10, <1>11
  <2>4. /\ Owned(w) /\ On(w) = On(a) \cup {"burst"} /\ w.state = "Checking"
        /\ w.aggressive # "off" /\ w.gatheringDone = a.gatheringDone
    BY <1>8, <1>10, <1>11, <2>1, <2>3
  <2>5. /\ Owned(k) /\ On(k) = On(a) \cup {"burst"} /\ k.state = "Checking"
        /\ k.aggressive # "off" /\ k.gatheringDone = a.gatheringDone
    BY <1>9, <1>10, <1>11, <2>1, <2>3
  <2> QED
    BY <2>2, <2>4, <2>5 DEF Timed, Ready
<1> QED
  BY <1>2, <1>4, <1>7, <1>8, <1>9, <1>11, GoodTrans DEF Good

(* The consent timer is started again while the agent is connected. *)
LEMMA ConsentStep ==
  ASSUME Tables(agent), Consent
  PROVE  Good(agent, agent')
<1> DEFINE a == Fired(agent, "consent")
           b == Arm(a, "consent")
<1>1. agent.armed["consent"] > 0 /\ "consent" \in Timers
  BY DEF Consent, Timers
<1>2. /\ Good(agent, a) /\ Owned(agent) => On(a) = On(agent) \ {"consent"}
  BY <1>1, FiredGood
<1>3. agent' = a \/ (a.state = "Connected" /\ agent' = b)
  BY DEF Consent
<1>4. Good(agent, a)
  BY <1>1, FiredGood
<1> HIDE DEF a
<1>5. Tables(a) /\ (Timed(agent) => Timed(a) /\ "consent" \notin On(a))
  BY <1>2, <1>4 DEF Good, Timed
<1>6. /\ Tables(b) /\ SameTables(a, b) /\ b.state = a.state /\ b.aggressive = a.aggressive
      /\ b.gatheringDone = a.gatheringDone
      /\ Owned(a) /\ "consent" \notin On(a) => Owned(b) /\ On(b) = On(a) \cup {"consent"}
  BY <1>1, <1>5, ArmGood
<1> HIDE DEF b
<1>7. ASSUME a.state = "Connected", Timed(agent) PROVE Timed(b)
  BY <1>5, <1>6, <1>7 DEF Timed, Ready, SameTables
<1> QED
  BY <1>3, <1>4, <1>6, <1>7 DEF Good

(* Gathering that takes too long ends with what there is. *)
LEMMA GatherTimeoutStep ==
  ASSUME PhaseInv(agent), Tables(agent), GatherTimeout
  PROVE  Good(agent, agent')
<1> DEFINE a == Fired(agent, "gather")
<1>1. agent.armed["gather"] > 0 /\ "gather" \in Timers
  BY DEF GatherTimeout, Timers
<1>2. /\ Good(agent, a) /\ SameTables(agent, a) /\ a.state = agent.state
      /\ Owned(agent) => On(a) = On(agent) \ {"gather"}
  BY <1>1, FiredGood
<1>3. agent' = a \/ (a.state = "Gathering" /\ agent' = EndGathering(a))
  BY DEF GatherTimeout
<1> HIDE DEF a
<1>4. ASSUME a.state = "Gathering" PROVE Good(agent, EndGathering(a))
  <2>1. Tables(a) /\ a.pairs = <<>>
    BY <1>2, <1>4 DEF Good, SameTables, PhaseInv
  <2>2. Timed(agent) => Timed(a) /\ On(a) = {}
    BY <1>2, <1>4 DEF Good, Timed, Ready
  <2> QED
    BY <1>4, <2>1, <2>2, EndGatheringGood DEF Good
<1> QED
  BY <1>2, <1>3, <1>4

(* A server answers, refuses, or never does. *)
LEMMA SrflxStep ==
  ASSUME PhaseInv(agent), Tables(agent), NEW s \in Slots,
         (\E ok \in BOOLEAN : SrflxAnswer(s, ok)) \/ SrflxTimeout(s)
  PROVE  Good(agent, agent')
<1> DEFINE t == agent.txns[s]
<1>1. PICK x \in {Free, Dead}, ok \in BOOLEAN, nat \in Nats(agent, t) :
        agent' = SrflxResponse([agent EXCEPT !.txns[s] = x], t, ok, nat)
  BY DEF SrflxAnswer, SrflxTimeout, Taken, GivenUp
<1> DEFINE a == [agent EXCEPT !.txns[s] = x]
<1>2. t.kind = "ask"
  BY DEF SrflxAnswer, SrflxTimeout, InTable
<1>3. t.host \in Hosts
  BY <1>2 DEF Tables, Credits, Asks, ChecksOf, Free, Dead
<1>4. /\ Tables(a) /\ SameTimers(agent, a) /\ a.nominated = agent.nominated
      /\ a.pairs = agent.pairs /\ Owes(a, 1)
  BY <1>2, DropKeep
<1>5. agent' = SrflxResponse(a, t, ok, nat)
  BY <1>1
<1> HIDE DEF a, t
<1>6. Good(agent, a)
  BY <1>4, ReadyCarry DEF Good
<1>7. a.state = "Gathering" => a.pairs = <<>>
  BY <1>4 DEF PhaseInv, SameTimers
<1>8. Good(a, SrflxResponse(a, t, ok, nat))
  BY <1>3, <1>4, <1>7, SrflxGood
<1> QED
  BY <1>5, <1>6, <1>8, GoodTrans

(* A new agent gathers from its interfaces. *)
LEMMA GatherStep ==
  ASSUME PhaseInv(agent), Tables(agent), Gather
  PROVE  Good(agent, agent')
<1> DEFINE hs == Cut(SetToSeq(Hosts), MaxCandidates)
           x  == [i \in DOMAIN hs |-> [sock |-> hs[i], type |-> "host"]]
           a  == [agent EXCEPT !.state = "Gathering", !.locals = x]
           b  == [a EXCEPT !.resolving = TRUE, !.pending = 1]
           c  == Arm(b, "gather")
           f  == [agent EXCEPT !.state = "Failed"]
<1>1. /\ DOMAIN agent = Fields /\ Lists(agent) /\ Credits(agent) /\ Owes(agent, 0)
      /\ agent.role \in {"Controlling", "Controlled"}
  BY DEF Tables
<1>2. agent.state = "New" /\ agent.pairs = <<>>
  BY DEF Gather, PhaseInv
<1>3. agent' = f \/ agent' = GatherCheckDone(a) \/ agent' = c
  BY DEF Gather
<1>4. agent.pending = 0 /\ agent.resolving = FALSE /\ Asked(agent) = 0
  <2>1. Asked(agent) \in Nat
    BY InTableFacts DEF Asked
  <2> QED
    BY <1>1, <1>2, <2>1 DEF Owes
<1>5. Good(agent, f)
  <2>1. SameTables(agent, f) /\ f.state = "Failed" /\ f.armed = agent.armed /\ f.held = agent.held
        /\ f.aggressive = agent.aggressive /\ f.gatheringDone = agent.gatheringDone
    BY <1>1 DEF SameTables, Fields
  <2> HIDE DEF f
  <2>2. Tables(f)
    BY <2>1, TablesCarry
  <2>3. On(f) = On(agent) /\ (Owned(agent) => Owned(f))
    BY <2>1 DEF On, Owned
  <2>4. Timed(agent) => Timed(f)
    BY <1>2, <2>1, <2>3 DEF Timed, Ready
  <2> QED
    BY <2>2, <2>4 DEF Good
<1>6. x \in Seq(LocalTypes) /\ Len(x) <= MaxCandidates
  <2>1. SetToSeq(Hosts) \in Seq(Hosts) /\ MaxCandidates \in Nat
    BY IceAssumption, Bounds, Listed
  <2>2. hs \in Seq(Hosts) /\ Len(hs) <= MaxCandidates /\ Len(hs) \in Nat
    BY <2>1, CutFacts
  <2> HIDE DEF hs
  <2>3. DOMAIN hs = 1 .. Len(hs) /\ \A i \in 1 .. Len(hs) : hs[i] \in Hosts
    BY <2>2
  <2>4. x \in [1 .. Len(hs) -> LocalTypes]
    BY <2>3 DEF LocalTypes
  <2>5. x \in Seq(LocalTypes) /\ Len(x) = Len(hs)
    BY <2>2, <2>4
  <2> QED
    BY <2>2, <2>5
<1> HIDE DEF x
<1>7. /\ DOMAIN a = Fields /\ a.role = agent.role /\ a.locals = x /\ a.remotes = agent.remotes
      /\ a.pairs = <<>> /\ a.nominated = agent.nominated /\ a.txns = agent.txns
      /\ a.resolving = FALSE /\ a.pending = 0 /\ a.state = "Gathering"
      /\ a.armed = agent.armed /\ a.held = agent.held /\ a.aggressive = agent.aggressive
      /\ a.gatheringDone = agent.gatheringDone
  BY <1>1, <1>2, <1>4 DEF Fields
<1> HIDE DEF a
<1>8. Lists(a) /\ Credits(a) /\ Asked(a) = 0
  <2>1. Lists(a)
    BY <1>1, <1>2, <1>6, <1>7 DEF Lists
  <2>2. Credits(a)
    BY <1>1, <1>2, <1>7 DEF Credits
  <2>3. Asked(a) = 0
    BY <1>4, <1>7 DEF Asked, InTable
  <2> QED
    BY <2>1, <2>2, <2>3
<1>9. Tables(a)
  <2>1. a.resolving \in BOOLEAN /\ (IF a.resolving THEN 1 ELSE 0) = 0
    BY <1>7
  <2>2. Asked(a) + (IF a.resolving THEN 1 ELSE 0) + 0 <= a.pending
    BY <1>7, <1>8, <2>1
  <2>3. Owes(a, 0)
    BY <1>7, <2>1, <2>2 DEF Owes
  <2> QED
    BY <1>1, <1>7, <1>8, <2>3 DEF Tables
<1>10. On(a) = On(agent) /\ (Owned(agent) => Owned(a))
  BY <1>7 DEF On, Owned
<1>11. Timed(agent) => Timed(a) /\ On(a) = {} /\ ~a.gatheringDone
  BY <1>2, <1>7, <1>10 DEF Timed, Ready
<1>12. Good(agent, GatherCheckDone(a))
  BY <1>7, <1>9, <1>11, GatherCheckGood DEF Good
<1>13. Good(agent, c)
  <2>1. /\ DOMAIN b = Fields /\ b.role = a.role /\ b.locals = a.locals /\ b.remotes = a.remotes
        /\ b.pairs = a.pairs /\ b.nominated = a.nominated /\ b.txns = a.txns
        /\ b.resolving = TRUE /\ b.pending = 1 /\ SameTimers(a, b)
    BY <1>7 DEF Fields, SameTimers
  <2> HIDE DEF b
  <2>2. Lists(b)
    BY <1>8, <2>1 DEF Lists
  <2>3. Credits(b)
    BY <1>8, <2>1 DEF Credits
  <2>4. Owes(b, 0)
    <3>1. Asked(b) = 0
      BY <1>8, <2>1 DEF Asked, InTable
    <3> QED
      <4>1. b.resolving \in BOOLEAN /\ (IF b.resolving THEN 1 ELSE 0) = 1
        BY <2>1
      <4>2. Asked(b) + (IF b.resolving THEN 1 ELSE 0) + 0 <= b.pending
        BY <2>1, <3>1, <4>1
      <4>3. b.state = "Gathering"
        BY <1>7, <2>1 DEF SameTimers
      <4> QED
        BY <2>1, <4>1, <4>2, <4>3 DEF Owes
  <2>5. Tables(b)
    BY <1>1, <1>7, <2>1, <2>2, <2>3, <2>4 DEF Tables
  <2>6. "gather" \in Timers
    BY DEF Timers
  <2>7. /\ Tables(c) /\ c.state = b.state /\ c.aggressive = b.aggressive
        /\ c.gatheringDone = b.gatheringDone
        /\ Owned(b) /\ "gather" \notin On(b) => Owned(c) /\ On(c) = On(b) \cup {"gather"}
    BY <2>5, <2>6, ArmGood
  <2> HIDE DEF c
  <2>8. ASSUME Timed(agent) PROVE Timed(c)
    <3>1. Owned(b) /\ On(b) = {} /\ ~b.gatheringDone /\ b.state = "Gathering"
      BY <1>7, <1>11, <2>1, <2>8, TimersCarry DEF Timed, SameTimers
    <3>2. Owned(c) /\ On(c) = {"gather"}
      BY <2>7, <3>1
    <3> QED
      BY <2>7, <3>1, <3>2 DEF Timed, Ready
  <2> QED
    BY <2>7, <2>8 DEF Good
<1> QED
  BY <1>3, <1>5, <1>12, <1>13

(* The servers resolved are asked: what is pending covers each request.    *)
LEMMA AskedGrows ==
  ASSUME NEW a, NEW r, Len(r) \in Nat, NEW b,
         \A s \in Slots :
           \/ b.txns[s] = a.txns[s]
           \/ a.txns[s].kind = "free" /\ Place(InTable(a, "free"), s) < Len(r)
  PROVE  Asked(a) \in Nat /\ Asked(b) \in Nat /\ Asked(b) <= Asked(a) + Len(r)
<1> DEFINE free == InTable(a, "free")
           Q    == {s \in free : Place(free, s) < Len(r)}
           T    == 0 .. Len(r) - 1
           f    == [s \in Q |-> Place(free, s)]
<1>1. IsFiniteSet(free) /\ free \subseteq Nat
  BY InTableFacts
<1>2. /\ \A s \in free : Place(free, s) \in Nat
      /\ \A s, t \in free : Place(free, s) = Place(free, t) => s = t
  BY <1>1, PlacesDiffer
<1>3. InTable(b, "ask") \in SUBSET (InTable(a, "ask") \cup Q)
  BY DEF InTable
<1> HIDE DEF free
<1>4. f \in Injection(Q, T)
  <2>1. \A s \in Q : f[s] \in T
    BY <1>2
  <2>2. \A s, t \in Q : f[s] = f[t] => s = t
    BY <1>2
  <2>3. f \in [Q -> T] /\ DOMAIN f = Q
    BY <2>1
  <2> HIDE DEF f, Q, T
  <2> QED
    BY <2>2, <2>3 DEF Injection, IsInjective
<1>5. IsFiniteSet(T) /\ Cardinality(T) = Len(r)
  <2>1. 0 \in Int /\ Len(r) - 1 \in Int
    OBVIOUS
  <2>2. IsFiniteSet(T) /\ Cardinality(T) = IF 0 > Len(r) - 1 THEN 0 ELSE Len(r) - 1 - 0 + 1
    BY <2>1, FS_Interval
  <2> QED
    BY <2>2
<1> HIDE DEF f, Q, T
<1>6. IsFiniteSet(Q) /\ Cardinality(Q) <= Len(r)
  BY <1>4, <1>5, FS_Injection
<1> DEFINE A == InTable(a, "ask")
           B == InTable(b, "ask")
<1>7. IsFiniteSet(A) /\ Cardinality(A) \in Nat /\ Cardinality(B) \in Nat
  BY InTableFacts
<1> HIDE DEF A, B
<1>8. IsFiniteSet(A \cup Q) /\ Cardinality(A \cup Q) = Cardinality(A) + Cardinality(Q) - Cardinality(A \cap Q)
  BY <1>6, <1>7, FS_Union
<1>9. Cardinality(A \cap Q) \in Nat /\ Cardinality(Q) \in Nat /\ Cardinality(A \cup Q) \in Nat
  <2>1. IsFiniteSet(A \cap Q)
    BY <1>7, FS_Intersection
  <2> QED
    BY <1>6, <1>8, <2>1, FS_CardinalityType
<1>10. Cardinality(B) <= Cardinality(A \cup Q)
  BY <1>3, <1>8, FS_Subset DEF A, B
<1>11. Cardinality(B) <= Cardinality(A) + Len(r)
  BY <1>6, <1>7, <1>8, <1>9, <1>10
<1> QED
  BY <1>7, <1>11 DEF Asked, A, B

(* Resolved servers are asked, one more pending for each. *)
LEMMA ResolvedStep ==
  ASSUME PhaseInv(agent), Tables(agent), NEW ok \in SUBSET Servers, Resolved(ok)
  PROVE  Good(agent, agent')
<1> DEFINE qs == SetToSeq(Hosts \X ok)
           r  == [i \in DOMAIN qs |-> Ask(qs[i][1], qs[i][2])]
           a  == Enter(agent, r)
           b  == [a EXCEPT !.resolving = FALSE, !.pending = @ - 1 + Len(qs),
                           !.expected = [h \in Hosts |-> Cardinality(ok)]]
<1>1. /\ DOMAIN agent = Fields /\ Lists(agent) /\ Credits(agent) /\ Owes(agent, 0)
      /\ agent.role \in {"Controlling", "Controlled"}
  BY DEF Tables
<1>2. agent.resolving /\ agent' = GatherCheckDone(b)
  BY DEF Resolved
<1>3. qs \in Seq(Hosts \X ok) /\ Len(qs) \in Nat
  <2>1. IsFiniteSet(Hosts) /\ IsFiniteSet(Servers)
    BY IceAssumption
  <2>2. IsFiniteSet(ok)
    BY <2>1, FS_Subset
  <2>3. IsFiniteSet(Hosts \X ok)
    BY <2>1, <2>2, FS_Product
  <2> QED
    BY <2>3, Listed
<1>4. /\ Len(r) = Len(qs)
      /\ \A i \in 1 .. Len(r) : r[i] \in Asks /\ r[i].kind = "ask"
  <2> HIDE DEF qs
  <2>1. DOMAIN qs = 1 .. Len(qs) /\ \A i \in 1 .. Len(qs) : qs[i] \in Hosts \X ok
    BY <1>3
  <2>2. \A i \in 1 .. Len(qs) : r[i] \in Asks /\ r[i].kind = "ask"
    BY <2>1 DEF Ask, Asks
  <2>3. Len(r) = Len(qs)
    BY <1>3, <2>1
  <2> QED
    BY <2>2, <2>3
<1> HIDE DEF qs, r
<1>5. /\ DOMAIN a = Fields /\ a.role = agent.role /\ a.locals = agent.locals
      /\ a.remotes = agent.remotes /\ a.pairs = agent.pairs /\ a.nominated = agent.nominated
      /\ a.resolving = agent.resolving /\ a.pending = agent.pending
      /\ a.txns = [s \in Slots |-> a.txns[s]]
      /\ \A s \in Slots :
           \/ a.txns[s] = agent.txns[s]
           \/ /\ agent.txns[s].kind = "free" /\ Place(InTable(agent, "free"), s) < Len(r)
              /\ \E i \in 1 .. Len(r) : a.txns[s] = r[i]
  BY <1>1, <1>3, <1>4, EnterFacts
<1>6. SameTimers(agent, a)
  BY <1>1, EnterTimers
<1> HIDE DEF a
<1>7. /\ DOMAIN b = Fields /\ b.role = a.role /\ b.locals = a.locals
      /\ b.remotes = a.remotes /\ b.pairs = a.pairs /\ b.nominated = a.nominated
      /\ b.resolving = FALSE /\ b.pending = a.pending - 1 + Len(qs) /\ b.txns = a.txns
      /\ SameTimers(a, b)
  BY <1>5 DEF Fields, SameTimers
<1> HIDE DEF b
<1>8. Lists(b)
  BY <1>1, <1>5, <1>7 DEF Lists
<1>9. Credits(b)
  <2>1. \A s \in Slots : a.txns[s] \in {Free, Dead} \cup Asks \cup ChecksOf(Len(a.pairs))
    BY <1>1, <1>4, <1>5 DEF Credits
  <2>2. b.txns \in [Slots -> {Free, Dead} \cup Asks \cup ChecksOf(Len(b.pairs))]
    BY <1>5, <1>7, <2>1
  <2>3. \A s \in Slots : a.txns[s].kind = "check" => a.txns[s] = agent.txns[s]
    BY <1>4, <1>5
  <2>4. ASSUME NEW s \in Slots, b.txns[s].kind = "check"
        PROVE  b.pairs[b.txns[s].at].l = b.txns[s].l /\ b.pairs[b.txns[s].at].r = b.txns[s].r
    BY <1>1, <1>5, <1>7, <2>3, <2>4 DEF Credits
  <2> QED
    BY <2>2, <2>4 DEF Credits
<1>10. Owes(b, 0)
  <2>1. Asked(agent) \in Nat /\ Asked(a) \in Nat /\ Asked(a) <= Asked(agent) + Len(r)
    BY <1>3, <1>4, <1>5, AskedGrows
  <2>2. Asked(b) = Asked(a)
    BY <1>7 DEF Asked, InTable
  <2>3. /\ agent.pending \in Nat /\ Asked(agent) + 1 <= agent.pending
        /\ agent.state # "New"
    BY <1>1, <1>2, <2>1 DEF Owes
  <2> QED
    <3>1. b.resolving \in BOOLEAN /\ (IF b.resolving THEN 1 ELSE 0) = 0
      BY <1>7
    <3>2. b.pending = agent.pending - 1 + Len(r) /\ Len(r) \in Nat
      BY <1>3, <1>4, <1>5, <1>7
    <3>3. b.pending \in Nat /\ Asked(b) + 0 + 0 <= b.pending
      BY <2>1, <2>2, <2>3, <3>2
    <3>4. b.state # "New"
      BY <1>6, <1>7, <2>3 DEF SameTimers
    <3> QED
      BY <3>1, <3>3, <3>4 DEF Owes
<1>11. Tables(b)
  BY <1>1, <1>5, <1>7, <1>8, <1>9, <1>10 DEF Tables
<1>12. SameTimers(agent, b) /\ b.nominated = agent.nominated /\ b.pairs = agent.pairs
  BY <1>5, <1>6, <1>7 DEF SameTimers
<1>13. Good(agent, b)
  BY <1>11, <1>12, ReadyCarry DEF Good
<1>14. b.state = "Gathering" => b.pairs = <<>>
  BY <1>12 DEF PhaseInv, SameTimers
<1> QED
  BY <1>2, <1>11, <1>13, <1>14, GatherCheckGood, GoodTrans

(* The remote description, set once: with gathering over, checks begin. *)
LEMMA DescriptionStep ==
  ASSUME ~Renegotiate, PhaseInv(agent), Tables(agent), NEW cs \in Descriptions,
         SetRemoteDescription(cs)
  PROVE  Good(agent, agent')
<1> DEFINE r == [agent EXCEPT !.remoteSet = TRUE]
           a == Learn(r, cs)
<1>1. ~agent.remoteSet /\ cs \in SUBSET Signalled
  BY DEF SetRemoteDescription, Descriptions
<1>2. DOMAIN agent = Fields
  BY DEF Tables
<1>3. SameTables(agent, r) /\ SameTimers(agent, r)
  BY <1>2 DEF SameTables, SameTimers, Fields
<1>4. agent' = IF a.gatheringDone /\ a.state # "Checking" THEN Restart(a) ELSE a
  BY DEF SetRemoteDescription
<1> HIDE DEF r
<1>5. Tables(r) /\ r.pairs = agent.pairs /\ r.nominated = agent.nominated
  BY <1>3, TablesCarry DEF SameTables
<1>6. Tables(a) /\ SameTimers(r, a) /\ a.pairs = r.pairs /\ a.nominated = r.nominated
  BY <1>1, <1>5, LearnKeep
<1> HIDE DEF a
<1>7. Good(agent, a)
  BY <1>3, <1>5, <1>6, ReadyCarry DEF Good
<1>8. ASSUME a.gatheringDone PROVE Good(agent, Restart(a))
  <2>1. a.state = "Gathering" /\ a.pairs = <<>>
    BY <1>1, <1>3, <1>5, <1>6, <1>8 DEF PhaseInv, SameTimers
  <2>2. Idle(a)
    BY <1>6, <2>1, NoPairsIdle
  <2>3. Timed(a) => On(a) = {}
    BY <1>8, <2>1 DEF Timed, Ready
  <2> QED
    BY <1>6, <1>7, <2>1, <2>2, <2>3, RestartGood DEF Good
<1> QED
  BY <1>4, <1>7, <1>8

(* A late candidate is checked at once; after a failure whose checks have   *)
(* run out, it starts over.                                                 *)
LEMMA AddStep ==
  ASSUME Patient, Tables(agent), NEW c \in Signalled, AddRemoteCandidate(c)
  PROVE  Good(agent, agent')
<1> DEFINE a == Learn(agent, {c})
           n == Len(a.remotes)
           b == AppendPairs(a, n)
           S == Len(a.pairs) + 1 .. Len(b.pairs)
           r == [a EXCEPT !.nominated = 0]
<1>1. /\ Len(agent.remotes) < MaxCandidates /\ Unknown(agent, {c}) # {}
      /\ agent.state = "Failed" => Quiet(agent)
  BY DEF AddRemoteCandidate
<1>2. \/ a.state = "Checking" /\ agent' = SendChecks(b, S)
      \/ a.state = "Failed" /\ a.gatheringDone /\ agent' = Restart(r)
      \/ agent' = a
  BY DEF AddRemoteCandidate
<1>3. /\ Tables(a) /\ SameTimers(agent, a) /\ a.pairs = agent.pairs
      /\ a.nominated = agent.nominated /\ a.txns = agent.txns /\ n \in 1 .. n
  <2>1. {c} \in SUBSET Signalled
    OBVIOUS
  <2> QED
    BY <1>1, <2>1, LearnKeep
<1> HIDE DEF a
<1>4. Good(agent, a)
  BY <1>3, ReadyCarry DEF Good
<1>5. Good(agent, SendChecks(b, S))
  <2>1. /\ Tables(b) /\ SameTimers(a, b) /\ b.nominated = a.nominated
        /\ Len(b.pairs) \in Nat
    BY <1>3, AppendKeep
  <2>2. Len(a.pairs) \in Nat
    BY <1>3 DEF Tables, Lists
  <2>3. S \subseteq 1 .. Len(b.pairs)
    BY <2>1, <2>2
  <2> HIDE DEF b, S
  <2>4. LET d == SendChecks(b, S) IN Tables(d) /\ SameTimers(b, d) /\ d.nominated = b.nominated
    BY <2>1, <2>3, ChecksKeep
  <2> QED
    BY <1>4, <2>1, <2>4, ReadyCarry DEF Good
<1>6. ASSUME a.state = "Failed" PROVE Good(agent, Restart(r))
  <2>1. Quiet(agent)
    BY <1>1, <1>3, <1>6 DEF SameTimers
  <2>2. /\ DOMAIN r = Fields /\ r.role = a.role /\ r.locals = a.locals /\ r.remotes = a.remotes
        /\ r.pairs = a.pairs /\ r.nominated = 0 /\ r.txns = a.txns
        /\ r.resolving = a.resolving /\ r.pending = a.pending /\ SameTimers(a, r)
    <3>1. DOMAIN a = Fields
      BY <1>3 DEF Tables
    <3> QED
      BY <3>1 DEF Fields, SameTimers
  <2> HIDE DEF r
  <2>3. Lists(r)
    BY <1>3, <2>2 DEF Tables, Lists
  <2>4. Credits(r)
    BY <1>3, <2>2 DEF Tables, Credits
  <2>5. Owes(r, 0)
    BY <1>3, <2>2 DEF Tables, Owes, Asked, InTable, SameTimers
  <2>6. Tables(r)
    BY <1>3, <2>2, <2>3, <2>4, <2>5 DEF Tables
  <2>7. Idle(r) /\ r.state = "Failed"
    BY <1>3, <1>6, <2>1, <2>2 DEF Idle, Quiet, InTable, SameTimers
  <2>8. On(r) = On(agent) /\ (Owned(agent) => Owned(r))
    BY <1>3, <2>2, TimersCarry DEF SameTimers
  <2>9. Timed(agent) => On(agent) = {}
    <3>1. \A k \in Timers : agent.armed[k] = 0
      BY <2>1 DEF Quiet
    <3>2. Owned(agent) => \A k \in On(agent) : k \in Timers /\ agent.armed[k] = 1
      BY DEF Owned, On
    <3> QED
      BY <3>1, <3>2 DEF Timed
  <2>10. Timed(agent) => Timed(r)
    BY <2>7, <2>8, <2>9 DEF Timed, Ready
  <2> QED
    BY <2>6, <2>7, <2>8, <2>9, <2>10, RestartGood DEF Good
<1> QED
  BY <1>2, <1>4, <1>5, <1>6

(* A new agent, or what is left of a destroyed one. *)
LEMMA FreshAgent ==
  ASSUME NEW role \in {"Controlling", "Controlled"}, NEW b, DOMAIN b = Fields, b.role = role,
         b.locals = <<>>, b.remotes = <<>>, b.pairs = <<>>, b.nominated = 0,
         b.txns = [s \in Slots |-> Free], b.resolving = FALSE, b.pending = 0,
         b.held = [k \in Timers |-> FALSE]
  PROVE  Tables(b) /\ On(b) = {}
<1>1. MaxCandidates \in Nat /\ MaxPairs \in Nat
  BY Bounds
<1>2. Lists(b)
  BY <1>1 DEF Lists
<1>3. Credits(b)
  BY DEF Credits, Free
<1>4. Asked(b) = 0
  <2>1. InTable(b, "ask") = {}
    BY DEF InTable, Free
  <2> QED
    BY <2>1, FS_EmptySet DEF Asked
<1>5. Owes(b, 0)
  <2>1. b.resolving \in BOOLEAN /\ (IF b.resolving THEN 1 ELSE 0) = 0
    OBVIOUS
  <2> QED
    BY <1>4, <2>1 DEF Owes
<1>6. On(b) = {}
  BY DEF On
<1> QED
  BY <1>2, <1>3, <1>5, <1>6 DEF Tables

(* A destroyed agent has empty tables; its timers are all stopped when it   *)
(* was neither gathering nor checking.                                      *)
LEMMA DestroyStep ==
  ASSUME Tables(agent), DestroyAgent
  PROVE  Tables(agent') /\ (Careful /\ Timed(agent) => Timed(agent'))
<1>1. PICK left : /\ agent' = [InitAgent(agent.role) EXCEPT !.state = "Closed", !.armed = left.armed]
                  /\ Careful => left = Cancelled(agent)
  BY DEF DestroyAgent
<1>2. /\ DOMAIN agent' = Fields /\ agent'.role = agent.role
      /\ agent'.locals = <<>> /\ agent'.remotes = <<>> /\ agent'.pairs = <<>>
      /\ agent'.nominated = 0 /\ agent'.txns = [s \in Slots |-> Free]
      /\ agent'.resolving = FALSE /\ agent'.pending = 0
      /\ agent'.held = [k \in Timers |-> FALSE] /\ agent'.armed = left.armed
      /\ agent'.state = "Closed" /\ agent'.gatheringDone = FALSE
  BY <1>1 DEF InitAgent, Fields
<1>3. Tables(agent') /\ On(agent') = {}
  BY <1>2, FreshAgent DEF Tables
<1>4. ASSUME Careful, Timed(agent) PROVE Timed(agent')
  <2>1. left.armed = [k \in Timers |-> IF agent.held[k] THEN agent.armed[k] - 1 ELSE agent.armed[k]]
    BY <1>1, <1>4 DEF Cancelled, Tables, Fields
  <2>2. left.armed = [k \in Timers |-> 0]
    BY <1>4, <2>1 DEF Timed, Owned, On
  <2>3. Owned(agent')
    BY <1>2, <1>3, <2>2 DEF Owned
  <2>4. Ready(agent')
    BY <1>2, <1>3 DEF Ready
  <2> QED
    BY <2>3, <2>4 DEF Timed
<1> QED
  BY <1>3, <1>4

(* Each step keeps the tables; and the timers, of an agent that is not      *)
(* destroyed amid its gathering or checks.                                  *)
LEMMA StepTables ==
  ASSUME ~Renegotiate, Patient, PhaseInv(agent), Tables(agent), [IceNext]_agent
  PROVE  Tables(agent') /\ (Careful /\ Timed(agent) => Timed(agent'))
<1>1. CASE UNCHANGED agent
  BY <1>1
<1>2. CASE Called
  <2>1. CASE Gather
    BY <2>1, GatherStep DEF Good
  <2>2. CASE \E cs \in Descriptions : SetRemoteDescription(cs)
    BY <2>2, DescriptionStep DEF Good
  <2>3. CASE \E c \in Signalled : AddRemoteCandidate(c)
    BY <2>3, AddStep DEF Good
  <2>4. CASE DestroyAgent
    BY <2>4, DestroyStep
  <2> QED
    BY <1>2, <2>1, <2>2, <2>3, <2>4 DEF Called
<1>3. CASE Heard
  <2>1. CASE \E ok \in SUBSET Servers : Resolved(ok)
    BY <2>1, ResolvedStep DEF Good
  <2>2. CASE \E s \in Slots, ok \in BOOLEAN : SrflxAnswer(s, ok)
    BY <2>2, SrflxStep DEF Good
  <2>3. CASE \E s \in Slots : Succeeds(s) \/ Refused(s) \/ Conflict(s)
    BY <2>3, AnswerStep, ConflictStep DEF Good
  <2>4. CASE \E h \in Hosts, use \in BOOLEAN :
               \E from \in Addresses \cup {r.addr : r \in ToSet(agent.remotes)} : Request(h, from, use)
    BY <2>4, RequestStep DEF Good
  <2> QED
    BY <1>3, <2>1, <2>2, <2>3, <2>4 DEF Heard
<1>4. CASE Elapsed
  <2>1. CASE GatherTimeout
    BY <2>1, GatherTimeoutStep DEF Good
  <2>2. CASE Pace \/ CheckTimeout \/ Burst \/ Consent
    BY <2>2, PaceStep, CheckTimeoutStep, BurstStep, ConsentStep DEF Good
  <2>3. CASE \E s \in Slots : SrflxTimeout(s) \/ TxnTimeout(s)
    BY <2>3, SrflxStep, AnswerStep DEF Good
  <2> QED
    BY <1>4, <2>1, <2>2, <2>3 DEF Elapsed
<1> QED
  BY <1>1, <1>2, <1>3, <1>4 DEF IceNext

(* The agent starts with nothing in its tables and no timer. *)
LEMMA InitTables == IceInit => PhaseInv(agent) /\ Tables(agent) /\ Timed(agent)
<1> SUFFICES ASSUME IceInit PROVE PhaseInv(agent) /\ Tables(agent) /\ Timed(agent)
  OBVIOUS
<1>1. PICK role \in {"Controlling", "Controlled"} : agent = InitAgent(role)
  BY DEF IceInit
<1>2. /\ DOMAIN agent = Fields /\ agent.role = role
      /\ agent.locals = <<>> /\ agent.remotes = <<>> /\ agent.pairs = <<>>
      /\ agent.nominated = 0 /\ agent.txns = [s \in Slots |-> Free]
      /\ agent.resolving = FALSE /\ agent.pending = 0
      /\ agent.held = [k \in Timers |-> FALSE] /\ agent.armed = [k \in Timers |-> 0]
      /\ agent.state = "New" /\ agent.gatheringDone = FALSE /\ agent.remoteSet = FALSE
  BY <1>1 DEF InitAgent, Fields
<1>3. Tables(agent) /\ On(agent) = {}
  BY <1>2, FreshAgent
<1>4. Owned(agent)
  BY <1>2, <1>3 DEF Owned
<1>5. Ready(agent)
  BY <1>2, <1>3 DEF Ready
<1>6. PhaseInv(agent)
  BY <1>2 DEF PhaseInv, States
<1> QED
  BY <1>3, <1>4, <1>5, <1>6 DEF Timed

(* The answer of each check is credited to the pair it was sent on, when    *)
(* the description is set once and a late candidate waits for the failed    *)
(* checks to run out.                                                       *)
THEOREM ChecksCredited ==
  ASSUME ~Renegotiate, Patient
  PROVE  IceSpec => []AnswersCreditTheirPair
<1>1. IceInit => PhaseInv(agent) /\ Tables(agent)
  BY InitTables
<1>2. PhaseInv(agent) /\ Tables(agent) /\ [IceNext]_agent => PhaseInv(agent)' /\ Tables(agent)'
  BY StepPhase, StepTables
<1>3. Tables(agent) => AnswersCreditTheirPair
  BY DEF Tables, Credits, AnswersCreditTheirPair, InTable
<1> QED
  BY <1>1, <1>2, <1>3, PTL DEF IceSpec

(* What the tables and timers say is what AgentInv asks. *)
LEMMA InvFollows ==
  ASSUME PhaseInv(agent), Tables(agent), Timed(agent)
  PROVE  AgentInv
<1>1. /\ agent.locals \in Seq(LocalTypes) /\ agent.remotes \in Seq(RemoteTypes)
      /\ agent.pairs \in Seq(PairTypes) /\ Lists(agent) /\ Credits(agent) /\ Owes(agent, 0)
      /\ agent.role \in {"Controlling", "Controlled"}
  BY DEF Tables, Lists
<1>2. /\ DOMAIN agent.locals = 1 .. Len(agent.locals) /\ DOMAIN agent.remotes = 1 .. Len(agent.remotes)
      /\ DOMAIN agent.pairs = 1 .. Len(agent.pairs)
      /\ \A l \in 1 .. Len(agent.locals) : agent.locals[l] \in LocalTypes
  BY <1>1
<1>3. \A s \in InTable(agent, "check") : agent.txns[s].at \in 1 .. Len(agent.pairs)
  BY <1>1 DEF Credits, InTable, ChecksOf, Asks, Free, Dead
<1>4. IceTypeOK
  BY <1>1, <1>2, <1>3 DEF IceTypeOK, Lists, Owes, PhaseInv, States
<1>5. \A k \in Timers : agent.armed[k] = IF agent.held[k] THEN 1 ELSE 0
  BY DEF Timed, Owned, On
<1>6. agent.state = "Closed" => \A k \in Timers : agent.armed[k] = 0
  BY DEF Timed, Owned, Ready
<1> QED
  BY <1>4, <1>5, <1>6 DEF AgentInv, TimersOwned

(* The tables stay within their bounds and the loop has one timer for each  *)
(* handle of the agent, none once it is destroyed outside gathering and     *)
(* checks.                                                                  *)
THEOREM AgentHolds ==
  ASSUME ~Renegotiate, Patient, Careful
  PROVE  IceSpec => []AgentInv
<1>1. IceInit => PhaseInv(agent) /\ Tables(agent) /\ Timed(agent)
  BY InitTables
<1>2. PhaseInv(agent) /\ Tables(agent) /\ Timed(agent) /\ [IceNext]_agent
        => PhaseInv(agent)' /\ Tables(agent)' /\ Timed(agent)'
  BY StepPhase, StepTables
<1>3. PhaseInv(agent) /\ Tables(agent) /\ Timed(agent) => AgentInv
  BY InvFollows
<1> QED
  BY <1>1, <1>2, <1>3, PTL DEF IceSpec

===============================================================================
