--------------------------- MODULE PeerConnection ---------------------------
(***************************************************************************)
(* Two peer connections of libx/x/p2p, from the offer to open channels:    *)
(* peer_connection.c drives the ICE agent, DTLS (dtls_transport.c), SCTP   *)
(* (sctp_transport.c) and the data channels (datachannel.c), each layer    *)
(* started by the callback of the one below.                               *)
(*                                                                         *)
(* Of ICE only the order of its reports is known (IcePhases, which         *)
(* IceAgent implements); the handshakes of OpenSSL and usrsctp succeed or  *)
(* not.  An association carries each stream reliably and in order, which   *)
(* is what DCEP and the ordered channels use.                              *)
(***************************************************************************)
EXTENDS Naturals, Sequences

CONSTANTS
  Creators,     \* the peers whose application creates channels
  MaxChannels,  \* XDC_MAX_CHANNELS
  MaxCreates,   \* bound: channels one peer creates
  MaxWire       \* bound: messages in flight on a stream, before data is sent

VARIABLES
  peer,    \* the fields of xPeerConnection_ and of the layers it owns
  wire,    \* wire[p][sid]: what SCTP carries to p on a stream
  routed   \* the channel a message was sent on, and the one that got it

vars == <<peer, wire, routed>>

Peers    == {"offerer", "answerer"}
Other(p) == CHOOSE q \in Peers : q # p
Sids     == {2 * n : n \in 0..MaxCreates - 1}

ASSUME PeerAssumption ==
  /\ Creators \subseteq Peers
  /\ {MaxChannels, MaxCreates, MaxWire} \subseteq Nat \ {0}

Phases(p) == INSTANCE IcePhases WITH ice <- peer[p].ice

Fresh == [ice |-> "New", dtls |-> "none", role |-> "none", sctp |-> "none",
          pc |-> "New", remote |-> FALSE, pending |-> 0, next |-> 0, chans |-> <<>>]

Init ==
  /\ peer = [p \in Peers |-> Fresh]
  /\ wire = [p \in Peers |-> [s \in Sids |-> <<>>]]
  /\ routed = {}

-------------------------------------------------------------------------------
(* Mutant: a nominated pair is taken for a connection. *)
OnIceEager(x, s) ==
  LET y == [x EXCEPT !.ice = s]
  IN  CASE s = "Checking" -> [y EXCEPT !.pc = "Connecting"]
        [] s = "Connected" /\ x.dtls = "New" -> [y EXCEPT !.dtls = "Connecting", !.pc = "Connected"]
        [] s = "Failed" -> [y EXCEPT !.pc = "Failed"]
        [] OTHER -> y

(* on_ice_state_change, called by the agent: the handshake starts once. *)
OnIce(x, s) ==
  LET y == [x EXCEPT !.ice = s]
  IN  CASE s = "Checking" -> [y EXCEPT !.pc = "Connecting"]
        [] s = "Connected" /\ x.dtls = "New" -> [y EXCEPT !.dtls = "Connecting"]
        [] s = "Failed" -> [y EXCEPT !.pc = "Failed"]
        [] OTHER -> y

(* What the agent may report: it checks once both descriptions are there,   *)
(* and connects once the peer knows its credentials.                        *)
Reports(p) ==
  {s \in Phases(p)!Follows[peer[p].ice] :
     CASE s = "Gathering" -> FALSE
       [] s = "Connected" -> peer[p].remote /\ peer[Other(p)].remote
       [] OTHER -> peer[p].remote}

IceReports(p) ==
  /\ peer[p].ice # "New"
  /\ \E s \in Reports(p) : peer' = [peer EXCEPT ![p] = OnIce(@, s)]
  /\ UNCHANGED <<wire, routed>>

(* CreateOffer and CreateAnswer: gathering, which may fail or, with the     *)
(* remote description, check at once; then the DTLS transport, passive in   *)
(* both: an offer says actpass and its answerer takes the passive role.     *)
Describe(p) ==
  /\ peer[p].ice = "New"
  /\ p = "answerer" => peer[p].remote
  /\ \E s \in {"Gathering", "Failed"} \cup (IF peer[p].remote THEN {"Checking"} ELSE {}) :
       peer' = [peer EXCEPT ![p] = [OnIce(@, s) EXCEPT !.dtls = "New", !.role = "passive"]]
  /\ UNCHANGED <<wire, routed>>

(* SetRemoteDescription: the offerer takes the role the answer leaves it,   *)
(* unless the handshake has started; then the agent may start its checks.   *)
SetRemote(p) ==
  /\ ~peer[p].remote /\ peer[p].ice # "Closed"
  /\ peer[Other(p)].dtls # "none"
  /\ p = "offerer" => peer[p].dtls # "none"
  /\ LET x == [peer[p] EXCEPT !.remote = TRUE,
                 !.role = IF p = "offerer" /\ peer[p].dtls = "New" THEN "active" ELSE @]
         now == {s \in {"Checking", "Failed"} : x.ice # "New" /\ s \in Phases(p)!Follows[x.ice]}
     IN  peer' \in {[peer EXCEPT ![p] = y] : y \in {x} \cup {OnIce(x, s) : s \in now}}
  /\ UNCHANGED <<wire, routed>>

-------------------------------------------------------------------------------
(* drive_handshake ends: the association is created and started.  A start   *)
(* that fails is not looked at and arms no timer: stuck.                    *)
DtlsDone(p) ==
  /\ peer[p].dtls = "Connecting"
  /\ peer[Other(p)].dtls \in {"Connecting", "Connected"}
  /\ peer[p].role # peer[Other(p)].role
  /\ \E s \in {"connecting", "stuck", "none"} :
       peer' = [peer EXCEPT ![p] = [@ EXCEPT !.dtls = "Connected", !.sctp = s,
                                             !.pc = IF s = "none" THEN "Failed" ELSE peer[p].pc]]
  /\ UNCHANGED <<wire, routed>>

(* The handshake fails, or handshake_timeout_cb ends it. *)
HandshakeFails(p) ==
  /\ peer[p].dtls = "Connecting"
  /\ peer' = [peer EXCEPT ![p] = [@ EXCEPT !.dtls = "Failed", !.pc = "Failed"]]
  /\ UNCHANGED <<wire, routed>>

-------------------------------------------------------------------------------
(* Data channels *)
(* Mutant: streams are taken for positions in the table. *)
FirstByPosition(x, sid) == {sid \div 2 + 1} \cap DOMAIN x.chans

(* find_channel *)
First(x, sid) == {i \in DOMAIN x.chans : /\ x.chans[i].sid = sid
                                         /\ \A j \in 1..i - 1 : x.chans[j].sid # sid}

Full(x)     == Len(x.chans) >= MaxChannels
HasMgr(x)   == x.sctp \in {"up", "lost"}
Channel(sid, id, st) == [sid |-> sid, id |-> id, st |-> st]

(* Mutant: an OPEN is acknowledged on the first stream. *)
PostAckFirst(w, p, sid, kind, id) ==
  [w EXCEPT ![p][IF kind = "ack" THEN 0 ELSE sid] = Append(@, [kind |-> kind, id |-> id])]

(* A message to p on a stream. *)
Post(w, p, sid, kind, id) == [w EXCEPT ![p][sid] = Append(@, [kind |-> kind, id |-> id])]

(* xDataChannelCreate: the stream is used up whether or not the table has   *)
(* room and the OPEN can be sent.                                           *)
Create(x, p) ==
  LET y == [x EXCEPT !.next = @ + 2]
  IN  IF Full(x) \/ x.sctp # "up" THEN y
      ELSE [y EXCEPT !.chans = Append(@, Channel(x.next, [by |-> p, sid |-> x.next], "Connecting"))]

Opens(x, y, p) == {c.sid : c \in {y.chans[i] : i \in Len(x.chans) + 1 .. Len(y.chans)}}

PostOpens(w, p, sids) ==
  [w EXCEPT ![Other(p)] = [s \in Sids |->
     IF s \in sids THEN Append(@[s], [kind |-> "open", id |-> [by |-> p, sid |-> s]]) ELSE @[s]]]

(* xPeerConnectionCreateDataChannel: queued until SCTP is up. *)
CreateChannel(p) ==
  /\ p \in Creators /\ peer[p].ice # "Closed"
  /\ peer[p].next + 2 * peer[p].pending < 2 * MaxCreates
  /\ IF HasMgr(peer[p])
     THEN LET x == Create(peer[p], p)
          IN  /\ peer' = [peer EXCEPT ![p] = x]
              /\ wire' = PostOpens(wire, p, Opens(peer[p], x, p))
     ELSE /\ peer[p].pending < MaxChannels
          /\ peer' = [peer EXCEPT ![p].pending = @ + 1]
          /\ UNCHANGED wire
  /\ UNCHANGED routed

(* COMM_UP: the manager, the channels that waited (as many as its table     *)
(* holds, at most), then Connected.  It may come after the association      *)
(* timed out.                                                               *)
SctpUp(p) ==
  /\ peer[p].sctp \in {"connecting", "late"}
  /\ peer[Other(p)].sctp \in {"connecting", "late", "up"}
  /\ LET x == peer[p]
         Sid(k) == x.next + 2 * (k - 1)
         opened == [k \in 1..x.pending |->
                      Channel(Sid(k), [by |-> p, sid |-> Sid(k)], "Connecting")]
         y == [x EXCEPT !.sctp = "up", !.pc = "Connected", !.pending = 0,
                        !.next = @ + 2 * x.pending, !.chans = @ \o opened]
     IN  /\ peer' = [peer EXCEPT ![p] = y]
         /\ wire' = PostOpens(wire, p, {opened[k].sid : k \in DOMAIN opened})
  /\ UNCHANGED routed

(* assoc_timeout_cb and COMM_LOST report false: pc_sctp_state_changed does  *)
(* nothing about it.                                                        *)
AssocTimeout(p) ==
  /\ peer[p].sctp = "connecting"
  /\ peer' = [peer EXCEPT ![p].sctp = "late"]
  /\ UNCHANGED <<wire, routed>>

SctpLost(p) ==
  /\ peer[p].sctp = "up"
  /\ peer' = [peer EXCEPT ![p].sctp = "lost"]
  /\ UNCHANGED <<wire, routed>>

-------------------------------------------------------------------------------
(* xDataChannelSendBinary *)
Send(p, i) ==
  /\ peer[p].chans[i].st = "Open" /\ peer[p].sctp = "up"
  /\ LET c == peer[p].chans[i]
     IN  /\ Len(wire[Other(p)][c.sid]) < MaxWire
         /\ wire' = Post(wire, Other(p), c.sid, "data", c.id)
  /\ UNCHANGED <<peer, routed>>

(* xDataChannelClose resets the outgoing stream, if it still can. *)
CloseChannel(p, i) ==
  /\ peer[p].chans[i].st \in {"Connecting", "Open"}
  /\ LET c == peer[p].chans[i]
     IN  /\ peer' = [peer EXCEPT ![p].chans[i].st = "Closing"]
         /\ wire' = IF peer[p].sctp = "up" THEN Post(wire, Other(p), c.sid, "reset", c.id) ELSE wire
  /\ UNCHANGED routed

(* xDataChannelMgrOnData and xDataChannelMgrOnStreamClose: a channel is     *)
(* looked up by its stream.  The stack confirms a reset to its sender.      *)
Deliver(p, sid) ==
  /\ peer[p].sctp = "up" /\ wire[p][sid] # <<>>
  /\ LET m    == Head(wire[p][sid])
         w    == [wire EXCEPT ![p][sid] = Tail(@)]
         x    == peer[p]
         at   == First(x, sid)
         Set(from, st) == [peer EXCEPT ![p].chans = [i \in DOMAIN x.chans |->
                             IF i \in at /\ x.chans[i].st \in from
                             THEN [x.chans[i] EXCEPT !.st = st] ELSE x.chans[i]]]
         All  == {"Connecting", "Open", "Closing", "Closed"}
     IN  \/ /\ m.kind = "open"
            /\ peer' = IF Full(x) THEN peer
                       ELSE [peer EXCEPT ![p].chans = Append(@, Channel(sid, m.id, "Open"))]
            /\ wire' = IF Full(x) THEN w ELSE Post(w, Other(p), sid, "ack", m.id)
            /\ UNCHANGED routed
         \/ /\ m.kind = "ack"
            /\ peer' = Set({"Connecting"}, "Open")
            /\ wire' = w /\ UNCHANGED routed
         \/ /\ m.kind = "data"
            /\ routed' = routed \cup {[sent |-> m.id, got |-> x.chans[i].id] :
                                        i \in {j \in at : x.chans[j].st = "Open"}}
            /\ wire' = w /\ UNCHANGED peer
         \/ /\ m.kind = "reset"
            /\ peer' = Set(All, "Closed")
            /\ wire' = Post(w, Other(p), sid, "done", m.id)
            /\ UNCHANGED routed
         \/ /\ m.kind = "done"
            /\ peer' = Set(All, "Closed")
            /\ wire' = w /\ UNCHANGED routed

(* xPeerConnectionDestroy, from the channels down. *)
Destroy(p) ==
  /\ peer[p].ice # "Closed"
  /\ peer' = [peer EXCEPT ![p] = [Fresh EXCEPT !.ice = "Closed", !.dtls = "Closed",
                                               !.pc = "Closed", !.next = peer[p].next]]
  /\ wire' = [wire EXCEPT ![p] = [s \in Sids |-> <<>>]]
  /\ UNCHANGED routed

-------------------------------------------------------------------------------
Connects(p) ==
  \/ Describe(p) \/ SetRemote(p) \/ IceReports(p)
  \/ DtlsDone(p) \/ HandshakeFails(p)
  \/ SctpUp(p) \/ AssocTimeout(p) \/ SctpLost(p)
  \/ Destroy(p)

Channels(p) ==
  \/ CreateChannel(p)
  \/ \E i \in DOMAIN peer[p].chans : Send(p, i) \/ CloseChannel(p, i)
  \/ \E sid \in Sids : Deliver(p, sid)

Next == \E p \in Peers : Connects(p) \/ Channels(p)

(* Checking ends (IceAgent: PhasesEnd), an armed timer of the loop fires,   *)
(* and an association delivers what it carries.                             *)
ChecksEnd(p) == peer[p].ice = "Checking" /\ IceReports(p)

Fairness ==
  \A p \in Peers :
    /\ WF_vars(ChecksEnd(p)) /\ WF_vars(HandshakeFails(p)) /\ WF_vars(AssocTimeout(p))
    /\ \A sid \in Sids : WF_vars(Deliver(p, sid))

Spec == Init /\ [][Next]_vars /\ Fairness

-------------------------------------------------------------------------------
TypeOK ==
  \A p \in Peers :
    /\ peer[p].ice \in DOMAIN Phases(p)!Follows
    /\ peer[p].dtls \in {"none", "New", "Connecting", "Connected", "Failed", "Closed"}
    /\ peer[p].role \in {"none", "passive", "active"}
    /\ peer[p].sctp \in {"none", "connecting", "stuck", "late", "up", "lost"}
    /\ peer[p].pc \in {"New", "Connecting", "Connected", "Failed", "Closed"}
    /\ peer[p].pending \in 0..MaxChannels
    /\ Len(peer[p].chans) <= MaxChannels
    /\ \A i \in DOMAIN peer[p].chans :
         /\ peer[p].chans[i].sid \in Sids
         /\ peer[p].chans[i].st \in {"Connecting", "Open", "Closing", "Closed"}

(* Connected is reported over a finished stack, and nothing that happens   *)
(* later in a lower layer takes the report back: only destroying does.     *)
ConnectedMeansStack ==
  \A p \in Peers :
    LET x == peer[p]
    IN  (x.pc = "Connected") <=> (HasMgr(x) /\ x.ice = "Connected" /\ x.dtls = "Connected" /\ x.pending = 0)

(* Two peers in a handshake have opposite roles: neither waits for the     *)
(* other's first flight until both time out.                               *)
RolesDiffer ==
  (\A p \in Peers : peer[p].dtls = "Connecting") => peer["offerer"].role # peer["answerer"].role

(* The layers of both peers fit what they have reported. *)
StackInv == TypeOK /\ ConnectedMeansStack /\ RolesDiffer

(* A message comes out of the channel it was sent on, though the only      *)
(* name the channels have on the wire is a stream number of their creator. *)
MessagesStay == \A r \in routed : r.sent = r.got

(* A connection attempt ends: Connected or Failed, unless it is the        *)
(* association that fails, which is not reported.                          *)
Settles ==
  \A p \in Peers : peer[p].pc = "Connecting" ~>
    (peer[p].pc # "Connecting" \/ peer[p].sctp \in {"late", "stuck"})

(* A channel somebody created is opened, unless an association is gone or *)
(* the peer had no room for it.                                            *)
Has(p, id, states) ==
  \E i \in DOMAIN peer[p].chans : peer[p].chans[i].id = id /\ peer[p].chans[i].st \in states

ChannelsOpen ==
  \A p \in Creators, sid \in Sids :
    LET id      == [by |-> p, sid |-> sid]
        Waiting == Has(p, id, {"Connecting"})
        Refused == Full(peer[Other(p)]) /\ ~Has(Other(p), id, {"Open", "Closing", "Closed"})
    IN  Waiting ~> (~Waiting \/ Refused \/ \E q \in Peers : peer[q].sctp # "up")

(* Attempts end, and channels open (pc_try_start_dtls, dtls_timeout_cb,   *)
(* xDataChannelManagerHandleData).                                         *)
Progress == Settles /\ ChannelsOpen
=============================================================================
