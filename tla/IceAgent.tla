------------------------------ MODULE IceAgent ------------------------------
(***************************************************************************)
(* The ICE agent of libx/x/p2p/ice_agent.c with its STUN transactions      *)
(* (stun_txn.c): gathering, pairs, paced and triggered checks, nomination, *)
(* port spray and keepalive for symmetric NATs, late candidates, teardown. *)
(*                                                                         *)
(* The agent runs on one event loop: an API call, a datagram or a timer is *)
(* one step.  agent holds the fields of xIceAgent_ and the helpers take    *)
(* and return it, in the order in which the code assigns them.  The peer,  *)
(* the servers and the network are the environment: any check may be       *)
(* answered, refused or lost.  Relay candidates (TURN) are left out.       *)
(***************************************************************************)
EXTENDS Naturals, Sequences, FiniteSets, SequencesExt

CONSTANTS
  Hosts,          \* the sockets of the host candidates
  Servers,        \* the STUN servers
  Signalled,      \* the candidates the peer may signal: [addr, type]
  Strangers,      \* addresses the peer may send from and never signals
  Guess,          \* the address a port spray tries
  Predicted,      \* port_predict_count
  MaxCandidates, MaxPairs,  \* XICE_MAX_CANDIDATES, XICE_MAX_PAIRS
  MaxTxns,        \* XSTUN_TXN_MAX
  SprayBatch,     \* checks sent per tick of the spray
  Renegotiate,    \* the remote description may be set again
  Patient,        \* a late candidate comes after the failed checks ran out
  Careful         \* the agent is not destroyed while it gathers or checks

VARIABLE agent

Timers    == {"gather", "check", "timeout", "consent", "burst"}
Addresses == {c.addr : c \in Signalled} \cup Strangers

ASSUME IceAssumption ==
  /\ Signalled \subseteq [addr : {c.addr : c \in Signalled}, type : {"host", "srflx"}]
  /\ IsFiniteSet(Hosts) /\ IsFiniteSet(Servers) /\ IsFiniteSet(Signalled)
  /\ {Predicted, MaxCandidates, MaxPairs, MaxTxns, SprayBatch} \subseteq Nat \ {0}
  /\ {Renegotiate, Patient, Careful} \subseteq BOOLEAN

(* An entry of the transaction table (stun_txn.c): a binding request to a  *)
(* server, a check of a pair, or one that timed out and keeps its place.    *)
(* Which entry a request gets is told apart by nothing else.                *)
Slots     == 1 .. MaxTxns
Free      == [kind |-> "free"]
Dead      == [kind |-> "dead"]
Ask(h, s) == [kind |-> "ask", host |-> h, server |-> s]

InitAgent(role) ==
  [state |-> "New", role |-> role, remoteSet |-> FALSE,
   locals |-> <<>>, remotes |-> <<>>, pairs |-> <<>>, nominated |-> 0,
   txns |-> [s \in Slots |-> Free],
   armed |-> [k \in Timers |-> 0], held |-> [k \in Timers |-> FALSE],
   checkIndex |-> 1, sprayIndex |-> 1, gatheringDone |-> FALSE,
   resolving |-> FALSE, pending |-> 0,
   received |-> [h \in Hosts |-> 0], mapped |-> [h \in Hosts |-> {}],
   expected |-> [h \in Hosts |-> 0],
   symmetric |-> FALSE, aggressive |-> "off"]

IceInit ==
  \E role \in {"Controlling", "Controlled"} : agent = InitAgent(role)

-------------------------------------------------------------------------------
(* Positions in tables: the first of some, how many come before, the n-th. *)
Least(S)    == CHOOSE i \in S : \A j \in S : i <= j
Place(S, i) == Cardinality({j \in S : j < i})
Nth(S, n)   == CHOOSE i \in S : Place(S, i) = n - 1

Lesser(m, n) == IF m < n THEN m ELSE n
Cut(s, n)    == SubSeq(s, 1, Lesser(Len(s), n))

-------------------------------------------------------------------------------
(* Timers: armed counts those of the loop, held says that the agent has a  *)
(* handle.  A second start overwrites the handle of the first.             *)
Arm(a, k)    == [a EXCEPT !.armed[k] = @ + 1, !.held[k] = TRUE]
Fired(a, k)  == [a EXCEPT !.armed[k] = @ - 1, !.held[k] = FALSE]
Disarm(a, k) == IF a.held[k] THEN Fired(a, k) ELSE a

InTable(a, kind) == {s \in Slots : a.txns[s].kind = kind}

(* xStunTxnMgrSend, for each of these requests: as long as an entry is free. *)
Enter(a, requests) ==
  LET free == InTable(a, "free")
  IN  [a EXCEPT !.txns = [s \in Slots |->
         IF s \in free /\ Place(free, s) < Len(requests)
         THEN requests[Place(free, s) + 1] ELSE a.txns[s]]]

Check(a, i) == [kind |-> "check", at |-> i, l |-> a.pairs[i].l, r |-> a.pairs[i].r]

(* send_check, in the order of the list.  A pair is marked even when its    *)
(* request cannot be sent.                                                  *)
SendChecks(a, indices) ==
  Enter([a EXCEPT !.pairs = [i \in DOMAIN a.pairs |->
           IF i \in indices THEN [a.pairs[i] EXCEPT !.st = "InProgress"] ELSE a.pairs[i]]],
        [n \in 1 .. Cardinality(indices) |-> Check(a, Nth(indices, n))])

SendCheck(a, i) == SendChecks(a, {i})

-------------------------------------------------------------------------------
(* Pairs *)
InState(a, states) == {i \in DOMAIN a.pairs : a.pairs[i].st \in states}

Type(a, i)   == a.remotes[a.pairs[i].r].type
HasSrflx(a)  == \E r \in DOMAIN a.remotes : a.remotes[r].type = "srflx"
KnownAt(a, addr) == {r \in DOMAIN a.remotes : a.remotes[r].addr = addr}
Paired(a)    == {l \in DOMAIN a.locals : a.locals[l].type # "void"}

Weight(type) == CASE type = "host" -> 126 [] type = "prflx" -> 110 [] OTHER -> 100

Before(p, q) == p.l < q.l \/ (p.l = q.l /\ p.r < q.r)

Above(a, p, q) ==
  LET x == Weight(a.locals[p.l].type)  y == Weight(a.remotes[p.r].type)
      v == Weight(a.locals[q.l].type)  w == Weight(a.remotes[q.r].type)
  IN  \/ Lesser(x, y) > Lesser(v, w)
      \/ Lesser(x, y) = Lesser(v, w) /\ x + y > v + w
      \/ Lesser(x, y) = Lesser(v, w) /\ x + y = v + w /\ Before(p, q)

Frozen(l, r) == [l |-> l, r |-> r, st |-> "Frozen"]

(* As many pairs as the list holds, in the order of their priorities. *)
GeneratePairs(a) ==
  LET all  == {Frozen(l, r) : l \in Paired(a), r \in DOMAIN a.remotes}
      kept == {p \in all : Cardinality({q \in all : Before(q, p)}) < MaxPairs}
  IN  [a EXCEPT !.pairs = [i \in 1 .. Cardinality(kept) |->
         CHOOSE p \in kept : Cardinality({q \in kept : Above(a, q, p)}) = i - 1]]

(* Mutant: a new candidate rebuilds the whole list. *)
RegeneratePairs(a, r) == GeneratePairs(a)

(* A new remote candidate is paired without touching the other pairs. *)
AppendPairs(a, r) ==
  LET n == Lesser(Cardinality(Paired(a)), MaxPairs - Len(a.pairs))
  IN  [a EXCEPT !.pairs = @ \o [i \in 1 .. n |-> Frozen(Nth(Paired(a), i), r)]]

-------------------------------------------------------------------------------
(* Nomination: the first succeeded pair, one whose remote was signalled     *)
(* before one that was only observed.                                       *)
Plain(a, S) == {i \in S : Type(a, i) # "prflx"}

Nominate(a) ==
  LET ok == InState(a, {"Succeeded"})
      n  == Least(IF Plain(a, ok) # {} THEN Plain(a, ok) ELSE ok)
  IN  [a EXCEPT !.nominated = n, !.state = "Connected"]

Fail(a) == [a EXCEPT !.state = "Failed"]

CanSpray(a) == ~a.symmetric /\ a.aggressive = "off" /\ HasSrflx(a)

(* Mutant: the check timer is started again without being cancelled. *)
StartSprayTwice(a) ==
  LET b == Arm(a, "timeout")
      c == IF Len(b.remotes) >= MaxCandidates THEN b
           ELSE LET r == Len(b.remotes) + 1
                IN  AppendPairs([b EXCEPT !.remotes = Append(@, [addr |-> Guess, type |-> "srflx"])], r)
  IN  IF Len(c.pairs) = Len(a.pairs) THEN c
      ELSE Arm([c EXCEPT !.aggressive = "spray", !.sprayIndex = Len(a.pairs) + 1], "burst")

(* start_aggressive_spray: a longer timeout, one more remote candidate at a *)
(* guessed port, its pairs at the end of the list.                          *)
StartSpray(a) ==
  LET b == Arm(Disarm(a, "timeout"), "timeout")
      c == IF Len(b.remotes) >= MaxCandidates THEN b
           ELSE LET r == Len(b.remotes) + 1
                IN  AppendPairs([b EXCEPT !.remotes = Append(@, [addr |-> Guess, type |-> "srflx"])], r)
  IN  IF Len(c.pairs) = Len(a.pairs) THEN c
      ELSE Arm([c EXCEPT !.aggressive = "spray", !.sprayIndex = Len(a.pairs) + 1], "burst")

TryNominate(a) ==
  LET ok   == InState(a, {"Succeeded"})
      busy == InState(a, {"InProgress"})
  IN  IF a.state # "Checking" \/ a.nominated # 0 THEN a
      ELSE IF ok # {}
      THEN IF a.checkIndex > Len(a.pairs) /\ (Plain(a, ok) # {} \/ Plain(a, busy) = {})
           THEN Disarm(Disarm(Arm(Nominate(a), "consent"), "timeout"), "burst")
           ELSE a
      ELSE IF busy # {} THEN a
      ELSE IF CanSpray(a) THEN StartSpray(a)
      ELSE Fail(a)

StartChecks(a) ==
  IF a.pairs = <<>> THEN Fail(a)
  ELSE Arm(Arm([a EXCEPT !.state = "Checking", !.checkIndex = 1], "check"), "timeout")

Restart(a) == StartChecks(GeneratePairs(a))

-------------------------------------------------------------------------------
(* Gathering *)
EndGathering(a) ==
  LET b == [a EXCEPT !.gatheringDone = TRUE]
  IN  IF b.remoteSet THEN Restart(b) ELSE b

GatherCheckDone(a) ==
  IF a.pending > 0 \/ a.state # "Gathering" \/ a.gatheringDone THEN a
  ELSE EndGathering(Disarm(a, "gather"))

AddLocals(a, h, types) ==
  LET kept == Cut(types, MaxCandidates - Len(a.locals))
  IN  [a EXCEPT !.locals = @ \o [i \in DOMAIN kept |-> [sock |-> h, type |-> kept[i]]]]

(* finalize_srflx_for_host.  With no mapping it reads the entry before the  *)
(* first: a candidate without an address family, which pairs with nothing.  *)
FinalizeSrflx(a, h, nat) ==
  IF a.mapped[h] = {} THEN AddLocals(a, h, <<"void">>)
  ELSE IF Cardinality(a.mapped[h]) = 1 \/ nat = "cone" THEN AddLocals(a, h, <<"srflx">>)
  ELSE IF nat = "symmetric"
  THEN [AddLocals(a, h, <<"srflx">>) EXCEPT !.symmetric = TRUE]
  ELSE AddLocals(a, h, [i \in 1..1 + Predicted |-> "srflx"])

(* on_srflx_response.  What was collected is not read again once the host  *)
(* is finalized, and is forgotten here.                                    *)
SrflxResponse(a, q, ok, nat) ==
  LET h == q.host
      b == [a EXCEPT !.received[h] = @ + 1,
                     !.mapped[h] = IF ok THEN @ \cup {q.server} ELSE @]
      c == IF b.received[h] >= b.expected[h]
           THEN [FinalizeSrflx(b, h, nat) EXCEPT !.received[h] = 0, !.mapped[h] = {}, !.expected[h] = 0]
           ELSE b
  IN  GatherCheckDone([c EXCEPT !.pending = @ - 1])

Nats(a, q) ==
  IF Cardinality(a.mapped[q.host] \cup {q.server}) > 1
  THEN {"cone", "symmetric", "sequential"} ELSE {"cone"}

-------------------------------------------------------------------------------
(* xIceAgentGather: one host candidate per interface, then DNS for the      *)
(* STUN servers.  No interface at all: Failed.                              *)
Gather ==
  /\ agent.state = "New"
  /\ \/ agent' = [agent EXCEPT !.state = "Failed"]
     \/ /\ Hosts # {}
        /\ LET hs == Cut(SetToSeq(Hosts), MaxCandidates)
               a  == [agent EXCEPT !.state = "Gathering",
                        !.locals = [i \in DOMAIN hs |-> [sock |-> hs[i], type |-> "host"]]]
           IN  agent' = IF Servers = {} THEN GatherCheckDone(a)
                        ELSE Arm([a EXCEPT !.resolving = TRUE, !.pending = 1], "gather")

(* on_stun_dns_done for the last server: a request to each one that        *)
(* resolved, and one more pending whether it could be sent or not.         *)
Resolved(ok) ==
  /\ agent.resolving
  /\ LET qs == SetToSeq(Hosts \X ok)
         a  == Enter(agent, [i \in DOMAIN qs |-> Ask(qs[i][1], qs[i][2])])
     IN  agent' = GatherCheckDone([a EXCEPT !.resolving = FALSE,
                    !.pending = @ - 1 + Len(qs),
                    !.expected = [h \in Hosts |-> Cardinality(ok)]])

(* An answer takes its request out of the table before anything else; one   *)
(* that timed out stays in it.                                              *)
Taken(a, s)   == [a EXCEPT !.txns[s] = Free]
GivenUp(a, s) == [a EXCEPT !.txns[s] = Dead]

(* A server answers, or refuses. *)
SrflxAnswer(s, ok) ==
  /\ s \in InTable(agent, "ask")
  /\ \E nat \in Nats(agent, agent.txns[s]) :
       agent' = SrflxResponse(Taken(agent, s), agent.txns[s], ok, nat)

SrflxTimeout(s) ==
  /\ s \in InTable(agent, "ask") /\ agent.armed["gather"] = 0
  /\ \E nat \in Nats(agent, agent.txns[s]) :
       agent' = SrflxResponse(GivenUp(agent, s), agent.txns[s], FALSE, nat)

GatherTimeout ==
  /\ agent.armed["gather"] > 0
  /\ LET a == Fired(agent, "gather")
     IN  agent' = IF a.state = "Gathering" THEN EndGathering(a) ELSE a

-------------------------------------------------------------------------------
(* Signalling *)
Unknown(a, cs) == {c \in cs : KnownAt(a, c.addr) = {}}
Learn(a, cs)   ==
  [a EXCEPT !.remotes = @ \o Cut(SetToSeq(Unknown(a, cs)), MaxCandidates - Len(@))]

(* The candidates of a description; of two at the same address one is taken. *)
Descriptions == {cs \in SUBSET Signalled : \A c, d \in cs : c.addr = d.addr => c = d}

SetRemoteDescription(cs) ==
  /\ agent.state # "Closed"
  /\ agent.remoteSet => Renegotiate
  /\ LET a == Learn([agent EXCEPT !.remoteSet = TRUE], cs)
     IN  agent' = IF a.gatheringDone /\ a.state # "Checking" THEN Restart(a) ELSE a

(* Nothing of the failed attempt is left. *)
Quiet(a) == InTable(a, "check") = {} /\ \A k \in Timers : a.armed[k] = 0

(* Mutant: any late candidate restarts the checks. *)
AddAndRestart(c) ==
  /\ agent.state # "Closed"
  /\ Len(agent.remotes) < MaxCandidates /\ c \in Unknown(agent, {c})
  /\ (Patient /\ agent.state = "Failed") => Quiet(agent)
  /\ LET a == Learn(agent, {c})
         b == AppendPairs(a, Len(a.remotes))
     IN  agent' = IF a.state = "Checking"
                  THEN SendChecks(b, Len(a.pairs) + 1 .. Len(b.pairs))
                  ELSE IF a.gatheringDone THEN Restart([a EXCEPT !.nominated = 0]) ELSE a

(* xIceAgentAddRemoteCandidate: checked at once while checking, a fresh     *)
(* start after a failure.                                                   *)
AddRemoteCandidate(c) ==
  /\ agent.state # "Closed"
  /\ Len(agent.remotes) < MaxCandidates /\ c \in Unknown(agent, {c})
  /\ (Patient /\ agent.state = "Failed") => Quiet(agent)
  /\ LET a == Learn(agent, {c})
         b == AppendPairs(a, Len(a.remotes))
     IN  agent' = CASE a.state = "Checking" ->
                         SendChecks(b, Len(a.pairs) + 1 .. Len(b.pairs))
                    [] a.state = "Failed" /\ a.gatheringDone ->
                         Restart([a EXCEPT !.nominated = 0])
                    [] OTHER -> a

-------------------------------------------------------------------------------
(* check_pacing_cb *)
Pace ==
  /\ agent.armed["check"] > 0
  /\ LET a    == Fired(agent, "check")
         todo == {i \in InState(a, {"Frozen", "Waiting"}) : i >= a.checkIndex}
     IN  agent' =
           IF a.state # "Checking" THEN a
           ELSE IF todo # {}
           THEN Arm([SendCheck(a, Least(todo)) EXCEPT !.checkIndex = Least(todo) + 1], "check")
           ELSE TryNominate([a EXCEPT !.checkIndex = Len(a.pairs) + 1])

(* symmetric_keepalive_cb *)
Keepalive(a) ==
  Arm(SendChecks(a, {i \in DOMAIN a.pairs : Type(a, i) = "srflx"}), "burst")

(* Mutant: a symmetric agent extends its timeout every time. *)
KeepTrying ==
  /\ agent.armed["timeout"] > 0
  /\ LET a == Fired(agent, "timeout")
     IN  agent' =
           IF a.state # "Checking" \/ a.nominated # 0 THEN a
           ELSE IF InState(a, {"Succeeded"}) # {} THEN Nominate(a)
           ELSE IF CanSpray(a) THEN StartSpray(a)
           ELSE IF a.symmetric /\ HasSrflx(a)
           THEN Keepalive(Arm(Disarm([a EXCEPT !.aggressive = "keepalive"], "burst"), "timeout"))
           ELSE Fail(Disarm(a, "burst"))

(* check_timeout_cb: what succeeded so far is nominated; otherwise each     *)
(* rescue is tried once.                                                    *)
CheckTimeout ==
  /\ agent.armed["timeout"] > 0
  /\ LET a == Fired(agent, "timeout")
     IN  agent' =
           IF a.state # "Checking" \/ a.nominated # 0 THEN a
           ELSE IF InState(a, {"Succeeded"}) # {} THEN Nominate(a)
           ELSE IF CanSpray(a) THEN StartSpray(a)
           ELSE IF a.symmetric /\ a.aggressive = "off" /\ HasSrflx(a)
           THEN Keepalive(Arm([a EXCEPT !.aggressive = "keepalive"], "timeout"))
           ELSE Fail(Disarm(a, "burst"))

(* The timer of aggressive_pacing_cb or symmetric_keepalive_cb. *)
Burst ==
  /\ agent.armed["burst"] > 0
  /\ LET a    == Fired(agent, "burst")
         todo == {i \in InState(a, {"Frozen", "Waiting"}) : i >= a.sprayIndex}
         now  == {i \in todo : Cardinality({j \in todo : j < i}) < SprayBatch}
         next == IF now # todo THEN 1 + CHOOSE i \in now : \A j \in now : j <= i
                 ELSE Len(a.pairs) + 1
         b    == [SendChecks(a, now) EXCEPT !.sprayIndex = next]
     IN  agent' = IF a.state # "Checking" \/ a.nominated # 0 THEN a
                  ELSE IF a.aggressive = "keepalive" THEN Keepalive(a)
                  ELSE IF next <= Len(a.pairs) THEN Arm(b, "burst") ELSE b

(* consent_cb sends a request that nobody waits for an answer to. *)
Consent ==
  /\ agent.armed["consent"] > 0
  /\ LET a == Fired(agent, "consent")
     IN  agent' = IF a.state = "Connected" /\ a.nominated # 0 THEN Arm(a, "consent") ELSE a

-------------------------------------------------------------------------------
(* on_check_response: the pair is the one the context points at. *)
Settled(a, t, st) == TryNominate([a EXCEPT !.pairs[t.at].st = st])

Succeeds(s) ==
  /\ s \in InTable(agent, "check")
  /\ agent' = Settled(Taken(agent, s), agent.txns[s], "Succeeded")

Refused(s) ==
  /\ s \in InTable(agent, "check")
  /\ agent' = Settled(Taken(agent, s), agent.txns[s], "Failed")

(* 487: the role is switched and the pair checked again.  Only a           *)
(* controlling agent is refused here: a bound on the retries.              *)
Conflict(s) ==
  /\ s \in InTable(agent, "check")
  /\ agent.role = "Controlling"
  /\ agent' = SendCheck([Taken(agent, s) EXCEPT
                !.role = IF @ = "Controlling" THEN "Controlled" ELSE "Controlling"],
                agent.txns[s].at)

(* txn_retransmit gives up, long after the attempt: 8 timers from 500 ms,   *)
(* doubled each time, against 10 s and 30 s.  The entry stays in the table. *)
TxnTimeout(s) ==
  /\ s \in InTable(agent, "check") /\ agent.armed["timeout"] = 0
  /\ agent' = Settled(GivenUp(agent, s), agent.txns[s], "Failed")

-------------------------------------------------------------------------------
(* handle_incoming_binding_request, for a request the peer signed: it is    *)
(* answered, an unknown source becomes a candidate, a pair that is not      *)
(* being checked is checked, and a controlled agent takes the nomination.   *)
Observe(a, from) ==
  IF KnownAt(a, from) # {} \/ Len(a.remotes) >= MaxCandidates THEN a
  ELSE LET b == [a EXCEPT !.remotes = Append(@, [addr |-> from, type |-> "prflx"])]
       IN  IF b.state = "Checking" THEN AppendPairs(b, Len(b.remotes)) ELSE b

PairsWith(a, from) == {i \in DOMAIN a.pairs : a.remotes[a.pairs[i].r].addr = from}

Trigger(a, h, from) ==
  LET mine == {i \in PairsWith(a, from) : a.locals[a.pairs[i].l].sock = h}
  IN  IF a.state = "Checking" /\ mine # {}
         /\ a.pairs[Least(mine)].st \in {"Frozen", "Waiting", "Failed"}
      THEN SendCheck(a, Least(mine)) ELSE a

TakeNomination(a, from) ==
  LET i == Least(PairsWith(a, from))
  IN  IF a.role = "Controlled" /\ a.nominated = 0 /\ PairsWith(a, from) # {}
      THEN Arm([a EXCEPT !.nominated = i, !.pairs[i].st = "Succeeded",
                         !.state = "Connected"], "consent")
      ELSE a

Request(h, from, use) ==
  /\ agent.remoteSet /\ agent.state # "Closed"
  /\ \E l \in DOMAIN agent.locals : agent.locals[l].sock = h
  /\ LET a == Trigger(Observe(agent, from), h, from)
     IN  agent' = IF use THEN TakeNomination(a, from) ELSE a

-------------------------------------------------------------------------------
(* xIceAgentDestroy: the timers first, then the transactions, whose         *)
(* callbacks run as if they had timed out and may start timers while the    *)
(* agent gathers or checks; then the state, and the agent is freed.         *)
Cancelled(a) ==
  [a EXCEPT !.armed = [k \in Timers |-> IF a.held[k] THEN a.armed[k] - 1 ELSE a.armed[k]],
            !.held  = [k \in Timers |-> FALSE]]

DropChecks(a, order) ==
  FoldLeft(LAMBDA b, s : Settled(Taken(b, s), b.txns[s], "Failed"), a, order)

DropAsks(a) ==
  FoldLeft(LAMBDA b, s : SrflxResponse(Taken(b, s), b.txns[s], FALSE, "cone"),
           a, SetToSeq(InTable(a, "ask")))

DestroyAgent ==
  /\ agent.state # "Closed"
  /\ Careful => agent.state \notin {"Gathering", "Checking"}
  /\ \E order \in SetToSeqs(InTable(agent, "check")) :
       LET left == IF agent.state \in {"Gathering", "Checking"}
                   THEN DropAsks(DropChecks(Cancelled(agent), order)) ELSE Cancelled(agent)
       IN  agent' = [InitAgent(agent.role) EXCEPT !.state = "Closed", !.armed = left.armed]

-------------------------------------------------------------------------------
Called ==  \* the application
  \/ Gather
  \/ \E cs \in Descriptions : SetRemoteDescription(cs)
  \/ \E c \in Signalled : AddRemoteCandidate(c)
  \/ DestroyAgent

Heard ==   \* datagrams and DNS
  \/ \E ok \in SUBSET Servers : Resolved(ok)
  \/ \E s \in Slots, ok \in BOOLEAN : SrflxAnswer(s, ok)
  \/ \E s \in Slots : Succeeds(s) \/ Refused(s) \/ Conflict(s)
  \/ \E h \in Hosts, use \in BOOLEAN :
       \E from \in Addresses \cup {r.addr : r \in ToSet(agent.remotes)} : Request(h, from, use)

Elapsed == \* timers
  \/ GatherTimeout \/ Pace \/ CheckTimeout \/ Burst \/ Consent
  \/ \E s \in Slots : SrflxTimeout(s) \/ TxnTimeout(s)

IceNext == Called \/ Heard \/ Elapsed

IceSpec == IceInit /\ [][IceNext]_agent

(* An armed timer of the loop fires; nothing is promised of the rest. *)
FairIce == IceSpec /\ WF_agent(GatherTimeout) /\ WF_agent(Pace) /\ WF_agent(CheckTimeout)

-------------------------------------------------------------------------------
LocalTypes == [sock : Hosts, type : {"host", "srflx", "void"}]

IceTypeOK ==
  /\ agent.state \in {"New", "Gathering", "Checking", "Connected", "Failed", "Closed"}
  /\ agent.role \in {"Controlling", "Controlled"}
  /\ \A l \in DOMAIN agent.locals : agent.locals[l] \in LocalTypes
  /\ Len(agent.locals) <= MaxCandidates /\ Len(agent.remotes) <= MaxCandidates
  /\ Len(agent.pairs) <= MaxPairs
  /\ \A i \in DOMAIN agent.pairs :
       /\ agent.pairs[i].l \in DOMAIN agent.locals
       /\ agent.pairs[i].r \in DOMAIN agent.remotes
  /\ \A s \in InTable(agent, "check") : agent.txns[s].at \in DOMAIN agent.pairs
  /\ agent.nominated \in 0..Len(agent.pairs)
  /\ agent.pending \in Nat

(* An answer is credited to the pair its request was sent on: the context  *)
(* of an outstanding check points into the list of pairs, and must still   *)
(* point at that pair.  Otherwise a pair nobody tested gets nominated.     *)
AnswersCreditTheirPair ==
  \A s \in InTable(agent, "check") :
    LET t == agent.txns[s] IN agent.pairs[t.at].l = t.l /\ agent.pairs[t.at].r = t.r

(* The loop has one timer for each handle the agent holds, and none of a    *)
(* destroyed agent: a timer it lost sight of would fire into freed memory.  *)
TimersOwned ==
  /\ \A k \in Timers : agent.armed[k] = IF agent.held[k] THEN 1 ELSE 0
  /\ agent.state = "Closed" => \A k \in Timers : agent.armed[k] = 0

(* The agent's tables and timers, between any two handlers. *)
AgentInv == IceTypeOK /\ TimersOwned

(* check_timeout_cb wants to spray and no table has room: it starts its    *)
(* timer again, each time it fires.                                        *)
NoRoomToSpray ==
  CanSpray(agent) /\ (Len(agent.remotes) = MaxCandidates \/ Len(agent.pairs) = MaxPairs)

(* Gathering and checking end, whoever answers, unless the spray has no    *)
(* room: a phase always has a timer that ends it.                          *)
PhasesEnd ==
  /\ (agent.state = "Gathering" /\ ~agent.gatheringDone)
       ~> (agent.state # "Gathering" \/ agent.gatheringDone)
  /\ (agent.state = "Checking") ~> (agent.state # "Checking" \/ NoRoomToSpray)

(* The states are reported in the order the peer connection relies on: an  *)
(* established connection is never reported as failed or checking again.   *)
Reported == INSTANCE IcePhases WITH ice <- agent.state
ReportsPhases == Reported!PhaseSpec
=============================================================================
