--------------------------- MODULE MultiPingProofs ---------------------------
(***************************************************************************)
(* Ping keeps its promise, for any number of callers and hosts: what it     *)
(* reports is true (Truthful), and it implements PingSpec.                  *)
(*                                                                         *)
(* The argument: only the caller that holds the lock is in a round; what    *)
(* is counted for it is what its own round has sent (StatsShape, Round);    *)
(* and a reply that carries the number of this round answers a request of   *)
(* this round, since the numbers of two rounds in a row differ and replies  *)
(* are not older than that (WireTrue, GotTrue).                             *)
(***************************************************************************)
EXTENDS MultiPing, TLAPS

-----------------------------------------------------------------------------
(***************************************************************************)
(* The inductive invariant.                                                *)
(***************************************************************************)
Counted(s, answered) ==
  /\ s.tx = 1
  /\ s.rx = 0 \/ (s.rx = 1 /\ s.seq = 0 /\ answered)

\* a host was not pinged, or once
StatsShape ==
  \A c \in Clients, h \in Hosts :
    \/ stats[c][h] = NoStats
    \/ h \in hosts[c] /\ Counted(stats[c][h], h \in replied[c])

\* a caller that waits for the lock has counted nothing
Waiting ==
  \A c \in Clients : pc[c] = "ping" => \A h \in Hosts : stats[c][h] = NoStats

\* a host that prep has not reached is not counted; what is counted carries
\* the number of the round
Round ==
  lock # Nobody =>
    /\ todo \subseteq hosts[lock]
    /\ \A h \in todo : stats[lock][h] = NoStats
    /\ \A h \in Hosts : stats[lock][h].seq \in {0, seq}

\* without a round nobody is busy
Silent ==
  lock = Nobody =>
    live = {} /\ todo = {} /\ \A r \in Receivers \cup {"proc"} : got[r] = {}

\* a reply of ours with the number of the round answers the round
TrueReply(p) ==
  p.mine => /\ p.seq # 0
            /\ lock # Nobody /\ p.seq = seq => p.host \in replied[lock]

WireTrue == \A p \in wire : p.mine /\ TrueReply(p)

GotTrue == \A r \in Receivers \cup {"proc"} : \A p \in got[r] : TrueReply(p)

IInv == /\ TypeOK /\ StatsShape /\ Waiting /\ Round
        /\ Silent /\ WireTrue /\ GotTrue

-----------------------------------------------------------------------------
(***************************************************************************)
(* Statistics and sequence numbers.                                        *)
(***************************************************************************)
LEMMA Numbers ==
  ASSUME NEW s \in 1 .. SeqMod - 1
  PROVE  NextSeq(s) \in 1 .. SeqMod - 1 /\ NextSeq(s) # s
BY SeqAssumption DEF NextSeq

LEMMA Fresh == NoStats \in PingStats /\ NoStats.tx = 0 /\ NoStats.rx = 0 /\ NoStats.seq = 0
BY DEF NoStats, PingStats

LEMMA FreshData == NoData \in [Hosts -> PingStats] /\ \A h \in Hosts : NoData[h] = NoStats
BY Fresh DEF NoData

LEMMA Sending ==
  ASSUME NEW q \in Nat
  PROVE  /\ Send(NoStats, q) \in PingStats
         /\ \A a \in BOOLEAN : Counted(Send(NoStats, q), a)
         /\ Send(NoStats, q).seq = q
BY Fresh DEF Send, PingStats, Counted

\* an answer is counted for a request that waits for it, and only then
LEMMA Receiving ==
  ASSUME NEW s \in PingStats, NEW q \in Nat, q # 0, NEW a \in BOOLEAN,
         s = NoStats \/ Counted(s, a)
  PROVE  /\ Recv(s, q) \in PingStats
         /\ s.seq # q => Recv(s, q) = s
         /\ s.seq = q => Counted(Recv(s, q), TRUE) /\ Recv(s, q).seq = 0
<1>1. CASE s.seq # q
  BY <1>1 DEF Recv
<1>2. CASE s.seq = q
  <2>1. s # NoStats
    BY <1>2, Fresh
  <2>2. s.tx = 1 /\ s.rx = 0
    BY <1>2, <2>1 DEF Counted
  <2> QED BY <1>2, <2>2 DEF Recv, PingStats, Counted
<1> QED BY <1>1, <1>2

-----------------------------------------------------------------------------
LEMMA InitInv == Init => IInv
<1> SUFFICES ASSUME Init PROVE IInv
  OBVIOUS
<1>1. TypeOK
  <2>1. \A c \in Clients : pc[c] \notin {"wait", "drain"} /\ lock # c
    BY NobodyAssumption DEF Init
  <2>2. stats \in [Clients -> [Hosts -> PingStats]] /\ seq \in 1 .. SeqMod - 1
    BY FreshData, SeqAssumption DEF Init
  <2>3. got \in [Receivers \cup {"proc"} -> SUBSET Packet]
    BY DEF Init
  <2> QED BY <2>1, <2>2, <2>3 DEF Init, TypeOK
<1>2. StatsShape /\ Waiting /\ Round /\ Silent
  BY FreshData DEF Init, StatsShape, Waiting, Round, Silent
<1>3. WireTrue /\ GotTrue
  BY DEF Init, WireTrue, GotTrue
<1> QED BY <1>1, <1>2, <1>3 DEF IInv

\* the steps of the callers
LEMMA CallInv ==
  ASSUME IInv, NEW c \in Clients, NEW H \in Lists[c], Call(c, H)
  PROVE  IInv'
<1>1. H \subseteq Hosts
  BY ListsAssumption DEF Hosts
<1>2. c # lock /\ lock' = lock
  BY DEF IInv, TypeOK, Call
<1>3. TypeOK'
  BY <1>1, FreshData DEF IInv, TypeOK, Call, conns, tx
<1>4. StatsShape'
  BY FreshData DEF IInv, TypeOK, StatsShape, Call
<1>5. Waiting'
  BY FreshData DEF IInv, TypeOK, Waiting, Call
<1>6. Round' /\ Silent'
  BY <1>2 DEF IInv, TypeOK, Round, Silent, Call, tx
<1>7. WireTrue' /\ GotTrue'
  BY <1>2 DEF IInv, TypeOK, WireTrue, GotTrue, TrueReply, Call
<1> QED BY <1>3, <1>4, <1>5, <1>6, <1>7 DEF IInv

LEMMA RestartInv ==
  ASSUME IInv, NEW c \in Clients, Restart(c) \/ RestartFails(c)
  PROVE  IInv'
<1>1. CASE RestartFails(c)
  <2>1. TypeOK'
    BY <1>1 DEF IInv, TypeOK, RestartFails, data, conns, tx, net
  <2>2. StatsShape' /\ Round' /\ Silent'
    BY <1>1 DEF IInv, TypeOK, StatsShape, Round, Silent, RestartFails, data, tx, net
  <2>3. Waiting'
    BY <1>1 DEF IInv, TypeOK, Waiting, RestartFails, data
  <2>4. WireTrue' /\ GotTrue'
    BY <1>1 DEF IInv, WireTrue, GotTrue, TrueReply, RestartFails, net
  <2> QED BY <2>1, <2>2, <2>3, <2>4 DEF IInv
<1>2. CASE Restart(c)
  <2>1. seq' \in 1 .. SeqMod - 1 /\ seq' # seq
    BY <1>2, Numbers DEF IInv, TypeOK, Restart
  <2>2. c # Nobody /\ lock' = c /\ lock = Nobody
    BY <1>2, NobodyAssumption DEF Restart
  <2>3. TypeOK'
    <3>1. socks' \subseteq Receivers /\ live' \subseteq Threads /\ live' \cap Receivers \subseteq socks'
      BY <1>2 DEF Restart, Receivers, Threads
    <3>2. \A d \in Clients : pc'[d] \in {"wait", "drain"} <=> lock' = d
      <4>1. \A d \in Clients : pc[d] \notin {"wait", "drain"}
        BY <2>2, NobodyAssumption DEF IInv, TypeOK
      <4>2. \A d \in Clients : pc'[d] = IF d = c THEN "wait" ELSE pc[d]
        BY <1>2 DEF IInv, TypeOK, Restart
      <4> QED BY <2>2, <4>1, <4>2
    <3>3. todo' \subseteq Hosts /\ wire' \subseteq Packet /\ open' \in BOOLEAN
      BY <1>2 DEF IInv, TypeOK, Restart
    <3>4. pc' \in [Clients -> {"idle", "ping", "wait", "drain"}]
      BY <1>2 DEF IInv, TypeOK, Restart
    <3> QED BY <1>2, <2>1, <2>2, <3>1, <3>2, <3>3, <3>4 DEF IInv, TypeOK, Restart, data
  <2>4. StatsShape'
    BY <1>2 DEF IInv, StatsShape, Restart, data
  <2>5. Waiting'
    BY <1>2 DEF IInv, TypeOK, Waiting, Restart, data
  <2>6. Round'
    <3>1. /\ stats' = stats /\ hosts' = hosts /\ todo' = hosts[c]
          /\ \A h \in Hosts : stats[c][h] = NoStats
      BY <1>2 DEF IInv, Waiting, Restart, data
    <3>2. hosts[c] \subseteq Hosts
      BY DEF IInv, TypeOK
    <3> QED BY <2>2, <3>1, <3>2, FreshData, Fresh DEF Round
  <2>7. Silent'
    BY <2>2 DEF Silent
  <2>8. WireTrue'
    BY <1>2, <2>1 DEF IInv, WireTrue, TrueReply, Restart
  <2>9. GotTrue'
    BY <1>2, <2>2 DEF IInv, Silent, GotTrue, Restart
  <2> QED BY <2>3, <2>4, <2>5, <2>6, <2>7, <2>8, <2>9 DEF IInv
<1> QED BY <1>1, <1>2

LEMMA CleanupInv ==
  ASSUME IInv, NEW c \in Clients, Timeout(c) \/ Cleanup(c)
  PROVE  IInv'
<1>1. CASE Timeout(c)
  <2>1. TypeOK'
    BY <1>1 DEF IInv, TypeOK, Timeout, data, tx, net
  <2>2. StatsShape' /\ Round' /\ Silent'
    BY <1>1 DEF IInv, StatsShape, Round, Silent, Timeout, data, tx, net
  <2>3. Waiting'
    BY <1>1 DEF IInv, TypeOK, Waiting, Timeout, data
  <2>4. WireTrue' /\ GotTrue'
    BY <1>1 DEF IInv, WireTrue, GotTrue, TrueReply, Timeout, net
  <2> QED BY <2>1, <2>2, <2>3, <2>4 DEF IInv
<1>2. CASE Cleanup(c)
  <2>1. lock = c /\ lock' = Nobody
    BY <1>2 DEF IInv, TypeOK, Cleanup
  <2>2. overrun' \in BOOLEAN
    BY <1>2 DEF Cleanup, Late
  <2>3. TypeOK'
    <3>1. \A d \in Clients : pc'[d] \in {"wait", "drain"} <=> lock' = d
      BY <1>2, <2>1, NobodyAssumption DEF IInv, TypeOK, Cleanup
    <3>2. pc' \in [Clients -> {"idle", "ping", "wait", "drain"}]
      BY <1>2 DEF IInv, TypeOK, Cleanup
    <3> QED BY <1>2, <2>1, <2>2, <3>1, <3>2 DEF IInv, TypeOK, Cleanup, data, net
  <2>4. StatsShape' /\ Silent' /\ Round'
    BY <1>2, <2>1 DEF IInv, StatsShape, Silent, Round, Cleanup, data, net
  <2>5. Waiting'
    BY <1>2 DEF IInv, TypeOK, Waiting, Cleanup, data
  <2>6. WireTrue' /\ GotTrue'
    BY <1>2, <2>1 DEF IInv, WireTrue, GotTrue, TrueReply, Cleanup, net
  <2> QED BY <2>3, <2>4, <2>5, <2>6 DEF IInv
<1> QED BY <1>1, <1>2

\* the steps of prep and send
LEMMA PrepareInv ==
  ASSUME IInv, NEW h \in Hosts, Prepare(h)
  PROVE  IInv'
<1>1. lock \in Clients /\ lock # Nobody /\ h \in todo
  BY DEF IInv, TypeOK, Silent, Prepare, Running
<1>2. h \in hosts[lock] /\ stats[lock][h] = NoStats /\ seq \in Nat
  BY <1>1, SeqAssumption DEF IInv, TypeOK, Round, Prepare
<1> DEFINE s == Send(NoStats, seq)
<1>3. /\ s \in PingStats /\ \A a \in BOOLEAN : Counted(s, a)
      /\ s.seq = seq
  BY <1>2, Sending
<1>4. stats' = [stats EXCEPT ![lock][h] = s]
  BY <1>1, <1>2 DEF Prepare
<1> HIDE DEF s
<1>5. /\ stats' \in [Clients -> [Hosts -> PingStats]]
      /\ \A c \in Clients, g \in Hosts :
           stats'[c][g] = IF c = lock /\ g = h THEN s ELSE stats[c][g]
  BY <1>1, <1>3, <1>4 DEF IInv, TypeOK
<1>6. TypeOK'
  BY <1>5 DEF IInv, TypeOK, Prepare, caller, conns, net
<1>7. StatsShape'
  <2>1. \A c \in Clients, g \in Hosts : (g \in replied[c]) \in BOOLEAN
    OBVIOUS
  <2> QED BY <1>1, <1>2, <1>3, <1>5, <2>1 DEF IInv, StatsShape, Prepare, net
<1>8. Waiting'
  <2>1. pc' = pc /\ pc[lock] # "ping"
    BY <1>1 DEF IInv, TypeOK, Prepare, caller
  <2> QED BY <1>5, <2>1 DEF IInv, Waiting
<1>9. Round'
  BY <1>1, <1>3, <1>5 DEF IInv, TypeOK, Round, Prepare, caller
<1>10. Silent' /\ WireTrue' /\ GotTrue'
  BY <1>1 DEF IInv, Silent, WireTrue, GotTrue, TrueReply, Prepare, caller, net
<1> QED BY <1>6, <1>7, <1>8, <1>9, <1>10 DEF IInv

LEMMA SendInv ==
  ASSUME IInv, NEW h \in Hosts, NEW answered \in BOOLEAN, SendPacket(h, answered)
  PROVE  IInv'
<1>1. lock \in Clients /\ lock # Nobody
  BY DEF IInv, TypeOK, Silent, SendPacket, Running
<1>2. CASE ~answered
  <2>1. UNCHANGED <<hosts, stats, pc, lock, seq, socks, open, live, got, todo, wire, replied, overrun>>
        /\ offer' = {}
    BY <1>2 DEF SendPacket, data, caller, conns
  <2>2. TypeOK'
    BY <2>1 DEF IInv, TypeOK
  <2>3. StatsShape' /\ Waiting' /\ Round' /\ Silent'
    BY <2>1 DEF IInv, StatsShape, Waiting, Round, Silent
  <2>4. WireTrue' /\ GotTrue'
    BY <2>1 DEF IInv, WireTrue, GotTrue, TrueReply
  <2> QED BY <2>2, <2>3, <2>4 DEF IInv
<1>3. CASE answered
  <2> DEFINE p == [host |-> h, seq |-> seq, mine |-> TRUE]
  <2>1. /\ wire' = wire \cup {p}
        /\ replied' = [replied EXCEPT ![lock] = replied[lock] \cup {h}]
        /\ offer' = {}
        /\ UNCHANGED <<hosts, stats, pc, lock, seq, socks, open, live, got, todo, overrun>>
    BY <1>3 DEF SendPacket, data, caller, conns
  <2>2. p \in Packet /\ p.mine /\ p.seq = seq /\ p.host = h /\ seq # 0
    BY SeqAssumption DEF IInv, TypeOK, Packet
  <2> HIDE DEF p
  <2>3. /\ replied' \in [Clients -> SUBSET Hosts]
        /\ \A c \in Clients : replied[c] \subseteq replied'[c]
        /\ h \in replied'[lock]
    BY <1>1, <2>1 DEF IInv, TypeOK
  <2>4. TypeOK'
    BY <2>1, <2>2, <2>3 DEF IInv, TypeOK
  <2>5. StatsShape' /\ Waiting' /\ Round' /\ Silent'
    BY <2>1, <2>3 DEF IInv, StatsShape, Counted, Waiting, Round, Silent
  <2>6. WireTrue' /\ GotTrue'
    BY <1>1, <2>1, <2>2, <2>3 DEF IInv, WireTrue, GotTrue, TrueReply
  <2> QED BY <2>4, <2>5, <2>6 DEF IInv
<1> QED BY <1>2, <1>3

LEMMA SenderEndsInv ==
  ASSUME IInv,
         PrepareDone \/ SendDone \/ \E h \in Hosts : SendBreaks(h)
  PROVE  IInv'
<1>1. /\ UNCHANGED <<hosts, stats, pc, lock, seq, socks, open, got, todo, wire, replied, overrun>>
      /\ live' \subseteq live
      /\ offer' \subseteq offer
  BY DEF PrepareDone, SendDone, SendBreaks, data, caller, conns, tx, net
<1>2. TypeOK'
  BY <1>1 DEF IInv, TypeOK
<1>3. StatsShape' /\ Waiting' /\ Round' /\ Silent'
  BY <1>1 DEF IInv, StatsShape, Waiting, Round, Silent
<1>4. WireTrue' /\ GotTrue'
  BY <1>1 DEF IInv, WireTrue, GotTrue, TrueReply
<1> QED BY <1>2, <1>3, <1>4 DEF IInv

-----------------------------------------------------------------------------
\* the steps of the receivers: packets are handed on
LEMMA HandedOn ==
  ASSUME IInv, lock # Nobody,
         UNCHANGED <<hosts, stats, pc, lock, seq, socks, open, todo, offer, replied, overrun>>,
         live' \subseteq live, wire' \subseteq wire,
         got' \in [Receivers \cup {"proc"} -> SUBSET Packet],
         \A r \in Receivers \cup {"proc"} : \A p \in got'[r] : TrueReply(p)
  PROVE  IInv'
<1>1. TypeOK'
  BY DEF IInv, TypeOK
<1>2. StatsShape' /\ Waiting' /\ Round' /\ Silent'
  BY DEF IInv, StatsShape, Waiting, Round, Silent
<1>3. WireTrue' /\ GotTrue'
  BY DEF IInv, WireTrue, GotTrue, TrueReply
<1> QED BY <1>1, <1>2, <1>3 DEF IInv

LEMMA ReceiverInv ==
  ASSUME IInv, NEW r \in Receivers, Receiver(r)
  PROVE  IInv'
<1>1. lock # Nobody
  BY DEF IInv, Silent, Receiver, RecvPacket, RecvForeign, Arrives, RecvEnds, HandPacket, Running
<1>2. ASSUME NEW p \in wire, RecvPacket(r, p)
      PROVE  IInv'
  <2>1. p \in Packet /\ TrueReply(p)
    BY <1>2 DEF IInv, TypeOK, WireTrue
  <2>2. got' = [got EXCEPT ![r] = {p}] /\ wire' \subseteq wire
    BY <1>2 DEF RecvPacket, Arrives
  <2>3. /\ got' \in [Receivers \cup {"proc"} -> SUBSET Packet]
        /\ \A q \in Receivers \cup {"proc"} : \A n \in got'[q] : TrueReply(n)
    BY <2>1, <2>2 DEF IInv, TypeOK, GotTrue
  <2>4. /\ UNCHANGED <<hosts, stats, pc, lock, seq, socks, open, todo, offer, replied, overrun>>
        /\ live' \subseteq live
    BY <1>2 DEF RecvPacket, data, caller, conns, tx
  <2> QED BY <1>1, <2>2, <2>3, <2>4, HandedOn
<1>3. ASSUME NEW h \in Hosts, RecvForeign(r, h)
      PROVE  IInv'
  <2> DEFINE p == [host |-> h, seq |-> seq, mine |-> FALSE]
  <2>1. p \in Packet /\ ~p.mine
    BY SeqAssumption DEF IInv, TypeOK, Packet
  <2>2. got' = [got EXCEPT ![r] = {p}]
    BY <1>3 DEF RecvForeign, Arrives
  <2> HIDE DEF p
  <2>3. /\ got' \in [Receivers \cup {"proc"} -> SUBSET Packet]
        /\ \A q \in Receivers \cup {"proc"} : \A n \in got'[q] : TrueReply(n)
    BY <2>1, <2>2 DEF IInv, TypeOK, GotTrue, TrueReply
  <2>4. /\ UNCHANGED <<hosts, stats, pc, lock, seq, socks, open, todo, offer, replied, overrun>>
        /\ live' \subseteq live /\ wire' \subseteq wire
    BY <1>3 DEF RecvForeign, data, caller, conns, tx, net
  <2> QED BY <1>1, <2>3, <2>4, HandedOn
<1>4. CASE RecvEnds(r)
  <2>1. /\ UNCHANGED <<hosts, stats, pc, lock, seq, socks, open, todo, offer, replied, overrun>>
        /\ live' \subseteq live /\ wire' \subseteq wire /\ got' = got
    BY <1>4 DEF RecvEnds, data, caller, conns, tx, net
  <2> QED BY <1>1, <2>1, HandedOn DEF IInv, TypeOK, GotTrue
<1>5. CASE HandPacket(r)
  <2>1. /\ UNCHANGED <<hosts, stats, pc, lock, seq, socks, open, todo, offer, replied, overrun>>
        /\ live' \subseteq live /\ wire' \subseteq wire
        /\ got' = [got EXCEPT ![r] = {}, !["proc"] = got[r]]
    BY <1>5 DEF HandPacket, data, caller, conns, tx, net
  <2>2. /\ got' \in [Receivers \cup {"proc"} -> SUBSET Packet]
        /\ \A q \in Receivers \cup {"proc"} : got'[q] \in {{}, got[q], got[r]}
    BY <2>1 DEF IInv, TypeOK, Receivers
  <2>3. \A q \in Receivers \cup {"proc"} : \A n \in got'[q] : TrueReply(n)
    BY <2>2 DEF IInv, GotTrue
  <2> QED BY <1>1, <2>1, <2>2, <2>3, HandedOn
<1> QED BY <1>2, <1>3, <1>4, <1>5 DEF Receiver

\* a packet is counted for the host it names, or not at all
LEMMA Processing ==
  ASSUME IInv, NEW p \in got["proc"], ProcessPacket(p)
  PROVE  /\ lock \in Clients /\ lock # Nobody
         /\ stats' \in [Clients -> [Hosts -> PingStats]]
         /\ \A c \in Clients, h \in Hosts :
              \/ stats'[c][h] = stats[c][h]
              \/ /\ c = lock /\ h \in hosts[c] /\ h \in replied[c]
                 /\ stats[c][h] # NoStats
                 /\ Counted(stats'[c][h], TRUE) /\ stats'[c][h].seq = 0
<1>1. lock \in Clients /\ lock # Nobody /\ p \in Packet /\ TrueReply(p)
  BY DEF IInv, TypeOK, Silent, GotTrue, ProcessPacket, Running
<1>2. CASE ~Counts(p)
  BY <1>1, <1>2 DEF IInv, TypeOK, ProcessPacket
<1>3. CASE Counts(p)
  <2>1. p.mine /\ p.host \in hosts[lock] /\ p.host \in Hosts /\ p.seq \in Nat /\ p.seq # 0
    BY <1>1, <1>3 DEF Counts, Packet, TrueReply, IInv, TypeOK
  <2> DEFINE s == stats[lock][p.host]
             a == p.host \in replied[lock]
  <2>2. s \in PingStats /\ (s = NoStats \/ Counted(s, a)) /\ s.seq \in {0, seq}
    BY <1>1, <2>1 DEF IInv, TypeOK, StatsShape, Round
  <2>3. /\ Recv(s, p.seq) \in PingStats
        /\ s.seq # p.seq => Recv(s, p.seq) = s
        /\ s.seq = p.seq => Counted(Recv(s, p.seq), TRUE) /\ Recv(s, p.seq).seq = 0
    <3>1. a \in BOOLEAN
      OBVIOUS
    <3> HIDE DEF s, a
    <3> QED BY <2>1, <2>2, <3>1, Receiving
  <2>4. s.seq = p.seq => a /\ s # NoStats
    BY <1>1, <2>1, <2>2, Fresh DEF TrueReply
  <2>5. stats' = [stats EXCEPT ![lock][p.host] = Recv(s, p.seq)]
    BY <1>3 DEF ProcessPacket
  <2>6. /\ stats' \in [Clients -> [Hosts -> PingStats]]
        /\ \A c \in Clients, h \in Hosts :
             stats'[c][h] = IF c = lock /\ h = p.host THEN Recv(s, p.seq) ELSE stats[c][h]
    <3> DEFINE v == Recv(s, p.seq)
    <3>1. v \in PingStats /\ stats' = [stats EXCEPT ![lock][p.host] = v]
      BY <2>3, <2>5
    <3> HIDE DEF v
    <3>2. /\ stats' \in [Clients -> [Hosts -> PingStats]]
          /\ \A c \in Clients, h \in Hosts :
               stats'[c][h] = IF c = lock /\ h = p.host THEN v ELSE stats[c][h]
      BY <1>1, <2>1, <3>1 DEF IInv, TypeOK
    <3> QED BY <3>2 DEF v
  <2> QED BY <1>1, <2>1, <2>3, <2>4, <2>6
<1> QED BY <1>2, <1>3

LEMMA ProcessInv ==
  ASSUME IInv, NEW p \in got["proc"], ProcessPacket(p)
  PROVE  IInv'
<1>1. /\ UNCHANGED <<hosts, pc, lock, seq, socks, open, live, todo, offer, wire, replied, overrun>>
      /\ got' = [got EXCEPT !["proc"] = {}]
  BY DEF ProcessPacket, caller, conns, tx, net
<1>2. TypeOK'
  BY <1>1, Processing DEF IInv, TypeOK
<1>3. StatsShape'
  BY <1>1, Processing DEF IInv, StatsShape, Counted
<1>4. Waiting'
  <2>1. pc[lock] # "ping"
    BY Processing DEF IInv, TypeOK
  <2> QED BY <1>1, <2>1, Processing DEF IInv, Waiting
<1>5. Round'
  <2>1. lock \in Clients /\ todo \subseteq Hosts
    BY Processing DEF IInv, TypeOK
  <2> QED BY <1>1, <2>1, Processing DEF IInv, Round
<1>6. Silent' /\ WireTrue' /\ GotTrue'
  BY <1>1, Processing DEF IInv, TypeOK, Silent, WireTrue, GotTrue, TrueReply
<1> QED BY <1>2, <1>3, <1>4, <1>5, <1>6 DEF IInv

LEMMA StutterInv == IInv /\ UNCHANGED vars => IInv'
<1> SUFFICES ASSUME IInv, UNCHANGED vars PROVE IInv'
  OBVIOUS
<1>1. TypeOK'
  BY DEF IInv, TypeOK, vars, data, caller, conns, tx, net
<1>2. StatsShape' /\ Waiting' /\ Round' /\ Silent'
  BY DEF IInv, StatsShape, Waiting, Round, Silent, vars, data, caller, conns, tx, net
<1>3. WireTrue' /\ GotTrue'
  BY DEF IInv, WireTrue, GotTrue, TrueReply, vars, data, caller, conns, tx, net
<1> QED BY <1>1, <1>2, <1>3 DEF IInv

LEMMA NextInv == IInv /\ [Next]_vars => IInv'
<1> SUFFICES ASSUME IInv, [Next]_vars PROVE IInv'
  OBVIOUS
<1>1. ASSUME NEW c \in Clients, Ping(c) \/ \E H \in Lists[c] : Call(c, H)
      PROVE  IInv'
  BY <1>1, CallInv, RestartInv, CleanupInv DEF Ping
<1>2. CASE Sender
  BY <1>2, PrepareInv, SendInv, SenderEndsInv DEF Sender
<1>3. CASE Process
  BY <1>3, ProcessInv DEF Process
<1>4. ASSUME NEW r \in Receivers, Receiver(r)
      PROVE  IInv'
  BY <1>4, ReceiverInv
<1> QED BY <1>1, <1>2, <1>3, <1>4, StutterInv DEF Next

THEOREM Invariance == Spec => []IInv
BY InitInv, NextInv, PTL DEF Spec

(***************************************************************************)
(* Every state of the pinger has the types of TypeOK: the lock has one      *)
(* holder, zero is no sequence number, for any callers, hosts and length of *)
(* sequence numbers.                                                        *)
(***************************************************************************)
THEOREM TypeCorrect == Spec => []TypeOK
<1>1. IInv => TypeOK
  BY DEF IInv
<1> QED BY Invariance, <1>1, PTL

(***************************************************************************)
(* A host only counts as having answered if it did answer this round, and   *)
(* once: whatever the network delays, repeats or delivers to the wrong      *)
(* program, and whenever the round is cut off.                              *)
(***************************************************************************)
THEOREM AnswersAreTrue == Spec => []Truthful
<1>1. IInv => Truthful
  BY Fresh DEF IInv, StatsShape, Counted, Truthful
<1> QED BY Invariance, <1>1, PTL

-----------------------------------------------------------------------------
(***************************************************************************)
(* The refinement.  A round is not visible until it ends: Cleanup, and a    *)
(* restart that fails, are PingSpec's Return.                               *)
(***************************************************************************)
Busy == {c \in Clients : pc[c] # "idle"}

LEMMA Outcomes ==
  /\ Outcome(NoStats) = "unsent"
  /\ \A s \in PingStats, a \in BOOLEAN :
       Counted(s, a) => Outcome(s) \in {"lost", "answered"}
<1>1. Outcome(NoStats) = "unsent"
  BY Fresh DEF Outcome
<1>2. ASSUME NEW s \in PingStats, NEW a \in BOOLEAN, Counted(s, a)
      PROVE  Outcome(s) \in {"lost", "answered"}
  BY <1>2 DEF Counted, Outcome
<1> QED BY <1>1, <1>2

LEMMA Hidden ==
  ASSUME UNCHANGED hosts, \A c \in Clients : pc'[c] = "idle" <=> pc[c] = "idle",
         \A c \in Clients, h \in Hosts : pc[c] = "idle" => stats'[c][h] = stats[c][h]
  PROVE  UNCHANGED <<Busy, hosts, Results>>
<1>1. UNCHANGED Busy
  BY DEF Busy
<1>2. UNCHANGED Results
  BY DEF Results
<1> QED BY <1>1, <1>2

LEMMA Returns ==
  ASSUME IInv, NEW c \in Clients, pc[c] # "idle", pc' = [pc EXCEPT ![c] = "idle"],
         UNCHANGED <<hosts, stats>>
  PROVE  Promise!Return(c)
<1>1. \A d \in Clients : pc'[d] = IF d = c THEN "idle" ELSE pc[d]
  BY DEF IInv, TypeOK
<1>2. c \in Busy /\ Busy' = Busy \ {c}
  BY <1>1 DEF Busy
<1> DEFINE R == [h \in Hosts |-> Outcome(stats[c][h])]
<1>3. R \in [Hosts -> {"unsent", "lost", "answered"}]
  <2>1. ASSUME NEW h \in Hosts
        PROVE  Outcome(stats[c][h]) \in {"unsent", "lost", "answered"}
    <3>1. stats[c][h] = NoStats \/ Counted(stats[c][h], h \in replied[c])
      BY DEF IInv, StatsShape
    <3>2. stats[c][h] \in PingStats /\ (h \in replied[c]) \in BOOLEAN
      BY DEF IInv, TypeOK
    <3> QED BY <3>1, <3>2, Outcomes
  <2> QED BY <2>1
<1>4. \A h \in Hosts \ hosts[c] : R[h] = "unsent"
  BY Outcomes DEF IInv, StatsShape
<1>5. Results' = [Results EXCEPT ![c] = R]
  BY <1>1 DEF Results
<1> HIDE DEF R
<1> QED BY <1>2, <1>3, <1>4, <1>5 DEF Promise!Return, Busy

LEMMA Calls ==
  ASSUME IInv, NEW c \in Clients, NEW H \in Lists[c], Call(c, H)
  PROVE  Promise!Call(c, H)
<1>1. \A d \in Clients : pc'[d] = IF d = c THEN (IF H = {} THEN "idle" ELSE "ping") ELSE pc[d]
  BY DEF IInv, TypeOK, Call
<1>2. c \notin Busy /\ Busy' = Busy \cup (IF H = {} THEN {} ELSE {c})
  BY <1>1 DEF Busy, Call
<1>3. \A d \in Clients : stats'[d] = IF d = c THEN NoData ELSE stats[d]
  BY DEF IInv, TypeOK, Call
<1>4. Results' = [Results EXCEPT ![c] = [h \in Hosts |-> "unsent"]]
  <2>1. \A h \in Hosts : Outcome(stats'[c][h]) = "unsent"
    BY <1>3, FreshData, Outcomes
  <2>2. Results'[c] = [h \in Hosts |-> "unsent"]
    BY <2>1 DEF Results
  <2>3. \A d \in Clients : d # c => Results'[d] = Results[d]
    BY <1>1, <1>3 DEF Results
  <2>4. Results' = [d \in Clients |-> Results'[d]] /\ Results = [d \in Clients |-> Results[d]]
    BY DEF Results
  <2> QED BY <2>2, <2>3, <2>4
<1> QED BY <1>2, <1>4 DEF Promise!Call, Busy, Call

LEMMA StepImplements ==
  ASSUME IInv, [Next]_vars
  PROVE  Promise!Next \/ UNCHANGED <<Busy, hosts, Results>>
<1>1. ASSUME NEW c \in Clients, NEW H \in Lists[c], Call(c, H)
      PROVE  Promise!Next
  BY <1>1, Calls, ListsAssumption DEF Promise!Next, Hosts
<1>2. ASSUME NEW c \in Clients, Cleanup(c) \/ RestartFails(c)
      PROVE  Promise!Next
  <2>1. pc[c] # "idle" /\ pc' = [pc EXCEPT ![c] = "idle"] /\ UNCHANGED <<hosts, stats>>
    BY <1>2 DEF Cleanup, RestartFails, data
  <2> QED BY <2>1, Returns DEF Promise!Next
<1>3. ASSUME NEW c \in Clients, Restart(c) \/ Timeout(c)
      PROVE  UNCHANGED <<Busy, hosts, Results>>
  <2>1. /\ \A d \in Clients : pc'[d] = "idle" <=> pc[d] = "idle"
        /\ UNCHANGED <<hosts, stats>>
    BY <1>3 DEF IInv, TypeOK, Restart, Timeout, data
  <2> QED BY <2>1, Hidden
<1>4. ASSUME NEW p \in got["proc"], ProcessPacket(p)
      PROVE  UNCHANGED <<Busy, hosts, Results>>
  <2>1. pc[lock] # "idle" /\ UNCHANGED <<hosts, pc>>
    BY <1>4, Processing DEF IInv, TypeOK, ProcessPacket, caller
  <2>2. \A c \in Clients, h \in Hosts : pc[c] = "idle" => stats'[c][h] = stats[c][h]
    BY <1>4, <2>1, Processing
  <2> QED BY <2>1, <2>2, Hidden
<1>5. ASSUME NEW h \in Hosts, Prepare(h)
      PROVE  UNCHANGED <<Busy, hosts, Results>>
  <2>1. lock \in Clients /\ pc[lock] # "idle" /\ UNCHANGED <<hosts, pc>>
    BY <1>5 DEF IInv, TypeOK, Silent, Prepare, Running, caller
  <2>2. \A c \in Clients : c # lock => stats'[c] = stats[c]
    <3> DEFINE v == Send(stats[lock][h], seq)
    <3>1. stats' = [stats EXCEPT ![lock][h] = v]
      BY <1>5 DEF Prepare
    <3> HIDE DEF v
    <3> QED BY <2>1, <3>1 DEF IInv, TypeOK
  <2> QED BY <2>1, <2>2, Hidden
<1>6. CASE UNCHANGED <<hosts, stats, pc>>
  BY <1>6, Hidden
<1>7. ASSUME NEW h \in Hosts, NEW b \in BOOLEAN, SendPacket(h, b) \/ SendBreaks(h)
      PROVE  UNCHANGED <<hosts, stats, pc>>
  BY <1>7 DEF SendPacket, SendBreaks, data, caller
<1>8. CASE PrepareDone \/ SendDone
  BY <1>6, <1>8 DEF PrepareDone, SendDone, data, caller
<1>9. ASSUME NEW r \in Receivers, Receiver(r)
      PROVE  UNCHANGED <<hosts, stats, pc>>
  BY <1>9 DEF Receiver, RecvPacket, RecvForeign, RecvEnds, HandPacket, data, caller
<1>10. CASE UNCHANGED vars
  BY <1>6, <1>10 DEF vars, data, caller
<1>11. CASE Sender
  BY <1>5, <1>6, <1>7, <1>8, <1>11 DEF Sender
<1>12. CASE \E c \in Clients : Ping(c) \/ \E H \in Lists[c] : Call(c, H)
  BY <1>1, <1>2, <1>3, <1>12 DEF Ping
<1>13. CASE Process
  BY <1>4, <1>13 DEF Process
<1> QED BY <1>6, <1>9, <1>10, <1>11, <1>12, <1>13 DEF Next

LEMMA InitImplements == Init => Promise!Init
<1> SUFFICES ASSUME Init PROVE Promise!Init
  OBVIOUS
<1>1. {c \in Clients : pc[c] # "idle"} = {}
  BY DEF Init
<1>2. Results = [c \in Clients |-> [h \in Hosts |-> "unsent"]]
  BY FreshData, Outcomes DEF Init, Results
<1> QED BY <1>1, <1>2 DEF Init, Promise!Init

(***************************************************************************)
(* Ping implements PingSpec: between its call and its return every host was *)
(* pinged once, with or without an answer, or not at all, and nobody but    *)
(* the caller's own round changes the caller's data.                        *)
(***************************************************************************)
THEOREM Refinement == Spec => Implements
<1>1. IInv /\ [Next]_vars => [Promise!Next]_<<Busy, hosts, Results>>
  BY StepImplements
<1>2. Busy = {c \in Clients : pc[c] # "idle"}
  BY DEF Busy
<1> QED BY <1>1, <1>2, Invariance, InitImplements, PTL DEF Spec, Implements, Promise!Spec, Busy
=============================================================================
