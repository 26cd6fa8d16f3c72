----------------------------- MODULE MultiPing ------------------------------
(***************************************************************************)
(* The pinger every service of the agent shares: src/pkg/multiping.         *)
(*                                                                         *)
(* Ping takes the lock, opens sockets and starts the goroutines of a round: *)
(*   recv4, recv6  read the sockets and hand packets to                     *)
(*   proc          which finds the statistics a reply belongs to            *)
(*   prep          counts a request as sent and hands it to                 *)
(*   send          which writes it to the socket                            *)
(* After the timeout it closes the sockets, waits for the receivers and for *)
(* send, not for proc and prep, and forgets the caller's data.  A goroutine *)
(* that still needs the data then dereferences nil or races with the        *)
(* caller: the model stops there, with overrun.                             *)
(*                                                                         *)
(* Both channels are unbuffered, so a packet is held by one goroutine or    *)
(* the other.  The network loses, delays and repeats replies; what is still *)
(* on its way after a further round is taken as lost.                       *)
(***************************************************************************)
EXTENDS PingStats

CONSTANTS
  Clients,          \* the services that call Ping
  Hosts4, Hosts6,   \* addresses of either family
  Lists,            \* the lists of hosts a client may ask for
  SeqMod,           \* sequence numbers, 2^16
  Nobody

Hosts == Hosts4 \cup Hosts6

ASSUME HostsAssumption  == Hosts4 \cap Hosts6 = {}
ASSUME ListsAssumption  == Lists \in [Clients -> SUBSET SUBSET (Hosts4 \cup Hosts6)]
ASSUME SeqAssumption    == SeqMod \in Nat /\ SeqMod > 2
ASSUME NobodyAssumption == Nobody \notin Clients

VARIABLES
  hosts, stats,  \* each client's PingData: its keys, their statistics
  pc,            \* where each client is in Ping
  lock,          \* the client that holds the lock
  seq,           \* mp.sequence
  socks, open,   \* the families there is a socket for; not yet closed
  live,          \* running goroutines
  got,           \* the packet a receiver or proc is busy with
  todo,          \* hosts prep still has to visit
  offer,         \* the request prep offers to send
  wire,          \* replies to our requests on their way
  replied,       \* history: hosts that answered the client's last round
  overrun        \* a goroutine outlived its round

data   == <<hosts, stats>>
caller == <<pc, lock>>
conns  == <<socks, open>>
tx     == <<todo, offer>>
net    == <<wire, replied>>
vars   == <<data, caller, seq, conns, live, got, tx, net, overrun>>

Receivers == {"recv4", "recv6"}
Threads   == Receivers \cup {"proc", "prep", "send"}
Awaited   == Receivers \cup {"send"}  \* what the work group counts

\* mine: the packet carries our identifier and tracker
Packet == [host : Hosts, seq : 0 .. SeqMod - 1, mine : BOOLEAN]

HostsOf(r) == IF r = "recv4" THEN Hosts4 ELSE Hosts6

NoData == [h \in Hosts |-> NoStats]

\* mutant: zero is used as a number
NextSeq_Zero(s) == (s + 1) % SeqMod

NextSeq(s) == IF s + 1 = SeqMod THEN 1 ELSE s + 1

-----------------------------------------------------------------------------
(***************************************************************************)
(* A client calls Ping with new or reset statistics.                        *)
(***************************************************************************)
Call(c, H) ==
  /\ ~overrun
  /\ pc[c] = "idle"
  /\ hosts' = [hosts EXCEPT ![c] = H]
  /\ stats' = [stats EXCEPT ![c] = NoData]
  /\ replied' = [replied EXCEPT ![c] = {}]
  /\ pc' = [pc EXCEPT ![c] = IF H = {} THEN "idle" ELSE "ping"]
  /\ UNCHANGED <<lock, seq, conns, live, got, tx, wire, overrun>>

(***************************************************************************)
(* Ping with the lock: restart, which fails without an IPv4 socket, and the *)
(* start of the goroutines.                                                 *)
(***************************************************************************)
RestartFails(c) ==
  /\ ~overrun
  /\ pc[c] = "ping" /\ lock = Nobody
  /\ pc' = [pc EXCEPT ![c] = "idle"]
  /\ UNCHANGED <<data, lock, seq, conns, live, got, tx, net, overrun>>

Restart(c) ==
  /\ ~overrun
  /\ pc[c] = "ping" /\ lock = Nobody
  /\ pc' = [pc EXCEPT ![c] = "wait"]
  /\ lock' = c
  /\ seq' = NextSeq(seq)
  /\ socks' \in {{"recv4"}, Receivers}
  /\ open' = TRUE
  /\ live' = socks' \cup {"proc", "prep", "send"}
  /\ todo' = hosts[c]
  /\ wire' = {p \in wire : p.seq = seq}
  /\ UNCHANGED <<data, got, offer, replied, overrun>>

Timeout(c) ==
  /\ ~overrun
  /\ pc[c] = "wait"
  /\ pc' = [pc EXCEPT ![c] = "drain"]
  /\ open' = FALSE
  /\ UNCHANGED <<data, lock, seq, socks, live, got, tx, net, overrun>>

\* proc is busy, or prep has not noticed that nobody takes its packets
Late == got["proc"] # {} \/ ("prep" \in live /\ offer = {} /\ todo # {})

\* mutant: prep is in the work group
Cleanup_AllDone(c) ==
  /\ ~overrun
  /\ pc[c] = "drain"
  /\ live \subseteq {"proc"}
  /\ pc' = [pc EXCEPT ![c] = "idle"]
  /\ lock' = Nobody
  /\ overrun' = Late
  /\ socks' = {} /\ live' = {}
  /\ got' = [r \in Receivers \cup {"proc"} |-> {}]
  /\ todo' = {} /\ offer' = {}
  /\ UNCHANGED <<data, seq, open, net>>

\* a prep that is blocked stays so for ever: nobody hears of it again
Cleanup(c) ==
  /\ ~overrun
  /\ pc[c] = "drain"
  /\ live \cap Awaited = {}
  /\ pc' = [pc EXCEPT ![c] = "idle"]
  /\ lock' = Nobody
  /\ overrun' = Late
  /\ socks' = {} /\ live' = {}
  /\ got' = [r \in Receivers \cup {"proc"} |-> {}]
  /\ todo' = {} /\ offer' = {}
  /\ UNCHANGED <<data, seq, open, net>>

-----------------------------------------------------------------------------
(***************************************************************************)
(* batchPrepareIcmp and batchSendIcmp.                                      *)
(***************************************************************************)
Running(t) == ~overrun /\ t \in live

Prepare(h) ==
  /\ Running("prep")
  /\ offer = {} /\ h \in todo
  /\ stats' = [stats EXCEPT ![lock][h] = Send(stats[lock][h], seq)]
  /\ todo' = todo \ {h}
  /\ offer' = {h}
  /\ UNCHANGED <<hosts, caller, seq, conns, live, got, net, overrun>>

PrepareDone ==
  /\ Running("prep")
  /\ offer = {} /\ todo = {}
  /\ live' = live \ {"prep"}
  /\ UNCHANGED <<data, caller, seq, conns, got, tx, net, overrun>>

\* errors of a socket that is there are ignored
SendPacket(h, answered) ==
  /\ Running("send")
  /\ h \in offer
  /\ \E r \in socks : h \in HostsOf(r)
  /\ offer' = {}
  /\ answered => open
  /\ replied' = IF answered THEN [replied EXCEPT ![lock] = replied[lock] \cup {h}] ELSE replied
  /\ wire' = IF answered THEN wire \cup {[host |-> h, seq |-> seq, mine |-> TRUE]}
             ELSE wire
  /\ UNCHANGED <<data, caller, seq, conns, live, got, todo, overrun>>

\* ErrInvalidConn: send breaks, whatever prep still wants to send
SendBreaks(h) ==
  /\ Running("send")
  /\ h \in offer
  /\ \A r \in socks : h \notin HostsOf(r)
  /\ offer' = {}
  /\ live' = live \ {"send"}
  /\ UNCHANGED <<data, caller, seq, conns, got, todo, net, overrun>>

SendDone ==
  /\ Running("send")
  /\ offer = {} /\ "prep" \notin live
  /\ live' = live \ {"send"}
  /\ UNCHANGED <<data, caller, seq, conns, got, tx, net, overrun>>

-----------------------------------------------------------------------------
(***************************************************************************)
(* batchRecvICMP and batchProcessPacket.                                    *)
(***************************************************************************)
Arrives(r, p) ==
  /\ Running(r)
  /\ open /\ got[r] = {}
  /\ p.host \in HostsOf(r)
  /\ got' = [got EXCEPT ![r] = {p}]

\* the network may deliver the reply again
RecvPacket(r, p) ==
  /\ Arrives(r, p)
  /\ p \in wire
  /\ wire' \in {wire, wire \ {p}}
  /\ UNCHANGED <<data, caller, seq, conns, live, tx, replied, overrun>>

\* a reply to another program of this host
RecvForeign(r, h) ==
  /\ Arrives(r, [host |-> h, seq |-> seq, mine |-> FALSE])
  /\ UNCHANGED <<data, caller, seq, conns, live, tx, net, overrun>>

\* any error ends the receiver, and so does the closed socket
RecvEnds(r) ==
  /\ r \in Receivers
  /\ Running(r)
  /\ got[r] = {}
  /\ live' = live \ {r}
  /\ UNCHANGED <<data, caller, seq, conns, got, tx, net, overrun>>

HandPacket(r) ==
  /\ r \in Receivers
  /\ Running(r) /\ Running("proc")
  /\ got[r] # {} /\ got["proc"] = {}
  /\ got' = [got EXCEPT ![r] = {}, !["proc"] = got[r]]
  /\ UNCHANGED <<data, caller, seq, conns, live, tx, net, overrun>>

\* mutant: the tracker is not compared
Counts_Any(p) == p.host \in hosts[lock]

Counts(p) == p.mine /\ p.host \in hosts[lock]

ProcessPacket(p) ==
  /\ Running("proc")
  /\ p \in got["proc"]
  /\ got' = [got EXCEPT !["proc"] = {}]
  /\ stats' = IF Counts(p)
              THEN [stats EXCEPT ![lock][p.host] = Recv(stats[lock][p.host], p.seq)]
              ELSE stats
  /\ UNCHANGED <<hosts, caller, seq, conns, live, tx, net, overrun>>

-----------------------------------------------------------------------------
Init ==
  /\ hosts = [c \in Clients |-> {}]
  /\ stats = [c \in Clients |-> NoData]
  /\ pc = [c \in Clients |-> "idle"]
  /\ lock = Nobody
  /\ seq = SeqMod - 1
  /\ socks = {} /\ open = FALSE
  /\ live = {}
  /\ got = [r \in Receivers \cup {"proc"} |-> {}]
  /\ todo = {} /\ offer = {}
  /\ wire = {}
  /\ replied = [c \in Clients |-> {}]
  /\ overrun = FALSE

Sender == \/ PrepareDone \/ SendDone
          \/ \E h \in Hosts : \/ Prepare(h) \/ SendBreaks(h)
                              \/ \E answered \in BOOLEAN : SendPacket(h, answered)

Receiver(r) == \/ \E p \in wire : RecvPacket(r, p)
               \/ \E h \in Hosts : RecvForeign(r, h)
               \/ RecvEnds(r) \/ HandPacket(r)

Process == \E p \in got["proc"] : ProcessPacket(p)

Ping(c) == Restart(c) \/ RestartFails(c) \/ Timeout(c) \/ Cleanup(c)

Next ==
  \/ \E c \in Clients : Ping(c) \/ \E H \in Lists[c] : Call(c, H)
  \/ Sender \/ Process
  \/ \E r \in Receivers : Receiver(r)

Spec == Init /\ [][Next]_vars

(***************************************************************************)
(* Fairness: the timeout comes, goroutines that can go on do, a closed      *)
(* socket ends its reader, and Go's mutexes do not starve.                  *)
(***************************************************************************)
Fairness ==
  /\ \A c \in Clients :
       /\ SF_vars(Restart(c) \/ RestartFails(c))
       /\ WF_vars(Timeout(c)) /\ WF_vars(Cleanup(c))
  /\ WF_vars(Sender) /\ WF_vars(Process)
  /\ \A r \in Receivers : WF_vars(HandPacket(r)) /\ WF_vars(~open /\ RecvEnds(r))

LiveSpec == Spec /\ Fairness

-----------------------------------------------------------------------------
(***************************************************************************)
(* Type invariant.  Only the client with the lock is in a round.            *)
(***************************************************************************)
TypeOK ==
  /\ hosts \in [Clients -> SUBSET Hosts]
  /\ stats \in [Clients -> [Hosts -> PingStats]]
  /\ pc \in [Clients -> {"idle", "ping", "wait", "drain"}]
  /\ lock \in Clients \cup {Nobody}
  /\ \A c \in Clients : pc[c] \in {"wait", "drain"} <=> lock = c
  /\ seq \in 1 .. SeqMod - 1
  /\ socks \subseteq Receivers /\ open \in BOOLEAN
  /\ live \subseteq Threads /\ live \cap Receivers \subseteq socks
  /\ got \in [Receivers \cup {"proc"} -> SUBSET Packet]
  /\ todo \subseteq Hosts /\ offer \subseteq Hosts
  /\ wire \subseteq Packet
  /\ replied \in [Clients -> SUBSET Hosts]
  /\ overrun \in BOOLEAN

(***************************************************************************)
(* A host counts as having answered only if it did answer the request of    *)
(* this very round, and only once: not for a repeated or late reply, nor    *)
(* for a reply to somebody else.                                            *)
(***************************************************************************)
Truthful ==
  \A c \in Clients, h \in Hosts :
    /\ stats[c][h].rx <= stats[c][h].tx
    /\ stats[c][h].rx > 0 => h \in replied[c]

(***************************************************************************)
(* Ping keeps its promise (PingSpec): a host is pinged once or not at all.  *)
(***************************************************************************)
Outcome(s) == IF s.tx = 0 /\ s.rx = 0 THEN "unsent"
              ELSE IF s.tx = 1 /\ s.rx = 0 THEN "lost"
              ELSE IF s.tx = 1 /\ s.rx = 1 THEN "answered" ELSE "wrong"

Results == [c \in Clients |-> [h \in Hosts |->
             IF pc[c] = "idle" THEN Outcome(stats[c][h]) ELSE "unsent"]]

Promise == INSTANCE PingSpec WITH
             busy <- {c \in Clients : pc[c] # "idle"}, result <- Results

Implements == Promise!Spec

(***************************************************************************)
(* Ping returns, with dead hosts, missing sockets and a blocked prep ("Ping *)
(* is blocking function and runs for mp.Timeout time", ping.go).            *)
(***************************************************************************)
PingReturns ==
  \A c \in Clients : pc[c] = "ping" ~> (pc[c] = "idle" \/ overrun)

(***************************************************************************)
(* "wait for all goroutines to terminate and cleanup" (ping.go).            *)
(***************************************************************************)
NothingOutlives == ~overrun
=============================================================================
