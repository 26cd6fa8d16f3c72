---------------------------- MODULE RouteSelector ----------------------------
(***************************************************************************)
(* The choice of the best path of one connection group: ping statistics     *)
(* (peermon/peerlist) and the two strategies of peermon/routeselector.      *)
(*                                                                         *)
(* A peer keeps the latency and loss of its last Window ping rounds; what   *)
(* was never measured counts as zero.  BestRoute finds the momentary best   *)
(* in a loop over a Go map, whose order is random; a strategy compares it   *)
(* with the path in use and decides.  "speed" moves to a clearly faster     *)
(* path, "dr" prefers the direct (public) one unless it is clearly slower,  *)
(* and counts how often an alternative that is not clearly better wins.     *)
(*                                                                         *)
(* PingProcess and Apply hold the router's mutex and both end in BestPath.  *)
(* Averages are fractions and compared by cross-multiplication; losses are  *)
(* sums, all windows having one length.                                     *)
(***************************************************************************)
EXTENDS Integers, SequencesExt, Maps

CONSTANTS
  Peer,        \* addresses of the peers of the group
  Public,      \* the one behind the public interface
  Conflicting, \* those that may be in conflict with another group
  Window,      \* SYNTROPY_PEERCHECK_WINDOW
  Sample,      \* peer -> results a ping round may have
  RatioNum, RatioDen, Diff,  \* reroute thresholds, the ratio as a fraction
  DeleteLoss,  \* SYNTROPY_ROUTEDEL_LOSS_THRESHOLD in percent, 0 is off
  NoPeer

Unmeasured == [lat |-> 0, loss |-> 0]

ASSUME PeerAssumption   == Public \in Peer /\ Conflicting \subseteq Peer /\ NoPeer \notin Peer
ASSUME WindowAssumption == Window \in Nat \ {0}
\* a round sends one packet to a peer: what is lost has no latency
ASSUME SampleAssumption ==
  /\ Sample \in [Peer -> SUBSET [lat : Nat, loss : 0..1]]
  /\ \A p \in Peer : \A s \in Sample[p] : s.loss = 1 => s.lat = 0
ASSUME ThresholdAssumption ==
  /\ {RatioNum, RatioDen, Diff} \subseteq Nat \ {0}
  /\ RatioNum > RatioDen
  /\ DeleteLoss \in 0..100

VARIABLES
  strategy,  \* SYNTROPY_ROUTE_STRATEGY
  peers,     \* peer -> flags and the window, oldest round first
  sel,       \* bestRoute and the underdog, a candidate and its count
  path,      \* what BestPath returned last
  steady     \* from now on every link keeps the last result it had

vars == <<strategy, peers, sel, path, steady>>

-----------------------------------------------------------------------------
(* peerlist/peerinfo.go *)

NewPeerInfo == [flags |-> {}, window |-> [n \in 1..Window |-> Unmeasured]]

Add(info, s) == [info EXCEPT !.window = Append(Tail(@), s)]

Answers(info) == {n \in 1..Window : info.window[n].lat > 0}

Sum(f) ==
  LET sum[n \in 1..Window] == IF n = 1 THEN f[1] ELSE sum[n - 1] + f[n]
  IN  sum[Window]

\* a round without an answer adds nothing
Latency(info) ==
  [sum   |-> Sum([n \in 1..Window |-> info.window[n].lat]),
   count |-> IF Answers(info) = {} THEN 1 ELSE Cardinality(Answers(info))]

Loss(info) == Sum([n \in 1..Window |-> info.window[n].loss])

StatsIncomplete(info) == Answers(info) # 1..Window

Valid(info) == info.flags = {} /\ (Answers(info) # {} \/ Loss(info) > 0)

Faster(a, b) == LET x == Latency(a)  y == Latency(b) IN x.sum * y.count < y.sum * x.count

\* b is faster than a by both thresholds, each divided by k
Exceeds(a, b, k) ==
  LET x == Latency(a)
      y == Latency(b)
  IN  /\ k * RatioDen * x.sum * y.count >= RatioNum * y.sum * x.count
      /\ k * (x.sum * y.count - y.sum * x.count) >= Diff * x.count * y.count

-----------------------------------------------------------------------------
(* peerlist/best.go *)
\* mutant: latency decides before loss
Better_LatencyFirst(new, old) ==
  Valid(new) /\ (Faster(new, old) \/ (~Faster(old, new) /\ Loss(new) < Loss(old)))

Better(new, old) ==
  /\ Valid(new)
  /\ \/ Loss(new) < Loss(old)
     \/ Loss(new) = Loss(old) /\ Answers(new) # {} /\ Faster(new, old)

\* The first entry of the map is taken as it is, the others have to be better.
BestIn(pl, order) ==
  LET best[n \in 1..Cardinality(DOMAIN pl)] ==
        IF n = 1 THEN order[1]
        ELSE IF Better(pl[order[n]], pl[best[n - 1]]) THEN order[n] ELSE best[n - 1]
  IN  best[Cardinality(DOMAIN pl)]

BestRoutes(pl) ==
  IF DOMAIN pl = {} THEN {} ELSE {BestIn(pl, order) : order \in SetToSeqs(DOMAIN pl)}

-----------------------------------------------------------------------------
(* routeselector/speed and routeselector/dr: calculate *)

Nothing == [best |-> NoPeer, underdog |-> NoPeer, count |-> 0]

Live(pl, s) == s.best \in DOMAIN pl

Speed(pl, s, new) ==
  IF \/ ~Live(pl, s)
     \/ Loss(pl[new]) < Loss(pl[s.best])
     \/ ~StatsIncomplete(pl[new]) /\ Exceeds(pl[s.best], pl[new], 1)
  THEN [s EXCEPT !.best = new]
  ELSE s

\* candidate.reset after a decision, candidate.update, candidate.recommended
Keep(p) == [best |-> p, underdog |-> p, count |-> 0]

\* mutant: the underdog is never counted
Watch_Forgets(s, p) == [best |-> s.best, underdog |-> p, count |-> 0]

\* count is only compared with the window, so it stops there
Watch(s, p) ==
  [best     |-> s.best,
   underdog |-> p,
   count    |-> IF s.underdog # p THEN 0
                ELSE IF s.count < Window THEN s.count + 1 ELSE s.count]

Recommended(s, p) == s.underdog = p /\ s.count >= Window

\* not everything is measured yet
DirectIncomplete(pl, s) ==
  IF s.best # NoPeer THEN Keep(s.best)
  ELSE IF Loss(pl[Public]) = 0 /\ Answers(pl[Public]) # {} THEN Keep(Public)
  ELSE Keep(NoPeer)

\* the public or the current path loses packets
DirectByLoss(pl, s, new) ==
  LET first == IF Loss(pl[Public]) < Loss(pl[new]) THEN Public ELSE new
  IN  Keep(IF Live(pl, s) /\ Loss(pl[s.best]) < Loss(pl[first]) THEN s.best ELSE first)

\* public is clearly slower than the best
DirectToRelay(pl, s, new) ==
  IF \/ ~Live(pl, s)
     \/ s.best = new
     \/ Recommended(s, new)
     \/ Exceeds(pl[s.best], pl[new], 2)
  THEN Keep(new)
  ELSE Watch(s, new)

\* public is acceptable
DirectToPublic(pl, s) ==
  IF \/ s.best = Public
     \/ ~Live(pl, s)
     \/ Faster(pl[Public], pl[s.best])
     \/ Recommended(s, Public)
     \/ ~Exceeds(pl[Public], pl[s.best], 2)
  THEN Keep(Public)
  ELSE Watch(s, Public)

\* mutant: only one of the two losses is looked at
LosesPackets_PublicOnly(pl, s)  == Loss(pl[Public]) > 0
LosesPackets_CurrentOnly(pl, s) == Live(pl, s) /\ Loss(pl[s.best]) > 0

LosesPackets(pl, s) == Loss(pl[Public]) > 0 \/ (Live(pl, s) /\ Loss(pl[s.best]) > 0)

Direct(pl, s, new) ==
  IF Public \notin DOMAIN pl THEN Keep(new)
  ELSE IF StatsIncomplete(pl[new]) THEN DirectIncomplete(pl, s)
  ELSE IF new = Public THEN IF s.best = Public THEN s ELSE Keep(Public)
  ELSE IF LosesPackets(pl, s) THEN DirectByLoss(pl, s, new)
  ELSE IF Exceeds(pl[Public], pl[new], 1) THEN DirectToRelay(pl, s, new)
  ELSE DirectToPublic(pl, s)

Calculate(pl, s) ==
  {IF strategy = "speed" THEN Speed(pl, s, new) ELSE Direct(pl, s, new) : new \in BestRoutes(pl)}

TooLossy(info) == DeleteLoss > 0 /\ 100 * Loss(info) >= DeleteLoss * Window

BestPath(pl, s) ==
  \/ /\ DOMAIN pl = {}
     /\ sel' = [s EXCEPT !.best = NoPeer]
     /\ path' = NoPeer
  \/ \E c \in Calculate(pl, s) :
       /\ sel' = c
       /\ path' = IF Live(pl, c) /\ ~TooLossy(pl[c.best]) THEN c.best ELSE NoPeer

-----------------------------------------------------------------------------
(* Messages to the group, Apply, ping rounds *)

WithFlags(pl, p, F) == Put(pl, p, [pl[p] EXCEPT !.flags = F])

AddPeer(p, disabled) ==
  /\ ~steady
  /\ LET known == p \in DOMAIN peers
         pl    == IF known THEN peers ELSE Put(peers, p, NewPeerInfo)
     IN  peers' = WithFlags(pl, p, (pl[p].flags \ {"DelPending"}) \cup {"AddPending"}
                                     \cup (IF disabled THEN {"Disabled"} ELSE {}))
  /\ UNCHANGED <<strategy, sel, path, steady>>

DelPeer(p) ==
  /\ ~steady
  /\ p \in DOMAIN peers
  /\ peers' = WithFlags(peers, p, peers[p].flags \cup {"DelPending"})
  /\ UNCHANGED <<strategy, sel, path, steady>>

ResolveIpConflict(p) ==
  /\ ~steady
  /\ p \in DOMAIN peers /\ "Disabled" \in peers[p].flags
  /\ peers' = WithFlags(peers, p, peers[p].flags \ {"Disabled"})
  /\ UNCHANGED <<strategy, sel, path, steady>>

Dropped(info) ==
  "DelPending" \in info.flags /\ ("Disabled" \in info.flags \/ "AddPending" \notin info.flags)

Applied == [p \in {q \in DOMAIN peers : ~Dropped(peers[q])} |->
              IF "Disabled" \in peers[p].flags THEN peers[p] ELSE [peers[p] EXCEPT !.flags = {}]]

\* A group that lost its last peer is dropped with its selector.
Apply ==
  /\ ~steady
  /\ DOMAIN peers # {}
  /\ peers' = Applied
  /\ BestPath(Applied, IF DOMAIN Applied = {} THEN Nothing ELSE sel)
  /\ UNCHANGED <<strategy, steady>>

\* Statistics of the peers in S, then rerouteServices.
Measured(S, result) ==
  [p \in DOMAIN peers |-> IF p \in S /\ peers[p].flags = {} THEN Add(peers[p], result[p]) ELSE peers[p]]

PingProcess(S, result) ==
  LET pl == Measured(S, result)
  IN  peers' = pl /\ BestPath(pl, sel) /\ UNCHANGED <<strategy, steady>>

Round ==
  /\ ~steady
  /\ \E S \in SUBSET DOMAIN peers : \E result \in [S -> UNION {Sample[p] : p \in S}] :
       /\ \A p \in S : peers[p].flags = {} /\ result[p] \in Sample[p]
       /\ S # {}
       /\ PingProcess(S, result)

\* The network and the controller come to rest.
LinksSettle ==
  /\ ~steady
  /\ DOMAIN peers # {}
  /\ \A p \in DOMAIN peers : peers[p].flags = {} /\ peers[p].window[Window] # Unmeasured
  /\ steady' = TRUE
  /\ UNCHANGED <<strategy, peers, sel, path>>

SteadyRound ==
  /\ steady
  /\ PingProcess(DOMAIN peers, [p \in DOMAIN peers |-> peers[p].window[Window]])

Init ==
  /\ strategy \in {"speed", "dr"}
  /\ peers = EmptyMap
  /\ sel = Nothing
  /\ path = NoPeer
  /\ steady = FALSE

Next ==
  \/ \E p \in Peer : AddPeer(p, FALSE) \/ DelPeer(p)
  \/ \E p \in Conflicting : AddPeer(p, TRUE) \/ ResolveIpConflict(p)
  \/ Apply \/ Round \/ LinksSettle \/ SteadyRound

Fairness == WF_vars(SteadyRound)

Spec == Init /\ [][Next]_vars /\ Fairness
-----------------------------------------------------------------------------
(* Properties *)

Flags == {"AddPending", "DelPending", "Disabled"}

Selection == [best : Peer \cup {NoPeer}, underdog : Peer \cup {NoPeer}, count : 0..Window]

\* Types; a peer is disabled only when a conflict was possible, and what
\* is returned as the path is the selected one or none.
TypeOK ==
  /\ strategy \in {"speed", "dr"}
  /\ IsMap(peers, Peer)
  /\ \A p \in DOMAIN peers :
       peers[p] \in [flags  : SUBSET IF p \in Conflicting THEN Flags ELSE Flags \ {"Disabled"},
                     window : [1..Window -> Sample[p] \cup {Unmeasured}]]
  /\ sel \in Selection
  /\ path \in {sel.best, NoPeer}
  /\ steady \in BOOLEAN

\* No peer of the group is pending, and each was measured Window times.
Complete ==
  /\ DOMAIN peers # {}
  /\ \A p \in DOMAIN peers :
       peers[p].flags = {} /\ \A n \in 1..Window : peers[p].window[n] # Unmeasured

\* Whatever the order of Go's map iteration, BestRoute (best.go) finds a peer
\* with the least loss, and none of equal loss is faster.  (And the statistics
\* it works on have their types.)
BestIsLeast ==
  /\ TypeOK
  /\ Complete =>
       \A b \in BestRoutes(peers), p \in DOMAIN peers :
         \/ Loss(peers[b]) < Loss(peers[p])
         \/ Loss(peers[b]) = Loss(peers[p]) /\ ~(Answers(peers[p]) # {} /\ Faster(peers[p], peers[b]))

\* "Lower loss is a must" (speed.go:74, dr.go:173): when everything is
\* measured, no peer loses less than the selected one.  The strategy dr only
\* knows this of peers whose window has no lost round (StatsIncomplete).
\* A path without loss is not withheld.
LossIsAMust ==
  Complete =>
    \A p \in DOMAIN peers :
      strategy = "speed" \/ ~StatsIncomplete(peers[p]) =>
        /\ Loss(peers[sel.best]) <= Loss(peers[p])
        /\ Loss(peers[p]) = 0 => path = sel.best

\* "try prevent instant route flopping" (dr.go:211): Apply calls BestPath
\* again and again on the same statistics; if there is one best route, a path
\* that was just left is not taken again.
NoFlap ==
  Cardinality(BestRoutes(peers)) = 1 =>
    \A c \in Calculate(peers, sel) : \A d \in Calculate(peers, c) :
      c.best # sel.best => d.best # sel.best

\* What a strategy aims at when new is the momentary best and nothing changes:
\* speed, a path that is not clearly slower; dr, the public path unless it
\* loses packets or is clearly slower.
Goal(new) ==
  IF strategy = "speed"
  THEN {p \in DOMAIN peers : Loss(peers[p]) = Loss(peers[new]) /\ ~Exceeds(peers[p], peers[new], 1)}
  ELSE IF \/ Public \notin DOMAIN peers
          \/ Loss(peers[Public]) > 0
          \/ Exceeds(peers[Public], peers[new], 1)
  THEN {new}
  ELSE {Public}

\* On links that no longer change the selection comes to rest at its goal:
\* the underdog counter (dr.go:18-43) overcomes the thresholds that keep a
\* slightly worse path, provided one best route exists and loses nothing.
LongTermBest ==
  <>[](steady =>
         \A new \in DOMAIN peers :
           BestRoutes(peers) = {new} /\ ~StatsIncomplete(peers[new]) => sel.best \in Goal(new))
=============================================================================
