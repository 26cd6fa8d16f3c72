------------------------------- MODULE MCMole -------------------------------
(* Small instances of Mole for TLC. *)
EXTENDS Mole

CONSTANTS g1, p1, p2, p3, s1, pub, sdn, e1, eth, k1, k2, k3

MCGid   == {g1}
MCIface == {pub, sdn}
MCIp    == {e1}
MCWan   == {eth}

Conf(k, i, gw, S) == [key |-> k, gid |-> g1, ifname |-> i, gw |-> gw, svc |-> S, ip |-> e1]

\* two tunnels to one remote agent, each on an interface of its own
TwoKey  == {k1, k2}
TwoAddr == {p1, p2, s1}
TwoBase == [a \in TwoAddr |-> a]
TwoPeer == {Conf(k1, pub, p1, {s1}), Conf(k2, sdn, p2, {s1})}

\* beside them a peer without services on the interface of the second; the
\* address of the first is where the network of the service begins
ThreeKey  == {k1, k2, k3}
ThreeAddr == {p1, p2, p3, s1}
ThreeBase == [a \in ThreeAddr |-> IF a = s1 THEN p1 ELSE a]
ThreePeer == TwoPeer \cup {Conf(k3, sdn, p3, {})}
=============================================================================
