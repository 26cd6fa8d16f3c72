------------------------------ MODULE MCRouter ------------------------------
(* Small instances of Router for TLC. *)
EXTENDS Router

CONSTANTS g1, g2, h1, h2, p1, p2, q1, r1, r2, t1, s1, u1, u2, pub, sdn, vol

Path(g, gw, i, S) == [gid |-> g, gw |-> gw, ifname |-> i, svc |-> S]
Ref(o)            == [gid |-> o.gid, gw |-> o.gw, svc |-> o.svc]

\* two groups that publish the same service; a second service of the first
\* group has the address of the other group's peer
SharedGid   == {g1, g2}
SharedAddr  == {p1, p2, q1, s1}
SharedIface == {pub, sdn}
SharedOffer == {Path(g1, p1, pub, {s1, q1}), Path(g1, p2, sdn, {s1}), Path(g2, q1, pub, {s1})}
SharedRef   == {Ref(o) : o \in SharedOffer}

\* groups that share no destination; the second one has an interface that
\* comes and goes, and another program has routes for its service
OwnGid   == {h1, h2}
OwnAddr  == {r1, r2, t1, u1, u2}
OwnOffer == {Path(h1, r1, pub, {u1}), Path(h1, r2, sdn, {u1}), Path(h2, t1, vol, {u2})}

MCGid     == SharedGid \cup OwnGid
MCAddr    == SharedAddr \cup OwnAddr
MCIface   == {pub, sdn, vol}
MCOffer   == SharedOffer \cup OwnOffer
\* a WG_CONF does not remove p2, only a CONFIG_INFO without it does
MCRef     == {Ref(o) : o \in {x \in MCOffer : x.gw # p2}}
\* the service both groups publish begins with the address of a peer, the one
\* another program has routes for with that of the peer that provides it
MCBase    == [a \in MCAddr |-> CASE a = s1 -> q1 [] a = u2 -> t1 [] OTHER -> a]
MCVolatile == {vol}
MCForeign  == {u2}

Undisturbed == links = Iface /\ \A a \in MCForeign : kernel[a] = NoRoute

\* three scenarios are explored one at a time: the first pair of groups, a
\* group with two paths of its own, and the same with one path beside a group
\* that is disturbed
OneScenario ==
  \/ Undisturbed /\ DOMAIN routes \subseteq SharedGid /\ \A a \in OwnAddr : kernel[a] = NoRoute
  \/ Undisturbed /\ DOMAIN routes \subseteq {h1} /\ \A a \in SharedAddr : kernel[a] = NoRoute
  \/ /\ DOMAIN routes \subseteq OwnGid /\ \A a \in SharedAddr \cup {r2} : kernel[a] = NoRoute
     /\ h1 \in DOMAIN routes => r2 \notin DOMAIN routes[h1].peers

\* after Close a message or a ping round that was being executed goes on, but
\* no other starts
NothingNew == closed /\ Settled => Settled'
=============================================================================
