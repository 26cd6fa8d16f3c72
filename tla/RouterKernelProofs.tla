------------------------- MODULE RouterKernelProofs -------------------------
(***************************************************************************)
(* Proof that the kernel's table agrees with the routing cache, and that    *)
(* closing the router leaves no route behind, for the destinations that are *)
(* one group's own (OwnDest).                                               *)
(*                                                                         *)
(* The invariant is stated for one destination at a time.  An own           *)
(* destination is never in conflict, so it is never disabled, and what its  *)
(* one group holds for it stems from an offer of the controller.  Synced is *)
(* what CacheMatchesKernel needs; the other parts make it inductive.  A     *)
(* group that has lost its last peer is forgotten with its services: their  *)
(* routes are gone by then, since an entry is to be deleted before its peer *)
(* is (Backed) and every list has been applied (Applied).                   *)
(***************************************************************************)
EXTENDS RouterProofs

OffersPeer(g, a, i) ==
  \E o \in Offer : o.gid = g /\ o.gw = a /\ o.ifname = i

OffersService(g, a) == \E o \in Offer : o.gid = g /\ a \in o.svc

OffersEntry(g, a, gw, i) ==
  \E o \in Offer : o.gid = g /\ a \in o.svc /\ o.gw = gw /\ o.ifname = i

GoodPeer(g, a, p) == "Disabled" \notin p.flags /\ OffersPeer(g, a, p.ifname)

GoodService(g, a, rl) ==
  /\ ~rl.disabled
  /\ OffersService(g, a)
  /\ \A gw \in DOMAIN rl.list : OffersEntry(g, a, gw, rl.list[gw].ifname)

Origin(a) ==
  \A g \in DOMAIN routes :
    /\ a \in DOMAIN routes[g].peers => GoodPeer(g, a, routes[g].peers[a])
    /\ a \in DOMAIN routes[g].services => GoodService(g, a, routes[g].services[a])

\* the route of a service, and of a peer that may not be applied yet
ServiceRouted(list, dev) ==
  /\ \A gw \in Having(list, "Active") : list[gw].ifname = dev
  /\ Having(list, "Active") = {} => dev = NoRoute

PeerRouted(p, dev) == dev = p.ifname \/ ("AddPending" \in p.flags /\ dev = NoRoute)

Unknown(a) ==
  \A g \in DOMAIN routes : a \notin DOMAIN routes[g].peers /\ a \notin DOMAIN routes[g].services

Synced(a) ==
  /\ \A g \in DOMAIN routes :
       /\ a \in DOMAIN routes[g].peers => PeerRouted(routes[g].peers[a], kernel[a])
       /\ a \in DOMAIN routes[g].services => ServiceRouted(routes[g].services[a].list, kernel[a])
  /\ Unknown(a) => kernel[a] = NoRoute

\* an entry is to be deleted, or its peer is there to stay
EntryBacked(e, gw, pl) ==
  "PendingDel" \in e.flags \/ (gw \in DOMAIN pl /\ "DelPending" \notin pl[gw].flags)

ListBacked(list, pl) == \A gw \in DOMAIN list : EntryBacked(list[gw], gw, pl)

Backed(a) ==
  \A g \in DOMAIN routes :
    a \in DOMAIN routes[g].services /\ (phase = "close" => g \in todo) =>
      ListBacked(routes[g].services[a].list, routes[g].peers)

Applied(a) ==
  phase = "apply" => \A g \in DOMAIN routes \ todo :
    a \in DOMAIN routes[g].services =>
      \/ Unpending(routes[g].services[a].list)
      \/ loop # NoLoop /\ loop.gid = g /\ a \in loop.todo

\* the peers of group g have been applied since the last message
PeersDone(g) == IF phase = "apply" THEN g \notin todo ELSE phase = "resolve" \/ job = "none"

AtRest(a) ==
  \A g \in DOMAIN routes : a \in DOMAIN routes[g].peers =>
    /\ PeersDone(g) => routes[g].peers[a].flags = {}
    /\ phase = "close" /\ job = "none" => g \in todo

DestInv(a) == Origin(a) /\ Synced(a) /\ Backed(a) /\ Applied(a) /\ AtRest(a)

LinksUp == Iface \ Volatile \subseteq links

KInv == CInv /\ LinksUp /\ \A a \in OwnDest : DestInv(a)

-----------------------------------------------------------------------------
(***************************************************************************)
(* What is offered for an own destination.                                 *)
(***************************************************************************)
LEMMA OwnOffers ==
  ASSUME NEW a \in OwnDest, NEW o \in Offer, NEW n \in Offer,
         a \in Dests(o), a \in Dests(n)
  PROVE  /\ o.gid = n.gid
         /\ a = o.gw => a \notin n.svc /\ o.ifname = n.ifname
         /\ o.ifname \in Iface \ Volatile
<1>1. Unshared(a) /\ Steady(a) /\ a \in Addr /\ o.ifname \in Iface
  BY OfferAssumption DEF OwnDest, NetPath
<1> QED BY <1>1 DEF Unshared, Steady

LEMMA OwnService ==
  ASSUME KInv, NEW a \in OwnDest, NEW g \in DOMAIN routes,
         a \in DOMAIN routes[g].services
  PROVE  /\ ~routes[g].services[a].disabled
         /\ OffersService(g, a)
         /\ \A gw \in DOMAIN routes[g].services[a].list :
              routes[g].services[a].list[gw].ifname \in links
<1>1. GoodService(g, a, routes[g].services[a])
  BY DEF KInv, DestInv, Origin
<1>2. \A gw, i : OffersEntry(g, a, gw, i) => i \in links
  BY OwnOffers DEF OffersEntry, Dests, KInv, LinksUp
<1> QED BY <1>1, <1>2 DEF GoodService

LEMMA OwnPeer ==
  ASSUME KInv, NEW a \in OwnDest, NEW g \in DOMAIN routes,
         a \in DOMAIN routes[g].peers
  PROVE  /\ "Disabled" \notin routes[g].peers[a].flags
         /\ OffersPeer(g, a, routes[g].peers[a].ifname)
         /\ routes[g].peers[a].ifname \in links
<1>1. GoodPeer(g, a, routes[g].peers[a])
  BY DEF KInv, DestInv, Origin
<1>2. \A i : OffersPeer(g, a, i) => i \in links
  BY OwnOffers DEF OffersPeer, Dests, KInv, LinksUp
<1> QED BY <1>1, <1>2 DEF GoodPeer

\* an own destination is known to one group, as a peer or as a service
LEMMA OneHolder ==
  ASSUME KInv, NEW a \in OwnDest, NEW g \in DOMAIN routes, NEW h \in DOMAIN routes,
         a \in DOMAIN routes[h].peers \/ a \in DOMAIN routes[h].services
  PROVE  /\ a \in DOMAIN routes[g].peers => g = h /\ a \notin DOMAIN routes[h].services
         /\ a \in DOMAIN routes[g].services => g = h /\ a \notin DOMAIN routes[h].peers
<1>1. \A k \in DOMAIN routes :
        /\ a \in DOMAIN routes[k].peers =>
             \E o \in Offer : o.gid = k /\ o.gw = a
        /\ a \in DOMAIN routes[k].services =>
             \E o \in Offer : o.gid = k /\ a \in o.svc
  BY OwnPeer, OwnService DEF OffersPeer, OffersService
<1>2. \A o, n \in Offer : a \in Dests(o) /\ a \in Dests(n) =>
        o.gid = n.gid /\ (a = o.gw => a \notin n.svc)
  BY OwnOffers
<1> QED BY <1>1, <1>2 DEF Dests

-----------------------------------------------------------------------------
(***************************************************************************)
(* Steps that leave the cache and the route of a destination as they are.   *)
(***************************************************************************)
LEMMA SameCache ==
  ASSUME NEW a, Origin(a), Synced(a), routes' = routes, kernel'[a] = kernel[a]
  PROVE  Origin(a)' /\ Synced(a)'
<1>1. Origin(a)'
  BY DEF Origin
<1>2. Synced(a)'
  BY DEF Synced, Unknown
<1> QED BY <1>1, <1>2

LEMMA ControlKernel ==
  ASSUME KInv, NEW a \in OwnDest,
         WgConf \/ Apply \/ PingProcess \/ EndReroute \/ EndResolve
  PROVE  DestInv(a)'
<1>1. /\ routes' = routes /\ kernel' = kernel /\ DestInv(a)
      /\ phase # "close" /\ phase' # "close"
  BY DEF WgConf, Apply, PingProcess, EndReroute, EndResolve, KInv, Settled, Idle
<1>2. Origin(a)' /\ Synced(a)'
  BY <1>1, SameCache DEF DestInv
<1>3. Backed(a)'
  BY <1>1 DEF DestInv, Backed
<1>4. Applied(a)'
  BY <1>1 DEF WgConf, Apply, PingProcess, EndReroute, EndResolve, Settled, Idle, Applied
<1>5. AtRest(a)'
  BY <1>1 DEF WgConf, Apply, PingProcess, EndReroute, EndResolve, Settled, Idle,
              DestInv, AtRest, PeersDone
<1> QED BY <1>2, <1>3, <1>4, <1>5 DEF DestInv

LEMMA RerouteGroupKernel ==
  ASSUME KInv, NEW a \in OwnDest, NEW g, RerouteGroup(g)
  PROVE  DestInv(a)'
<1>1. /\ routes' = routes /\ kernel' = kernel /\ DestInv(a) /\ job' = job
      /\ phase = "reroute" /\ phase' = phase
  BY DEF RerouteGroup, KInv
<1>2. Origin(a)' /\ Synced(a)'
  BY <1>1, SameCache DEF DestInv
<1>3. Backed(a)' /\ Applied(a)' /\ AtRest(a)'
  BY <1>1 DEF DestInv, Backed, Applied, AtRest, PeersDone
<1> QED BY <1>2, <1>3 DEF DestInv

LEMMA CloseKernel ==
  ASSUME KInv, NEW a \in OwnDest, Close
  PROVE  DestInv(a)'
<1>1. /\ routes' = routes /\ kernel' = kernel /\ DestInv(a) /\ job' = job
      /\ phase = "idle" /\ phase' \in {"idle", "close"}
      /\ phase' = "close" => todo' = DOMAIN routes
  BY DEF Close, Idle, KInv
<1>2. Origin(a)' /\ Synced(a)'
  BY <1>1, SameCache DEF DestInv
<1>3. Backed(a)' /\ Applied(a)' /\ AtRest(a)'
  BY <1>1 DEF DestInv, Backed, Applied, AtRest, PeersDone
<1> QED BY <1>2, <1>3 DEF DestInv

LEMMA EndCloseKernel ==
  ASSUME KInv, NEW a \in OwnDest, EndClose
  PROVE  DestInv(a)'
<1>1. /\ routes' = routes /\ kernel' = kernel /\ DestInv(a) /\ job' = job
      /\ phase = "close" /\ phase' = "idle" /\ todo = {} /\ loop = NoLoop
  BY DEF EndClose, KInv
<1>2. Origin(a)' /\ Synced(a)'
  BY <1>1, SameCache DEF DestInv
<1>3. \A g \in DOMAIN routes : DOMAIN routes[g].services = {}
  BY <1>1 DEF KInv, CInv, Closing, Emptied
<1>4. Backed(a)' /\ Applied(a)' /\ AtRest(a)'
  BY <1>1, <1>3 DEF DestInv, Backed, Applied, AtRest, PeersDone
<1> QED BY <1>2, <1>4 DEF DestInv

LEMMA EnvironmentKernel ==
  ASSUME KInv, Environment
  PROVE  LinksUp' /\ \A a \in OwnDest : DestInv(a)'
<1>1. UNCHANGED <<routes, job, phase, iter, todo, loop, solved, closed>>
  BY DEF Environment, LinkDel, LinkAdd, ForeignAdd, ForeignDel
<1>2. LinksUp'
  BY DEF Environment, LinkDel, LinkAdd, ForeignAdd, ForeignDel, KInv, LinksUp
<1>3. ASSUME NEW a \in OwnDest PROVE kernel'[a] = kernel[a]
  <2>1. /\ a \in Addr /\ a \notin ForeignDst
        /\ kernel \in [Addr -> Iface \cup {OtherDev, NoRoute}]
    BY DEF OwnDest, KInv, CInv, IInv, ControlType
  <2>2. kernel[a] \in {NoRoute} \cup (Iface \ Volatile)
    <3>1. CASE Unknown(a)
      BY <3>1 DEF KInv, DestInv, Synced
    <3>2. CASE ~Unknown(a)
      <4>1. PICK g \in DOMAIN routes : a \in DOMAIN routes[g].peers \cup DOMAIN routes[g].services
        BY <3>2 DEF Unknown
      <4>2. Origin(a) /\ Synced(a)
        BY DEF KInv, DestInv
      <4>3. \A o \in Offer : a \in Dests(o) => o.ifname \in Iface \ Volatile
        BY OwnOffers
      <4>4. CASE a \in DOMAIN routes[g].peers
        BY <4>2, <4>3, <4>4 DEF Origin, Synced, GoodPeer, PeerRouted, OffersPeer, Dests
      <4>5. CASE a \in DOMAIN routes[g].services
        BY <4>2, <4>3, <4>5 DEF Origin, Synced, GoodService, ServiceRouted, OffersEntry, Dests, Having
      <4> QED BY <4>1, <4>4, <4>5
    <3> QED BY <3>1, <3>2
  <2>3. kernel[a] # OtherDev
    BY <2>2, NullAssumption
  <2> QED BY <2>1, <2>2, <2>3, NullAssumption, LinkAssumption
          DEF Environment, LinkDel, LinkAdd, ForeignAdd, ForeignDel
<1>4. ASSUME NEW a \in OwnDest PROVE DestInv(a)'
  <2>1. Origin(a)' /\ Synced(a)'
    BY <1>1, <1>3, SameCache DEF KInv, DestInv
  <2>2. Backed(a)' /\ Applied(a)' /\ AtRest(a)'
    BY <1>1 DEF KInv, DestInv, Backed, Applied, AtRest, PeersDone
  <2> QED BY <2>1, <2>2 DEF DestInv
<1> QED BY <1>2, <1>4
-----------------------------------------------------------------------------
(***************************************************************************)
(* The service loops.  The step at service s changes the list of s and the  *)
(* route to s.                                                              *)
(***************************************************************************)
\* a step at another service
LEMMA OtherService ==
  ASSUME KInv, NEW a \in OwnDest, NEW p, NEW s, AtService(p, s), a # s,
         kernel'[a] = kernel[a],
         DOMAIN routes' = DOMAIN routes,
         \A h \in DOMAIN routes :
           /\ routes'[h].peers = routes[h].peers
           /\ a \in DOMAIN routes'[h].services <=> a \in DOMAIN routes[h].services
           /\ a \in DOMAIN routes[h].services =>
                routes'[h].services[a] = routes[h].services[a]
  PROVE  DestInv(a)'
<1>1. /\ DestInv(a) /\ IInv
      /\ phase' = phase /\ todo' = todo /\ job' = job
  BY DEF KInv, CInv, AtService
<1>2. Origin(a)'
  BY <1>1 DEF DestInv, Origin
<1>3. Synced(a)'
  BY <1>1 DEF DestInv, Synced, Unknown
<1>4. Backed(a)'
  BY <1>1 DEF DestInv, Backed
<1>5. Applied(a)'
  BY <1>1, LoopGoesOn DEF DestInv, Applied
<1>6. AtRest(a)'
  BY <1>1 DEF DestInv, AtRest, PeersDone
<1> QED BY <1>2, <1>3, <1>4, <1>5, <1>6 DEF DestInv

\* the list of the service the loop is at is replaced
LEMMA ListKernel ==
  ASSUME KInv, NEW s \in OwnDest, NEW p, p # "close", NEW list, AtService(p, s), SetList(s, list),
         DOMAIN list \subseteq DOMAIN ListAt(s).list,
         \A gw \in DOMAIN list : list[gw].ifname = ListAt(s).list[gw].ifname,
         \A gw \in DOMAIN list : "PendingDel" \in ListAt(s).list[gw].flags => "PendingDel" \in list[gw].flags,
         p = "apply" => Unpending(list),
         ServiceRouted(list, kernel'[s])
  PROVE  DestInv(s)'
<1> DEFINE g  == loop.gid
           rl == ListAt(s)
<1>1. /\ IInv /\ DestInv(s) /\ g \in DOMAIN routes /\ s \in DOMAIN routes[g].services
      /\ rl = routes[g].services[s]
      /\ phase' = phase /\ phase = p /\ todo' = todo /\ job' = job
  BY AtServiceElim DEF KInv, CInv, AtService, ListAt
<1>2. /\ DOMAIN routes' = DOMAIN routes
      /\ \A h \in DOMAIN routes :
           /\ routes'[h].peers = routes[h].peers
           /\ DOMAIN routes'[h].services = DOMAIN routes[h].services
           /\ s \in DOMAIN routes[h].services => h = g
      /\ routes'[g].services[s] = [disabled |-> rl.disabled, list |-> list]
      /\ \A h \in DOMAIN routes : s \notin DOMAIN routes[h].peers
  BY <1>1, SetListEffect, OneHolder
<1>3. Origin(s)'
  BY <1>1, <1>2 DEF DestInv, Origin, GoodService
<1>4. Synced(s)'
  BY <1>1, <1>2 DEF Synced, Unknown
<1>5. Backed(s)'
  <2>1. ListBacked(rl.list, routes[g].peers)
    BY <1>1 DEF DestInv, Backed
  <2>2. ListBacked(list, routes[g].peers)
    BY <2>1 DEF ListBacked, EntryBacked
  <2> QED BY <1>1, <1>2, <2>2 DEF Backed
<1>6. Applied(s)'
  BY <1>1, <1>2 DEF Applied
<1>7. AtRest(s)'
  BY <1>2 DEF AtRest
<1> QED BY <1>3, <1>4, <1>5, <1>6, <1>7 DEF DestInv

\* the service the loop is at is forgotten
LEMMA DropKernel ==
  ASSUME KInv, NEW s \in OwnDest, NEW p, AtService(p, s), DropList(s), kernel'[s] = NoRoute
  PROVE  DestInv(s)'
<1> DEFINE g == loop.gid
<1>1. /\ IInv /\ g \in DOMAIN routes /\ s \in DOMAIN routes[g].services
  BY AtServiceElim DEF KInv, CInv
<1>2. /\ DOMAIN routes' = DOMAIN routes
      /\ \A h \in DOMAIN routes : /\ s \notin DOMAIN routes'[h].peers
                                  /\ s \notin DOMAIN routes'[h].services
  BY <1>1, DropListEffect, OneHolder
<1> QED BY <1>2 DEF DestInv, Origin, Synced, Backed, Applied, AtRest

-----------------------------------------------------------------------------
(***************************************************************************)
(* The kernel calls that go with the operations on a route list.            *)
(***************************************************************************)
\* the search finds no route of another destination in place of an own one's
LEMMA AddedAlone ==
  ASSUME NEW a \in OwnDest, NEW table, NEW i \in links, table[a] \in {NoRoute, i}
  PROVE  Added(table, a, i) = i
<1>1. NC!RouteSearch(table, Near(a)) \subseteq {table[a]} \ {NoRoute}
  BY DEF OwnDest, Alone, NC!RouteSearch
<1> QED BY <1>1 DEF Added, NC!RouteAdd, NC!RouteAddFails

\* the kernel follows the active entry
LEMMA RerouteDevEffect ==
  ASSUME NEW list \in Entries, AtMostOneActive(list), NEW old \in GetActive(list),
         NEW new \in DOMAIN list \cup {NoAddr},
         NEW s \in OwnDest, ServiceRouted(list, kernel[s]),
         \A gw \in DOMAIN list : list[gw].ifname \in links
  PROVE  RerouteDev(list, new, old, s) = IF new = NoAddr THEN NoRoute ELSE list[new].ifname
<1>1. \/ old = NoAddr /\ kernel[s] = NoRoute
      \/ old # NoAddr /\ old \in DOMAIN list /\ kernel[s] = list[old].ifname
  BY ActiveIs DEF ServiceRouted
<1>2. new # NoAddr => new \in DOMAIN list
  OBVIOUS
<1>3. \A i \in links : kernel[s] = NoRoute => Added(kernel, s, i) = i
  BY AddedAlone
<1> QED BY <1>1, <1>2, <1>3 DEF RerouteDev, NC!RouteDel, NC!RouteReplace

LEMMA RoutedBy ==
  ASSUME NEW list, NEW new, NoAddr \notin DOMAIN list,
         new \in DOMAIN list \cup {NoAddr},
         Having(list, "Active") = DOMAIN list \cap {new}
  PROVE  ServiceRouted(list, IF new = NoAddr THEN NoRoute ELSE list[new].ifname)
BY DEF ServiceRouted

\* the loop is at an own service
LEMMA OwnAtService ==
  ASSUME KInv, NEW s \in OwnDest, NEW p, AtService(p, s)
  PROVE  /\ IInv /\ s \in Addr /\ ~ListAt(s).disabled
         /\ ListAt(s).list \in Entries /\ AtMostOneActive(ListAt(s).list)
         /\ NoAddr \notin DOMAIN ListAt(s).list
         /\ ServiceRouted(ListAt(s).list, kernel[s])
         /\ \A gw \in DOMAIN ListAt(s).list : ListAt(s).list[gw].ifname \in links
         /\ kernel \in [Addr -> Dev]
<1>1. /\ IInv /\ loop.gid \in DOMAIN routes /\ s \in DOMAIN routes[loop.gid].services
      /\ s \in Addr /\ ListAt(s).list \in Entries /\ AtMostOneActive(ListAt(s).list)
      /\ ListAt(s) = routes[loop.gid].services[s]
  BY AtServiceElim DEF KInv, CInv, ListAt
<1>2. NoAddr \notin DOMAIN ListAt(s).list
  BY <1>1, EntryType, NullAssumption
<1>3. ServiceRouted(ListAt(s).list, kernel[s])
  BY <1>1 DEF KInv, DestInv, Synced
<1>4. kernel \in [Addr -> Dev]
  BY <1>1 DEF IInv, ControlType, Dev
<1> QED BY <1>1, <1>2, <1>3, <1>4, OwnService

LEMMA SkipKernel ==
  ASSUME KInv, NEW a \in OwnDest, NEW s, ApplySkip(s) \/ RerouteSkip(s)
  PROVE  DestInv(a)'
<1>1. /\ DestInv(a) /\ IInv /\ routes' = routes /\ kernel' = kernel
      /\ AtService("apply", s) \/ AtService("reroute", s)
      /\ phase' = phase /\ phase # "close" /\ todo' = todo /\ job' = job
  BY DEF KInv, CInv, ApplySkip, RerouteSkip, AtService
<1>2. Origin(a)' /\ Synced(a)'
  BY <1>1, SameCache DEF DestInv
<1>3. Backed(a)' /\ AtRest(a)'
  BY <1>1 DEF DestInv, Backed, AtRest, PeersDone
<1>4. Applied(a)'
  <2>1. CASE a # s
    BY <1>1, <2>1, LoopGoesOn DEF DestInv, Applied
  <2>2. CASE a = s /\ ApplySkip(s)
    <3>1. /\ Unpending(ListAt(s).list) /\ loop.gid \in DOMAIN routes
          /\ s \in DOMAIN routes[loop.gid].services
          /\ ListAt(s) = routes[loop.gid].services[s]
      BY <1>1, <2>2, OwnAtService, AtServiceElim DEF ApplySkip, ListAt
    <3>2. \A h \in DOMAIN routes : a \in DOMAIN routes[h].services => h = loop.gid
      BY <2>2, <3>1, OneHolder
    <3> QED BY <1>1, <2>2, <3>1, <3>2 DEF Applied
  <2>3. CASE a = s /\ RerouteSkip(s)
    BY <1>1, <2>3 DEF RerouteSkip, AtService, Applied
  <2> QED BY <2>1, <2>2, <2>3
<1> QED BY <1>2, <1>3, <1>4 DEF DestInv

LEMMA SetListElsewhere ==
  ASSUME KInv, NEW a \in OwnDest, NEW p, NEW s, AtService(p, s), a # s, s \in Addr,
         NEW list, SetList(s, list), kernel'[a] = kernel[a]
  PROVE  DestInv(a)'
<1>1. IInv
  BY DEF KInv, CInv
<1>2. /\ DOMAIN routes' = DOMAIN routes
      /\ \A h \in DOMAIN routes :
           /\ routes'[h].peers = routes[h].peers
           /\ a \in DOMAIN routes'[h].services <=> a \in DOMAIN routes[h].services
           /\ a \in DOMAIN routes[h].services => routes'[h].services[a] = routes[h].services[a]
  <2>1. /\ DOMAIN routes' = DOMAIN routes
        /\ \A h \in DOMAIN routes :
             /\ routes'[h].peers = routes[h].peers
             /\ DOMAIN routes'[h].services = DOMAIN routes[h].services
             /\ \A t \in DOMAIN routes[h].services :
                  routes'[h].services[t] = IF h = loop.gid /\ t = s
                    THEN [disabled |-> ListAt(s).disabled, list |-> list]
                    ELSE routes[h].services[t]
    BY <1>1, SetListEffect
  <2> QED BY <2>1
<1> QED BY <1>1, <1>2, OtherService

\* a route is changed, and another program may have been faster with one of its own
LEMMA KernelElsewhere ==
  ASSUME KInv, NEW a \in OwnDest, NEW s, a # s
  PROVE  /\ \A dev : [kernel EXCEPT ![s] = dev][a] = kernel[a]
         /\ \A table \in RoutedSince : \A dev : [table EXCEPT ![s] = dev][a] = kernel[a]
<1>1. a \in Addr /\ a \notin ForeignDst /\ kernel \in [Addr -> Dev]
  BY DEF KInv, CInv, IInv, ControlType, OwnDest, Dev
<1>2. \A table \in RoutedSince : table \in [Addr -> Dev] /\ table[a] = kernel[a]
  BY <1>1 DEF RoutedSince, Dev
<1> QED BY <1>1, <1>2

LEMMA DropListElsewhere ==
  ASSUME KInv, NEW a \in OwnDest, NEW p, NEW s, AtService(p, s), a # s, s \in Addr,
         DropList(s), NEW dev, kernel' = [kernel EXCEPT ![s] = dev]
  PROVE  DestInv(a)'
<1>1. IInv /\ kernel'[a] = kernel[a]
  BY DEF KInv, CInv, IInv, ControlType, OwnDest
<1>2. /\ DOMAIN routes' = DOMAIN routes
      /\ \A h \in DOMAIN routes :
           /\ routes'[h].peers = routes[h].peers
           /\ a \in DOMAIN routes'[h].services <=> a \in DOMAIN routes[h].services
           /\ a \in DOMAIN routes[h].services => routes'[h].services[a] = routes[h].services[a]
  BY <1>1, DropListEffect
<1> QED BY <1>1, <1>2, OtherService

LEMMA SetRouteKernel ==
  ASSUME KInv, NEW a \in OwnDest, NEW s \in Addr, SetRoute(s)
  PROVE  DestInv(a)'
<1> DEFINE list   == ListAt(s).list
           Via(g, old) == ResetPending(MoveActive(list, old, g))
<1>1. AtService("apply", s) /\ OnlyAdds(list) /\ ~Unpending(list)
  BY DEF SetRoute
<1>2. \E new : SetList(s, new)
  BY DEF SetRoute
<1>3. \/ kernel' = kernel
      \/ \E table \in RoutedSince : \E dev : kernel' = [table EXCEPT ![s] = dev]
  BY DEF SetRoute
<1>4. CASE a # s
  <2>1. CASE kernel' = kernel
    <3> HIDE DEF list
    <3> QED BY <1>1, <1>2, <1>4, <2>1, SetListElsewhere
  <2>2. CASE \E table \in RoutedSince : \E dev : kernel' = [table EXCEPT ![s] = dev]
    <3> PICK table \in RoutedSince : \E dev : kernel' = [table EXCEPT ![s] = dev]
      BY <2>2
    <3>1. PICK dev : kernel' = [table EXCEPT ![s] = dev]
      OBVIOUS
    <3>2. kernel'[a] = kernel[a]
      BY <1>4, <3>1, KernelElsewhere
    <3> HIDE DEF list
    <3> QED BY <1>1, <1>2, <1>4, <3>2, SetListElsewhere
  <2> QED BY <1>3, <2>1, <2>2
<1>5. CASE a = s
  <2>1. /\ list \in Entries /\ AtMostOneActive(list) /\ NoAddr \notin DOMAIN list
        /\ ServiceRouted(list, kernel[s]) /\ kernel \in [Addr -> Dev]
        /\ \A gw \in DOMAIN list : list[gw].ifname \in links
    BY <1>1, <1>5, OwnAtService
  <2>2. \A gw \in DOMAIN list : "PendingDel" \notin list[gw].flags
    BY <1>1 DEF OnlyAdds, Having
  <2>3. ASSUME NEW g \in DOMAIN list, NEW old \in GetActive(list), SetList(s, Via(g, old)),
               kernel'[s] = list[g].ifname
        PROVE  DestInv(s)'
    <3>1. Having(list, "Active") \subseteq {old}
      BY <2>1, GetActiveAll
    <3>2. /\ DOMAIN Via(g, old) = DOMAIN list
          /\ \A gw \in DOMAIN list : Via(g, old)[gw].ifname = list[gw].ifname
          /\ Having(Via(g, old), "Active") = DOMAIN list \cap {g}
          /\ Unpending(Via(g, old))
      BY <3>1, MoveActiveEffect, ResetPendingEffect
    <3> DEFINE new == Via(g, old)
    <3> HIDE DEF Via
    <3>3. ServiceRouted(new, kernel'[s])
      BY <2>3, <3>2 DEF ServiceRouted
    <3> HIDE DEF new
    <3>4. DOMAIN new = DOMAIN list /\ SetList(s, new) /\ Unpending(new)
          /\ \A gw \in DOMAIN list : new[gw].ifname = list[gw].ifname
      BY <2>3, <3>2 DEF new
    <3> QED BY <1>1, <1>5, <2>2, <3>3, <3>4, ListKernel
  <2>4. CASE \E g \in GetDefault(list) : \E table \in RoutedSince :
               /\ \E old \in GetActive(list) : SetList(s, Via(g, old))
               /\ kernel' = [table EXCEPT ![s] = Added(table, s, list[g].ifname)]
    <3>1. PICK g \in GetDefault(list), old \in GetActive(list), table \in RoutedSince :
            /\ SetList(s, Via(g, old))
            /\ kernel' = [table EXCEPT ![s] = Added(table, s, list[g].ifname)]
      BY <2>4
    <3>2. g \in DOMAIN list /\ (Having(list, "Active") # {} => g \in Having(list, "Active"))
      BY DEF GetDefault, Having
    <3>3. table \in [Addr -> Dev] /\ table[s] = kernel[s]
      BY <1>5, <2>1 DEF RoutedSince, OwnDest, Dev
    <3>4. kernel[s] \in {NoRoute, list[g].ifname}
      BY <2>1, <3>2 DEF ServiceRouted
    <3>5. Added(table, s, list[g].ifname) = list[g].ifname
      BY <1>5, <2>1, <3>2, <3>3, <3>4, AddedAlone
    <3>6. kernel'[s] = list[g].ifname
      BY <3>1, <3>3, <3>5
    <3> QED BY <1>5, <2>3, <3>1, <3>2, <3>6
  <2>5. ASSUME NEW owner \in NC!RouteSearch(kernel, Near(s)), kernel' = kernel,
               \/ \E g \in DOMAIN list : /\ list[g].ifname = owner
                                         /\ \E old \in GetActive(list) : SetList(s, Via(g, old))
               \/ \A g \in DOMAIN list : list[g].ifname # owner
        PROVE  DestInv(s)'
    <3>1. owner = kernel[s] /\ owner # NoRoute
      BY <1>5, <2>5 DEF NC!RouteSearch, OwnDest, Alone
    <3>2. \E g \in DOMAIN list : list[g].ifname = owner
      BY <2>1, <3>1 DEF ServiceRouted, Having
    <3>3. PICK g \in DOMAIN list, old \in GetActive(list) :
            list[g].ifname = owner /\ SetList(s, Via(g, old))
      BY <2>5, <3>2
    <3> QED BY <2>3, <2>5, <3>1, <3>3
  <2> QED BY <1>5, <2>4, <2>5 DEF SetRoute
<1> QED BY <1>4, <1>5

LEMMA ClearedDevEffect ==
  ASSUME NEW list \in Entries, AtMostOneActive(list), NEW active \in GetActive(list),
         NEW dev, ServiceRouted(list, dev),
         \A gw \in DOMAIN list : list[gw].ifname \in links
  PROVE  ClearedDev(list, active, dev) = NoRoute
BY ActiveIs DEF ServiceRouted, ClearedDev, NC!RouteDel

LEMMA ClearRouteKernel ==
  ASSUME KInv, NEW a \in OwnDest, NEW s \in Addr, ClearRoute(s)
  PROVE  DestInv(a)'
<1> DEFINE list == ListAt(s).list
<1>1. /\ AtService("apply", s) /\ DropList(s)
      /\ \E active \in GetActive(list) :
           kernel' = [kernel EXCEPT ![s] = ClearedDev(list, active, kernel[s])]
  BY DEF ClearRoute
<1> HIDE DEF list
<1>2. CASE a # s
  BY <1>1, <1>2, DropListElsewhere
<1>3. CASE a = s
  <2>1. kernel'[s] = NoRoute
    BY <1>1, <1>3, OwnAtService, ClearedDevEffect DEF list
  <2> QED BY <1>1, <1>3, <2>1, DropKernel
<1> QED BY <1>2, <1>3

LEMMA MergeRoutesKernel ==
  ASSUME KInv, NEW a \in OwnDest, NEW s \in Addr, MergeRoutes(s)
  PROVE  DestInv(a)'
<1> DEFINE list == ListAt(s).list
           new  == IF loop.best \in Kept(list) THEN loop.best ELSE NoAddr
           kept == ResetPending(Restrict(list, Kept(list)))
<1>1. AtService("apply", s)
  BY DEF MergeRoutes
<1>2. PICK old \in GetActive(list) :
        /\ SetList(s, RerouteList(kept, new, old))
        /\ kernel' = [kernel EXCEPT ![s] = RerouteDev(list, new, old, s)]
  BY DEF MergeRoutes
<1>3. CASE a # s
  <2> HIDE DEF kept, new, list
  <2>1. kernel'[a] = kernel[a]
    BY <1>2, <1>3, KernelElsewhere
  <2> QED BY <1>1, <1>2, <1>3, <2>1, SetListElsewhere
<1>4. CASE a = s
  <2>1. /\ list \in Entries /\ AtMostOneActive(list) /\ NoAddr \notin DOMAIN list
        /\ ServiceRouted(list, kernel[s]) /\ kernel \in [Addr -> Dev]
        /\ \A gw \in DOMAIN list : list[gw].ifname \in links
    BY <1>1, <1>4, OwnAtService
  <2>2. new \in DOMAIN list \cup {NoAddr} /\ Kept(list) \subseteq DOMAIN list
    BY DEF Kept
  <2>3. kernel'[s] = IF new = NoAddr THEN NoRoute ELSE list[new].ifname
    <3>1. kernel'[s] = RerouteDev(list, new, old, s)
      BY <1>2, <2>1
    <3> HIDE DEF new, list
    <3> QED BY <1>2, <1>4, <2>1, <2>2, <3>1, RerouteDevEffect
  <2>4. /\ DOMAIN kept = Kept(list)
        /\ \A gw \in Kept(list) : kept[gw].ifname = list[gw].ifname
        /\ Having(kept, "Active") = Kept(list) \cap {old}
        /\ Unpending(kept)
    <3> DEFINE rest == Restrict(list, Kept(list))
    <3>1. DOMAIN rest = Kept(list) /\ \A gw \in Kept(list) : rest[gw] = list[gw]
      BY DEF Restrict
    <3>2. Having(rest, "Active") = Kept(list) \cap {old}
      BY <2>1, <2>2, <3>1, ActiveIs DEF Having
    <3> HIDE DEF rest
    <3> QED BY <3>1, <3>2, ResetPendingEffect DEF rest
  <2> DEFINE res == RerouteList(kept, new, old)
  <2>5. new \in Kept(list) \cup {NoAddr}
    OBVIOUS
  <2> HIDE DEF kept, new, list
  <2>6. /\ DOMAIN res = Kept(list)
        /\ \A gw \in Kept(list) : res[gw].ifname = list[gw].ifname
        /\ Having(res, "Active") = Kept(list) \cap {new}
        /\ Unpending(res)
    BY <2>1, <2>2, <2>4, RerouteListEffect DEF Unpending
  <2>7. \A gw \in Kept(list) : "PendingDel" \notin list[gw].flags
    BY <2>2 DEF Kept, Having
  <2>8. SetList(s, res)
    BY <1>2
  <2> HIDE DEF res
  <2>9. ServiceRouted(res, kernel'[s])
    BY <2>1, <2>2, <2>3, <2>5, <2>6, RoutedBy
  <2> QED BY <1>1, <1>4, <2>2, <2>6, <2>7, <2>8, <2>9, ListKernel DEF list
<1> QED BY <1>3, <1>4

LEMMA RerouteServiceKernel ==
  ASSUME KInv, NEW a \in OwnDest, NEW s \in Addr, RerouteService(s)
  PROVE  DestInv(a)'
<1> DEFINE list == ListAt(s).list
           new  == IF loop.best \in DOMAIN list THEN loop.best ELSE NoAddr
<1>1. AtService("reroute", s)
  BY DEF RerouteService
<1>2. PICK old \in GetActive(list) :
        /\ SetList(s, RerouteList(list, new, old))
        /\ kernel' = [kernel EXCEPT ![s] = RerouteDev(list, new, old, s)]
  BY DEF RerouteService
<1>3. CASE a # s
  <2> HIDE DEF new, list
  <2>1. kernel'[a] = kernel[a]
    BY <1>2, <1>3, KernelElsewhere
  <2> QED BY <1>1, <1>2, <1>3, <2>1, SetListElsewhere
<1>4. CASE a = s
  <2>1. /\ list \in Entries /\ AtMostOneActive(list) /\ NoAddr \notin DOMAIN list
        /\ ServiceRouted(list, kernel[s]) /\ kernel \in [Addr -> Dev]
        /\ \A gw \in DOMAIN list : list[gw].ifname \in links
    BY <1>1, <1>4, OwnAtService
  <2>2. new \in DOMAIN list \cup {NoAddr}
    OBVIOUS
  <2>3. kernel'[s] = IF new = NoAddr THEN NoRoute ELSE list[new].ifname
    <3>1. kernel'[s] = RerouteDev(list, new, old, s)
      BY <1>2, <2>1
    <3> HIDE DEF new, list
    <3> QED BY <1>2, <1>4, <2>1, <2>2, <3>1, RerouteDevEffect
  <2> DEFINE res == RerouteList(list, new, old)
  <2> HIDE DEF new, list
  <2>4. Having(list, "Active") = DOMAIN list \cap {old}
    BY <1>2, <2>1, ActiveIs
  <2>5. /\ DOMAIN res = DOMAIN list
        /\ \A gw \in DOMAIN list : res[gw].ifname = list[gw].ifname
        /\ Having(res, "Active") = DOMAIN list \cap {new}
        /\ Having(res, "PendingDel") = Having(list, "PendingDel")
    BY <2>1, <2>4, RerouteListEffect
  <2>6. SetList(s, res)
    BY <1>2
  <2> HIDE DEF res
  <2>7. \A gw \in DOMAIN list : "PendingDel" \in list[gw].flags => "PendingDel" \in res[gw].flags
    BY <2>5 DEF Having
  <2>8. ServiceRouted(res, kernel'[s])
    BY <2>1, <2>2, <2>3, <2>5, RoutedBy
  <2> QED BY <1>1, <1>4, <2>5, <2>6, <2>7, <2>8, ListKernel DEF list
<1> QED BY <1>3, <1>4

LEMMA CloseServiceKernel ==
  ASSUME KInv, NEW a \in OwnDest, NEW s \in Addr, CloseService(s)
  PROVE  DestInv(a)'
<1> DEFINE list == ListAt(s).list
<1>1. AtService("close", s) /\ DropList(s)
  BY DEF CloseService
<1>2. kernel = [kernel EXCEPT ![s] = kernel[s]]
  BY DEF KInv, CInv, IInv, ControlType
<1>3. \/ ListAt(s).disabled /\ kernel' = kernel
      \/ \E active \in GetActive(list) :
           kernel' = [kernel EXCEPT ![s] = ClearedDev(list, active, kernel[s])]
  BY DEF CloseService
<1> HIDE DEF list
<1>4. CASE a # s
  BY <1>1, <1>2, <1>3, <1>4, DropListElsewhere
<1>5. CASE a = s
  <2>1. kernel'[s] = NoRoute
    BY <1>1, <1>3, <1>5, OwnAtService, ClearedDevEffect DEF list
  <2> QED BY <1>1, <1>5, <2>1, DropKernel
<1> QED BY <1>4, <1>5

-----------------------------------------------------------------------------
(***************************************************************************)
(* The steps that apply the peers of a group.                              *)
(***************************************************************************)
\* an own peer that is applied has its route if it stays, and no route if not
LEMMA AppliedPeer ==
  ASSUME NEW pl, NEW a \in OwnDest, a \in DOMAIN pl, "Disabled" \notin pl[a].flags,
         pl[a].ifname \in links, PeerRouted(pl[a], kernel[a])
  PROVE  /\ a \in DOMAIN ApplyPeerList(pl) =>
              /\ ApplyPeerList(pl)[a] = [ifname |-> pl[a].ifname, flags |-> {}]
              /\ ApplyPeerDevs(pl)[a] = pl[a].ifname
         /\ a \notin DOMAIN ApplyPeerList(pl) =>
              "DelPending" \in pl[a].flags /\ ApplyPeerDevs(pl)[a] = NoRoute
<1> DEFINE p == pl[a]
<1>1. /\ a \in DOMAIN ApplyPeerList(pl) <=> ~PeerDropped(p)
      /\ ~PeerDropped(p) => ApplyPeerList(pl)[a] = [ifname |-> p.ifname, flags |-> {}]
  BY DEF ApplyPeerList, WithFlags
<1>2. ApplyPeerDevs(pl)[a] = PeerDev(p, a)
  BY DEF ApplyPeerDevs, OwnDest
<1>3. kernel[a] \in {NoRoute, p.ifname} => Added(kernel, a, p.ifname) = p.ifname
  BY AddedAlone
<1> HIDE DEF p
<1>4. /\ ~PeerDropped(p) => PeerDev(p, a) = p.ifname
      /\ PeerDropped(p) => "DelPending" \in p.flags /\ PeerDev(p, a) = NoRoute
  BY <1>3 DEF p, PeerDropped, PeerDev, PeerRouted, NC!RouteDel
<1> QED BY <1>1, <1>2, <1>4 DEF p

LEMMA AppliedPeersBack ==
  ASSUME NEW list, NEW pl, ListBacked(list, pl)
  PROVE  ListBacked(list, ApplyPeerList(pl))
BY DEF ListBacked, EntryBacked, ApplyPeerList, PeerDropped, WithFlags

\* what both steps do to the origin and the route of a destination
LEMMA PeersSynced ==
  ASSUME KInv, NEW a \in OwnDest, NEW g \in DOMAIN routes, NEW pl,
         DOMAIN pl = DOMAIN routes[g].peers,
         a \in DOMAIN pl =>
           /\ pl[a].ifname = routes[g].peers[a].ifname
           /\ pl[a].flags \ {"DelPending"} = routes[g].peers[a].flags \ {"DelPending"},
         routes' = [routes EXCEPT ![g] = WithPeers(routes[g], ApplyPeerList(pl))],
         kernel' = ApplyPeerDevs(pl)
  PROVE  Origin(a)' /\ Synced(a)'
<1> DEFINE new == ApplyPeerList(pl)
<1>1. /\ DestInv(a) /\ IInv /\ a \in Addr
      /\ DOMAIN new \subseteq DOMAIN pl
  BY DEF KInv, CInv, OwnDest, ApplyPeerList
<1>2. /\ DOMAIN routes' = DOMAIN routes
      /\ \A h \in DOMAIN routes :
           /\ routes'[h].services = routes[h].services
           /\ routes'[h].peers = IF h = g THEN new ELSE routes[h].peers
  BY <1>1, SetPeersEffect
<1>3. CASE a \notin DOMAIN pl
  <2>1. kernel'[a] = kernel[a]
    BY <1>1, <1>3 DEF ApplyPeerDevs
  <2>2. a \notin DOMAIN new /\ a \notin DOMAIN routes[g].peers
    BY <1>1, <1>3
  <2> HIDE DEF new
  <2>3. \A h \in DOMAIN routes :
          /\ a \in DOMAIN routes'[h].peers <=> a \in DOMAIN routes[h].peers
          /\ a \in DOMAIN routes[h].peers => routes'[h].peers[a] = routes[h].peers[a]
    BY <1>2, <2>2
  <2>4. Origin(a)'
    BY <1>1, <1>2, <2>3 DEF DestInv, Origin
  <2>5. Synced(a)'
    BY <1>1, <1>2, <2>1, <2>3 DEF DestInv, Synced, Unknown
  <2> QED BY <2>4, <2>5
<1>4. CASE a \in DOMAIN pl
  <2>1. /\ a \in DOMAIN routes[g].peers
        /\ \A h \in DOMAIN routes : /\ a \notin DOMAIN routes[h].services
                                    /\ a \in DOMAIN routes[h].peers => h = g
    BY <1>4, OneHolder
  <2>2. /\ "Disabled" \notin pl[a].flags
        /\ pl[a].ifname \in links /\ OffersPeer(g, a, pl[a].ifname)
    BY <2>1, <1>4, OwnPeer
  <2>3. PeerRouted(pl[a], kernel[a])
    BY <1>1, <1>4, <2>1 DEF DestInv, Synced, PeerRouted
  <2>4. /\ a \in DOMAIN new =>
              /\ new[a] = [ifname |-> pl[a].ifname, flags |-> {}]
              /\ kernel'[a] = pl[a].ifname
        /\ a \notin DOMAIN new => kernel'[a] = NoRoute
    BY <1>1, <1>4, <2>2, <2>3, AppliedPeer
  <2> HIDE DEF new
  <2>5. Origin(a)'
    BY <1>2, <2>1, <2>2, <2>4 DEF Origin, GoodPeer
  <2>6. Synced(a)'
    BY <1>2, <2>1, <2>4 DEF Synced, Unknown, PeerRouted
  <2> QED BY <2>5, <2>6
<1> QED BY <1>3, <1>4

LEMMA ApplyPeersKernel ==
  ASSUME KInv, NEW a \in OwnDest, NEW g, ApplyPeers(g)
  PROVE  DestInv(a)'
<1> DEFINE pl  == routes[g].peers
           new == ApplyPeerList(pl)
<1>1. /\ DestInv(a) /\ IInv /\ g \in DOMAIN routes /\ loop = NoLoop
      /\ phase = "apply" /\ phase' = phase /\ job' = job /\ todo' = todo \ {g}
      /\ routes' = [routes EXCEPT ![g] = WithPeers(routes[g], new)]
      /\ kernel' = ApplyPeerDevs(pl)
  BY DEF KInv, CInv, IInv, ControlType, ApplyPeers
<1>2. Origin(a)' /\ Synced(a)'
  BY <1>1, PeersSynced
<1>3. /\ DOMAIN routes' = DOMAIN routes
      /\ \A h \in DOMAIN routes :
           /\ routes'[h].services = routes[h].services
           /\ routes'[h].peers = IF h = g THEN new ELSE routes[h].peers
  BY <1>1, SetPeersEffect
<1>4. Backed(a)'
  <2>1. \A list : ListBacked(list, pl) => ListBacked(list, new)
    BY AppliedPeersBack
  <2> HIDE DEF new
  <2> QED BY <1>1, <1>3, <2>1 DEF DestInv, Backed
<1>5. Applied(a)'
  <2>1. PICK best \in BestPaths(new) : loop' = Loop(g, best, DOMAIN routes[g].services)
    BY DEF ApplyPeers
  <2>2. ASSUME a \in DOMAIN routes[g].services
        PROVE  loop' # NoLoop /\ loop'.gid = g /\ a \in loop'.todo
    <3>1. /\ best \in Addr \cup {NoAddr} /\ g \in Gid
          /\ DOMAIN routes[g].services \subseteq Addr
      BY <1>1, RoutesElim, ApplyPeerListType, PeersType_, ServicesElim DEF BestPaths
    <3>2. loop' = [gid |-> g, best |-> best, todo |-> DOMAIN routes[g].services]
      BY <2>1, <2>2 DEF Loop
    <3> QED BY <2>2, <3>1, <3>2, NullAssumption
  <2> HIDE DEF new
  <2> QED BY <1>1, <1>3, <2>2 DEF DestInv, Applied
<1>6. AtRest(a)'
  <2>1. a \in DOMAIN new => new[a].flags = {}
    BY <1>1, OwnPeer DEF ApplyPeerList, WithFlags
  <2> HIDE DEF new
  <2> QED BY <1>1, <1>3, <2>1 DEF DestInv, AtRest, PeersDone
<1> QED BY <1>2, <1>4, <1>5, <1>6 DEF DestInv

LEMMA ClosePeersKernel ==
  ASSUME KInv, NEW a \in OwnDest, NEW g, ClosePeers(g)
  PROVE  DestInv(a)'
<1> DEFINE pl  == FlushPeers(routes[g].peers)
           new == ApplyPeerList(pl)
<1>1. /\ DestInv(a) /\ IInv /\ g \in DOMAIN routes
      /\ phase = "close" /\ phase' = phase /\ job' = job /\ todo' = todo \ {g}
      /\ routes' = [routes EXCEPT ![g] = WithPeers(routes[g], new)]
      /\ kernel' = ApplyPeerDevs(pl)
  BY DEF KInv, CInv, IInv, ControlType, ClosePeers
<1>2. Origin(a)' /\ Synced(a)'
  <2>1. /\ DOMAIN pl = DOMAIN routes[g].peers
        /\ a \in DOMAIN pl =>
             /\ pl[a].ifname = routes[g].peers[a].ifname
             /\ pl[a].flags = routes[g].peers[a].flags \cup {"DelPending"}
    BY FlushPeersEffect
  <2> HIDE DEF pl
  <2> QED BY <1>1, <2>1, PeersSynced
<1>3. /\ DOMAIN routes' = DOMAIN routes
      /\ \A h \in DOMAIN routes :
           /\ routes'[h].services = routes[h].services
           /\ routes'[h].peers = IF h = g THEN new ELSE routes[h].peers
  BY <1>1, SetPeersEffect
<1>4. Backed(a)' /\ Applied(a)'
  <2> HIDE DEF new
  <2> QED BY <1>1, <1>3 DEF DestInv, Backed, Applied
<1>5. AtRest(a)'
  <2>1. ASSUME job = "none" PROVE a \notin DOMAIN new
    <3>1. a \in DOMAIN routes[g].peers => routes[g].peers[a].flags = {}
      BY <1>1, <2>1 DEF DestInv, AtRest, PeersDone
    <3>2. a \in DOMAIN pl => pl[a].flags = {"DelPending"}
      BY <3>1, FlushPeersEffect
    <3> HIDE DEF pl
    <3> QED BY <3>2 DEF ApplyPeerList, PeerDropped
  <2> HIDE DEF new
  <2> QED BY <1>1, <1>3, <2>1 DEF DestInv, AtRest, PeersDone
<1> QED BY <1>2, <1>4, <1>5 DEF DestInv

-----------------------------------------------------------------------------
(***************************************************************************)
(* The end of a pass, the resolution of conflicts, and the messages.       *)
(***************************************************************************)
LEMMA EndPassKernel ==
  ASSUME KInv, NEW a \in OwnDest, EndPass
  PROVE  DestInv(a)'
<1> DEFINE live == {g \in DOMAIN routes : DOMAIN routes[g].peers # {}}
<1>1. /\ DestInv(a) /\ phase = "apply" /\ todo = {} /\ loop = NoLoop
      /\ phase' = "resolve" /\ kernel' = kernel
      /\ routes' = Restrict(routes, live)
  BY DEF KInv, EndPass
<1>2. /\ DOMAIN routes' = live
      /\ \A g \in live : g \in DOMAIN routes /\ routes'[g] = routes[g]
  BY <1>1 DEF Restrict
<1>3. Origin(a)'
  BY <1>1, <1>2 DEF DestInv, Origin
<1>4. Unknown(a)' => kernel[a] = NoRoute
  <2>1. SUFFICES ASSUME Unknown(a)', ~Unknown(a) PROVE kernel[a] = NoRoute
    BY <1>1 DEF DestInv, Synced
  <2>2. PICK g \in DOMAIN routes : a \in DOMAIN routes[g].peers \/ a \in DOMAIN routes[g].services
    BY <2>1 DEF Unknown
  <2>3. DOMAIN routes[g].peers = {} /\ a \in DOMAIN routes[g].services
    BY <1>2, <2>1, <2>2 DEF Unknown
  <2> DEFINE list == routes[g].services[a].list
  <2>4. ServiceRouted(list, kernel[a])
    BY <1>1, <2>3 DEF DestInv, Synced
  <2>5. ListBacked(list, routes[g].peers)
    BY <1>1, <2>3 DEF DestInv, Backed
  <2>6. Unpending(list)
    BY <1>1, <2>3 DEF DestInv, Applied
  <2> HIDE DEF list
  <2>7. Having(list, "Active") = {}
    BY <2>3, <2>5, <2>6 DEF ListBacked, EntryBacked, Unpending, Having
  <2> QED BY <2>4, <2>7 DEF ServiceRouted
<1>5. Synced(a)'
  BY <1>1, <1>2, <1>4 DEF DestInv, Synced
<1>6. Backed(a)' /\ Applied(a)'
  BY <1>1, <1>2 DEF DestInv, Backed, Applied
<1>7. AtRest(a)'
  BY <1>1, <1>2 DEF DestInv, AtRest, PeersDone
<1> QED BY <1>3, <1>5, <1>6, <1>7 DEF DestInv

LEMMA ResolveKernel ==
  ASSUME KInv, NEW a \in OwnDest, NEW g, ResolveIpConflict(g)
  PROVE  DestInv(a)'
<1> DEFINE pl    == routes[g].peers
           svc   == routes[g].services
           freeP == {b \in DOMAIN pl : "Disabled" \in pl[b].flags /\ ~HasIpConflict(b, g)}
           freeS == {s \in DOMAIN svc : svc[s].disabled /\ ~HasIpConflict(s, g)}
           newP  == [b \in DOMAIN pl |->
                       IF b \in freeP THEN WithFlags(pl[b], pl[b].flags \ {"Disabled"})
                                      ELSE pl[b]]
           newS  == [s \in DOMAIN svc |-> [disabled |-> svc[s].disabled /\ s \notin freeS,
                                           list     |-> svc[s].list]]
           group == [peers |-> newP, services |-> newS]
<1>1. /\ DestInv(a) /\ g \in DOMAIN routes /\ kernel' = kernel /\ job' = job
      /\ phase = "resolve" /\ phase' = phase
      /\ routes' = [routes EXCEPT ![g] = group]
  BY DEF KInv, CInv, IInv, ControlType, ResolveIpConflict
<1>2. DOMAIN newP = DOMAIN pl /\ DOMAIN newS = DOMAIN svc
  OBVIOUS
<1>3. \A b \in DOMAIN pl : "DelPending" \in newP[b].flags <=> "DelPending" \in pl[b].flags
  BY DEF WithFlags
<1>4. a \in DOMAIN pl => newP[a] = pl[a]
  BY <1>1, OwnPeer
<1>5. a \in DOMAIN svc => ~newS[a].disabled /\ newS[a].list = svc[a].list
  BY <1>1, OwnService
<1> HIDE DEF newP, newS
<1>6. /\ DOMAIN routes' = DOMAIN routes
      /\ routes'[g].peers = newP /\ routes'[g].services = newS
      /\ \A h \in DOMAIN routes \ {g} : routes'[h] = routes[h]
  BY <1>1, RoutesElim DEF KInv, CInv
<1>7. \A h \in DOMAIN routes :
        /\ a \in DOMAIN routes'[h].peers <=> a \in DOMAIN routes[h].peers
        /\ a \in DOMAIN routes'[h].services <=> a \in DOMAIN routes[h].services
        /\ a \in DOMAIN routes[h].peers => routes'[h].peers[a] = routes[h].peers[a]
        /\ a \in DOMAIN routes[h].services =>
             /\ ~routes'[h].services[a].disabled
             /\ routes'[h].services[a].list = routes[h].services[a].list
  BY <1>2, <1>4, <1>5, <1>6, OwnService
<1>8. Origin(a)'
  BY <1>1, <1>6, <1>7 DEF DestInv, Origin, GoodService
<1>9. Synced(a)'
  BY <1>1, <1>6, <1>7 DEF DestInv, Synced, Unknown
<1>10. Backed(a)'
  <2>1. \A list : ListBacked(list, pl) => ListBacked(list, newP)
    BY <1>2, <1>3 DEF ListBacked, EntryBacked
  <2> QED BY <1>1, <1>6, <1>7, <2>1 DEF DestInv, Backed
<1>11. Applied(a)' /\ AtRest(a)'
  BY <1>1, <1>6, <1>7 DEF DestInv, Applied, AtRest, PeersDone
<1> QED BY <1>8, <1>9, <1>10, <1>11 DEF DestInv

\* a destination keeps its origin when flags change
LEMMA GoodServiceKept ==
  ASSUME NEW g, NEW a, NEW rl, NEW new, GoodService(g, a, rl),
         new.disabled = rl.disabled, DOMAIN new.list = DOMAIN rl.list,
         \A gw \in DOMAIN rl.list : new.list[gw].ifname = rl.list[gw].ifname
  PROVE  GoodService(g, a, new)
BY DEF GoodService

LEMMA ConfigInfoKernel ==
  ASSUME KInv, NEW a \in OwnDest, ConfigInfo
  PROVE  DestInv(a)'
<1>1. /\ DestInv(a) /\ kernel' = kernel /\ job' = "config" /\ phase = "idle" /\ phase' = phase
      /\ DOMAIN routes' = DOMAIN routes
      /\ \A g \in DOMAIN routes : /\ routes'[g].peers = FlushPeers(routes[g].peers)
                                  /\ routes'[g].services = FlushServices(routes[g].services)
  BY DEF KInv, ConfigInfo, Settled, Idle
<1>2. \A g \in DOMAIN routes :
        /\ DOMAIN routes'[g].peers = DOMAIN routes[g].peers
        /\ a \in DOMAIN routes[g].peers =>
             /\ routes'[g].peers[a].ifname = routes[g].peers[a].ifname
             /\ routes'[g].peers[a].flags = routes[g].peers[a].flags \cup {"DelPending"}
  BY <1>1, FlushPeersEffect
<1>3. ASSUME NEW g \in DOMAIN routes
      PROVE  /\ a \in DOMAIN routes'[g].services <=> a \in DOMAIN routes[g].services
             /\ a \in DOMAIN routes[g].services =>
                  routes'[g].services[a] =
                    MarkDel(routes[g].services[a], DOMAIN routes[g].services[a].list)
  <2>1. a \in DOMAIN routes[g].services => ~routes[g].services[a].disabled
    BY OwnService
  <2> QED BY <1>1, <2>1, FlushServicesEffect
<1>4. ASSUME NEW rl
      PROVE  LET new == MarkDel(rl, DOMAIN rl.list)
             IN  /\ new.disabled = rl.disabled /\ DOMAIN new.list = DOMAIN rl.list
                 /\ Having(new.list, "Active") = Having(rl.list, "Active")
                 /\ \A gw \in DOMAIN rl.list : /\ new.list[gw].ifname = rl.list[gw].ifname
                                               /\ "PendingDel" \in new.list[gw].flags
  BY MarkDelEffect
<1>5. Origin(a)'
  <2>1. \A g \in DOMAIN routes : a \in DOMAIN routes[g].peers =>
          GoodPeer(g, a, routes'[g].peers[a])
    BY <1>1, <1>2 DEF DestInv, Origin, GoodPeer
  <2>2. \A g, rl : GoodService(g, a, rl) => GoodService(g, a, MarkDel(rl, DOMAIN rl.list))
    BY MarkDelEffect, GoodServiceKept
  <2> QED BY <1>1, <1>2, <1>3, <2>1, <2>2 DEF DestInv, Origin
<1>6. Synced(a)'
  <2>1. \A g \in DOMAIN routes : a \in DOMAIN routes[g].peers =>
          PeerRouted(routes'[g].peers[a], kernel[a])
    BY <1>1, <1>2 DEF DestInv, Synced, PeerRouted
  <2>2. \A rl : ServiceRouted(rl.list, kernel[a]) =>
          ServiceRouted(MarkDel(rl, DOMAIN rl.list).list, kernel[a])
    BY <1>4 DEF ServiceRouted, Having
  <2>3. Unknown(a)' => Unknown(a)
    BY <1>1, <1>2, <1>3 DEF Unknown
  <2> QED BY <1>1, <1>2, <1>3, <2>1, <2>2, <2>3 DEF DestInv, Synced
<1>7. Backed(a)'
  <2>1. \A rl, pl : ListBacked(MarkDel(rl, DOMAIN rl.list).list, pl)
    BY MarkDelEffect DEF ListBacked, EntryBacked
  <2> QED BY <1>1, <1>3, <2>1 DEF Backed
<1>8. Applied(a)' /\ AtRest(a)'
  BY <1>1 DEF Applied, AtRest, PeersDone
<1> QED BY <1>5, <1>6, <1>7, <1>8 DEF DestInv

LEMMA RouteDelKernel ==
  ASSUME KInv, NEW a \in OwnDest, NEW r \in Removal, RouteDel(r)
  PROVE  DestInv(a)'
<1> DEFINE g     == r.gid
           pl    == routes[g].peers
           svc   == routes[g].services
           newP  == DelPeer(pl, r.gw)
           newS  == ServicesDel(svc, r.gw, r.svc)
           group == [peers |-> newP, services |-> newS]
<1>1. /\ DestInv(a) /\ IInv /\ kernel' = kernel /\ job = "wgconf" /\ job' = job
      /\ phase = "idle" /\ phase' = phase /\ g \in DOMAIN routes
      /\ routes' = [routes EXCEPT ![g] = group]
  BY DEF KInv, CInv, RouteDel, Idle
<1>2. /\ DOMAIN newP = DOMAIN pl
      /\ \A b \in DOMAIN pl :
           /\ newP[b].ifname = pl[b].ifname
           /\ newP[b].flags = IF b = r.gw THEN pl[b].flags \cup {"DelPending"} ELSE pl[b].flags
  BY DEF DelPeer, SetFlag, WithFlags
<1>3. /\ DOMAIN newS = DOMAIN svc
      /\ a \in DOMAIN svc =>
           newS[a] = IF a \in r.svc THEN MarkDel(svc[a], {r.gw}) ELSE svc[a]
  BY DEF ServicesDel
<1>4. a \in DOMAIN svc =>
        /\ newS[a].disabled = svc[a].disabled
        /\ DOMAIN newS[a].list = DOMAIN svc[a].list
        /\ Having(newS[a].list, "Active") = Having(svc[a].list, "Active")
        /\ \A gw \in DOMAIN svc[a].list :
             /\ newS[a].list[gw].ifname = svc[a].list[gw].ifname
             /\ "PendingDel" \in svc[a].list[gw].flags \/ (gw = r.gw /\ a \in r.svc) =>
                  "PendingDel" \in newS[a].list[gw].flags
  <2> HIDE DEF newS, svc
  <2>1. CASE a \in r.svc
    BY <1>3, <2>1, MarkDelEffect
  <2>2. CASE a \notin r.svc
    BY <1>3, <2>2
  <2> QED BY <2>1, <2>2
<1> HIDE DEF newP, newS
<1>5. /\ DOMAIN routes' = DOMAIN routes
      /\ routes'[g].peers = newP /\ routes'[g].services = newS
      /\ \A h \in DOMAIN routes \ {g} : routes'[h] = routes[h]
  BY <1>1, RoutesElim
<1>6. Origin(a)'
  <2>1. a \in DOMAIN pl => GoodPeer(g, a, newP[a])
    <3>1. a \in DOMAIN pl => GoodPeer(g, a, pl[a])
      BY <1>1 DEF DestInv, Origin
    <3>2. a \in DOMAIN pl => /\ newP[a].ifname = pl[a].ifname
                             /\ newP[a].flags \subseteq pl[a].flags \cup {"DelPending"}
      BY <1>2
    <3> HIDE DEF pl
    <3> QED BY <3>1, <3>2 DEF GoodPeer
  <2>2. a \in DOMAIN svc => GoodService(g, a, newS[a])
    BY <1>1, <1>4, GoodServiceKept DEF DestInv, Origin
  <2> QED BY <1>1, <1>2, <1>3, <1>5, <2>1, <2>2 DEF DestInv, Origin
<1>7. Synced(a)'
  <2>1. a \in DOMAIN pl => PeerRouted(newP[a], kernel[a])
    BY <1>1, <1>2 DEF DestInv, Synced, PeerRouted
  <2>2. a \in DOMAIN svc => ServiceRouted(newS[a].list, kernel[a])
    BY <1>1, <1>4 DEF DestInv, Synced, ServiceRouted, Having
  <2>3. Unknown(a)' => Unknown(a)
    BY <1>2, <1>3, <1>5 DEF Unknown
  <2> QED BY <1>1, <1>2, <1>3, <1>5, <2>1, <2>2, <2>3 DEF DestInv, Synced
<1>8. Backed(a)'
  <2>1. ASSUME a \in DOMAIN svc PROVE ListBacked(newS[a].list, newP)
    <3>1. ListBacked(svc[a].list, pl)
      BY <1>1, <2>1 DEF DestInv, Backed
    <3>2. r.gw \in DOMAIN svc[a].list => a \in r.svc
      <4>1. \A gw \in DOMAIN svc[a].list : \E o \in Offer : o.gid = g /\ a \in o.svc /\ o.gw = gw
        BY <1>1, <2>1 DEF DestInv, Origin, GoodService, OffersEntry
      <4> QED BY <4>1 DEF OwnDest, RemovedWhole
    <3>3. ASSUME NEW gw \in DOMAIN svc[a].list
          PROVE  EntryBacked(newS[a].list[gw], gw, newP)
      <4>1. CASE gw = r.gw \/ "PendingDel" \in svc[a].list[gw].flags
        BY <1>4, <2>1, <3>2, <4>1 DEF EntryBacked
      <4>2. CASE gw # r.gw /\ "PendingDel" \notin svc[a].list[gw].flags
        BY <1>2, <3>1, <4>2 DEF ListBacked, EntryBacked
      <4> QED BY <4>1, <4>2
    <3> QED BY <1>4, <2>1, <3>3 DEF ListBacked
  <2> QED BY <1>1, <1>3, <1>5, <2>1 DEF DestInv, Backed
<1>9. Applied(a)' /\ AtRest(a)'
  BY <1>1 DEF Applied, AtRest, PeersDone
<1> QED BY <1>6, <1>7, <1>8, <1>9 DEF DestInv

\* nothing of an offer's own destinations is in conflict with another group
LEMMA NoOwnConflict ==
  ASSUME KInv, NEW a \in OwnDest, NEW o \in Offer, a \in Dests(o)
  PROVE  ~HasIpConflict(a, o.gid)
<1> SUFFICES ASSUME NEW h \in DOMAIN routes \ {o.gid}, HasAddress(routes[h].services, a)
             PROVE  FALSE
  BY ConflictDef
<1>1. OffersService(h, a)
  BY OwnService DEF HasAddress
<1>2. PICK n \in Offer : n.gid = h /\ a \in n.svc
  BY <1>1 DEF OffersService
<1> QED BY <1>2, OwnOffers DEF Dests

\* an offer's own destination is known to the offer's group, or not at all
LEMMA OfferedTo ==
  ASSUME KInv, NEW a \in OwnDest, NEW o \in Offer, a \in Dests(o),
         NEW h \in DOMAIN routes
  PROVE  /\ a \in DOMAIN routes[h].peers =>
              /\ h = o.gid /\ a \notin o.svc
              /\ a = o.gw => routes[h].peers[a].ifname = o.ifname
         /\ a \in DOMAIN routes[h].services => h = o.gid /\ a # o.gw
<1>1. \A n \in Offer : a \in Dests(n) =>
        /\ n.gid = o.gid
        /\ a = o.gw => a \notin n.svc /\ o.ifname = n.ifname
        /\ a = n.gw => a \notin o.svc
  BY OwnOffers
<1>2. a \in DOMAIN routes[h].peers =>
        \E n \in Offer : n.gid = h /\ n.gw = a /\ n.ifname = routes[h].peers[a].ifname
  BY OwnPeer DEF OffersPeer
<1>3. a \in DOMAIN routes[h].services => \E n \in Offer : n.gid = h /\ a \in n.svc
  BY OwnService DEF OffersService
<1> QED BY <1>1, <1>2, <1>3 DEF Dests

LEMMA NewListRouted ==
  ASSUME NEW list, NEW new, NEW dev, ServiceRouted(list, dev),
         Having(new, "Active") = Having(list, "Active"),
         \A gw \in DOMAIN list : new[gw].ifname = list[gw].ifname
  PROVE  ServiceRouted(new, dev)
BY DEF ServiceRouted, Having

LEMMA RouteAddKernel ==
  ASSUME KInv, NEW a \in OwnDest, NEW o \in Offer, RouteAdd(o)
  PROVE  DestInv(a)'
<1> DEFINE g         == o.gid
           old       == FindOrCreate(g)
           dests     == IF VpnClient THEN o.svc ELSE o.svc \ DefaultRoute
           conflicts == {b \in Addr : HasIpConflict(b, g)}
           newP      == AddPeer(old.peers, o, o.gw \in conflicts)
           newS      == ServicesAdd(old.services, o, dests, conflicts)
           group     == [peers |-> newP, services |-> newS]
<1>1. /\ DestInv(a) /\ IInv /\ kernel' = kernel /\ job # "none" /\ job' = job
      /\ phase = "idle" /\ phase' = phase
      /\ routes' = Put(routes, g, group)
  BY DEF KInv, CInv, RouteAdd, Idle
<1>2. dests \subseteq o.svc
  OBVIOUS
<1>3. a \in Dests(o) => a \notin conflicts
  BY NoOwnConflict
<1>4. /\ a \in DOMAIN old.peers <=> g \in DOMAIN routes /\ a \in DOMAIN routes[g].peers
      /\ a \in DOMAIN old.services <=> g \in DOMAIN routes /\ a \in DOMAIN routes[g].services
      /\ g \in DOMAIN routes => old = routes[g]
  BY DEF FindOrCreate, EmptyGroup, EmptyMap
<1>5. /\ DOMAIN newP = DOMAIN old.peers \cup {o.gw}
      /\ \A b \in DOMAIN old.peers \ {o.gw} : newP[b] = old.peers[b]
      /\ newP[o.gw].ifname = o.ifname
      /\ "AddPending" \in newP[o.gw].flags /\ "DelPending" \notin newP[o.gw].flags
      /\ "Disabled" \in newP[o.gw].flags =>
           o.gw \in conflicts \/ (o.gw \in DOMAIN old.peers /\ "Disabled" \in old.peers[o.gw].flags)
  <2> HIDE DEF old, conflicts
  <2> QED BY AddPeerEffect
<1>6. /\ a \in DOMAIN newS <=> a \in DOMAIN old.services \/ a \in dests
      /\ a \notin dests /\ a \in DOMAIN old.services => newS[a] = old.services[a]
      /\ a \in dests /\ a \in DOMAIN old.services => newS[a] = ListAdd(old.services[a], o)
      /\ a \in dests /\ a \notin DOMAIN old.services =>
           newS[a] = ListAdd(NewRouteList(a \in conflicts), o)
  <2> HIDE DEF old, conflicts, dests
  <2> QED BY ServicesAddEffect
<1> HIDE DEF newP, newS, conflicts, dests
<1>7. /\ DOMAIN routes' = DOMAIN routes \cup {g}
      /\ routes'[g].peers = newP /\ routes'[g].services = newS
      /\ \A h \in DOMAIN routes \ {g} : routes'[h] = routes[h]
  BY <1>1 DEF Put
<1> HIDE DEF old
<1>8. a \in DOMAIN newP => GoodPeer(g, a, newP[a]) /\ PeerRouted(newP[a], kernel[a])
  <2>1. CASE a = o.gw
    <3>1. a \in Dests(o) /\ OffersPeer(g, a, newP[a].ifname)
      BY <1>5, <2>1 DEF Dests, OffersPeer
    <3>2. "Disabled" \notin newP[a].flags
      BY <1>3, <1>4, <1>5, <2>1, <3>1, OwnPeer
    <3>3. kernel[a] = o.ifname \/ kernel[a] = NoRoute
      <4>1. \A h \in DOMAIN routes :
              /\ a \in DOMAIN routes[h].peers => routes[h].peers[a].ifname = o.ifname
              /\ a \notin DOMAIN routes[h].services
        BY <2>1, <3>1, OfferedTo
      <4> QED BY <1>1, <4>1 DEF DestInv, Synced, Unknown, PeerRouted
    <3> QED BY <1>5, <2>1, <3>1, <3>2, <3>3 DEF GoodPeer, PeerRouted
  <2>2. CASE a # o.gw
    BY <1>1, <1>4, <1>5, <2>2 DEF DestInv, Origin, Synced
  <2> QED BY <2>1, <2>2
<1>9. a \in DOMAIN newS => GoodService(g, a, newS[a]) /\ ServiceRouted(newS[a].list, kernel[a])
  <2>1. a \in DOMAIN old.services =>
          GoodService(g, a, old.services[a]) /\ ServiceRouted(old.services[a].list, kernel[a])
    BY <1>1, <1>4 DEF DestInv, Origin, Synced
  <2>2. CASE a \notin dests
    BY <1>6, <2>1, <2>2
  <2>3. CASE a \in dests
    <3>1. a \in o.svc /\ a \in Dests(o) /\ a \notin conflicts
      BY <1>2, <1>3, <2>3 DEF Dests
    <3> DEFINE rl == IF a \in DOMAIN old.services THEN old.services[a] ELSE NewRouteList(FALSE)
    <3>2. newS[a] = ListAdd(rl, o)
      <4>1. (a \in conflicts) = FALSE
        BY <3>1
      <4> QED BY <1>6, <2>3, <4>1
    <3>3. ServiceRouted(rl.list, kernel[a])
      <4>1. CASE a \notin DOMAIN old.services
        <5>1. Unknown(a)
          <6>1. \A h \in DOMAIN routes : /\ a \notin DOMAIN routes[h].peers
                                         /\ a \in DOMAIN routes[h].services => h = g
            BY <3>1, OfferedTo
          <6> QED BY <1>4, <4>1, <6>1 DEF Unknown
        <5>2. kernel[a] = NoRoute
          BY <1>1, <5>1 DEF DestInv, Synced
        <5> QED BY <4>1, <5>2 DEF NewRouteList, EmptyMap, ServiceRouted, Having
      <4> QED BY <2>1, <4>1
    <3>4. /\ ~rl.disabled
          /\ \A gw \in DOMAIN rl.list : OffersEntry(g, a, gw, rl.list[gw].ifname)
      BY <2>1 DEF GoodService, NewRouteList, EmptyMap
    <3>5. OffersService(g, a) /\ OffersEntry(g, a, o.gw, o.ifname)
      BY <3>1 DEF OffersService, OffersEntry
    <3> HIDE DEF rl
    <3>6. /\ newS[a].disabled = rl.disabled
          /\ DOMAIN newS[a].list = DOMAIN rl.list \cup {o.gw}
          /\ \A gw \in DOMAIN rl.list : newS[a].list[gw].ifname = rl.list[gw].ifname
          /\ o.gw \notin DOMAIN rl.list => newS[a].list[o.gw].ifname = o.ifname
          /\ Having(newS[a].list, "Active") = Having(rl.list, "Active")
      BY <3>2, ListAddEffect
    <3>7. GoodService(g, a, newS[a])
      BY <3>4, <3>5, <3>6 DEF GoodService
    <3> QED BY <3>3, <3>6, <3>7, NewListRouted
  <2> QED BY <2>2, <2>3
<1>10. Origin(a)'
  BY <1>1, <1>7, <1>8, <1>9 DEF DestInv, Origin
<1>11. Synced(a)'
  <2>1. Unknown(a)' => Unknown(a)
    BY <1>4, <1>5, <1>6, <1>7 DEF Unknown
  <2> QED BY <1>1, <1>7, <1>8, <1>9, <2>1 DEF DestInv, Synced
<1>12. Backed(a)'
  <2>1. ASSUME a \in DOMAIN newS, NEW gw \in DOMAIN newS[a].list
        PROVE  EntryBacked(newS[a].list[gw], gw, newP)
    <3>1. CASE gw = o.gw
      BY <1>5, <3>1 DEF EntryBacked
    <3>2. CASE gw # o.gw
      <4>1. /\ a \in DOMAIN old.services /\ gw \in DOMAIN old.services[a].list
            /\ newS[a].list[gw] = old.services[a].list[gw]
        <5>1. DOMAIN NewRouteList(a \in conflicts).list = {}
          BY DEF NewRouteList, EmptyMap
        <5> QED BY <1>6, <2>1, <3>2, <5>1, ListAddEffect
      <4>2. EntryBacked(old.services[a].list[gw], gw, old.peers)
        BY <1>1, <1>4, <4>1 DEF DestInv, Backed, ListBacked
      <4> QED BY <1>5, <3>2, <4>1, <4>2 DEF EntryBacked
    <3> QED BY <3>1, <3>2
  <2> QED BY <1>1, <1>7, <2>1 DEF DestInv, Backed, ListBacked
<1>13. Applied(a)' /\ AtRest(a)'
  BY <1>1 DEF Applied, AtRest, PeersDone
<1> QED BY <1>10, <1>11, <1>12, <1>13 DEF DestInv

-----------------------------------------------------------------------------
LEMMA InitKInv == Init => KInv
<1> SUFFICES ASSUME Init PROVE LinksUp /\ \A a \in OwnDest : DestInv(a)
  BY InitCInv DEF KInv
<1>1. LinksUp
  BY DEF Init, LinksUp
<1>2. ASSUME NEW a \in OwnDest PROVE DestInv(a)
  <2>1. DOMAIN routes = {} /\ kernel[a] = NoRoute
    BY DEF Init, EmptyMap, OwnDest
  <2> QED BY <2>1 DEF DestInv, Origin, Synced, Backed, Applied, AtRest
<1> QED BY <1>1, <1>2

LEMMA StepDest ==
  ASSUME KInv, [Next]_vars, NEW a \in OwnDest
  PROVE  DestInv(a)'
<1>1. CASE Message
  BY <1>1, ConfigInfoKernel, RouteAddKernel, RouteDelKernel, ControlKernel DEF Message
<1>2. CASE GroupStep
  BY <1>2, ControlKernel, EndPassKernel, ApplyPeersKernel, ResolveKernel, RerouteGroupKernel,
     CloseKernel, ClosePeersKernel, EndCloseKernel DEF GroupStep
<1>3. CASE ServiceStep
  BY <1>3, SkipKernel, SetRouteKernel, ClearRouteKernel, MergeRoutesKernel,
     RerouteServiceKernel, CloseServiceKernel DEF ServiceStep
<1>4. CASE Environment
  BY <1>4, EnvironmentKernel
<1>5. CASE UNCHANGED vars
  <2>1. routes' = routes /\ kernel' = kernel /\ DestInv(a)
    BY <1>5 DEF vars, KInv
  <2>2. Origin(a)' /\ Synced(a)'
    BY <2>1, SameCache DEF DestInv
  <2>3. Backed(a)' /\ Applied(a)' /\ AtRest(a)'
    BY <1>5, <2>1 DEF vars, DestInv, Backed, Applied, AtRest, PeersDone
  <2> QED BY <2>2, <2>3 DEF DestInv
<1> QED BY <1>1, <1>2, <1>3, <1>4, <1>5 DEF Next

LEMMA StepLinks ==
  ASSUME KInv, [Next]_vars
  PROVE  LinksUp'
<1>1. CASE Environment
  BY <1>1, EnvironmentKernel
<1>2. CASE links' = links
  BY <1>2 DEF KInv, LinksUp
<1>3. CASE Message \/ UNCHANGED vars
  BY <1>2, <1>3 DEF Message, ConfigInfo, WgConf, RouteAdd, RouteDel, vars
<1>4. CASE GroupStep
  BY <1>2, <1>4 DEF GroupStep, Apply, EndPass, EndResolve, PingProcess, EndReroute, Close,
     EndClose, ApplyPeers, ResolveIpConflict, RerouteGroup, ClosePeers
<1>5. CASE ServiceStep
  BY <1>2, <1>5 DEF ServiceStep, ApplySkip, SetRoute, ClearRoute, MergeRoutes, RerouteService,
     RerouteSkip, CloseService, AtService
<1> QED BY <1>1, <1>3, <1>4, <1>5 DEF Next

LEMMA StepKInv == KInv /\ [Next]_vars => KInv'
<1> SUFFICES ASSUME KInv, [Next]_vars PROVE KInv'
  OBVIOUS
<1>1. CInv'
  BY StepCInv DEF KInv
<1> QED BY <1>1, StepDest, StepLinks DEF KInv

LEMMA KernelInvariance == Spec => []KInv
BY InitKInv, StepKInv, PTL DEF Spec

-----------------------------------------------------------------------------
(***************************************************************************)
(* The routes of the agent in the kernel are those of the cache: whatever   *)
(* the controller sends, whichever peers are best and in whichever order    *)
(* the groups are visited, every own destination leaves through its active  *)
(* entry or its peer's interface, and has no route when the cache has none  *)
(* for it.  Own is also that no other destination begins with the same      *)
(* address: the search for a route would find that one's (AddedAlone is     *)
(* where the proof needs it).  Destinations that share an address may well  *)
(* exist beside the own ones, with routes of other programs to them.        *)
(***************************************************************************)
THEOREM KernelFollowsCache == Spec => []CacheMatchesKernel
<1>1. KInv => ServiceInSync
  <2> SUFFICES ASSUME KInv, NEW g \in DOMAIN routes,
                      NEW s \in DOMAIN routes[g].services \cap OwnDest
               PROVE  LET list == routes[g].services[s].list
                      IN  {kernel[s]} = IF ActiveDev(list) = {} THEN {NoRoute}
                                        ELSE ActiveDev(list)
    BY DEF ServiceInSync
  <2> DEFINE list == routes[g].services[s].list
  <2>1. ServiceRouted(list, kernel[s])
    BY DEF KInv, DestInv, Synced
  <2> HIDE DEF list
  <2>2. {kernel[s]} = IF ActiveDev(list) = {} THEN {NoRoute} ELSE ActiveDev(list)
    BY <2>1 DEF ServiceRouted, ActiveDev
  <2> QED BY <2>2 DEF list
<1>2. KInv => PeerInSync
  BY DEF KInv, DestInv, Synced, PeerRouted, PeerInSync
<1>3. KInv => NoLeftover
  <2> SUFFICES ASSUME KInv, NEW a \in OwnDest, kernel[a] \in Iface
               PROVE  \E g \in DOMAIN routes :
                        \/ a \in DOMAIN routes[g].peers
                        \/ /\ a \in DOMAIN routes[g].services
                           /\ ActiveDev(routes[g].services[a].list) # {}
    BY DEF NoLeftover
  <2>1. kernel[a] # NoRoute /\ Synced(a)
    BY NullAssumption DEF KInv, DestInv
  <2>2. PICK g \in DOMAIN routes : a \in DOMAIN routes[g].peers \/ a \in DOMAIN routes[g].services
    BY <2>1 DEF Synced, Unknown
  <2>3. a \in DOMAIN routes[g].services => ActiveDev(routes[g].services[a].list) # {}
    BY <2>1 DEF Synced, ServiceRouted, ActiveDev
  <2> QED BY <2>2, <2>3
<1> QED BY <1>1, <1>2, <1>3, KernelInvariance, PTL DEF CacheMatchesKernel

(***************************************************************************)
(* Close leaves no route to an own destination in the kernel, unless it     *)
(* comes while a controller message is half executed.                       *)
(***************************************************************************)
THEOREM NothingLeftBehind == Spec => CloseCleansUp
<1>1. ASSUME KInv, EndClose, job = "none", NEW a \in OwnDest
      PROVE  kernel[a] \notin Iface
  <2>1. DestInv(a) /\ CInv /\ phase = "close" /\ todo = {} /\ loop = NoLoop
    BY <1>1 DEF KInv, EndClose
  <2>2. \A g \in DOMAIN routes : DOMAIN routes[g].services = {}
    BY <2>1 DEF CInv, Closing, Emptied
  <2>3. \A g \in DOMAIN routes : a \notin DOMAIN routes[g].peers
    BY <1>1, <2>1 DEF DestInv, AtRest
  <2>4. kernel[a] = NoRoute
    BY <2>1, <2>2, <2>3 DEF DestInv, Synced, Unknown
  <2> QED BY <2>4, NullAssumption
<1>2. KInv /\ [Next]_vars =>
        [EndClose /\ job = "none" => \A a \in OwnDest : kernel[a] \notin Iface]_vars
  BY <1>1
<1> QED BY <1>2, KernelInvariance, PTL DEF Spec, CloseCleansUp
=============================================================================
