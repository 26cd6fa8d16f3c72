------------------------------- MODULE Router -------------------------------
(***************************************************************************)
(* The SDN router of the agent: src/agent/router with its peer monitor,     *)
(* peer list and service monitor.                                           *)
(*                                                                         *)
(* A connection group (GID) is a set of parallel tunnels to one remote      *)
(* agent.  The router keeps, per group, a host route to every peer and, for *)
(* every service (a subnet behind the remote agent), the list of peers it   *)
(* can be reached through, one of which is active.  The controller's        *)
(* messages change this cache; Apply brings the kernel's routing table in   *)
(* line with it; every ping round moves the services of a group to the best *)
(* peer.                                                                    *)
(*                                                                         *)
(* Every method holds the router's mutex, so the actions of a method that   *)
(* touches the kernel are the iterations of its loops: Go iterates over a   *)
(* map in any order, and other programs change the kernel in between.       *)
(* Which peer is best is module RouteSelector's subject; here BestPath      *)
(* returns any peer of the group or none, which is all it promises.         *)
(***************************************************************************)
EXTENDS Functions, FiniteSets, Maps

CONSTANTS
  Gid,             \* connection group ids
  Addr,            \* destinations: addresses of peers and service subnets
  Base,            \* destination -> its address without the prefix length
  Iface,           \* the WireGuard interfaces of the agent
  Offer,           \* the peers the controller may send with add_peer
  Removal,         \* what the controller may send with remove_peer
  Volatile,        \* interfaces that may be deleted and created again
  ForeignDst,      \* destinations another program may add a route to
  DefaultRoute,    \* the destinations that are a default route
  VpnClient,       \* SYNTROPY_VPN_CLIENT
  CleanupOnExit,   \* SYNTROPY_CLEANUP_ON_EXIT
  NoRoute, NoAddr, NoLoop, OtherDev

NetPath == [gid: Gid, gw: Addr, ifname: Iface, svc: SUBSET Addr]
PeerRef == [gid: Gid, gw: Addr, svc: SUBSET Addr]

ASSUME OfferAssumption   == Offer \subseteq NetPath
ASSUME RemovalAssumption == Removal \subseteq PeerRef
ASSUME LinkAssumption    == Volatile \subseteq Iface
ASSUME DestAssumption    == ForeignDst \cup DefaultRoute \subseteq Addr
ASSUME HostAssumption    ==    \* a gateway is an address of full length
  \A o, n \in Offer : Base[o.gw] = Base[n.gw] => o.gw = n.gw
ASSUME ConfigAssumption  == VpnClient \in BOOLEAN /\ CleanupOnExit \in BOOLEAN
ASSUME NullAssumption    ==
  /\ NoAddr \notin Addr
  /\ NoRoute \notin Iface \cup {OtherDev}
  /\ OtherDev \notin Iface
  /\ NoLoop \notin [gid: Gid, best: Addr \cup {NoAddr}, todo: SUBSET Addr]

VARIABLES
  routes,   \* Router.routes: group id -> peer list and services
  kernel,   \* destination -> device of its route in the main table
  links,    \* the interfaces that exist
  job,      \* the controller message being executed
  phase,    \* the router method that holds the mutex, and its stage
  iter,     \* Apply: the iteration
  todo,     \* the groups the running loop has not reached yet
  loop,     \* the loop over a group's services, and the best path it uses
  solved,   \* Apply: resolveIpConflict returned a count above 0
  closed    \* Close has been called

vars == <<routes, kernel, links, job, phase, iter, todo, loop, solved, closed>>

NC == INSTANCE Netcfg

\* the destinations whose routes are found when the one to a is searched; the
\* kernel lists a default route without a destination
Near(a) == {d \in Addr \ DefaultRoute : Base[d] = Base[a]}

Added(table, a, ifname) == NC!RouteAdd(table, a, Near(a), ifname, links)

(***************************************************************************)
(* Flags are bit sets in the code and sets here: | is union, & is          *)
(* intersection.                                                           *)
(***************************************************************************)
PifFlags == {"AddPending", "DelPending", "Disabled"}
RfFlags  == {"PendingAdd", "PendingDel", "Active"}

PeerInfo   == [ifname: Iface, flags: SUBSET PifFlags]
RouteEntry == [ifname: Iface, flags: SUBSET RfFlags]

WithFlags(e, F) == [ifname |-> e.ifname, flags |-> F]

(***************************************************************************)
(* Peer list.                                                              *)
(***************************************************************************)
AddPeer(pl, o, disabled) ==
  LET old == IF o.gw \in DOMAIN pl THEN pl[o.gw].flags ELSE {}
  IN  Put(pl, o.gw,
          [ifname |-> o.ifname,
           flags  |-> ((old \cup {"AddPending"}) \ {"DelPending"})
                      \cup (IF disabled THEN {"Disabled"} ELSE {})])

SetFlag(pl, S, f) ==
  [a \in DOMAIN pl |-> IF a \in S THEN WithFlags(pl[a], pl[a].flags \cup {f})
                                  ELSE pl[a]]

DelPeer(pl, a) == SetFlag(pl, {a}, "DelPending")

\* peer.flags&PifDelPending|PifDisabled: & binds tighter than |
HasPeer(pl, a) ==
  a \in DOMAIN pl /\ (pl[a].flags \cap {"DelPending"}) \cup {"Disabled"} = {}

FlushPeers(pl) == SetFlag(pl, DOMAIN pl, "DelPending")

(***************************************************************************)
(* PeerMonitor.Apply: a disabled peer is skipped, or dropped when it is to  *)
(* be deleted; otherwise a pending addition wins over a pending deletion.   *)
(***************************************************************************)
PeerDropped(p) == /\ "DelPending" \in p.flags
                  /\ "Disabled" \in p.flags \/ "AddPending" \notin p.flags

PeerDev(p, a) ==
  IF "Disabled" \in p.flags THEN kernel[a]
  ELSE IF "AddPending" \in p.flags THEN Added(kernel, a, p.ifname)
  ELSE IF "DelPending" \in p.flags THEN NC!RouteDel(kernel[a], p.ifname, links)
  ELSE kernel[a]

ApplyPeerList(pl) ==
  [a \in {b \in DOMAIN pl : ~PeerDropped(pl[b])} |->
     IF "Disabled" \in pl[a].flags THEN pl[a]
                                   ELSE WithFlags(pl[a], {})]

\* mutant: the kernel calls are made for the peers that stay only
ApplyPeerDevs_Staying(pl) ==
  [a \in Addr |-> IF a \in DOMAIN ApplyPeerList(pl) THEN PeerDev(pl[a], a)
                                                    ELSE kernel[a]]

ApplyPeerDevs(pl) ==
  [a \in Addr |-> IF a \in DOMAIN pl THEN PeerDev(pl[a], a)
                                     ELSE kernel[a]]

(***************************************************************************)
(* BestPath of the group's path selector: a peer of the list, or nothing.   *)
(***************************************************************************)
BestPaths(pl) == DOMAIN pl \cup {NoAddr}

(***************************************************************************)
(* Route list of one service: gateway -> entry.  routeList.Add refuses a    *)
(* second entry for a gateway, so the gateway identifies the entry.         *)
(***************************************************************************)
NewRouteList(disabled) == [disabled |-> disabled, list |-> EmptyMap]

ListAdd(rl, o) ==
  LET list == rl.list
      new  == IF o.gw \in DOMAIN list
              THEN WithFlags(list[o.gw], list[o.gw].flags \ {"PendingDel"})
              ELSE [ifname |-> o.ifname, flags |-> {"PendingAdd"}]
  IN  [disabled |-> rl.disabled, list |-> Put(list, o.gw, new)]

MarkDel(rl, S) ==
  LET Mark(e) == WithFlags(e, e.flags \cup {"PendingDel"})
  IN  [disabled |-> rl.disabled,
       list |-> [g \in DOMAIN rl.list |-> IF g \in S THEN Mark(rl.list[g]) ELSE rl.list[g]]]

Having(list, f) == {g \in DOMAIN list : f \in list[g].flags}

GetActive(list) ==
  IF Having(list, "Active") = {} THEN {NoAddr} ELSE Having(list, "Active")

\* the code takes the first entry of the slice; any one here
GetDefault(list) ==
  IF Having(list, "Active") # {} THEN Having(list, "Active")
  ELSE DOMAIN list \ Having(list, "PendingDel")

\* mutant: a new entry stays new
ResetPending_DelOnly(list) ==
  [g \in DOMAIN list |-> WithFlags(list[g], list[g].flags \ {"PendingDel"})]

ResetPending(list) ==
  [g \in DOMAIN list |-> WithFlags(list[g], list[g].flags \ {"PendingAdd", "PendingDel"})]

\* mutant: the old entry keeps the flag
MoveActive_KeepsOld(list, old, new) ==
  [g \in DOMAIN list |->
     WithFlags(list[g], list[g].flags \cup (IF g = new THEN {"Active"} ELSE {}))]

\* moves the Active flag from old to new, either of which may be absent
MoveActive(list, old, new) ==
  [g \in DOMAIN list |->
     WithFlags(list[g], (IF g = old THEN list[g].flags \ {"Active"} ELSE list[g].flags)
                        \cup (IF g = new THEN {"Active"} ELSE {}))]

RerouteList(list, new, old) ==
  IF new = old THEN list ELSE MoveActive(list, old, new)

\* mutant: the new route is added beside the old one
RerouteDev_AddOnly(list, new, old, s) ==
  IF new = old THEN kernel[s]
  ELSE IF new = NoAddr THEN NC!RouteDel(kernel[s], list[old].ifname, links)
  ELSE Added(kernel, s, list[new].ifname)

RerouteDev(list, new, old, s) ==
  IF new = old THEN kernel[s]
  ELSE IF new = NoAddr THEN NC!RouteDel(kernel[s], list[old].ifname, links)
  ELSE IF old = NoAddr THEN Added(kernel, s, list[new].ifname)
  ELSE NC!RouteReplace(kernel[s], list[new].ifname, links)

\* the gateways of the entries mergeRoutes keeps
Kept(list) == DOMAIN list \ Having(list, "PendingDel")

(***************************************************************************)
(* Service monitor.                                                        *)
(***************************************************************************)
Unpending(list) == Having(list, "PendingAdd") \cup Having(list, "PendingDel") = {}

OnlyAdds(list) == /\ Having(list, "PendingAdd") = DOMAIN list
                  /\ Having(list, "PendingDel") = {}

OnlyDels(list) == /\ Having(list, "PendingDel") = DOMAIN list
                  /\ Having(list, "PendingAdd") = {}

HasAddress(services, a) ==
  /\ a \in DOMAIN services
  /\ ~services[a].disabled
  /\ ~OnlyDels(services[a].list)

\* an existing list keeps its disabled flag, in conflict or not
ServicesAdd(services, o, S, conflicts) ==
  [s \in DOMAIN services \cup S |->
     IF s \notin S THEN services[s]
     ELSE ListAdd(IF s \in DOMAIN services THEN services[s]
                  ELSE NewRouteList(s \in conflicts), o)]

ServicesDel(services, gw, S) ==
  [s \in DOMAIN services |-> IF s \in S THEN MarkDel(services[s], {gw})
                                        ELSE services[s]]

FlushServices(services) ==
  [s \in {t \in DOMAIN services : ~services[t].disabled} |->
     MarkDel(services[s], DOMAIN services[s].list)]

(***************************************************************************)
(* Router: groups and conflicts between them.                              *)
(***************************************************************************)
EmptyGroup == [peers |-> EmptyMap, services |-> EmptyMap]

WithPeers(group, pl)     == [peers |-> pl, services |-> group.services]
WithServices(group, svc) == [peers |-> group.peers, services |-> svc]

FindOrCreate(g) == IF g \in DOMAIN routes THEN routes[g] ELSE EmptyGroup

HasIpConflict(a, g) ==
  \E h \in DOMAIN routes \ {g} :
     HasPeer(routes[h].peers, a) \/ HasAddress(routes[h].services, a)

Loop(g, best, S) ==
  IF S = {} THEN NoLoop ELSE [gid |-> g, best |-> best, todo |-> S]

Idle == phase = "idle"

\* the router has finished what the last controller message asked for
Settled == Idle /\ job = "none"

(***************************************************************************)
(* Controller messages.  CONFIG_INFO flushes the cache and re-adds every    *)
(* peer; WG_CONF adds and removes some.  Both end with one Apply.           *)
(***************************************************************************)
ConfigInfo ==
  /\ Settled
  /\ job' = "config"
  /\ routes' = [g \in DOMAIN routes |->
                  [peers    |-> FlushPeers(routes[g].peers),
                   services |-> FlushServices(routes[g].services)]]
  /\ UNCHANGED <<kernel, links, phase, iter, todo, loop, solved, closed>>

WgConf ==
  /\ Settled
  /\ job' = "wgconf"
  /\ UNCHANGED <<routes, kernel, links, phase, iter, todo, loop, solved, closed>>

RouteAdd(o) ==
  /\ Idle
  /\ job \in {"config", "wgconf"}
  /\ LET group == FindOrCreate(o.gid)
         dests == IF VpnClient THEN o.svc ELSE o.svc \ DefaultRoute
         conflicts == {a \in Addr : HasIpConflict(a, o.gid)}
     IN  routes' = Put(routes, o.gid,
                       [peers    |-> AddPeer(group.peers, o, o.gw \in conflicts),
                        services |-> ServicesAdd(group.services, o, dests, conflicts)])
  /\ UNCHANGED <<kernel, links, job, phase, iter, todo, loop, solved, closed>>

RouteDel(r) ==
  /\ Idle
  /\ job = "wgconf"
  /\ r.gid \in DOMAIN routes
  /\ routes' = [routes EXCEPT ![r.gid] =
                  [peers    |-> DelPeer(@.peers, r.gw),
                   services |-> ServicesDel(@.services, r.gw, r.svc)]]
  /\ UNCHANGED <<kernel, links, job, phase, iter, todo, loop, solved, closed>>

(***************************************************************************)
(* Apply: at most MaxIteration times, apply every group and then look for   *)
(* conflicts the changes have resolved.                                     *)
(***************************************************************************)
\* mutant: one iteration
MaxIteration_One == 1

MaxIteration == 3

Apply ==
  /\ Idle
  /\ job # "none"
  /\ phase' = "apply"
  /\ iter' = 1
  /\ todo' = DOMAIN routes
  /\ UNCHANGED <<routes, kernel, links, job, loop, solved, closed>>

ApplyPeers(g) ==
  /\ phase = "apply"
  /\ loop = NoLoop
  /\ g \in todo
  /\ todo' = todo \ {g}
  /\ routes' = [routes EXCEPT ![g] = WithPeers(@, ApplyPeerList(@.peers))]
  /\ kernel' = ApplyPeerDevs(routes[g].peers)
  /\ \E best \in BestPaths(ApplyPeerList(routes[g].peers)) :
        loop' = Loop(g, best, DOMAIN routes[g].services)
  /\ UNCHANGED <<links, job, phase, iter, solved, closed>>

\* the service loop of a method in stage p is at destination s
AtService(p, s) ==
  /\ phase = p
  /\ loop # NoLoop
  /\ s \in loop.todo
  /\ loop' = Loop(loop.gid, loop.best, loop.todo \ {s})
  /\ UNCHANGED <<links, job, phase, iter, todo, solved, closed>>

ListAt(s) == routes[loop.gid].services[s]

SetServices(services) ==
  routes' = [routes EXCEPT ![loop.gid] = WithServices(@, services)]

SetList(s, list) ==
  SetServices(Put(routes[loop.gid].services, s,
                  [disabled |-> ListAt(s).disabled, list |-> list]))

DropList(s) ==
  LET services == routes[loop.gid].services
  IN  SetServices(Restrict(services, DOMAIN services \ {s}))

ApplySkip(s) ==
  /\ AtService("apply", s)
  /\ ListAt(s).disabled \/ Unpending(ListAt(s).list)
  /\ UNCHANGED <<routes, kernel>>

(***************************************************************************)
(* routeList.setRoute, for a list whose entries are all new.  The route is  *)
(* searched and, if none is found, added, and the entry is active whatever  *)
(* the kernel answers: another program may have been faster with a route    *)
(* of its own.  A route that is found on the interface of an entry makes    *)
(* this entry the active one.                                               *)
(***************************************************************************)
RoutedSince ==
  {kernel} \cup {[kernel EXCEPT ![a] = OtherDev] : a \in {b \in ForeignDst : kernel[b] = NoRoute}}

SetRoute(s) ==
  /\ AtService("apply", s)
  /\ ~ListAt(s).disabled
  /\ LET list   == ListAt(s).list
         owners == NC!RouteSearch(kernel, Near(s))
         Via(g) == /\ \E old \in GetActive(list) :
                        SetList(s, ResetPending(MoveActive(list, old, g)))
     IN  /\ ~Unpending(list)
         /\ OnlyAdds(list)
         /\ \/ /\ owners = {}
               /\ \E g \in GetDefault(list), table \in RoutedSince :
                     /\ Via(g)
                     /\ kernel' = [table EXCEPT ![s] = Added(table, s, list[g].ifname)]
            \/ \E owner \in owners :
                  /\ \/ \E g \in DOMAIN list : list[g].ifname = owner /\ Via(g)
                     \/ /\ \A g \in DOMAIN list : list[g].ifname # owner
                        /\ SetList(s, ResetPending(list))
                  /\ UNCHANGED kernel

(***************************************************************************)
(* routeList.clearRoute, for a list whose entries are all to be deleted.   *)
(***************************************************************************)
ClearedDev(list, active, dev) ==
  IF active = NoAddr THEN dev ELSE NC!RouteDel(dev, list[active].ifname, links)

ClearRoute(s) ==
  /\ AtService("apply", s)
  /\ ~ListAt(s).disabled
  /\ LET list == ListAt(s).list
     IN  /\ ~Unpending(list)
         /\ OnlyDels(list)
         /\ \E active \in GetActive(list) :
               kernel' = [kernel EXCEPT ![s] = ClearedDev(list, active, @)]
  /\ DropList(s)

(***************************************************************************)
(* routeList.mergeRoutes: drop the deleted entries and reroute to the best  *)
(* path, if it is one of the entries that stay.                             *)
(***************************************************************************)
MergeRoutes(s) ==
  /\ AtService("apply", s)
  /\ ~ListAt(s).disabled
  /\ LET list == ListAt(s).list
         new  == IF loop.best \in Kept(list) THEN loop.best ELSE NoAddr
     IN  /\ ~Unpending(list)
         /\ ~OnlyAdds(list)
         /\ ~OnlyDels(list)
         /\ \E old \in GetActive(list) :
               /\ SetList(s, RerouteList(ResetPending(Restrict(list, Kept(list))), new, old))
               /\ kernel' = [kernel EXCEPT ![s] = RerouteDev(list, new, old, s)]

\* mutants: the resolution visits deleted groups; it visits none
EndPass_StaleKeys ==
  /\ phase = "apply"
  /\ todo = {}
  /\ loop = NoLoop
  /\ routes' = Restrict(routes, {g \in DOMAIN routes : DOMAIN routes[g].peers # {}})
  /\ todo' = DOMAIN routes
  /\ phase' = "resolve"
  /\ solved' = FALSE
  /\ UNCHANGED <<kernel, links, job, iter, loop, closed>>

EndPass_NoResolve ==
  /\ phase = "apply"
  /\ todo = {}
  /\ loop = NoLoop
  /\ routes' = Restrict(routes, {g \in DOMAIN routes : DOMAIN routes[g].peers # {}})
  /\ phase' = "resolve"
  /\ solved' = FALSE
  /\ UNCHANGED <<kernel, links, job, iter, todo, loop, closed>>

\* all groups are applied: those without peers are deleted
EndPass ==
  /\ phase = "apply"
  /\ todo = {}
  /\ loop = NoLoop
  /\ LET live == {g \in DOMAIN routes : DOMAIN routes[g].peers # {}}
     IN  /\ routes' = Restrict(routes, live)
         /\ todo' = live
  /\ phase' = "resolve"
  /\ solved' = FALSE
  /\ UNCHANGED <<kernel, links, job, iter, loop, closed>>

ResolveIpConflict(g) ==
  /\ phase = "resolve"
  /\ g \in todo
  /\ todo' = todo \ {g}
  /\ LET pl    == routes[g].peers
         svc   == routes[g].services
         freeP == {a \in DOMAIN pl : "Disabled" \in pl[a].flags /\ ~HasIpConflict(a, g)}
         freeS == {s \in DOMAIN svc : svc[s].disabled /\ ~HasIpConflict(s, g)}
     IN  /\ routes' = [routes EXCEPT ![g] =
               [peers    |-> [a \in DOMAIN pl |->
                                IF a \in freeP THEN WithFlags(pl[a], pl[a].flags \ {"Disabled"})
                                               ELSE pl[a]],
                services |-> [s \in DOMAIN svc |->
                                [disabled |-> svc[s].disabled /\ s \notin freeS,
                                 list     |-> svc[s].list]]]]
         /\ solved' = (solved \/ freeP # {} \/ freeS # {})
  /\ UNCHANGED <<kernel, links, job, phase, iter, loop, closed>>

EndResolve ==
  /\ phase = "resolve"
  /\ todo = {}
  /\ solved' = FALSE
  /\ \/ /\ solved
        /\ iter < MaxIteration
        /\ phase' = "apply"
        /\ iter' = iter + 1
        /\ todo' = DOMAIN routes
        /\ UNCHANGED job
     \/ /\ ~solved \/ iter = MaxIteration
        /\ phase' = "idle"
        /\ iter' = 0
        /\ job' = "none"
        /\ UNCHANGED todo
  /\ UNCHANGED <<routes, kernel, links, loop, closed>>

(***************************************************************************)
(* PingProcess: the ping results go to the peers' statistics (module       *)
(* RouteSelector), and every group's services are rerouted.                 *)
(***************************************************************************)
PingProcess ==
  /\ Idle
  /\ phase' = "reroute"
  /\ todo' = DOMAIN routes
  /\ UNCHANGED <<routes, kernel, links, job, iter, loop, solved, closed>>

RerouteGroup(g) ==
  /\ phase = "reroute"
  /\ loop = NoLoop
  /\ g \in todo
  /\ todo' = todo \ {g}
  /\ \E best \in BestPaths(routes[g].peers) :
        loop' = Loop(g, best, DOMAIN routes[g].services)
  /\ UNCHANGED <<routes, kernel, links, job, phase, iter, solved, closed>>

\* mutant: conflicting services are rerouted as well
RerouteService_Disabled(s) ==
  /\ AtService("reroute", s)
  /\ LET list == ListAt(s).list
         new  == IF loop.best \in DOMAIN list THEN loop.best ELSE NoAddr
     IN  \E old \in GetActive(list) :
            /\ SetList(s, RerouteList(list, new, old))
            /\ kernel' = [kernel EXCEPT ![s] = RerouteDev(list, new, old, s)]

RerouteService(s) ==
  /\ AtService("reroute", s)
  /\ ~ListAt(s).disabled
  /\ LET list == ListAt(s).list
         new  == IF loop.best \in DOMAIN list THEN loop.best ELSE NoAddr
     IN  \E old \in GetActive(list) :
            /\ SetList(s, RerouteList(list, new, old))
            /\ kernel' = [kernel EXCEPT ![s] = RerouteDev(list, new, old, s)]

RerouteSkip(s) ==
  /\ AtService("reroute", s)
  /\ ListAt(s).disabled
  /\ UNCHANGED <<routes, kernel>>

EndReroute ==
  /\ phase = "reroute"
  /\ todo = {}
  /\ loop = NoLoop
  /\ phase' = "idle"
  /\ UNCHANGED <<routes, kernel, links, job, iter, todo, loop, solved, closed>>

(***************************************************************************)
(* Close: flush and apply the peers, then clear the services that are not   *)
(* disabled and forget them all.  The groups stay in the map.               *)
(***************************************************************************)
Close ==
  /\ Idle
  /\ ~closed
  /\ closed' = TRUE
  /\ IF CleanupOnExit THEN phase' = "close" /\ todo' = DOMAIN routes
                      ELSE UNCHANGED <<phase, todo>>
  /\ UNCHANGED <<routes, kernel, links, job, iter, loop, solved>>

ClosePeers(g) ==
  /\ phase = "close"
  /\ loop = NoLoop
  /\ g \in todo
  /\ todo' = todo \ {g}
  /\ LET pl == FlushPeers(routes[g].peers)
     IN  /\ routes' = [routes EXCEPT ![g] = WithPeers(@, ApplyPeerList(pl))]
         /\ kernel' = ApplyPeerDevs(pl)
  /\ loop' = Loop(g, NoAddr, DOMAIN routes[g].services)
  /\ UNCHANGED <<links, job, phase, iter, solved, closed>>

CloseService(s) ==
  /\ AtService("close", s)
  /\ LET list == ListAt(s).list
     IN  IF ListAt(s).disabled THEN UNCHANGED kernel
         ELSE \E active \in GetActive(list) :
                 kernel' = [kernel EXCEPT ![s] = ClearedDev(list, active, @)]
  /\ DropList(s)

EndClose ==
  /\ phase = "close"
  /\ todo = {}
  /\ loop = NoLoop
  /\ phase' = "idle"
  /\ UNCHANGED <<routes, kernel, links, job, iter, todo, loop, solved, closed>>

(***************************************************************************)
(* Environment: the kernel drops the routes of an interface that is         *)
(* deleted; another program adds or deletes a route of its own.             *)
(***************************************************************************)
LinkDel(i) ==
  /\ i \in links \cap Volatile
  /\ links' = links \ {i}
  /\ kernel' = [a \in Addr |-> IF kernel[a] = i THEN NoRoute ELSE kernel[a]]
  /\ UNCHANGED <<routes, job, phase, iter, todo, loop, solved, closed>>

LinkAdd(i) ==
  /\ i \in Iface \ links
  /\ links' = links \cup {i}
  /\ UNCHANGED <<routes, kernel, job, phase, iter, todo, loop, solved, closed>>

ForeignAdd(a) ==
  /\ a \in ForeignDst
  /\ kernel[a] = NoRoute
  /\ kernel' = [kernel EXCEPT ![a] = OtherDev]
  /\ UNCHANGED <<routes, links, job, phase, iter, todo, loop, solved, closed>>

ForeignDel(a) ==
  /\ kernel[a] = OtherDev
  /\ kernel' = [kernel EXCEPT ![a] = NoRoute]
  /\ UNCHANGED <<routes, links, job, phase, iter, todo, loop, solved, closed>>

-----------------------------------------------------------------------------
Init ==
  /\ routes = EmptyMap
  /\ kernel = [a \in Addr |-> NoRoute]
  /\ links = Iface
  /\ job = "none"
  /\ phase = "idle"
  /\ iter = 0
  /\ todo = {}
  /\ loop = NoLoop
  /\ solved = FALSE
  /\ closed = FALSE

Message ==
  \/ ConfigInfo
  \/ WgConf
  \/ \E o \in Offer : RouteAdd(o)
  \/ \E r \in Removal : RouteDel(r)

GroupStep ==
  \/ Apply \/ EndPass \/ EndResolve
  \/ PingProcess \/ EndReroute
  \/ Close \/ EndClose
  \/ \E g \in Gid : ApplyPeers(g) \/ ResolveIpConflict(g) \/ RerouteGroup(g) \/ ClosePeers(g)

ServiceStep ==
  \E s \in Addr : \/ ApplySkip(s) \/ SetRoute(s) \/ ClearRoute(s) \/ MergeRoutes(s)
                  \/ RerouteService(s) \/ RerouteSkip(s)
                  \/ CloseService(s)

Environment ==
  \/ \E i \in Iface : LinkDel(i) \/ LinkAdd(i)
  \/ \E a \in Addr : ForeignAdd(a) \/ ForeignDel(a)

Next == Message \/ GroupStep \/ ServiceStep \/ Environment

Spec == Init /\ [][Next]_vars

-----------------------------------------------------------------------------
(***************************************************************************)
(* Type invariant, with what ties the loop variables to the cache: a        *)
(* running loop only visits groups and services that are still there.       *)
(***************************************************************************)
PeersType(pl) == IsMap(pl, Addr) /\ \A a \in DOMAIN pl : pl[a] \in PeerInfo

ListType(list) == IsMap(list, Addr) /\ \A g \in DOMAIN list : list[g] \in RouteEntry

ServicesType(services) ==
  /\ IsMap(services, Addr)
  /\ \A s \in DOMAIN services :
       LET rl == services[s]
       IN  /\ rl = [disabled |-> rl.disabled, list |-> rl.list]
           /\ rl.disabled \in BOOLEAN
           /\ ListType(rl.list)

RoutesType ==
  /\ IsMap(routes, Gid)
  /\ \A g \in DOMAIN routes :
       /\ routes[g] = [peers |-> routes[g].peers, services |-> routes[g].services]
       /\ PeersType(routes[g].peers)
       /\ ServicesType(routes[g].services)

LoopType ==
  \/ loop = NoLoop
  \/ /\ phase \in {"apply", "reroute", "close"}
     /\ loop \in [gid: DOMAIN routes, best: Addr \cup {NoAddr}, todo: SUBSET Addr]
     /\ loop.todo \subseteq DOMAIN routes[loop.gid].services

ControlType ==
  /\ kernel \in [Addr -> Iface \cup {OtherDev, NoRoute}]
  /\ links \subseteq Iface
  /\ job \in {"none", "config", "wgconf"}
  /\ phase \in {"idle", "apply", "resolve", "reroute", "close"}
  /\ iter \in 0..MaxIteration
  /\ todo \subseteq DOMAIN routes
  /\ LoopType
  /\ solved \in BOOLEAN
  /\ closed \in BOOLEAN

TypeOK == RoutesType /\ ControlType

(***************************************************************************)
(* A service has one active route at most: GetActive, which returns the     *)
(* first entry that carries the flag, never has a second one to overlook,   *)
(* whatever sequence of messages, ping rounds and failed kernel calls came   *)
(* before.                                                                  *)
(***************************************************************************)
AtMostOneActive(list) == \A a, b \in Having(list, "Active") : a = b

OneActive ==
  \A g \in DOMAIN routes : \A s \in DOMAIN routes[g].services :
    AtMostOneActive(routes[g].services[s].list)

(***************************************************************************)
(* A service that is disabled because of an address conflict never holds    *)
(* an active route, so Close and Flush lose nothing by skipping it ("no     *)
(* need to delete routes that were not added", srvmon.go).                  *)
(***************************************************************************)
DisabledHasNoRoute ==
  \A g \in DOMAIN routes : \A s \in DOMAIN routes[g].services :
    routes[g].services[s].disabled => Having(routes[g].services[s].list, "Active") = {}

(***************************************************************************)
(* Once a message is executed, a destination is only left disabled if a     *)
(* second group really holds its address: no conflict outlives its cause,   *)
(* in whichever order the groups were visited.                              *)
(***************************************************************************)
ConflictsHold(g) ==
  /\ \A a \in DOMAIN routes[g].peers :
        "Disabled" \in routes[g].peers[a].flags => HasIpConflict(a, g)
  /\ \A s \in DOMAIN routes[g].services :
        routes[g].services[s].disabled => HasIpConflict(s, g)

NoStaleConflict == Settled => \A g \in DOMAIN routes : ConflictsHold(g)

(***************************************************************************)
(* Once a message is executed nothing that is enabled is still waiting to   *)
(* be applied.  The addresses are those three groups at most can contend    *)
(* for: each iteration frees an address for one group that then has it      *)
(* removed again, so three iterations serve three groups, whatever order    *)
(* the map is visited in.                                                   *)
(***************************************************************************)
Dests(o) == {o.gw} \cup o.svc

Rivals(a) == {o.gid : o \in {n \in Offer : a \in Dests(n)}}

Uncrowded ==
  {a \in Addr : /\ \E g, h, k \in Gid : Rivals(a) \subseteq {g, h, k}
                /\ \A o, n \in Offer : o.gid = n.gid /\ o.gw = a => a \notin n.svc}

Waiting(g) ==
  LET pl  == routes[g].peers
      svc == routes[g].services
  IN  {a \in DOMAIN pl : pl[a].flags # {} /\ "Disabled" \notin pl[a].flags}
      \cup {s \in DOMAIN svc : ~svc[s].disabled /\ ~Unpending(svc[s].list)}

NothingPending == Settled => \A g \in DOMAIN routes : Waiting(g) \cap Uncrowded = {}

(***************************************************************************)
(* The kernel agrees with the cache: a service leaves through its active    *)
(* entry's interface and has no route if none is active, an applied peer    *)
(* has its host route, and no route of the agent is left that the cache     *)
(* does not know.  The claim is about the destinations that are the         *)
(* agent's and one group's own: another program adds no route to them, no   *)
(* second group has them (see OneOwner), they are not a peer and a service  *)
(* at once, no interface they are reached through comes and goes, and a     *)
(* peer is removed with all it was added with.  And no other destination    *)
(* begins with the same address, or the route to it is taken for theirs.    *)
(* What happens to all the others does not spread to these.                 *)
(***************************************************************************)
Unshared(a) ==
  \A o, n \in Offer : a \in Dests(o) \cap Dests(n) =>
    /\ o.gid = n.gid
    /\ a = o.gw => a \notin n.svc /\ o.ifname = n.ifname

Steady(a) == \A o \in Offer : a \in Dests(o) => o.ifname \notin Volatile

RemovedWhole(a) ==
  \A o \in Offer, r \in Removal :
    a \in o.svc /\ r.gid = o.gid /\ r.gw = o.gw => a \in r.svc

Alone(a) == Near(a) \subseteq {a}

OwnDest ==
  {a \in Addr \ ForeignDst : Unshared(a) /\ Steady(a) /\ RemovedWhole(a) /\ Alone(a)}

ActiveDev(list) == {list[g].ifname : g \in Having(list, "Active")}

ServiceInSync ==
  \A g \in DOMAIN routes : \A s \in DOMAIN routes[g].services \cap OwnDest :
    LET rl == routes[g].services[s]
    IN  ~rl.disabled =>
          {kernel[s]} = IF ActiveDev(rl.list) = {} THEN {NoRoute} ELSE ActiveDev(rl.list)

PeerInSync ==
  \A g \in DOMAIN routes : \A a \in DOMAIN routes[g].peers \cap OwnDest :
    routes[g].peers[a].flags = {} => kernel[a] = routes[g].peers[a].ifname

NoLeftover ==
  \A a \in OwnDest : kernel[a] \in Iface =>
    \E g \in DOMAIN routes :
       \/ a \in DOMAIN routes[g].peers
       \/ a \in DOMAIN routes[g].services /\ ActiveDev(routes[g].services[a].list) # {}

CacheMatchesKernel == ServiceInSync /\ PeerInSync /\ NoLeftover

(***************************************************************************)
(* Closing the router leaves no route of the agent behind, if no controller *)
(* message is half executed.                                                *)
(***************************************************************************)
CloseCleansUp ==
  [][EndClose /\ job = "none" =>
       \A a \in OwnDest : kernel[a] \notin Iface]_vars

(***************************************************************************)
(* An address is in use by one group at a time: the router detects the      *)
(* conflict and disables the second one ("conflicting IP was detected (and  *)
(* prevented)", srvmon.go).                                                 *)
(***************************************************************************)
OneOwner ==
  \A g, h \in DOMAIN routes : \A s \in Addr :
    HasAddress(routes[g].services, s) /\ HasAddress(routes[h].services, s) => g = h
=============================================================================
