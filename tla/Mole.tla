-------------------------------- MODULE Mole --------------------------------
(***************************************************************************)
(* agent/mole: makes tunnels out of WireGuard devices and peers, host       *)
(* routes and the SDN router, as the messages CONFIG_INFO and WG_CONF say;  *)
(* and the restarts of the agent, which lose every cache while the kernel   *)
(* keeps what was configured.                                               *)
(*                                                                         *)
(* The router, the host router and the WireGuard cache are the modules of   *)
(* these names: a call is a conjunct.  mole's own mutex is held by every    *)
(* method except Flush and Apply, so those run while Close does, and ping   *)
(* rounds of the router run beside all of it.                               *)
(***************************************************************************)
EXTENDS Naturals, FiniteSets, Maps

CONSTANTS
  Gid, Addr, Iface,      \* groups, destinations and interfaces of the router
  Base,                  \* destination -> its address without the prefix length
  Ip, Wan,               \* endpoints, and the interface the default route is on
  Key,                   \* public keys
  Peer,                  \* the peers the controller may send with add_peer
  CleanupOnExit,         \* SYNTROPY_CLEANUP_ON_EXIT
  MayFail,               \* creating an interface may fail
  MaxCount, MaxRestart,  \* bounds
  NoRoute, NoAddr, NoLoop, NoGw, OtherDev

ASSUME PeerAssumption ==
  Peer \subseteq [key: Key, gid: Gid, ifname: Iface, gw: Addr, svc: SUBSET Addr, ip: Ip]
ASSUME HostAssumption ==
  \A p, q \in Peer : Base[p.gw] = Base[q.gw] => p.gw = q.gw
ASSUME FlagAssumption  == CleanupOnExit \in BOOLEAN /\ MayFail \in BOOLEAN
ASSUME BoundAssumption == MaxRestart \in Nat /\ MaxCount \in Nat \ {0}
ASSUME WanAssumption   == NoGw \notin Wan /\ NoRoute \notin Wan
ASSUME NullAssumption  ==
  /\ NoRoute \notin Iface
  /\ NoLoop \notin [gid: Gid, best: Addr \cup {NoAddr}, todo: SUBSET Addr]

VARIABLES
  routes, kernel, job, phase, iter, todo, loop, solved, closed,  \* Router
  hosts, hostIf, default, hostDev,                               \* HostRoute
  devices, os,                                                   \* Wireguard
  peers,     \* the peer cache: interface and key -> group and endpoint
  stage,     \* where the message being executed is
  left,      \* Apply: what the residual peers were allowed
  closing,   \* where Close is
  restarts,  \* how often the agent was started again
  torn       \* a message was cut off by a restart or ran into a Close

rvars == <<routes, kernel, job, phase, iter, todo, loop, solved, closed>>
hvars == <<hosts, hostIf, default, hostDev>>
wvars == <<devices, os>>
mvars == <<peers, stage, left, closing, restarts, torn>>
vars  == <<rvars, hvars, wvars, mvars>>

Path(p) == [gid |-> p.gid, gw |-> p.gw, ifname |-> p.ifname, svc |-> p.svc]
Ref(p)  == [gid |-> p.gid, gw |-> p.gw, svc |-> p.svc]

R == INSTANCE Router WITH
       links <- DOMAIN os, Offer <- {Path(p) : p \in Peer}, Removal <- {Ref(p) : p \in Peer},
       Volatile <- {}, ForeignDst <- {}, DefaultRoute <- {}, VpnClient <- FALSE
H == INSTANCE HostRoute WITH
       routes <- hosts, ifname <- hostIf, dev <- hostDev, Volatile <- {}, ForeignDst <- {}
W == INSTANCE Wireguard
NC == INSTANCE Netcfg

\* the first allowed address is the peer's own, the others are its services
AllowedIPs(p) == {p.gw} \cup p.svc

makeKey(p) == <<p.ifname, p.key>>

\* a device that is deleted takes its routes with it
KernelDropsRoutes ==
  kernel' = [a \in Addr |-> IF kernel[a] \in Iface \ DOMAIN os' THEN NoRoute ELSE kernel[a]]

RouterCacheStays == UNCHANGED <<routes, job, phase, iter, todo, loop, solved, closed>>

Unlocked == closing \in {"no", "done"}

(***************************************************************************)
(* CONFIG_INFO: Flush, interfaces and peers, Apply.  WG_CONF: peers, Apply. *)
(***************************************************************************)
ConfigInfo ==
  /\ stage = "idle"
  /\ stage' = "exec"
  /\ W!Flush
  /\ H!Flush
  /\ R!ConfigInfo
  /\ peers' = EmptyMap
  /\ torn' = (torn \/ closing # "no")
  /\ UNCHANGED <<left, closing, restarts>>

WgConf ==
  /\ stage = "idle"
  /\ stage' = "exec"
  /\ UNCHANGED <<hvars, wvars>>
  /\ R!WgConf
  /\ torn' = (torn \/ closing # "no")
  /\ UNCHANGED <<peers, left, closing, restarts>>

\* the controller names an interface once in a message
CreateInterface(i) ==
  /\ i \notin DOMAIN devices
  /\ stage = "exec" /\ job = "config" /\ Unlocked
  /\ \E fails \in IF MayFail THEN BOOLEAN ELSE {FALSE} : W!CreateInterface(i, fails)
  /\ UNCHANGED <<rvars, hvars, mvars>>

\* mutant: the error of the WireGuard cache is only logged
AddPeer_Anyway(p) ==
  /\ stage = "exec" /\ Unlocked
  /\ IF W!AddPeerFails(p.ifname) THEN UNCHANGED wvars
     ELSE W!AddPeer(p.ifname, p.key, AllowedIPs(p))
  /\ H!Add(p.ip)
  /\ R!RouteAdd(Path(p))
  /\ peers' = Put(peers, makeKey(p), [gid |-> p.gid, ip |-> p.ip])
  /\ UNCHANGED <<stage, left, closing, restarts, torn>>

\* nothing else is done if the kernel refuses the peer
AddPeer(p) ==
  /\ stage = "exec" /\ Unlocked
  /\ W!AddPeer(p.ifname, p.key, AllowedIPs(p))
  /\ H!Add(p.ip)
  /\ R!RouteAdd(Path(p))
  /\ peers' = Put(peers, makeKey(p), [gid |-> p.gid, ip |-> p.ip])
  /\ UNCHANGED <<stage, left, closing, restarts, torn>>

(***************************************************************************)
(* RemovePeer.  The message names neither group nor endpoint; without them  *)
(* in the cache, the router and the host routes stay as they are.           *)
(***************************************************************************)
\* mutant: the entry stays in the cache
CheckAndDel_Check(p) == UNCHANGED peers

CheckAndDel(p) == peers' = Without(peers, {makeKey(p)})

\* a message does not remove a peer it has added
AddedNow(p) ==
  /\ p.gid \in DOMAIN routes
  /\ p.gw \in DOMAIN routes[p.gid].peers
  /\ "AddPending" \in routes[p.gid].peers[p.gw].flags

RemovePeer(p) ==
  /\ ~AddedNow(p)
  /\ stage = "exec" /\ job = "wgconf" /\ Unlocked
  /\ W!RemovePeer(p.ifname, p.key)
  /\ CheckAndDel(p)
  /\ IF makeKey(p) \in DOMAIN peers
     THEN LET entry == peers[makeKey(p)]
          IN  /\ H!Del(entry.ip)
              /\ IF entry.gid \in DOMAIN routes
                 THEN R!RouteDel([gid |-> entry.gid, gw |-> p.gw, svc |-> p.svc])
                 ELSE UNCHANGED rvars
     ELSE UNCHANGED <<rvars, hvars>>
  /\ UNCHANGED <<stage, left, closing, restarts, torn>>

(***************************************************************************)
(* Apply: WireGuard, the routes residual peers left, the host routes, the   *)
(* router.                                                                  *)
(***************************************************************************)
ApplyWireguard ==
  /\ stage = "exec"
  /\ stage' = "left"
  /\ left' = W!allowedIPs
  /\ W!Apply
  /\ KernelDropsRoutes
  /\ RouterCacheStays
  /\ UNCHANGED <<hvars, peers, closing, restarts, torn>>

ApplyBlocks ==
  /\ stage = "exec"
  /\ stage' = "blocked"
  /\ W!ApplyBlocks
  /\ KernelDropsRoutes
  /\ RouterCacheStays
  /\ UNCHANGED <<hvars, peers, left, closing, restarts, torn>>

HasActiveRoute(a) ==
  \E g \in DOMAIN routes :
    R!HasPeer(routes[g].peers, a) \/ R!HasAddress(routes[g].services, a)

\* the search for the route to a may find another one, on another interface,
\* and then the deletion fails
Mistakable == {a \in left : NC!RouteSearch(kernel, R!Near(a)) \ {kernel[a]} # {}}

\* mutant: the routes stay
DeleteRoutes_None == UNCHANGED kernel

DeleteRoutes ==
  \E missed \in SUBSET Mistakable :
    kernel' = [a \in Addr |-> IF a \in left \ missed /\ ~HasActiveRoute(a) THEN NoRoute
                                                                        ELSE kernel[a]]

ApplyLeftovers ==
  /\ stage = "left"
  /\ phase = "idle"
  /\ stage' = "hosts"
  /\ left' = {}
  /\ DeleteRoutes
  /\ RouterCacheStays
  /\ UNCHANGED <<hvars, wvars, peers, closing, restarts, torn>>

ApplyHosts ==
  /\ stage = "hosts"
  /\ stage' = "routes"
  /\ H!Apply
  /\ UNCHANGED <<rvars, wvars, peers, left, closing, restarts, torn>>

ApplyRoutes ==
  /\ stage = "routes"
  /\ UNCHANGED wvars
  /\ \/ R!Apply
     \/ R!EndPass
     \/ R!EndResolve
     \/ \E g \in Gid  : R!ApplyPeers(g) \/ R!ResolveIpConflict(g)
     \/ \E s \in Addr : R!ApplySkip(s) \/ R!SetRoute(s) \/ R!ClearRoute(s) \/ R!MergeRoutes(s)
  /\ stage' = IF job' = "none" THEN "idle" ELSE stage
  /\ UNCHANGED <<hvars, peers, left, closing, restarts, torn>>

\* a ping round of the router
PingRound ==
  /\ UNCHANGED wvars
  /\ \/ R!PingProcess
     \/ R!EndReroute
     \/ \E g \in Gid  : R!RerouteGroup(g)
     \/ \E s \in Addr : R!RerouteService(s) \/ R!RerouteSkip(s)
  /\ UNCHANGED <<hvars, mvars>>

(***************************************************************************)
(* Close.  It does not get past a blocked Apply: RemoveInterface waits      *)
(* behind it for the lock.                                                  *)
(***************************************************************************)
CloseHosts ==
  /\ closing = "no"
  /\ closing' = "hosts"
  /\ H!Close
  /\ torn' = (torn \/ stage # "idle")
  /\ UNCHANGED <<rvars, wvars, peers, stage, left, restarts>>

CloseRouter ==
  /\ closing = "hosts"
  /\ UNCHANGED wvars
  /\ \/ R!Close
     \/ R!EndClose
     \/ \E g \in Gid  : R!ClosePeers(g)
     \/ \E s \in Addr : R!CloseService(s)
  /\ closing' = IF phase' = "idle" THEN "router" ELSE closing
  /\ UNCHANGED <<hvars, peers, stage, left, restarts, torn>>

CloseWireguard ==
  /\ closing = "router"
  /\ closing' = "done"
  /\ IF CleanupOnExit THEN stage # "blocked" /\ W!Close ELSE UNCHANGED wvars
  /\ KernelDropsRoutes
  /\ RouterCacheStays
  /\ peers' = EmptyMap
  /\ UNCHANGED <<hvars, stage, left, restarts, torn>>

(***************************************************************************)
(* The process ends, by Close, a crash or an update, and starts again.      *)
(***************************************************************************)
Restart ==
  /\ restarts < MaxRestart
  /\ restarts' = restarts + 1
  /\ torn' = (torn \/ stage # "idle")
  /\ routes' = EmptyMap /\ job' = "none" /\ phase' = "idle" /\ iter' = 0
  /\ todo' = {} /\ loop' = NoLoop /\ solved' = FALSE /\ closed' = FALSE
  /\ hosts' = EmptyMap /\ hostIf' = default
  /\ devices' = EmptyMap
  /\ peers' = EmptyMap /\ stage' = "idle" /\ left' = {} /\ closing' = "no"
  /\ UNCHANGED <<kernel, default, hostDev, os>>

-----------------------------------------------------------------------------
Init ==
  /\ routes = EmptyMap /\ job = "none" /\ phase = "idle" /\ iter = 0
  /\ todo = {} /\ loop = NoLoop /\ solved = FALSE /\ closed = FALSE
  /\ kernel = [a \in Addr |-> NoRoute]
  /\ hosts = EmptyMap
  /\ default \in Wan /\ hostIf = default
  /\ hostDev = [ip \in Ip |-> NoRoute]
  /\ devices = EmptyMap /\ os = EmptyMap
  /\ peers = EmptyMap /\ stage = "idle" /\ left = {} /\ closing = "no"
  /\ restarts = 0 /\ torn = FALSE

Message == \/ ConfigInfo \/ WgConf
           \/ \E i \in Iface : CreateInterface(i)
           \/ \E p \in Peer : AddPeer(p) \/ RemovePeer(p)

Apply == ApplyWireguard \/ ApplyBlocks \/ ApplyLeftovers \/ ApplyHosts \/ ApplyRoutes

Close == CloseHosts \/ CloseRouter \/ CloseWireguard

Next == Message \/ Apply \/ PingRound \/ Close \/ Restart

Spec == Init /\ [][Next]_vars

-----------------------------------------------------------------------------
(***************************************************************************)
(* Type invariant of what this module adds to the modules it composes; a    *)
(* part of Synced.                                                          *)
(***************************************************************************)
PeerKey == Iface \X Key

TypeOK ==
  /\ IsMap(peers, PeerKey)
  /\ \A k \in DOMAIN peers : peers[k] \in [gid: Gid, ip: Ip]
  /\ stage \in {"idle", "exec", "blocked", "left", "hosts", "routes"}
  /\ left \subseteq Addr
  /\ closing \in {"no", "hosts", "router", "done"}
  /\ restarts \in 0..MaxRestart /\ torn \in BOOLEAN
  /\ IsMap(devices, Iface) /\ IsMap(os, Iface)

(***************************************************************************)
(* Between two messages the kernel has the devices and peers the cache has, *)
(* and the peer cache knows them: after restarts with residual devices,     *)
(* repeated, failing and removed peers, and a Close in the middle.          *)
(***************************************************************************)
Synced ==
  /\ TypeOK
  /\ stage = "idle" /\ closing = "no" /\ devices # EmptyMap =>
       /\ DOMAIN os = DOMAIN devices
       /\ \A i \in DOMAIN os : DOMAIN os[i] = DOMAIN devices[i]
       /\ DOMAIN peers = {k \in PeerKey : k[1] \in DOMAIN os /\ k[2] \in DOMAIN os[k[1]]}

(***************************************************************************)
(* The endpoint of every peer the kernel has is reached past the tunnels:   *)
(* no order of messages, with endpoints several peers share, takes away a   *)
(* host route that one of them still needs.                                 *)
(***************************************************************************)
EndpointsRouted ==
  stage = "idle" /\ closing = "no" =>
    \A k \in DOMAIN peers : hostDev[peers[k].ip] = hostIf

(***************************************************************************)
(* A service the router sends into a tunnel is one that WireGuard accepts   *)
(* there, so no active route is a black hole.  The claim is about services  *)
(* of one group, with one peer on each interface: WireGuard takes an        *)
(* address from the peer that had it, and nobody gives it back when the new *)
(* owner is removed.  A key that comes again brings the service again.      *)
(***************************************************************************)
OwnService ==
  {s \in Addr : \A p, q \in Peer : s \in p.svc =>
     /\ makeKey(q) = makeKey(p) => s \in q.svc /\ q.gw = p.gw
     /\ s \in q.svc => q.gid = p.gid
     /\ s \in q.svc /\ q.gw = p.gw => makeKey(q) = makeKey(p)
     /\ s \in AllowedIPs(q) /\ q.ifname = p.ifname => makeKey(q) = makeKey(p)}

RoutesLeadToPeers ==
  stage = "idle" /\ closing = "no" =>
    \A g \in DOMAIN routes : \A s \in DOMAIN routes[g].services \cap OwnService :
      LET rl == routes[g].services[s]
      IN  ~rl.disabled =>
            \A i \in R!ActiveDev(rl.list) :
              i \in DOMAIN os /\ \E k \in DOMAIN os[i] : s \in os[i][k]

(***************************************************************************)
(* The address of a peer that is gone has no route into a tunnel, whether a *)
(* message removed the peer or the first configuration after a restart does *)
(* not name it.  (A restart or a Close between RemovePeer and Apply does    *)
(* leave one: the device has forgotten the peer already.)  The claim is     *)
(* about addresses that are one peer's own: no service, no second key on    *)
(* whose behalf a route could be left or taken away, and no destination     *)
(* that begins with the same address.                                       *)
(***************************************************************************)
OwnGateway ==
  {a \in Addr : /\ R!Alone(a)
                /\ \A p, q \in Peer :
                     p.gw = a /\ (a \in AllowedIPs(q) \/ makeKey(q) = makeKey(p)) =>
                       q.gw = a /\ a \notin q.svc /\ q.gid = p.gid /\ makeKey(q) = makeKey(p)}

Quiet == stage = "idle" /\ phase = "idle" /\ closing = "no" /\ devices # EmptyMap

ObsoletePeersGone ==
  Quiet /\ ~torn =>
    \A p \in Peer : p.gw \in OwnGateway /\ kernel[p.gw] \in Iface =>
      p.gid \in DOMAIN routes /\ p.gw \in DOMAIN routes[p.gid].peers

(***************************************************************************)
(* After a configuration nothing is left of an earlier one ("cleanup        *)
(* residual obsolete configuration", config_info.go): a route into a tunnel *)
(* is one the router knows to be there.                                     *)
(***************************************************************************)
NoResidue == Quiet => R!NoLeftover

(***************************************************************************)
(* "create missing devices" (wireguard.go): Apply gets past a device that   *)
(* could not be created before.                                             *)
(***************************************************************************)
ApplyReturns == stage # "blocked"
=============================================================================
