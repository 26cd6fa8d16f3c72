------------------------------ MODULE HostRoute ------------------------------
(***************************************************************************)
(* agent/hostroute: routes to the public addresses of the peers (and, for a *)
(* VPN client, of the controller) past the tunnels, by the original default *)
(* gateway.                                                                 *)
(*                                                                         *)
(* The gateway is looked up once, before anything else: without a default   *)
(* route Init returns an error, mole.New returns it too and the agent does  *)
(* not start.                                                               *)
(*                                                                         *)
(* Entries count their users and are pending until Apply has added their    *)
(* route.  The methods hold the mutex, and the routes of different          *)
(* addresses do not depend on each other, so a method is one action.        *)
(***************************************************************************)
EXTENDS Naturals, Maps

CONSTANTS
  Ip,              \* endpoint addresses
  Wan,             \* interfaces a default route can be on
  ForeignDst,      \* addresses another program may have a route for
  Volatile,        \* interfaces that may go down
  CleanupOnExit,   \* SYNTROPY_CLEANUP_ON_EXIT
  MaxCount,        \* bound on the users of an address
  NoRoute, NoGw, OtherDev

ASSUME CountAssumption   == MaxCount \in Nat \ {0}
ASSUME WanAssumption     == Volatile \subseteq Wan /\ ForeignDst \subseteq Ip
ASSUME GatewayAssumption == /\ NoGw \notin Wan
                            /\ NoRoute \notin Wan \cup {OtherDev}
                            /\ OtherDev \notin Wan

VARIABLES
  routes,   \* HostRouter.routes: address -> entry
  ifname,   \* the interface of the default route when the agent started
  default,  \* the interface the host's default route is on now, or NoGw
  dev       \* kernel: address -> device of the route netcfg finds for it

hvars == <<routes, ifname, default, dev>>

NC == INSTANCE Netcfg

Entry == [count: 0..MaxCount, pending: BOOLEAN]

Count(ip)    == IF ip \in DOMAIN routes THEN routes[ip].count ELSE 0
Pending(ip)  == ip \in DOMAIN routes => routes[ip].pending
Applied(ip)  == ip \in DOMAIN routes /\ ~routes[ip].pending

Add(ip) ==
  /\ Count(ip) < MaxCount
  /\ routes' = Put(routes, ip, [count |-> Count(ip) + 1, pending |-> Pending(ip)])
  /\ UNCHANGED <<ifname, default, dev>>

\* mutant: the entry goes with its last user
Del_Forget(ip) ==
  /\ routes' = IF Count(ip) > 1
               THEN [routes EXCEPT ![ip] = [count |-> @.count - 1, pending |-> @.pending]]
               ELSE Without(routes, {ip})
  /\ UNCHANGED <<ifname, default, dev>>

\* mutant: a count of zero is not noticed
Del_Unchecked(ip) ==
  /\ routes' = IF ip \in DOMAIN routes
               THEN [routes EXCEPT ![ip] = [count |-> @.count - 1, pending |-> @.pending]]
               ELSE routes
  /\ UNCHANGED <<ifname, default, dev>>

\* an unknown address and a count of zero are only logged
Del(ip) ==
  /\ routes' = IF Count(ip) > 0
               THEN [routes EXCEPT ![ip] = [count |-> @.count - 1, pending |-> @.pending]]
               ELSE routes
  /\ UNCHANGED <<ifname, default, dev>>

Flush ==
  /\ routes' = [ip \in DOMAIN routes |-> [count |-> 0, pending |-> routes[ip].pending]]
  /\ UNCHANGED <<ifname, default, dev>>

(***************************************************************************)
(* Apply: entries without users are deleted, with their route if it was     *)
(* added; pending ones are added and count as added even if the kernel      *)
(* refused the route.  Apply looks the gateway up if it has none, but it    *)
(* always has one: even the failed lookup returns a valid address, 0.0.0.0. *)
(***************************************************************************)
\* mutant: the interface is looked up again each time
Gateway_Current == default

Gateway == ifname

Added(ip, gw) == NC!RouteAdd(dev, ip, {ip}, gw, Wan)

\* mutant: applied routes are deleted, wanted or not
AppliedDev_DelAll(ip, gw) ==
  IF Applied(ip) THEN NC!RouteDel(dev[ip], gw, Wan)
  ELSE IF Count(ip) > 0 THEN Added(ip, gw)
  ELSE dev[ip]

AppliedDev(ip, gw) ==
  IF Count(ip) = 0 /\ Applied(ip)      THEN NC!RouteDel(dev[ip], gw, Wan)
  ELSE IF Count(ip) > 0 /\ Pending(ip) THEN Added(ip, gw)
  ELSE dev[ip]

Apply ==
  /\ routes' = [ip \in {i \in DOMAIN routes : Count(i) > 0} |->
                  [count |-> Count(ip), pending |-> FALSE]]
  /\ dev' = [ip \in Ip |-> AppliedDev(ip, Gateway)]
  /\ UNCHANGED <<ifname, default>>

Close ==
  /\ routes' = EmptyMap
  /\ dev' = [ip \in Ip |-> IF CleanupOnExit /\ Applied(ip)
                           THEN NC!RouteDel(dev[ip], ifname, Wan) ELSE dev[ip]]
  /\ UNCHANGED <<ifname, default>>

(***************************************************************************)
(* Environment: the default route moves; an interface goes down, with its   *)
(* routes; another program adds or deletes a host route, or the route to a  *)
(* network whose address is that of a host (the agent does not tell them    *)
(* apart).                                                                  *)
(***************************************************************************)
DefaultRoute(i) == default' = i /\ i # default /\ UNCHANGED <<routes, ifname, dev>>

LinkDown(i) ==
  /\ i \in Volatile
  /\ dev' = [ip \in Ip |-> IF dev[ip] = i THEN NoRoute ELSE dev[ip]]
  /\ default' = IF default = i THEN NoGw ELSE default
  /\ UNCHANGED <<routes, ifname>>

ForeignAdd(ip) ==
  /\ ip \in ForeignDst
  /\ dev[ip] = NoRoute
  /\ dev' = [dev EXCEPT ![ip] = OtherDev]
  /\ UNCHANGED <<routes, ifname, default>>

ForeignDel(ip) ==
  /\ dev[ip] = OtherDev
  /\ dev' = [dev EXCEPT ![ip] = NoRoute]
  /\ UNCHANGED <<routes, ifname, default>>

Init ==
  /\ routes = EmptyMap
  /\ default \in Wan
  /\ ifname = default
  /\ dev = [ip \in Ip |-> NoRoute]

Next ==
  \/ \E ip \in Ip : Add(ip) \/ Del(ip) \/ ForeignAdd(ip) \/ ForeignDel(ip)
  \/ Flush \/ Apply \/ Close
  \/ \E i \in Wan : DefaultRoute(i) \/ LinkDown(i)

Spec == Init /\ [][Next]_hvars

-----------------------------------------------------------------------------
(***************************************************************************)
(* Type invariant.  The count of users is an unsigned number in the code:   *)
(* it never goes below zero, however often an address is given back.        *)
(***************************************************************************)
TypeOK ==
  /\ DOMAIN routes \subseteq Ip
  /\ routes \in [DOMAIN routes -> Entry]
  /\ ifname \in Wan
  /\ default \in Wan \cup {NoGw}
  /\ dev \in [Ip -> Wan \cup {NoRoute, OtherDev}]

(***************************************************************************)
(* The host router implements HostRouteSpec: wanted is what is counted, in  *)
(* place is what is cached and not pending.  So whatever is added, deleted, *)
(* flushed and added again between two Applys, an Apply leaves exactly the  *)
(* routes that have a user.                                                 *)
(***************************************************************************)
Abs == INSTANCE HostRouteSpec WITH want <- [ip \in Ip |-> Count(ip)],
                                   have <- {ip \in Ip : Applied(ip)}

Implements == Abs!ASpec

(***************************************************************************)
(* Every route of the agent in the kernel is one the cache knows it has     *)
(* added, through the one gateway interface it uses: Apply and Close will   *)
(* find it when it is no longer wanted, although the default route may      *)
(* have moved since.                                                        *)
(***************************************************************************)
NoOrphan ==
  \A ip \in Ip : dev[ip] \in Wan => Applied(ip) /\ dev[ip] = ifname

(***************************************************************************)
(* A new configuration (Flush, then Add of what is still wanted, then       *)
(* Apply) does not touch a route that stays wanted ("Flush is used for      *)
(* smart merge", hostroutes.go): only a route without users is taken away.  *)
(***************************************************************************)
SmartMerge ==
  [][\A ip \in Ip : dev[ip] \in Wan \ Volatile /\ dev'[ip] # dev[ip] =>
        Count(ip) = 0 \/ routes' = EmptyMap]_hvars

(***************************************************************************)
(* And what the cache calls added is in the kernel, if the interface does   *)
(* not go down and no other program adds a route to the same address.       *)
(***************************************************************************)
AppliedIsInKernel ==
  \A ip \in Ip \ ForeignDst :
    Applied(ip) /\ ifname \notin Volatile => dev[ip] = ifname

RoutesInPlace == NoOrphan /\ AppliedIsInKernel
=============================================================================
