------------------------------- MODULE Netcfg -------------------------------
(***************************************************************************)
(* The part of pkg/netcfg the agent's routers depend on: what adding,      *)
(* deleting, replacing and searching a route does to the kernel's main     *)
(* table.                                                                  *)
(*                                                                         *)
(* A table gives, for each destination (an address and a prefix length),   *)
(* the device its route leaves through, or NoRoute.  The kernel keeps one   *)
(* route per destination of equal metric, and netcfg sets no metric.  The   *)
(* operators that change a route return its device afterwards.  near is the *)
(* set of the destinations RouteSearch cannot tell from dst.  links is the  *)
(* set of interfaces that exist; every function that changes a route looks  *)
(* its interface up first and returns an error when it is missing.  Errors  *)
(* of the netlink socket itself are not modelled.                           *)
(***************************************************************************)

CONSTANT NoRoute    \* no route to the destination

(***************************************************************************)
(* RouteSearch lists the routes of all interfaces and compares nothing but  *)
(* the address: a route to another prefix that begins with the same address *)
(* counts as found, and the last one the kernel lists gives the interface.  *)
(* The result is the set of the devices it may return, {} for not found.    *)
(***************************************************************************)
RouteSearch(table, near) == {table[d] : d \in near} \ {NoRoute}

(***************************************************************************)
(* RouteAdd: the same route on the same interface is a success.  Otherwise  *)
(* whatever RouteSearch finds is a conflict, and the kernel refuses a       *)
(* second route to the destination.                                         *)
(***************************************************************************)
RouteAddFails(table, dst, near, ifname, links) ==
  \/ ifname \notin links
  \/ /\ table[dst] # ifname
     /\ RouteSearch(table, near) # {} \/ table[dst] # NoRoute

RouteAdd(table, dst, near, ifname, links) ==
  IF RouteAddFails(table, dst, near, ifname, links) THEN table[dst] ELSE ifname

(***************************************************************************)
(* RouteDel looks at the routes of the interface it is given, and only at   *)
(* those to exactly this destination.                                       *)
(***************************************************************************)
RouteDel(dev, ifname, links) ==
  IF ifname \in links /\ dev = ifname THEN NoRoute ELSE dev

(***************************************************************************)
(* RouteReplace makes no search first: it takes the destination over from  *)
(* whatever interface has it.                                              *)
(***************************************************************************)
RouteReplace(dev, ifname, links) ==
  IF ifname \in links THEN ifname ELSE dev

=============================================================================
