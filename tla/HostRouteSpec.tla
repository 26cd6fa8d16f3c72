---------------------------- MODULE HostRouteSpec ----------------------------
(***************************************************************************)
(* What the host router promises its users, whatever its cache looks like.  *)
(*                                                                         *)
(* Users ask for host routes and give them back; an address several peers   *)
(* share is asked for several times.  Apply puts in place exactly the       *)
(* routes somebody still asks for.                                          *)
(***************************************************************************)
EXTENDS Naturals

CONSTANTS Ip, MaxCount

VARIABLES
  want,   \* how often each address is asked for
  have    \* the addresses whose route the router has put in place

AInit == want = [ip \in Ip |-> 0] /\ have = {}

AAdd(ip) == /\ want[ip] < MaxCount
            /\ want' = [want EXCEPT ![ip] = @ + 1]
            /\ UNCHANGED have

ADel(ip) == /\ want[ip] > 0
            /\ want' = [want EXCEPT ![ip] = @ - 1]
            /\ UNCHANGED have

AFlush == want' = [ip \in Ip |-> 0] /\ UNCHANGED have

AApply == have' = {ip \in Ip : want[ip] > 0} /\ UNCHANGED want

AClose == want' = [ip \in Ip |-> 0] /\ have' = {}

ANext == \/ \E ip \in Ip : AAdd(ip) \/ ADel(ip)
         \/ AFlush \/ AApply \/ AClose

ASpec == AInit /\ [][ANext]_<<want, have>>
=============================================================================
