------------------------------ MODULE Wireguard ------------------------------
(***************************************************************************)
(* agent/swireguard: a cache of the interfaces and peers the controller     *)
(* wants, beside the WireGuard devices the kernel has.                      *)
(*                                                                         *)
(* A peer is known by its public key and stands for its allowed addresses.  *)
(* The kernel lets an address be allowed for one peer of a device only: a   *)
(* peer that is configured takes it from the others.                        *)
(***************************************************************************)
EXTENDS Maps

VARIABLES
  devices,   \* Wireguard.devices: interface -> its peers
  os         \* the kernel's devices: interface -> its peers

wvars == <<devices, os>>

\* peers and what they are allowed, once key has been allowed the addresses S
Allow(pl, key, S) ==
  [k \in DOMAIN pl \cup {key} |-> IF k = key THEN S ELSE pl[k] \ S]

interfaceExist(i) == i \in DOMAIN devices

(***************************************************************************)
(* CreateInterface: the cached device is new or loses its peers, then the   *)
(* kernel's device is created, which may fail, or reused as it is.          *)
(***************************************************************************)
CreateInterface(i, fails) ==
  /\ devices' = Put(devices, i, EmptyMap)
  /\ os' = IF i \in DOMAIN os \/ fails THEN os ELSE Put(os, i, EmptyMap)

(***************************************************************************)
(* AddPeer configures the kernel first; it fails without a device.  A peer  *)
(* that is cached stays as it was cached.                                   *)
(***************************************************************************)
AddPeerFails(i) == ~interfaceExist(i) \/ i \notin DOMAIN os

AddPeer(i, key, allowed) ==
  /\ ~AddPeerFails(i)
  /\ os' = [os EXCEPT ![i] = Allow(@, key, allowed)]
  /\ devices' = IF key \in DOMAIN devices[i] THEN devices
                ELSE [devices EXCEPT ![i] = Put(@, key, allowed)]

RemovePeer(i, key) ==
  IF ~interfaceExist(i) THEN UNCHANGED wvars
  ELSE /\ devices' = [devices EXCEPT ![i] = Without(@, {key})]
       /\ os' = [j \in DOMAIN os |-> IF j = i THEN Without(os[j], {key}) ELSE os[j]]

Flush == devices' = EmptyMap /\ UNCHANGED os

Close == devices' = EmptyMap /\ os' = Without(os, DOMAIN devices)

(***************************************************************************)
(* Apply: residual devices go, missing peers are added and residual peers   *)
(* removed.  What the residual ones were allowed is returned.               *)
(***************************************************************************)
Residual == DOMAIN os \ DOMAIN devices

Missing == DOMAIN devices \ DOMAIN os

ResidualPeers(i) ==
  IF i \in Residual THEN DOMAIN os[i] ELSE DOMAIN os[i] \ DOMAIN devices[i]

allowedIPs == UNION {UNION {os[i][k] : k \in ResidualPeers(i)} : i \in DOMAIN os}

\* mutant: residual peers stay
applyPeers_Keep(i) ==
  [k \in DOMAIN devices[i] \cup DOMAIN os[i] |->
     IF k \in DOMAIN os[i] THEN os[i][k] ELSE devices[i][k]]

applyPeers(i) ==
  [k \in DOMAIN devices[i] |-> IF k \in DOMAIN os[i] THEN os[i][k] ELSE devices[i][k]]

Apply ==
  /\ Missing = {}
  /\ os' = [i \in DOMAIN devices |-> applyPeers(i)]
  /\ UNCHANGED devices

\* Apply holds the read lock: creating a missing device waits for the write
\* lock for ever; some of the devices before it have been dealt with
ApplyBlocks ==
  /\ Missing # {}
  /\ \E S \in SUBSET (DOMAIN os \ Residual) :
        os' = [i \in DOMAIN os \ Residual |-> IF i \in S THEN applyPeers(i) ELSE os[i]]
  /\ UNCHANGED devices
=============================================================================
