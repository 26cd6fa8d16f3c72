----------------------------- MODULE MoleProofs -----------------------------
(***************************************************************************)
(* What mole keeps in step.  First the peer cache, the WireGuard cache and  *)
(* the kernel's devices, and the use counts of the host routes: for these,  *)
(* the router's steps only matter for the variables they leave alone.  Then *)
(* what ties the router's cache and the kernel's routes to WireGuard: the   *)
(* services, and the gateways.                                              *)
(***************************************************************************)
EXTENDS Mole, FiniteSetTheorems, TLAPS

(***************************************************************************)
(* The inductive invariant.  Types first, with the peers of the devices.    *)
(***************************************************************************)
Device(pl) == IsMap(pl, Key) /\ \A k \in DOMAIN pl : pl[k] \subseteq Addr

DeviceTypes ==
  /\ \A i \in DOMAIN devices : Device(devices[i])
  /\ \A i \in DOMAIN os : Device(os[i])

\* interfaces and keys of the cached devices
CachedKeys == {k \in PeerKey : k[1] \in DOMAIN devices /\ k[2] \in DOMAIN devices[k[1]]}

SameDevices ==
  /\ DOMAIN os = DOMAIN devices
  /\ \A i \in DOMAIN os : DOMAIN os[i] = DOMAIN devices[i]

\* the peer cache always knows the peers of the WireGuard cache; the kernel
\* has them from the first step of Apply to the next message
InStep ==
  closing = "no" =>
    /\ DOMAIN peers = CachedKeys
    /\ \/ stage \in {"left", "hosts", "routes"}
       \/ stage = "idle" /\ devices # EmptyMap
       => SameDevices

SInv == TypeOK /\ DeviceTypes /\ InStep

\* the gateway is found at the start and stays; no other program is involved
HostTypes ==
  /\ default \in Wan /\ hostIf = default
  /\ DOMAIN hosts \subseteq Ip
  /\ hosts \in [DOMAIN hosts -> H!Entry]
  /\ hostDev \in [Ip -> {NoRoute, default}]

\* the peers that need the host route to an endpoint
Users(ip) == {k \in DOMAIN peers : peers[k].ip = ip}

\* every peer of the cache is counted, and all that is counted is in place
\* from the Apply of the host routes to the next message
HostsCounted ==
  /\ IsFiniteSet(DOMAIN peers)
  /\ \A ip \in Ip : H!Applied(ip) => hostDev[ip] = hostIf
  /\ closing = "no" =>
       /\ \A ip \in Ip : Cardinality(Users(ip)) <= H!Count(ip)
       /\ stage \in {"routes", "idle"} => \A ip \in DOMAIN hosts : H!Applied(ip)

HInv == HostTypes /\ HostsCounted

(***************************************************************************)
(* Devices: what the operations of Wireguard do to their types.             *)
(***************************************************************************)
LEMMA SameMaps ==
  /\ W!EmptyMap = EmptyMap
  /\ \A f, k, v : W!Put(f, k, v) = Put(f, k, v)
  /\ \A f, S : W!Without(f, S) = Without(f, S)
  BY DEF EmptyMap, Put, Without, W!EmptyMap, W!Put, W!Without

LEMMA NoDevice == \A S : IsMap(EmptyMap, S) /\ DOMAIN EmptyMap = {}
  BY DEF IsMap, EmptyMap

LEMMA PutMap ==
  ASSUME NEW f, NEW S, NEW k \in S, NEW v, IsMap(f, S)
  PROVE  /\ IsMap(Put(f, k, v), S)
         /\ DOMAIN Put(f, k, v) = DOMAIN f \cup {k}
         /\ Put(f, k, v)[k] = v
         /\ \A x \in DOMAIN f : x # k => Put(f, k, v)[x] = f[x]
  BY DEF IsMap, Put

LEMMA EmptyDevice == Device(EmptyMap)
  BY NoDevice DEF Device

LEMMA PutDevice ==
  ASSUME NEW pl, NEW k \in Key, NEW S \in SUBSET Addr, Device(pl)
  PROVE  Device(Put(pl, k, S))
  BY DEF Device, IsMap, Put

LEMMA WithoutDevice ==
  ASSUME NEW pl, NEW T, Device(pl)
  PROVE  Device(Without(pl, T))
  BY DEF Device, IsMap, Without

\* a peer takes its addresses from the others
LEMMA AllowDevice ==
  ASSUME NEW pl, NEW k \in Key, NEW S \in SUBSET Addr, Device(pl)
  PROVE  Device(W!Allow(pl, k, S)) /\ DOMAIN W!Allow(pl, k, S) = DOMAIN pl \cup {k}
  BY DEF Device, IsMap, W!Allow

LEMMA PeerFields ==
  ASSUME NEW p \in Peer
  PROVE  /\ p.key \in Key /\ p.gid \in Gid /\ p.ifname \in Iface /\ p.ip \in Ip
         /\ AllowedIPs(p) \in SUBSET Addr
         /\ makeKey(p) \in PeerKey
         /\ makeKey(p)[1] = p.ifname /\ makeKey(p)[2] = p.key
  BY PeerAssumption DEF AllowedIPs, makeKey, PeerKey

(***************************************************************************)
(* The peer cache and the devices, one step at a time.                      *)
(***************************************************************************)
LEMMA InitSInv == Init => SInv
<1> SUFFICES ASSUME Init
             PROVE  SInv
  OBVIOUS
<1>1. /\ devices = EmptyMap /\ os = EmptyMap /\ peers = EmptyMap
      /\ stage = "idle" /\ left = {} /\ closing = "no" /\ restarts = 0 /\ torn = FALSE
  BY DEF Init
<1>2. 0 \in 0..MaxRestart
  BY BoundAssumption
<1>3. CachedKeys = {}
  BY <1>1, NoDevice DEF CachedKeys
<1> QED BY <1>1, <1>2, <1>3, NoDevice DEF SInv, TypeOK, DeviceTypes, InStep

\* the variables these proofs are about
kept == <<peers, stage, left, closing, restarts, torn, devices, os>>

LEMMA KeptSInv == SInv /\ UNCHANGED kept => SInv'
  BY DEF SInv, TypeOK, DeviceTypes, InStep, CachedKeys, SameDevices, kept

\* a stage that claims no more than the one before
LEMMA OnwardSInv ==
  ASSUME SInv,
         UNCHANGED <<peers, restarts, devices, os>>,
         stage' \in {"idle", "exec", "blocked", "left", "hosts", "routes"},
         left' \subseteq Addr, closing' \in {"no", "hosts", "router", "done"}, torn' \in BOOLEAN,
         closing' = "no" => closing = "no",
         stage' \in {"left", "hosts", "routes", "idle"} =>
           stage' = stage \/ stage \in {"left", "hosts", "routes"}
  PROVE  SInv'
  BY DEF SInv, TypeOK, DeviceTypes, InStep, CachedKeys, SameDevices

LEMMA ConfigInfoSynced ==
  ASSUME SInv, ConfigInfo
  PROVE  SInv'
<1>1. devices' = EmptyMap /\ os' = os /\ peers' = EmptyMap /\ stage' = "exec"
  BY SameMaps DEF ConfigInfo, W!Flush
<1> QED BY <1>1, NoDevice
        DEF ConfigInfo, SInv, TypeOK, DeviceTypes, InStep, CachedKeys, SameDevices

LEMMA CreateInterfaceSynced ==
  ASSUME SInv, NEW i \in Iface, CreateInterface(i)
  PROVE  SInv'
<1>1. UNCHANGED mvars /\ i \notin DOMAIN devices /\ stage = "exec"
  BY DEF CreateInterface
<1>2. /\ devices' = Put(devices, i, EmptyMap)
      /\ os' = os \/ os' = Put(os, i, EmptyMap)
  BY SameMaps DEF CreateInterface, W!CreateInterface
<1>3. IsMap(devices, Iface) /\ IsMap(os, Iface) /\ DeviceTypes
  BY DEF SInv, TypeOK
<1>4. IsMap(devices', Iface) /\ IsMap(os', Iface) /\ DeviceTypes'
  BY <1>2, <1>3, EmptyDevice DEF DeviceTypes, IsMap, Put
<1>5. CachedKeys' = CachedKeys
  BY <1>1, <1>2, <1>3, NoDevice DEF CachedKeys, IsMap, Put
<1> QED BY <1>1, <1>4, <1>5 DEF mvars, SInv, TypeOK, InStep

LEMMA AddPeerSynced ==
  ASSUME SInv, NEW p \in Peer, AddPeer(p)
  PROVE  SInv'
<1> DEFINE i == p.ifname
           S == AllowedIPs(p)
<1>1. /\ i \in Iface /\ p.key \in Key /\ S \in SUBSET Addr
      /\ makeKey(p) \in PeerKey /\ makeKey(p)[1] = i /\ makeKey(p)[2] = p.key
      /\ [gid |-> p.gid, ip |-> p.ip] \in [gid: Gid, ip: Ip]
  BY PeerFields
<1>2. IsMap(devices, Iface) /\ IsMap(os, Iface) /\ DeviceTypes /\ IsMap(peers, PeerKey)
  BY DEF SInv, TypeOK
<1>3. /\ stage = "exec" /\ UNCHANGED <<stage, left, closing, restarts, torn>>
      /\ i \in DOMAIN devices /\ i \in DOMAIN os
      /\ os' = [os EXCEPT ![i] = W!Allow(os[i], p.key, S)]
      /\ devices' = IF p.key \in DOMAIN devices[i] THEN devices
                    ELSE [devices EXCEPT ![i] = Put(devices[i], p.key, S)]
      /\ peers' = Put(peers, makeKey(p), [gid |-> p.gid, ip |-> p.ip])
  BY SameMaps DEF AddPeer, W!AddPeer, W!AddPeerFails, W!interfaceExist
<1> HIDE DEF i, S
<1>4. /\ IsMap(peers', PeerKey) /\ DOMAIN peers' = DOMAIN peers \cup {makeKey(p)}
      /\ \A k \in DOMAIN peers' : peers'[k] \in [gid: Gid, ip: Ip]
  <2>1. \A k \in DOMAIN peers : peers[k] \in [gid: Gid, ip: Ip]
    BY DEF SInv, TypeOK
  <2> DEFINE entry == [gid |-> p.gid, ip |-> p.ip]
  <2>2. entry \in [gid: Gid, ip: Ip] /\ peers' = Put(peers, makeKey(p), entry)
    BY <1>1, <1>3
  <2> HIDE DEF entry
  <2>3. /\ IsMap(peers', PeerKey) /\ DOMAIN peers' = DOMAIN peers \cup {makeKey(p)}
        /\ peers'[makeKey(p)] = entry
        /\ \A k \in DOMAIN peers : k # makeKey(p) => peers'[k] = peers[k]
    <3> DEFINE f == Put(peers, makeKey(p), entry)
    <3>0. makeKey(p) \in PeerKey /\ IsMap(peers, PeerKey)
      BY <1>1, <1>2
    <3>1. /\ IsMap(f, PeerKey) /\ DOMAIN f = DOMAIN peers \cup {makeKey(p)}
          /\ f[makeKey(p)] = entry
          /\ \A k \in DOMAIN peers : k # makeKey(p) => f[k] = peers[k]
      BY <3>0 DEF IsMap, Put
    <3> HIDE DEF f
    <3> QED BY <2>2, <3>1 DEF f
  <2> QED BY <2>1, <2>2, <2>3
<1>5. IsMap(os', Iface) /\ \A j \in DOMAIN os' : Device(os'[j])
  <2>1. Device(W!Allow(os[i], p.key, S))
    BY <1>1, <1>2, <1>3, AllowDevice DEF DeviceTypes
  <2> QED BY <1>2, <1>3, <2>1 DEF IsMap, DeviceTypes
<1>6. /\ IsMap(devices', Iface) /\ \A j \in DOMAIN devices' : Device(devices'[j])
      /\ DOMAIN devices' = DOMAIN devices
      /\ DOMAIN devices'[i] = DOMAIN devices[i] \cup {p.key}
      /\ \A j \in DOMAIN devices : j # i => devices'[j] = devices[j]
  <2>1. Device(devices[i]) /\ Device(Put(devices[i], p.key, S))
    BY <1>1, <1>2, <1>3, PutDevice DEF DeviceTypes
  <2>2. DOMAIN Put(devices[i], p.key, S) = DOMAIN devices[i] \cup {p.key}
    BY DEF Put
  <2>3. CASE p.key \in DOMAIN devices[i]
    BY <1>2, <1>3, <2>3 DEF DeviceTypes
  <2>4. CASE p.key \notin DOMAIN devices[i]
    BY <1>2, <1>3, <2>1, <2>2, <2>4 DEF DeviceTypes, IsMap
  <2> QED BY <2>3, <2>4
<1>7. CachedKeys' = CachedKeys \cup {makeKey(p)}
  <2>1. \A k \in PeerKey : k = makeKey(p) <=> k[1] = i /\ k[2] = p.key
    BY <1>1 DEF PeerKey
  <2> QED BY <1>1, <1>3, <1>6, <2>1 DEF CachedKeys
<1> QED BY <1>3, <1>4, <1>5, <1>6, <1>7 DEF SInv, TypeOK, DeviceTypes, InStep

LEMMA RemovePeerSynced ==
  ASSUME SInv, NEW p \in Peer, RemovePeer(p)
  PROVE  SInv'
<1> DEFINE i == p.ifname
<1>1. /\ i \in Iface /\ p.key \in Key
      /\ makeKey(p) \in PeerKey /\ makeKey(p)[1] = i /\ makeKey(p)[2] = p.key
  BY PeerFields
<1>2. IsMap(devices, Iface) /\ IsMap(os, Iface) /\ DeviceTypes /\ IsMap(peers, PeerKey)
  BY DEF SInv, TypeOK
<1>3. /\ stage = "exec" /\ UNCHANGED <<stage, left, closing, restarts, torn>>
      /\ peers' = Without(peers, {makeKey(p)})
      /\ W!RemovePeer(i, p.key)
  BY DEF RemovePeer, CheckAndDel
<1> HIDE DEF i
<1>4. /\ IsMap(peers', PeerKey) /\ DOMAIN peers' = DOMAIN peers \ {makeKey(p)}
      /\ \A k \in DOMAIN peers' : peers'[k] \in [gid: Gid, ip: Ip]
  <2>1. \A k \in DOMAIN peers : peers[k] \in [gid: Gid, ip: Ip]
    BY DEF SInv, TypeOK
  <2> QED BY <1>2, <1>3, <2>1 DEF IsMap, Without
<1>5. \A k \in PeerKey : k = makeKey(p) <=> k[1] = i /\ k[2] = p.key
  BY <1>1 DEF PeerKey
<1>6. CASE i \notin DOMAIN devices
  <2>1. UNCHANGED <<devices, os>>
    BY <1>3, <1>6 DEF W!RemovePeer, W!interfaceExist, W!wvars
  <2>2. CachedKeys' = CachedKeys /\ makeKey(p) \notin CachedKeys
    BY <1>1, <1>6, <2>1 DEF CachedKeys
  <2> QED BY <1>3, <1>4, <2>1, <2>2 DEF SInv, TypeOK, DeviceTypes, InStep
<1>7. CASE i \in DOMAIN devices
  <2>1. /\ devices' = [devices EXCEPT ![i] = Without(devices[i], {p.key})]
        /\ os' = [j \in DOMAIN os |-> IF j = i THEN Without(os[j], {p.key}) ELSE os[j]]
    BY <1>3, <1>7, SameMaps DEF W!RemovePeer, W!interfaceExist
  <2>2. \A pl : Device(pl) => Device(Without(pl, {p.key}))
    BY WithoutDevice
  <2>3. IsMap(devices', Iface) /\ IsMap(os', Iface) /\ DeviceTypes'
    BY <1>2, <1>7, <2>1, <2>2 DEF DeviceTypes, IsMap
  <2>4. /\ DOMAIN devices' = DOMAIN devices
        /\ DOMAIN devices'[i] = DOMAIN devices[i] \ {p.key}
        /\ \A j \in DOMAIN devices : j # i => devices'[j] = devices[j]
    BY <1>2, <1>7, <2>1 DEF IsMap, Without
  <2>5. CachedKeys' = CachedKeys \ {makeKey(p)}
    BY <1>1, <1>5, <1>7, <2>4 DEF CachedKeys
  <2> QED BY <1>3, <1>4, <2>3, <2>5 DEF SInv, TypeOK, InStep
<1> QED BY <1>6, <1>7

LEMMA ApplyWireguardSynced ==
  ASSUME SInv, ApplyWireguard
  PROVE  SInv'
<1>1. IsMap(devices, Iface) /\ IsMap(os, Iface) /\ DeviceTypes
  BY DEF SInv, TypeOK
<1>2. /\ UNCHANGED <<devices, peers, closing, restarts, torn>>
      /\ stage' = "left" /\ left' = W!allowedIPs
      /\ DOMAIN devices \subseteq DOMAIN os
      /\ os' = [i \in DOMAIN devices |-> W!applyPeers(i)]
  BY DEF ApplyWireguard, W!Apply, W!Missing
<1>3. left' \subseteq Addr
  BY <1>1, <1>2 DEF W!allowedIPs, W!ResidualPeers, W!Residual, DeviceTypes, Device
<1>4. \A i \in DOMAIN devices : Device(W!applyPeers(i)) /\ DOMAIN W!applyPeers(i) = DOMAIN devices[i]
  BY <1>1, <1>2 DEF W!applyPeers, DeviceTypes, Device, IsMap
<1>5. IsMap(os', Iface) /\ (\A i \in DOMAIN os' : Device(os'[i])) /\ SameDevices'
  BY <1>1, <1>2, <1>4 DEF IsMap, SameDevices
<1> QED BY <1>2, <1>3, <1>5 DEF SInv, TypeOK, DeviceTypes, InStep, CachedKeys

LEMMA ApplyBlocksSynced ==
  ASSUME SInv, ApplyBlocks
  PROVE  SInv'
<1>1. IsMap(devices, Iface) /\ IsMap(os, Iface) /\ DeviceTypes
  BY DEF SInv, TypeOK
<1>2. /\ UNCHANGED <<devices, peers, left, closing, restarts, torn>> /\ stage' = "blocked"
      /\ \E S \in SUBSET (DOMAIN os \ W!Residual) :
           os' = [i \in DOMAIN os \ W!Residual |-> IF i \in S THEN W!applyPeers(i) ELSE os[i]]
  BY DEF ApplyBlocks, W!ApplyBlocks
<1>3. \A i \in DOMAIN os \ W!Residual : i \in DOMAIN devices
  BY DEF W!Residual
<1>4. \A i \in DOMAIN os \ W!Residual : Device(W!applyPeers(i))
  BY <1>1, <1>3 DEF W!applyPeers, DeviceTypes, Device, IsMap
<1>5. IsMap(os', Iface) /\ \A i \in DOMAIN os' : Device(os'[i])
  BY <1>1, <1>2, <1>4 DEF IsMap, DeviceTypes
<1> QED BY <1>2, <1>5 DEF SInv, TypeOK, DeviceTypes, InStep, CachedKeys

LEMMA CloseWireguardSynced ==
  ASSUME SInv, CloseWireguard
  PROVE  SInv'
<1>1. /\ closing' = "done" /\ peers' = EmptyMap /\ UNCHANGED <<stage, left, restarts, torn>>
      /\ \/ UNCHANGED <<devices, os>>
         \/ devices' = EmptyMap /\ os' = Without(os, DOMAIN devices)
  BY SameMaps DEF CloseWireguard, W!Close, wvars
<1>2. IsMap(os, Iface) /\ DeviceTypes
  BY DEF SInv, TypeOK
<1>3. IsMap(devices', Iface) /\ IsMap(os', Iface) /\ DeviceTypes'
  BY <1>1, <1>2, NoDevice DEF SInv, TypeOK, DeviceTypes, IsMap, Without
<1> QED BY <1>1, <1>3, NoDevice DEF SInv, TypeOK, InStep

LEMMA RestartSynced ==
  ASSUME SInv, Restart
  PROVE  SInv'
<1>1. /\ devices' = EmptyMap /\ peers' = EmptyMap /\ stage' = "idle" /\ left' = {}
      /\ closing' = "no" /\ UNCHANGED os /\ torn' \in BOOLEAN
      /\ restarts < MaxRestart /\ restarts' = restarts + 1
  BY DEF Restart, SInv, TypeOK
<1>2. restarts' \in 0..MaxRestart
  BY <1>1, BoundAssumption DEF SInv, TypeOK
<1> QED BY <1>1, <1>2, NoDevice DEF SInv, TypeOK, DeviceTypes, InStep, CachedKeys

LEMMA StepSInv == SInv /\ [Next]_vars => SInv'
<1> SUFFICES ASSUME SInv, [Next]_vars
             PROVE  SInv'
  OBVIOUS
<1>1. CASE ConfigInfo
  BY <1>1, ConfigInfoSynced
<1>2. CASE WgConf
  BY <1>2, OnwardSInv DEF WgConf, wvars, SInv, TypeOK
<1>3. ASSUME NEW i \in Iface, CreateInterface(i)
      PROVE  SInv'
  BY <1>3, CreateInterfaceSynced
<1>4. ASSUME NEW p \in Peer, AddPeer(p)
      PROVE  SInv'
  BY <1>4, AddPeerSynced
<1>5. ASSUME NEW p \in Peer, RemovePeer(p)
      PROVE  SInv'
  BY <1>5, RemovePeerSynced
<1>6. CASE ApplyWireguard
  BY <1>6, ApplyWireguardSynced
<1>7. CASE ApplyBlocks
  BY <1>7, ApplyBlocksSynced
<1>8. CASE ApplyLeftovers \/ ApplyHosts \/ ApplyRoutes
  BY <1>8, OnwardSInv DEF ApplyLeftovers, ApplyHosts, ApplyRoutes, wvars, SInv, TypeOK
<1>9. CASE PingRound
  BY <1>9, KeptSInv DEF PingRound, wvars, mvars, kept
<1>10. CASE CloseHosts \/ CloseRouter
  BY <1>10, OnwardSInv DEF CloseHosts, CloseRouter, wvars, SInv, TypeOK
<1>11. CASE CloseWireguard
  BY <1>11, CloseWireguardSynced
<1>12. CASE Restart
  BY <1>12, RestartSynced
<1>13. CASE UNCHANGED vars
  BY <1>13, KeptSInv DEF vars, wvars, mvars, kept
<1> QED BY <1>1, <1>2, <1>3, <1>4, <1>5, <1>6, <1>7, <1>8, <1>9, <1>10, <1>11, <1>12, <1>13
        DEF Next, Message, Apply, Close

LEMMA SyncedInvariance == Spec => []SInv
<1> QED BY InitSInv, StepSInv, PTL DEF Spec

(***************************************************************************)
(* Between two messages the kernel's devices and peers are those of the     *)
(* WireGuard cache, and the peer cache knows them: for any interfaces and   *)
(* peers, with interfaces that cannot be created, peers the kernel refuses, *)
(* a Close in the middle and any number of restarts.                        *)
(***************************************************************************)
THEOREM DevicesInStep == Spec => []Synced
<1>1. SInv => Synced
  BY DEF SInv, InStep, SameDevices, CachedKeys, Synced
<1> QED BY <1>1, SyncedInvariance, PTL

(***************************************************************************)
(* Host routes: what the operations of HostRoute do.                        *)
(***************************************************************************)
LEMMA HostCounts ==
  ASSUME HostTypes
  PROVE  \A ip \in Ip :
           /\ H!Count(ip) \in 0..MaxCount /\ H!Count(ip) \in Nat
           /\ H!Pending(ip) \in BOOLEAN
           /\ H!Applied(ip) <=> ip \in DOMAIN hosts /\ ~hosts[ip].pending
  BY BoundAssumption DEF HostTypes, H!Count, H!Pending, H!Applied, H!Entry

\* hosts and the kernel's routes stay, but for the counts
LEMMA HostAddEffect ==
  ASSUME HostTypes, NEW ip \in Ip, H!Add(ip)
  PROVE  /\ HostTypes' /\ UNCHANGED <<hostIf, default, hostDev>>
         /\ \A j \in Ip : H!Applied(j)' <=> H!Applied(j)
         /\ H!Count(ip)' = H!Count(ip) + 1
         /\ \A j \in Ip : j # ip => H!Count(j)' = H!Count(j)
<1> DEFINE e == [count |-> H!Count(ip) + 1, pending |-> H!Pending(ip)]
<1>1. /\ H!Count(ip) < MaxCount /\ UNCHANGED <<hostIf, default, hostDev>>
      /\ hosts' = [x \in DOMAIN hosts \cup {ip} |-> IF x = ip THEN e ELSE hosts[x]]
  BY DEF H!Add, H!Put
<1>2. e \in H!Entry /\ e.count = H!Count(ip) + 1 /\ e.pending = H!Pending(ip)
  BY <1>1, HostCounts, BoundAssumption DEF H!Entry
<1> HIDE DEF e
<1>3. HostTypes'
  BY <1>1, <1>2 DEF HostTypes
<1>4. \A j \in Ip : H!Applied(j)' <=> H!Applied(j)
  BY <1>1, <1>2 DEF H!Applied, H!Pending, HostTypes
<1> QED BY <1>1, <1>2, <1>3, <1>4 DEF H!Count, HostTypes

LEMMA HostDelEffect ==
  ASSUME HostTypes, NEW ip \in Ip, H!Del(ip), H!Count(ip) > 0
  PROVE  /\ HostTypes' /\ UNCHANGED <<hostIf, default, hostDev>>
         /\ \A j \in Ip : H!Applied(j)' <=> H!Applied(j)
         /\ H!Count(ip)' = H!Count(ip) - 1
         /\ \A j \in Ip : j # ip => H!Count(j)' = H!Count(j)
<1> DEFINE e == [count |-> hosts[ip].count - 1, pending |-> hosts[ip].pending]
<1>1. /\ ip \in DOMAIN hosts /\ hosts[ip].count = H!Count(ip) /\ hosts[ip] \in H!Entry
  BY BoundAssumption DEF H!Count, HostTypes
<1>2. UNCHANGED <<hostIf, default, hostDev>> /\ hosts' = [hosts EXCEPT ![ip] = e]
  BY DEF H!Del
<1>3. e \in H!Entry /\ e.count = H!Count(ip) - 1 /\ e.pending = hosts[ip].pending
  BY <1>1, BoundAssumption DEF H!Entry
<1> HIDE DEF e
<1>4. HostTypes'
  BY <1>1, <1>2, <1>3 DEF HostTypes
<1> QED BY <1>1, <1>2, <1>3, <1>4 DEF H!Count, H!Applied, HostTypes

\* an address without users and one that is unknown stay as they are
LEMMA HostDelType ==
  ASSUME HostTypes, NEW ip \in Ip, H!Del(ip)
  PROVE  /\ HostTypes' /\ UNCHANGED <<hostIf, default, hostDev>>
         /\ \A j \in Ip : H!Applied(j)' <=> H!Applied(j)
<1>1. CASE H!Count(ip) > 0
  BY <1>1, HostDelEffect
<1>2. CASE ~(H!Count(ip) > 0)
  BY <1>2 DEF H!Del, HostTypes, H!Applied
<1> QED BY <1>1, <1>2

LEMMA HostFlushEffect ==
  ASSUME HostTypes, H!Flush
  PROVE  /\ HostTypes' /\ UNCHANGED <<hostIf, default, hostDev>>
         /\ \A ip \in Ip : H!Applied(ip)' <=> H!Applied(ip)
<1>1. \A ip \in DOMAIN hosts : [count |-> 0, pending |-> hosts[ip].pending] \in H!Entry
  BY BoundAssumption DEF HostTypes, H!Entry
<1> QED BY <1>1 DEF H!Flush, HostTypes, H!Applied

\* what has users is in place, the rest is gone
LEMMA HostApplyEffect ==
  ASSUME HostTypes, H!Apply, \A ip \in Ip : H!Applied(ip) => hostDev[ip] = hostIf
  PROVE  /\ HostTypes' /\ UNCHANGED <<hostIf, default>>
         /\ \A ip \in Ip : H!Applied(ip)' => hostDev'[ip] = hostIf
         /\ \A ip \in DOMAIN hosts' : H!Applied(ip)'
         /\ \A ip \in Ip : H!Count(ip)' = H!Count(ip)
<1>1. H!Gateway = hostIf /\ hostIf \in Wan
  BY DEF H!Gateway, HostTypes
<1>2. /\ UNCHANGED <<hostIf, default>>
      /\ hosts' = [ip \in {i \in DOMAIN hosts : H!Count(i) > 0} |->
                     [count |-> H!Count(ip), pending |-> FALSE]]
      /\ hostDev' = [ip \in Ip |-> H!AppliedDev(ip, hostIf)]
  BY <1>1 DEF H!Apply
<1>3. \A ip \in DOMAIN hosts' :
        /\ ip \in DOMAIN hosts /\ ip \in Ip /\ H!Count(ip) > 0
        /\ hosts'[ip] = [count |-> H!Count(ip), pending |-> FALSE]
        /\ hosts'[ip] \in H!Entry
  BY <1>2, HostCounts DEF HostTypes, H!Entry
<1>4. \A ip \in Ip : H!Added(ip, hostIf) = hostIf
  <2> TAKE ip \in Ip
  <2>1. ~H!NC!RouteAddFails(hostDev, ip, {ip}, hostIf, Wan)
    BY <1>1 DEF HostTypes, H!NC!RouteAddFails, H!NC!RouteSearch
  <2> QED BY <2>1 DEF H!Added, H!NC!RouteAdd
<1>5. \A ip \in Ip : H!AppliedDev(ip, hostIf) \in {NoRoute, hostIf}
  BY <1>1, <1>4 DEF HostTypes, H!AppliedDev, H!NC!RouteDel
<1>6. HostTypes'
  BY <1>2, <1>3, <1>5 DEF HostTypes
<1>7. \A ip \in DOMAIN hosts' : H!Applied(ip)' /\ hostDev'[ip] = hostIf
  <2> TAKE ip \in DOMAIN hosts'
  <2>1. H!Applied(ip)' /\ hostDev'[ip] = H!AppliedDev(ip, hostIf)
    BY <1>2, <1>3 DEF H!Applied
  <2>2. CASE H!Applied(ip)
    <3>1. ~H!Pending(ip) /\ hostDev[ip] = hostIf
      BY <1>3, <2>2 DEF H!Applied, H!Pending
    <3> QED BY <1>3, <2>1, <2>2, <3>1, HostCounts DEF H!AppliedDev
  <2>3. CASE ~H!Applied(ip)
    <3>1. H!Pending(ip)
      BY <1>3, <2>3 DEF H!Applied, H!Pending
    <3>2. H!AppliedDev(ip, hostIf) = H!Added(ip, hostIf)
      BY <1>3, <2>3, <3>1, HostCounts DEF H!AppliedDev
    <3> QED BY <1>3, <1>4, <2>1, <3>2
  <2> QED BY <2>2, <2>3
<1>8. \A ip \in Ip : H!Count(ip)' = H!Count(ip)
  BY <1>2, <1>3, HostCounts DEF H!Count
<1> QED BY <1>2, <1>6, <1>7, <1>8 DEF H!Applied

LEMMA HostCloseEffect ==
  ASSUME HostTypes, H!Close
  PROVE  /\ HostTypes' /\ \A ip \in Ip : ~H!Applied(ip)'
<1>1. hosts' = [x \in {} |-> x] /\ UNCHANGED <<hostIf, default>>
  BY DEF H!Close, H!EmptyMap
<1>2. hostDev' \in [Ip -> {NoRoute, default}]
  BY DEF H!Close, HostTypes, H!NC!RouteDel
<1> QED BY <1>1, <1>2 DEF HostTypes, H!Applied

(***************************************************************************)
(* The use counts and the peer cache, one step at a time.                   *)
(***************************************************************************)
LEMMA UsersFinite ==
  ASSUME HostsCounted
  PROVE  \A ip : IsFiniteSet(Users(ip)) /\ Cardinality(Users(ip)) \in Nat
<1> TAKE ip
<1>1. Users(ip) \subseteq DOMAIN peers
  BY DEF Users
<1> QED BY <1>1, FS_Subset, FS_CardinalityType DEF HostsCounted

LEMMA InitHInv == Init => HInv
<1> SUFFICES ASSUME Init
             PROVE  HInv
  OBVIOUS
<1>1. hosts = EmptyMap /\ peers = EmptyMap
  BY DEF Init
<1>2. HostTypes
  BY <1>1, NoDevice DEF Init, HostTypes, EmptyMap
<1>3. \A ip \in Ip : H!Count(ip) = 0 /\ ~H!Applied(ip) /\ Users(ip) = {}
  BY <1>1, NoDevice DEF H!Count, H!Applied, Users
<1>4. \A ip \in Ip : Cardinality(Users(ip)) <= H!Count(ip)
  BY <1>3, FS_EmptySet
<1>5. IsFiniteSet(DOMAIN peers) /\ DOMAIN hosts = {}
  BY <1>1, NoDevice, FS_EmptySet
<1> QED BY <1>2, <1>3, <1>4, <1>5 DEF HInv, HostsCounted

\* the variables these proofs are about
hkept == <<peers, stage, closing, hosts, hostIf, default, hostDev>>

LEMMA KeptHInv == HInv /\ UNCHANGED hkept => HInv'
  BY DEF HInv, HostTypes, HostsCounted, Users, H!Count, H!Applied, hkept

\* a stage that claims no more than the one before
LEMMA OnwardHInv ==
  ASSUME HInv, UNCHANGED <<peers, hosts, hostIf, default, hostDev>>,
         closing' = "no" => closing = "no",
         stage' \in {"routes", "idle"} => stage \in {"routes", "idle"}
  PROVE  HInv'
  BY DEF HInv, HostTypes, HostsCounted, Users, H!Count, H!Applied

LEMMA ConfigInfoCounted ==
  ASSUME HInv, ConfigInfo
  PROVE  HInv'
<1>1. peers' = EmptyMap /\ stage' = "exec" /\ UNCHANGED closing /\ H!Flush
  BY DEF ConfigInfo
<1>2. /\ HostTypes' /\ UNCHANGED <<hostIf, default, hostDev>>
      /\ \A ip \in Ip : H!Applied(ip)' <=> H!Applied(ip)
  BY <1>1, HostFlushEffect DEF HInv
<1>3. \A ip \in Ip : Cardinality(Users(ip)') = 0 /\ H!Count(ip)' \in Nat
  <2>1. \A ip \in Ip : Users(ip)' = {}
    BY <1>1, NoDevice DEF Users
  <2>2. (\A ip \in Ip : H!Count(ip) \in Nat)'
    BY <1>2, BoundAssumption DEF HostTypes, H!Count, H!Entry
  <2> QED BY <2>1, <2>2, FS_EmptySet
<1> QED BY <1>1, <1>2, <1>3, NoDevice, FS_EmptySet DEF HInv, HostsCounted

LEMMA AddPeerCounted ==
  ASSUME SInv, HInv, NEW p \in Peer, AddPeer(p)
  PROVE  HInv'
<1> DEFINE k == makeKey(p)
<1>1. /\ stage = "exec" /\ UNCHANGED <<stage, closing>> /\ H!Add(p.ip) /\ p.ip \in Ip
      /\ peers' = Put(peers, k, [gid |-> p.gid, ip |-> p.ip])
  BY PeerFields DEF AddPeer
<1>2. /\ HostTypes' /\ UNCHANGED <<hostIf, default, hostDev>>
      /\ \A j \in Ip : H!Applied(j)' <=> H!Applied(j)
      /\ H!Count(p.ip)' = H!Count(p.ip) + 1
      /\ \A j \in Ip : j # p.ip => H!Count(j)' = H!Count(j)
  BY <1>1, HostAddEffect DEF HInv
<1>3. /\ DOMAIN peers' = DOMAIN peers \cup {k}
      /\ peers'[k].ip = p.ip
      /\ \A x \in DOMAIN peers : x # k => peers'[x] = peers[x]
  BY <1>1 DEF Put
<1> HIDE DEF k
<1>4. IsFiniteSet(DOMAIN peers')
  BY <1>3, FS_AddElement DEF HInv, HostsCounted
<1>5. ASSUME NEW ip \in Ip, closing = "no"
      PROVE  Cardinality(Users(ip)') <= H!Count(ip)'
  <2>1. /\ IsFiniteSet(Users(ip)) /\ Cardinality(Users(ip)) \in Nat
        /\ Cardinality(Users(ip)) <= H!Count(ip) /\ H!Count(ip) \in Nat
    BY <1>5, UsersFinite, HostCounts DEF HInv, HostsCounted
  <2>2. CASE ip = p.ip
    <3>1. Users(ip)' \subseteq Users(ip) \cup {k}
      BY <1>3 DEF Users
    <3>2. /\ IsFiniteSet(Users(ip) \cup {k})
          /\ Cardinality(Users(ip) \cup {k}) \in Nat
          /\ Cardinality(Users(ip) \cup {k}) <= Cardinality(Users(ip)) + 1
      <4> DEFINE S == Users(ip)
      <4>1. IsFiniteSet(S) /\ Cardinality(S) \in Nat
        BY <2>1
      <4> HIDE DEF S
      <4>2. IsFiniteSet(S \cup {k}) /\ Cardinality(S \cup {k}) \in {Cardinality(S), Cardinality(S) + 1}
        BY <4>1, FS_AddElement
      <4>3. Cardinality(S \cup {k}) \in Nat /\ Cardinality(S \cup {k}) <= Cardinality(S) + 1
        BY <4>1, <4>2
      <4> QED BY <4>2, <4>3 DEF S
    <3>3. /\ Cardinality(Users(ip)') \in Nat
          /\ Cardinality(Users(ip)') <= Cardinality(Users(ip) \cup {k})
      BY <3>1, <3>2, FS_Subset, FS_CardinalityType
    <3> QED BY <1>2, <2>1, <2>2, <3>2, <3>3
  <2>3. CASE ip # p.ip
    <3>1. Users(ip)' \subseteq Users(ip)
      BY <1>3, <2>3 DEF Users
    <3>2. /\ Cardinality(Users(ip)') \in Nat
          /\ Cardinality(Users(ip)') <= Cardinality(Users(ip))
      BY <2>1, <3>1, FS_Subset, FS_CardinalityType
    <3> QED BY <1>2, <2>1, <2>3, <3>2
  <2> QED BY <2>2, <2>3
<1> QED BY <1>1, <1>2, <1>4, <1>5 DEF HInv, HostsCounted

LEMMA RemovePeerCounted ==
  ASSUME SInv, HInv, NEW p \in Peer, RemovePeer(p)
  PROVE  HInv'
<1> DEFINE k == makeKey(p)
<1>1. /\ stage = "exec" /\ UNCHANGED <<stage, closing>>
      /\ peers' = Without(peers, {k})
  BY DEF RemovePeer, CheckAndDel
<1>2. /\ DOMAIN peers' = DOMAIN peers \ {k}
      /\ \A x \in DOMAIN peers \ {k} : peers'[x] = peers[x]
  BY <1>1 DEF Without
<1>3. IsFiniteSet(DOMAIN peers')
  BY <1>2, FS_RemoveElement DEF HInv, HostsCounted
<1>4. CASE k \notin DOMAIN peers
  <2>1. UNCHANGED hvars
    BY <1>4 DEF RemovePeer
  <2>2. \A ip : Users(ip)' = Users(ip)
    BY <1>2, <1>4 DEF Users
  <2> QED BY <1>1, <1>3, <2>1, <2>2 DEF HInv, HostTypes, HostsCounted, H!Count, H!Applied, hvars
<1>5. CASE k \in DOMAIN peers
  <2>0. PICK e \in Ip : e = peers[k].ip
    BY <1>5 DEF SInv, TypeOK
  <2>1. H!Del(e)
    BY <1>5, <2>0 DEF RemovePeer
  <2> HIDE DEF k
  <2>2. /\ HostTypes' /\ UNCHANGED <<hostIf, default, hostDev>>
        /\ \A j \in Ip : H!Applied(j)' <=> H!Applied(j)
    BY <2>1, HostDelType DEF HInv
  <2>3. ASSUME NEW ip \in Ip, closing = "no"
        PROVE  Cardinality(Users(ip)') <= H!Count(ip)'
    <3>1. \A j \in Ip : /\ IsFiniteSet(Users(j)) /\ Cardinality(Users(j)) \in Nat
                        /\ Cardinality(Users(j)) <= H!Count(j) /\ H!Count(j) \in Nat
      BY <2>3, UsersFinite, HostCounts DEF HInv, HostsCounted
    <3>2. k \in Users(e) /\ Users(e)' = Users(e) \ {k}
      BY <1>2, <1>5, <2>0 DEF Users
    <3>3. /\ IsFiniteSet(Users(e)') /\ Cardinality(Users(e)') = Cardinality(Users(e)) - 1
          /\ Cardinality(Users(e)') \in Nat
      BY <2>1, <3>1, <3>2, FS_RemoveElement, FS_CardinalityType
    <3>4. H!Count(e) > 0
      BY <2>1, <3>1, <3>3
    <3>5. /\ H!Count(e)' = H!Count(e) - 1
          /\ \A j \in Ip : j # e => H!Count(j)' = H!Count(j)
      BY <2>1, <3>4, HostDelEffect DEF HInv
    <3>6. CASE ip = e
      BY <2>1, <3>1, <3>3, <3>5, <3>6
    <3>7. CASE ip # e
      <4>1. Users(ip)' = Users(ip)
        BY <1>2, <2>0, <3>7 DEF Users
      <4> QED BY <3>1, <3>5, <3>7, <4>1
    <3> QED BY <3>6, <3>7
  <2> QED BY <1>1, <1>3, <2>2, <2>3 DEF HInv, HostsCounted
<1> QED BY <1>4, <1>5

LEMMA ApplyHostsCounted ==
  ASSUME HInv, ApplyHosts
  PROVE  HInv'
<1>1. H!Apply /\ UNCHANGED <<peers, closing>>
  BY DEF ApplyHosts
<1>2. /\ HostTypes' /\ UNCHANGED <<hostIf, default>>
      /\ \A ip \in Ip : H!Applied(ip)' => hostDev'[ip] = hostIf
      /\ \A ip \in DOMAIN hosts' : H!Applied(ip)'
      /\ \A ip \in Ip : H!Count(ip)' = H!Count(ip)
  BY <1>1, HostApplyEffect DEF HInv, HostsCounted
<1> QED BY <1>1, <1>2 DEF HInv, HostsCounted, Users

LEMMA RestartCounted ==
  ASSUME HInv, Restart
  PROVE  HInv'
<1>1. /\ hosts' = EmptyMap /\ peers' = EmptyMap /\ hostIf' = default
      /\ UNCHANGED <<default, hostDev>>
  BY DEF Restart
<1>2. HostTypes'
  BY <1>1, NoDevice DEF HInv, HostTypes, EmptyMap
<1>3. \A ip \in Ip : H!Count(ip)' = 0 /\ ~H!Applied(ip)' /\ Users(ip)' = {}
  BY <1>1, NoDevice DEF H!Count, H!Applied, Users
<1>4. \A ip \in Ip : Cardinality(Users(ip)') <= H!Count(ip)'
  BY <1>3, FS_EmptySet
<1>5. IsFiniteSet(DOMAIN peers') /\ DOMAIN hosts' = {}
  BY <1>1, NoDevice, FS_EmptySet
<1> QED BY <1>2, <1>3, <1>4, <1>5 DEF HInv, HostsCounted

LEMMA StepHInv == SInv /\ HInv /\ [Next]_vars => HInv'
<1> SUFFICES ASSUME SInv, HInv, [Next]_vars
             PROVE  HInv'
  OBVIOUS
<1>1. CASE ConfigInfo
  BY <1>1, ConfigInfoCounted
<1>2. CASE WgConf
  BY <1>2, OnwardHInv DEF WgConf, hvars
<1>3. ASSUME NEW i \in Iface, CreateInterface(i)
      PROVE  HInv'
  BY <1>3, KeptHInv DEF CreateInterface, hvars, mvars, hkept
<1>4. ASSUME NEW p \in Peer, AddPeer(p)
      PROVE  HInv'
  BY <1>4, AddPeerCounted
<1>5. ASSUME NEW p \in Peer, RemovePeer(p)
      PROVE  HInv'
  BY <1>5, RemovePeerCounted
<1>6. CASE ApplyWireguard \/ ApplyBlocks \/ ApplyLeftovers \/ ApplyRoutes
  BY <1>6, OnwardHInv DEF ApplyWireguard, ApplyBlocks, ApplyLeftovers, ApplyRoutes, hvars
<1>7. CASE ApplyHosts
  BY <1>7, ApplyHostsCounted
<1>8. CASE PingRound
  BY <1>8, KeptHInv DEF PingRound, hvars, mvars, hkept
<1>9. CASE CloseHosts
  <2>1. H!Close /\ closing' = "hosts" /\ UNCHANGED peers
    BY <1>9 DEF CloseHosts
  <2> QED BY <2>1, HostCloseEffect DEF HInv, HostsCounted
<1>10. CASE CloseRouter
  BY <1>10, OnwardHInv DEF CloseRouter, hvars
<1>11. CASE CloseWireguard
  <2>1. /\ closing' = "done" /\ peers' = EmptyMap
        /\ UNCHANGED <<hosts, hostIf, default, hostDev>>
    BY <1>11 DEF CloseWireguard, hvars
  <2> QED BY <2>1, NoDevice, FS_EmptySet DEF HInv, HostTypes, HostsCounted, H!Applied
<1>12. CASE Restart
  BY <1>12, RestartCounted
<1>13. CASE UNCHANGED vars
  BY <1>13, KeptHInv DEF vars, hvars, mvars, hkept
<1> QED BY <1>1, <1>2, <1>3, <1>4, <1>5, <1>6, <1>7, <1>8, <1>9, <1>10, <1>11, <1>12, <1>13
        DEF Next, Message, Apply, Close

(***************************************************************************)
(* Between two messages the endpoint of every peer of the cache has its     *)
(* host route, for any peers that share endpoints and any order of          *)
(* messages, repeated ones included: nothing takes away the last use of a   *)
(* route somebody still needs.                                              *)
(***************************************************************************)
THEOREM EndpointsStay == Spec => []EndpointsRouted
<1>1. SInv /\ HInv => EndpointsRouted
  <2> SUFFICES ASSUME SInv, HInv, stage = "idle", closing = "no", NEW k \in DOMAIN peers
               PROVE  hostDev[peers[k].ip] = hostIf
    BY DEF EndpointsRouted
  <2> DEFINE ip == peers[k].ip
  <2>1. ip \in Ip
    BY DEF SInv, TypeOK
  <2>2. k \in Users(ip)
    BY DEF Users
  <2> HIDE DEF ip
  <2>3. IsFiniteSet(Users(ip)) /\ Cardinality(Users(ip)) \in Nat /\ Cardinality(Users(ip)) # 0
    BY <2>2, UsersFinite, FS_EmptySet DEF HInv
  <2>4. H!Count(ip) > 0
    BY <2>1, <2>3, HostCounts DEF HInv, HostsCounted
  <2>5. H!Applied(ip)
    BY <2>1, <2>4 DEF H!Count, HInv, HostsCounted
  <2> QED BY <2>1, <2>5 DEF HInv, HostsCounted, ip
<1> QED BY <1>1, InitHInv, StepHInv, SyncedInvariance, PTL DEF Spec

(***************************************************************************)
(* Gateways and services: what mole, WireGuard and the router owe to each   *)
(* other while a message is executed.                                       *)
(*                                                                         *)
(* A peer is wanted if the WireGuard cache has its key, and the address a   *)
(* is let through if the kernel's device allows it to that key.             *)
(***************************************************************************)
Wanted(p) == p.ifname \in DOMAIN devices /\ p.key \in DOMAIN devices[p.ifname]

Allowed(p, a) ==
  p.ifname \in DOMAIN os /\ p.key \in DOMAIN os[p.ifname] /\ a \in os[p.ifname][p.key]

\* on its interface the address comes with this key, and always does
Exclusive(p, a) ==
  \A q \in Peer : p.ifname = q.ifname => (a \in AllowedIPs(q) <=> q.key = p.key)

\* the kernel lets through what a wanted peer alone is allowed
WantedAllowed ==
  \A p \in Peer, a \in Addr : Exclusive(p, a) /\ Wanted(p) => Allowed(p, a)

\* the key of a peer that is in one group only leads to that group
CacheKnows ==
  \A p \in Peer :
    /\ \A q \in Peer : makeKey(q) = makeKey(p) => q.gid = p.gid
    /\ makeKey(p) \in DOMAIN peers
    => peers[makeKey(p)].gid = p.gid

\* no interface is made by WG_CONF: the devices both have agree all along
WgConfInStep ==
  stage = "exec" /\ job = "wgconf" /\ closing = "no" =>
    \A i \in DOMAIN devices \cap DOMAIN os : DOMAIN os[i] = DOMAIN devices[i]

WInv == WantedAllowed /\ CacheKnows /\ WgConfInStep

(***************************************************************************)
(* The router's loops stay within its cache, and a message that is being    *)
(* executed is known to it.                                                 *)
(***************************************************************************)
LoopsInside ==
  /\ DOMAIN routes \subseteq Gid
  /\ \A g \in DOMAIN routes :
       DOMAIN routes[g].peers \cup DOMAIN routes[g].services \subseteq Addr
  /\ todo \subseteq DOMAIN routes
  /\ loop # NoLoop =>
       /\ phase \in {"apply", "reroute", "close"}
       /\ loop.gid \in DOMAIN routes /\ loop.best \in Addr \cup {NoAddr}
       /\ loop.todo \subseteq DOMAIN routes[loop.gid].services
  /\ DOMAIN kernel = Addr
  /\ stage # "idle" => job # "none"

(***************************************************************************)
(* Services.  An entry that is not to be deleted belongs to a wanted peer;  *)
(* an entry the pass has visited is not to be deleted.                      *)
(***************************************************************************)
ServiceVisited(g, s) ==
  \/ stage = "idle"
  \/ phase = "resolve"
  \/ /\ phase = "apply" /\ g \notin todo
     /\ loop # NoLoop /\ loop.gid = g => s \notin loop.todo

ListOwned(g, s, list) ==
  \A gw \in DOMAIN list :
    \E p \in Peer :
      /\ p.gid = g /\ p.gw = gw /\ s \in p.svc
      /\ list[gw].ifname = p.ifname
      /\ "PendingDel" \notin list[gw].flags => Wanted(p)

ServicesOwned ==
  closing = "no" =>
    \A g \in DOMAIN routes : \A s \in DOMAIN routes[g].services \cap OwnService :
      LET rl == routes[g].services[s]
      IN  /\ ~rl.disabled
          /\ \E p \in Peer : p.gid = g /\ s \in p.svc
          /\ ListOwned(g, s, rl.list)
          /\ ServiceVisited(g, s) => R!Having(rl.list, "PendingDel") = {}

LEMMA RouterMaps ==
  /\ R!EmptyMap = EmptyMap
  /\ \A f, k, v : R!Put(f, k, v) = Put(f, k, v)
  BY DEF EmptyMap, Put, R!EmptyMap, R!Put

LEMMA SameKey ==
  ASSUME NEW p \in Peer, NEW q \in Peer
  PROVE  makeKey(q) = makeKey(p) <=> q.ifname = p.ifname /\ q.key = p.key
  BY DEF makeKey

LEMMA InitWInv == Init => WInv
<1> SUFFICES ASSUME Init
             PROVE  WInv
  OBVIOUS
<1>1. devices = EmptyMap /\ peers = EmptyMap /\ stage = "idle"
  BY DEF Init
<1> QED BY <1>1, NoDevice DEF WInv, WantedAllowed, Wanted, CacheKnows, WgConfInStep

\* what these three are about
LEMMA KeptWInv ==
  ASSUME WInv, UNCHANGED <<peers, devices, os>>,
         stage' = "exec" /\ closing' = "no" => UNCHANGED <<stage, closing, job>>
  PROVE  WInv'
  BY DEF WInv, WantedAllowed, Wanted, Allowed, CacheKnows, WgConfInStep

LEMMA PingRoundKeeps ==
  ASSUME PingRound
  PROVE  UNCHANGED <<job, closed, peers, stage, left, closing, torn, devices, os>>
  BY DEF PingRound, R!PingProcess, R!EndReroute, R!RerouteGroup, R!RerouteService, R!RerouteSkip,
         R!AtService, wvars, mvars

LEMMA CreateInterfaceWInv ==
  ASSUME SInv, WInv, NEW i \in Iface, CreateInterface(i)
  PROVE  WInv'
<1>1. UNCHANGED <<peers, stage, closing, job>> /\ i \notin DOMAIN devices /\ job = "config"
  BY DEF CreateInterface, rvars, mvars
<1>2. /\ devices' = Put(devices, i, EmptyMap)
      /\ os' = os \/ os' = Put(os, i, EmptyMap)
  BY SameMaps DEF CreateInterface, W!CreateInterface
<1>3. ASSUME NEW p \in Peer, Wanted(p)'
      PROVE  p.ifname # i /\ Wanted(p)
  BY <1>2, <1>3, NoDevice DEF Wanted, Put
<1>4. \A p \in Peer, a \in Addr : p.ifname # i /\ Allowed(p, a) => Allowed(p, a)'
  BY <1>2 DEF Allowed, Put
<1>5. WantedAllowed'
  BY <1>3, <1>4 DEF WInv, WantedAllowed
<1> QED BY <1>1, <1>5 DEF WInv, CacheKnows, WgConfInStep

\* the peer is in both, and has taken its addresses from the others
LEMMA AddPeerEffect ==
  ASSUME SInv, NEW q \in Peer, AddPeer(q)
  PROVE  /\ DOMAIN devices' = DOMAIN devices /\ DOMAIN os' = DOMAIN os
         /\ q.ifname \in DOMAIN devices /\ q.ifname \in DOMAIN os
         /\ DOMAIN devices'[q.ifname] = DOMAIN devices[q.ifname] \cup {q.key}
         /\ DOMAIN os'[q.ifname] = DOMAIN os[q.ifname] \cup {q.key}
         /\ os'[q.ifname][q.key] = AllowedIPs(q)
         /\ \A k \in DOMAIN os[q.ifname] :
              k # q.key => os'[q.ifname][k] = os[q.ifname][k] \ AllowedIPs(q)
         /\ \A i \in DOMAIN devices : i # q.ifname => devices'[i] = devices[i]
         /\ \A i \in DOMAIN os : i # q.ifname => os'[i] = os[i]
<1> DEFINE i == q.ifname
           S == AllowedIPs(q)
<1>1. /\ i \in DOMAIN devices /\ i \in DOMAIN os
      /\ os' = [os EXCEPT ![i] = W!Allow(os[i], q.key, S)]
      /\ devices' = IF q.key \in DOMAIN devices[i] THEN devices
                    ELSE [devices EXCEPT ![i] = Put(devices[i], q.key, S)]
  BY SameMaps DEF AddPeer, W!AddPeer, W!AddPeerFails, W!interfaceExist
<1> HIDE DEF i, S
<1>2. /\ DOMAIN W!Allow(os[i], q.key, S) = DOMAIN os[i] \cup {q.key}
      /\ W!Allow(os[i], q.key, S)[q.key] = S
      /\ \A k \in DOMAIN os[i] : k # q.key => W!Allow(os[i], q.key, S)[k] = os[i][k] \ S
  BY DEF W!Allow
<1>3. DOMAIN Put(devices[i], q.key, S) = DOMAIN devices[i] \cup {q.key}
  BY DEF Put
<1>4. /\ DOMAIN os' = DOMAIN os
      /\ os'[i] = W!Allow(os[i], q.key, S)
      /\ \A j \in DOMAIN os : j # i => os'[j] = os[j]
  BY <1>1
<1>5. /\ DOMAIN devices' = DOMAIN devices
      /\ DOMAIN devices'[i] = DOMAIN devices[i] \cup {q.key}
      /\ \A j \in DOMAIN devices : j # i => devices'[j] = devices[j]
  <2>1. CASE q.key \in DOMAIN devices[i]
    BY <1>1, <2>1
  <2>2. CASE q.key \notin DOMAIN devices[i]
    BY <1>1, <1>3, <2>2
  <2> QED BY <2>1, <2>2
<1> QED BY <1>1, <1>2, <1>4, <1>5 DEF i, S

LEMMA AddPeerWanted ==
  ASSUME SInv, NEW q \in Peer, AddPeer(q)
  PROVE  /\ Wanted(q)' /\ \A a \in AllowedIPs(q) : Allowed(q, a)'
         /\ \A p \in Peer : makeKey(p) # makeKey(q) =>
              /\ Wanted(p)' <=> Wanted(p)
              /\ \A a : Allowed(p, a)' <=>
                   Allowed(p, a) /\ ~(p.ifname = q.ifname /\ a \in AllowedIPs(q))
<1>1. Wanted(q)' /\ \A a \in AllowedIPs(q) : Allowed(q, a)'
  BY AddPeerEffect DEF Wanted, Allowed
<1>2. ASSUME NEW p \in Peer, makeKey(p) # makeKey(q)
      PROVE  /\ Wanted(p)' <=> Wanted(p)
             /\ \A a : Allowed(p, a)' <=>
                   Allowed(p, a) /\ ~(p.ifname = q.ifname /\ a \in AllowedIPs(q))
  <2>1. CASE p.ifname = q.ifname
    BY <1>2, <2>1, SameKey, AddPeerEffect DEF Wanted, Allowed
  <2>2. CASE p.ifname # q.ifname
    BY <1>2, <2>2, AddPeerEffect DEF Wanted, Allowed
  <2> QED BY <2>1, <2>2
<1> QED BY <1>1, <1>2

LEMMA AddPeerWInv ==
  ASSUME SInv, WInv, NEW q \in Peer, AddPeer(q)
  PROVE  WInv'
<1>1. /\ UNCHANGED <<stage, closing>> /\ job' = job
      /\ peers' = Put(peers, makeKey(q), [gid |-> q.gid, ip |-> q.ip])
  BY DEF AddPeer, R!RouteAdd
<1>2. WantedAllowed'
  <2> SUFFICES ASSUME NEW p \in Peer, NEW a \in Addr, Exclusive(p, a), Wanted(p)'
               PROVE  Allowed(p, a)'
    BY DEF WantedAllowed, Exclusive
  <2>1. CASE makeKey(p) = makeKey(q)
    <3>1. a \in AllowedIPs(q)
      BY <2>1, SameKey DEF Exclusive
    <3> QED BY <2>1, <3>1, AddPeerWanted, SameKey DEF Allowed
  <2>2. CASE makeKey(p) # makeKey(q)
    <3>1. ~(p.ifname = q.ifname /\ a \in AllowedIPs(q))
      BY <2>2, SameKey DEF Exclusive
    <3> QED BY <2>2, <3>1, AddPeerWanted DEF WInv, WantedAllowed
  <2> QED BY <2>1, <2>2
<1>3. CacheKnows'
  BY <1>1 DEF WInv, CacheKnows, Put
<1>4. WgConfInStep'
  BY <1>1, AddPeerEffect DEF WInv, WgConfInStep
<1> QED BY <1>2, <1>3, <1>4 DEF WInv

LEMMA RemovePeerEffect ==
  ASSUME SInv, NEW q \in Peer, RemovePeer(q)
  PROVE  IF q.ifname \in DOMAIN devices
         THEN /\ DOMAIN devices' = DOMAIN devices /\ DOMAIN os' = DOMAIN os
              /\ DOMAIN devices'[q.ifname] = DOMAIN devices[q.ifname] \ {q.key}
              /\ q.ifname \in DOMAIN os =>
                   /\ DOMAIN os'[q.ifname] = DOMAIN os[q.ifname] \ {q.key}
                   /\ \A k \in DOMAIN os'[q.ifname] : os'[q.ifname][k] = os[q.ifname][k]
              /\ \A i \in DOMAIN devices : i # q.ifname => devices'[i] = devices[i]
              /\ \A i \in DOMAIN os : i # q.ifname => os'[i] = os[i]
         ELSE UNCHANGED <<devices, os>>
<1> DEFINE i == q.ifname
<1>1. W!RemovePeer(i, q.key)
  BY DEF RemovePeer
<1> HIDE DEF i
<1>2. CASE i \notin DOMAIN devices
  BY <1>1, <1>2 DEF W!RemovePeer, W!interfaceExist, W!wvars, i
<1>3. CASE i \in DOMAIN devices
  <2>1. /\ devices' = [devices EXCEPT ![i] = Without(devices[i], {q.key})]
        /\ os' = [j \in DOMAIN os |-> IF j = i THEN Without(os[j], {q.key}) ELSE os[j]]
    BY <1>1, <1>3, SameMaps DEF W!RemovePeer, W!interfaceExist
  <2> QED BY <1>3, <2>1 DEF Without, i
<1> QED BY <1>2, <1>3 DEF i

LEMMA RemovePeerWanted ==
  ASSUME SInv, NEW q \in Peer, RemovePeer(q)
  PROVE  /\ ~Wanted(q)'
         /\ \A p \in Peer : makeKey(p) # makeKey(q) =>
              /\ Wanted(p)' <=> Wanted(p)
              /\ \A a : Allowed(p, a)' <=> Allowed(p, a)
<1>1. ~Wanted(q)'
  BY RemovePeerEffect DEF Wanted
<1>2. ASSUME NEW p \in Peer, makeKey(p) # makeKey(q)
      PROVE  /\ Wanted(p)' <=> Wanted(p)
             /\ \A a : Allowed(p, a)' <=> Allowed(p, a)
  <2>1. CASE q.ifname \notin DOMAIN devices
    BY <2>1, RemovePeerEffect DEF Wanted, Allowed
  <2>2. CASE q.ifname \in DOMAIN devices /\ p.ifname = q.ifname
    BY <1>2, <2>2, SameKey, RemovePeerEffect DEF Wanted, Allowed
  <2>3. CASE q.ifname \in DOMAIN devices /\ p.ifname # q.ifname
    BY <1>2, <2>3, RemovePeerEffect DEF Wanted, Allowed
  <2> QED BY <2>1, <2>2, <2>3
<1> QED BY <1>1, <1>2

LEMMA RemovePeerWInv ==
  ASSUME SInv, WInv, NEW q \in Peer, RemovePeer(q)
  PROVE  WInv'
<1>1. /\ UNCHANGED <<stage, closing>> /\ job' = job
      /\ peers' = Without(peers, {makeKey(q)})
  BY DEF RemovePeer, CheckAndDel, R!RouteDel, rvars
<1>2. WantedAllowed'
  <2> SUFFICES ASSUME NEW p \in Peer, NEW a \in Addr, Exclusive(p, a), Wanted(p)'
               PROVE  Allowed(p, a)'
    BY DEF WantedAllowed, Exclusive
  <2>1. makeKey(p) # makeKey(q)
    BY RemovePeerWanted, SameKey DEF Wanted
  <2> QED BY <2>1, RemovePeerWanted DEF WInv, WantedAllowed
<1>3. CacheKnows'
  BY <1>1 DEF WInv, CacheKnows, Without
<1>4. WgConfInStep'
  <2>1. CASE q.ifname \notin DOMAIN devices
    BY <1>1, <2>1, RemovePeerEffect DEF WInv, WgConfInStep
  <2>2. CASE q.ifname \in DOMAIN devices
    <3> SUFFICES ASSUME stage = "exec", job = "wgconf", closing = "no",
                        NEW i \in DOMAIN devices \cap DOMAIN os
                 PROVE  DOMAIN os'[i] = DOMAIN devices'[i]
      BY <1>1, <2>2, RemovePeerEffect DEF WgConfInStep
    <3>1. DOMAIN os[i] = DOMAIN devices[i]
      BY DEF WInv, WgConfInStep
    <3>2. CASE i = q.ifname
      BY <2>2, <3>1, <3>2, RemovePeerEffect
    <3>3. CASE i # q.ifname
      BY <2>2, <3>1, <3>3, RemovePeerEffect
    <3> QED BY <3>2, <3>3
  <2> QED BY <2>1, <2>2
<1> QED BY <1>2, <1>3, <1>4 DEF WInv

\* the wanted peers keep what they are allowed, the others are what is left
LEMMA ApplyWireguardEffect ==
  ASSUME WInv, ApplyWireguard
  PROVE  /\ DOMAIN os' = DOMAIN devices
         /\ \A p \in Peer : \A a : Wanted(p) /\ Allowed(p, a) => Allowed(p, a)'
         /\ \A p \in Peer : \A a : ~Wanted(p) /\ Allowed(p, a) => a \in left'
<1>1. /\ left' = W!allowedIPs
      /\ os' = [i \in DOMAIN devices |-> W!applyPeers(i)]
  BY DEF ApplyWireguard, W!Apply
<1>2. ASSUME NEW p \in Peer, NEW a, Wanted(p), Allowed(p, a)
      PROVE  Allowed(p, a)'
  <2>1. /\ p.key \in DOMAIN W!applyPeers(p.ifname)
        /\ W!applyPeers(p.ifname)[p.key] = os[p.ifname][p.key]
    BY <1>2 DEF Wanted, Allowed, W!applyPeers
  <2> QED BY <1>1, <1>2, <2>1 DEF Wanted, Allowed
<1>3. ASSUME NEW p \in Peer, NEW a, ~Wanted(p), Allowed(p, a)
      PROVE  a \in left'
  <2>1. p.ifname \in DOMAIN os /\ p.key \in W!ResidualPeers(p.ifname) /\ a \in os[p.ifname][p.key]
    BY <1>3 DEF Wanted, Allowed, W!ResidualPeers, W!Residual
  <2> QED BY <1>1, <2>1 DEF W!allowedIPs
<1> QED BY <1>1, <1>2, <1>3

LEMMA ApplyWireguardWInv ==
  ASSUME WInv, ApplyWireguard
  PROVE  WInv'
<1>1. UNCHANGED <<peers, devices>> /\ stage' = "left"
  BY DEF ApplyWireguard, W!Apply
<1>2. WantedAllowed'
  BY <1>1, ApplyWireguardEffect DEF WInv, WantedAllowed, Wanted, Exclusive
<1> QED BY <1>1, <1>2 DEF WInv, CacheKnows, WgConfInStep

LEMMA ApplyBlocksWInv ==
  ASSUME WInv, ApplyBlocks
  PROVE  WInv'
<1>1. UNCHANGED <<peers, devices>> /\ stage' = "blocked"
  BY DEF ApplyBlocks, W!ApplyBlocks
<1>2. PICK S \in SUBSET (DOMAIN os \ W!Residual) :
        os' = [i \in DOMAIN os \ W!Residual |-> IF i \in S THEN W!applyPeers(i) ELSE os[i]]
  BY DEF ApplyBlocks, W!ApplyBlocks
<1>3. ASSUME NEW p \in Peer, NEW a, Wanted(p), Allowed(p, a)
      PROVE  Allowed(p, a)'
  <2>1. /\ p.key \in DOMAIN W!applyPeers(p.ifname)
        /\ W!applyPeers(p.ifname)[p.key] = os[p.ifname][p.key]
        /\ p.ifname \in DOMAIN os \ W!Residual
    BY <1>3 DEF Wanted, Allowed, W!applyPeers, W!Residual
  <2> QED BY <1>2, <1>3, <2>1 DEF Allowed
<1>4. WantedAllowed'
  BY <1>1, <1>3 DEF WInv, WantedAllowed, Wanted, Exclusive
<1> QED BY <1>1, <1>4 DEF WInv, CacheKnows, WgConfInStep

LEMMA StepWInv == SInv /\ WInv /\ [Next]_vars => WInv'
<1> SUFFICES ASSUME SInv, WInv, [Next]_vars
             PROVE  WInv'
  OBVIOUS
<1>1. CASE ConfigInfo
  <2>1. devices' = EmptyMap /\ peers' = EmptyMap /\ job' = "config"
    BY <1>1, SameMaps DEF ConfigInfo, W!Flush, R!ConfigInfo
  <2> QED BY <2>1, NoDevice DEF WInv, WantedAllowed, Wanted, CacheKnows, WgConfInStep
<1>2. CASE WgConf
  <2>1. UNCHANGED <<peers, devices, os, closing>> /\ stage = "idle"
    BY <1>2 DEF WgConf, wvars
  <2>2. closing = "no" => \A i \in DOMAIN devices \cap DOMAIN os : DOMAIN os[i] = DOMAIN devices[i]
    BY <2>1, NoDevice DEF SInv, InStep, SameDevices
  <2> QED BY <2>1, <2>2 DEF WInv, WantedAllowed, Wanted, Allowed, CacheKnows, WgConfInStep
<1>3. ASSUME NEW i \in Iface, CreateInterface(i)
      PROVE  WInv'
  BY <1>3, CreateInterfaceWInv
<1>4. ASSUME NEW p \in Peer, AddPeer(p)
      PROVE  WInv'
  BY <1>4, AddPeerWInv
<1>5. ASSUME NEW p \in Peer, RemovePeer(p)
      PROVE  WInv'
  BY <1>5, RemovePeerWInv
<1>6. CASE ApplyWireguard
  BY <1>6, ApplyWireguardWInv
<1>7. CASE ApplyBlocks
  BY <1>7, ApplyBlocksWInv
<1>8. CASE ApplyLeftovers \/ ApplyHosts \/ ApplyRoutes
  BY <1>8, KeptWInv DEF ApplyLeftovers, ApplyHosts, ApplyRoutes, wvars
<1>9. CASE PingRound
  BY <1>9, PingRoundKeeps, KeptWInv
<1>10. CASE CloseHosts \/ CloseRouter
  BY <1>10, KeptWInv DEF CloseHosts, CloseRouter, wvars
<1>11. CASE CloseWireguard
  <2>1. /\ closing' = "done" /\ peers' = EmptyMap
        /\ UNCHANGED <<devices, os>> \/ devices' = EmptyMap
    BY <1>11, SameMaps DEF CloseWireguard, W!Close, wvars
  <2> QED BY <2>1, NoDevice DEF WInv, WantedAllowed, Wanted, Allowed, CacheKnows, WgConfInStep
<1>12. CASE Restart
  <2>1. devices' = EmptyMap /\ peers' = EmptyMap /\ stage' = "idle"
    BY <1>12 DEF Restart
  <2> QED BY <2>1, NoDevice DEF WInv, WantedAllowed, Wanted, CacheKnows, WgConfInStep
<1>13. CASE UNCHANGED vars
  BY <1>13, KeptWInv DEF vars, rvars, wvars, mvars
<1> QED BY <1>1, <1>2, <1>3, <1>4, <1>5, <1>6, <1>7, <1>8, <1>9, <1>10, <1>11, <1>12, <1>13
        DEF Next, Message, Apply, Close

(***************************************************************************)
(* The router's steps.  Lists: what stays keeps its interface, and is not   *)
(* to be deleted exactly if it was not before.                              *)
(***************************************************************************)
Later(old, new) ==
  \A gw \in DOMAIN new :
    /\ gw \in DOMAIN old /\ new[gw].ifname = old[gw].ifname
    /\ "PendingDel" \in new[gw].flags <=> "PendingDel" \in old[gw].flags

LEMMA ListOps ==
  ASSUME NEW list, NEW old, NEW new
  PROVE  /\ Later(list, list)
         /\ Later(list, R!MoveActive(list, old, new))
         /\ Later(list, R!RerouteList(list, new, old))
         /\ R!Having(list, "PendingDel") = {} =>
              /\ Later(list, R!ResetPending(list))
              /\ Later(list, R!ResetPending(R!MoveActive(list, old, new)))
         /\ R!Having(R!ResetPending(list), "PendingDel") = {}
<1>1. Later(list, list)
  BY DEF Later
<1>2. Later(list, R!MoveActive(list, old, new))
  BY DEF Later, R!MoveActive, R!WithFlags
<1>3. Later(list, R!RerouteList(list, new, old))
  BY <1>1, <1>2 DEF R!RerouteList
<1>4. \A l : R!Having(l, "PendingDel") = {} => Later(l, R!ResetPending(l))
  BY DEF Later, R!ResetPending, R!WithFlags, R!Having
<1>5. ASSUME R!Having(list, "PendingDel") = {}
      PROVE  Later(list, R!ResetPending(R!MoveActive(list, old, new)))
  <2> DEFINE m == R!MoveActive(list, old, new)
  <2>1. R!Having(m, "PendingDel") = {}
    BY <1>2, <1>5 DEF Later, R!Having
  <2> HIDE DEF m
  <2>2. Later(m, R!ResetPending(m))
    BY <1>4, <2>1
  <2> QED BY <1>2, <2>2 DEF Later, m
<1>6. R!Having(R!ResetPending(list), "PendingDel") = {}
  BY DEF R!Having, R!ResetPending, R!WithFlags
<1> QED BY <1>1, <1>2, <1>3, <1>4, <1>5, <1>6

\* the lists of one group after a step of the service loop at s
LoopStep(s) ==
  LET old == routes[loop.gid].services
      new == routes'[loop.gid].services
  IN  \/ /\ new = old
         /\ phase = "apply" => old[s].disabled \/ R!Having(old[s].list, "PendingDel") = {}
      \/ /\ DOMAIN new = DOMAIN old /\ \A t \in DOMAIN old : t # s => new[t] = old[t]
         /\ new[s].disabled = old[s].disabled
         /\ Later(old[s].list, new[s].list)
         /\ phase = "apply" => R!Having(new[s].list, "PendingDel") = {}
      \/ /\ DOMAIN new = DOMAIN old \ {s} /\ \A t \in DOMAIN new : new[t] = old[t]

ServiceStep(s) ==
  /\ UNCHANGED <<job, phase, iter, todo, solved, closed>>
  /\ loop # NoLoop /\ s \in loop.todo
  /\ loop' = R!Loop(loop.gid, loop.best, loop.todo \ {s})
  /\ DOMAIN routes' = DOMAIN routes
  /\ \A g \in DOMAIN routes : /\ routes'[g].peers = routes[g].peers
                              /\ g # loop.gid => routes'[g] = routes[g]
  /\ LoopStep(s)
  /\ DOMAIN kernel' = Addr /\ \A a \in Addr : a # s => kernel'[a] = kernel[a]

LEMMA SetListEffect ==
  ASSUME LoopsInside, loop # NoLoop, NEW s, s \in loop.todo, NEW list, R!SetList(s, list)
  PROVE  /\ DOMAIN routes' = DOMAIN routes
         /\ \A g \in DOMAIN routes : /\ routes'[g].peers = routes[g].peers
                                     /\ g # loop.gid => routes'[g] = routes[g]
         /\ LET old == routes[loop.gid].services
                new == routes'[loop.gid].services
            IN  /\ DOMAIN new = DOMAIN old /\ \A t \in DOMAIN old : t # s => new[t] = old[t]
                /\ new[s].disabled = old[s].disabled /\ new[s].list = list
<1> DEFINE old == routes[loop.gid].services
           rl == [disabled |-> old[s].disabled, list |-> list]
           svc == Put(old, s, rl)
<1>1. loop.gid \in DOMAIN routes /\ s \in DOMAIN old
  BY DEF LoopsInside
<1>2. routes' = [routes EXCEPT ![loop.gid] = [peers |-> routes[loop.gid].peers, services |-> svc]]
  BY RouterMaps DEF R!SetList, R!SetServices, R!WithServices, R!ListAt
<1>3. /\ DOMAIN svc = DOMAIN old /\ svc[s] = rl
      /\ \A t \in DOMAIN old : t # s => svc[t] = old[t]
  BY <1>1 DEF Put
<1> HIDE DEF old, svc
<1>4. /\ DOMAIN routes' = DOMAIN routes
      /\ routes'[loop.gid] = [peers |-> routes[loop.gid].peers, services |-> svc]
      /\ \A g \in DOMAIN routes : g # loop.gid => routes'[g] = routes[g]
  BY <1>1, <1>2
<1> QED BY <1>3, <1>4 DEF old

LEMMA DropListEffect ==
  ASSUME LoopsInside, loop # NoLoop, NEW s, s \in loop.todo, R!DropList(s)
  PROVE  /\ DOMAIN routes' = DOMAIN routes
         /\ \A g \in DOMAIN routes : /\ routes'[g].peers = routes[g].peers
                                     /\ g # loop.gid => routes'[g] = routes[g]
         /\ LoopStep(s)
<1> DEFINE old == routes[loop.gid].services
           svc == [t \in DOMAIN old \ {s} |-> old[t]]
<1>1. loop.gid \in DOMAIN routes
  BY DEF LoopsInside
<1>2. routes' = [routes EXCEPT ![loop.gid] = [peers |-> routes[loop.gid].peers, services |-> svc]]
  BY DEF R!DropList, R!SetServices, R!WithServices, R!Restrict
<1>3. DOMAIN svc = DOMAIN old \ {s} /\ \A t \in DOMAIN svc : svc[t] = old[t]
  OBVIOUS
<1> HIDE DEF old, svc
<1>4. /\ DOMAIN routes' = DOMAIN routes
      /\ routes'[loop.gid] = [peers |-> routes[loop.gid].peers, services |-> svc]
      /\ \A g \in DOMAIN routes : g # loop.gid => routes'[g] = routes[g]
  BY <1>1, <1>2
<1> QED BY <1>3, <1>4 DEF LoopStep, old

LEMMA SameListStep ==
  ASSUME LoopsInside, NEW s,
         UNCHANGED <<job, phase, iter, todo, solved, closed>>,
         loop # NoLoop, s \in loop.todo, loop' = R!Loop(loop.gid, loop.best, loop.todo \ {s}),
         UNCHANGED routes, DOMAIN kernel' = Addr /\ \A a \in Addr : a # s => kernel'[a] = kernel[a],
         phase = "apply" => \/ routes[loop.gid].services[s].disabled
                            \/ R!Having(routes[loop.gid].services[s].list, "PendingDel") = {}
  PROVE  ServiceStep(s)
  BY DEF ServiceStep, LoopStep

LEMMA NewListStep ==
  ASSUME LoopsInside, NEW s, NEW list,
         UNCHANGED <<job, phase, iter, todo, solved, closed>>,
         loop # NoLoop, s \in loop.todo, loop' = R!Loop(loop.gid, loop.best, loop.todo \ {s}),
         R!SetList(s, list), DOMAIN kernel' = Addr /\ \A a \in Addr : a # s => kernel'[a] = kernel[a],
         Later(routes[loop.gid].services[s].list, list),
         phase = "apply" => R!Having(list, "PendingDel") = {}
  PROVE  ServiceStep(s)
<1>1. LoopStep(s)
  BY SetListEffect DEF LoopStep
<1> QED BY <1>1, SetListEffect DEF ServiceStep

LEMMA AtServiceStep ==
  ASSUME LoopsInside, NEW s, NEW ph, R!AtService(ph, s)
  PROVE  /\ phase = ph /\ UNCHANGED <<job, phase, iter, todo, solved, closed>>
         /\ loop # NoLoop /\ s \in loop.todo /\ loop' = R!Loop(loop.gid, loop.best, loop.todo \ {s})
         /\ \A d : kernel' = [kernel EXCEPT ![s] = d] =>
              DOMAIN kernel' = Addr /\ \A a \in Addr : a # s => kernel'[a] = kernel[a]
         /\ UNCHANGED kernel =>
              DOMAIN kernel' = Addr /\ \A a \in Addr : a # s => kernel'[a] = kernel[a]
  BY DEF LoopsInside, R!AtService

LEMMA SetRouteStep ==
  ASSUME LoopsInside, NEW s \in Addr, R!SetRoute(s)
  PROVE  ServiceStep(s)
<1> DEFINE list == routes[loop.gid].services[s].list
<1>1. R!AtService("apply", s) /\ R!OnlyAdds(list)
  BY DEF R!SetRoute, R!ListAt
<1>2. R!Having(list, "PendingDel") = {}
  BY <1>1 DEF R!OnlyAdds
<1>3. PICK new : /\ R!SetList(s, new)
                 /\ \/ \E o, g : new = R!ResetPending(R!MoveActive(list, o, g))
                    \/ new = R!ResetPending(list)
                 /\ \/ \E table \in R!RoutedSince : \E d : kernel' = [table EXCEPT ![s] = d]
                    \/ UNCHANGED kernel
  BY DEF R!SetRoute, R!ListAt
<1> HIDE DEF list
<1>4. Later(list, new) /\ R!Having(new, "PendingDel") = {}
  BY <1>2, <1>3, ListOps
<1>5. (\E d : kernel' = [kernel EXCEPT ![s] = d]) \/ UNCHANGED kernel
  BY <1>3 DEF R!RoutedSince
<1> QED BY <1>1, <1>3, <1>4, <1>5, AtServiceStep, NewListStep DEF list

LEMMA ClearRouteStep ==
  ASSUME LoopsInside, NEW s \in Addr, R!ClearRoute(s)
  PROVE  ServiceStep(s)
<1>1. R!AtService("apply", s) /\ R!DropList(s) /\ \E d : kernel' = [kernel EXCEPT ![s] = d]
  BY DEF R!ClearRoute
<1> QED BY <1>1, AtServiceStep, DropListEffect DEF ServiceStep

LEMMA MergeRoutesStep ==
  ASSUME LoopsInside, NEW s \in Addr, R!MergeRoutes(s)
  PROVE  ServiceStep(s)
<1> DEFINE list == routes[loop.gid].services[s].list
           live == R!Restrict(list, R!Kept(list))
<1>1. R!AtService("apply", s)
  BY DEF R!MergeRoutes
<1>2. PICK new, o, g : /\ R!SetList(s, new)
                       /\ new = R!RerouteList(R!ResetPending(live), g, o)
                       /\ \E d : kernel' = [kernel EXCEPT ![s] = d]
  BY DEF R!MergeRoutes, R!ListAt
<1>3. Later(list, live) /\ R!Having(live, "PendingDel") = {}
  BY DEF Later, R!Restrict, R!Kept, R!Having
<1> HIDE DEF list, live
<1> DEFINE reset == R!ResetPending(live)
<1>4. Later(live, reset) /\ R!Having(reset, "PendingDel") = {}
  BY <1>3, ListOps
<1> HIDE DEF reset
<1>5. Later(reset, new)
  BY <1>2, ListOps DEF reset
<1>6. Later(list, new) /\ R!Having(new, "PendingDel") = {}
  BY <1>3, <1>4, <1>5 DEF Later, R!Having
<1> QED BY <1>1, <1>2, <1>6, AtServiceStep, NewListStep DEF list

LEMMA RerouteServiceStep ==
  ASSUME LoopsInside, NEW s \in Addr, R!RerouteService(s)
  PROVE  ServiceStep(s)
<1> DEFINE list == routes[loop.gid].services[s].list
<1>1. R!AtService("reroute", s)
  BY DEF R!RerouteService
<1>2. PICK new, o, g : /\ R!SetList(s, new) /\ new = R!RerouteList(list, g, o)
                       /\ \E d : kernel' = [kernel EXCEPT ![s] = d]
  BY DEF R!RerouteService, R!ListAt
<1> HIDE DEF list
<1>3. Later(list, new) /\ phase # "apply"
  BY <1>1, <1>2, ListOps DEF R!AtService
<1> QED BY <1>1, <1>2, <1>3, AtServiceStep, NewListStep DEF list

LEMMA CloseServiceStep ==
  ASSUME LoopsInside, NEW s \in Addr, R!CloseService(s)
  PROVE  ServiceStep(s)
<1>1. /\ R!AtService("close", s) /\ R!DropList(s)
      /\ UNCHANGED kernel \/ \E d : kernel' = [kernel EXCEPT ![s] = d]
  BY DEF R!CloseService
<1> QED BY <1>1, AtServiceStep, DropListEffect DEF ServiceStep

LEMMA SkipStep ==
  ASSUME LoopsInside, NEW s \in Addr, R!ApplySkip(s) \/ R!RerouteSkip(s)
  PROVE  ServiceStep(s)
<1>1. CASE R!ApplySkip(s)
  BY <1>1, AtServiceStep, SameListStep DEF R!ApplySkip, R!ListAt, R!Unpending
<1>2. CASE R!RerouteSkip(s)
  <2>1. R!AtService("reroute", s) /\ UNCHANGED <<routes, kernel>>
    BY <1>2 DEF R!RerouteSkip
  <2>2. phase # "apply"
    BY <2>1 DEF R!AtService
  <2> QED BY <2>1, <2>2, AtServiceStep, SameListStep
<1> QED BY <1>1, <1>2

LEMMA ServiceStepInside ==
  ASSUME LoopsInside, NEW s, ServiceStep(s), stage' # "idle" => job' # "none"
  PROVE  LoopsInside'
<1> DEFINE old == routes[loop.gid].services
           new == routes'[loop.gid].services
<1>1. /\ DOMAIN routes' = DOMAIN routes /\ UNCHANGED <<job, phase, todo>>
      /\ loop.gid \in DOMAIN routes /\ loop.todo \subseteq DOMAIN old
      /\ loop.best \in Addr \cup {NoAddr}
      /\ phase \in {"apply", "reroute", "close"}
      /\ loop' = R!Loop(loop.gid, loop.best, loop.todo \ {s})
  BY DEF ServiceStep, LoopsInside
<1>2. DOMAIN old \ {s} \subseteq DOMAIN new /\ DOMAIN new \subseteq DOMAIN old
  BY DEF ServiceStep, LoopStep
<1> HIDE DEF old, new
<1>3. loop' # NoLoop =>
        loop'.gid = loop.gid /\ loop'.best = loop.best /\ loop'.todo = loop.todo \ {s}
  BY <1>1 DEF R!Loop
<1>4. loop' # NoLoop => /\ loop'.gid \in DOMAIN routes' /\ loop'.todo \subseteq DOMAIN new
                        /\ loop'.best \in Addr \cup {NoAddr}
  BY <1>1, <1>2, <1>3
<1>5. DOMAIN kernel' = Addr
  BY DEF ServiceStep
<1>6. \A g \in DOMAIN routes' :
        /\ routes'[g].peers = routes[g].peers
        /\ DOMAIN routes'[g].services \subseteq DOMAIN routes[g].services
  BY <1>1, <1>2 DEF ServiceStep, old, new
<1> QED BY <1>1, <1>3, <1>4, <1>5, <1>6 DEF LoopsInside, new

(***************************************************************************)
(* Groups: the steps that leave every list as it is, in the groups that     *)
(* stay.                                                                    *)
(***************************************************************************)
SameLists ==
  \A g \in DOMAIN routes' : g \in DOMAIN routes /\ \A s \in DOMAIN routes'[g].services :
    /\ s \in DOMAIN routes[g].services
    /\ routes'[g].services[s].disabled => routes[g].services[s].disabled
    /\ routes'[g].services[s].list = routes[g].services[s].list

LEMMA UnchangedLists == UNCHANGED routes => SameLists
  BY DEF SameLists

\* the peer list of one group is applied and its services are visited next
PeersStep(g, pl) ==
  /\ g \in todo /\ todo' = todo \ {g} /\ loop = NoLoop
  /\ routes' = [routes EXCEPT ![g] = [peers |-> R!ApplyPeerList(pl), services |-> routes[g].services]]
  /\ kernel' = R!ApplyPeerDevs(pl)
  /\ \E best \in DOMAIN R!ApplyPeerList(pl) \cup {NoAddr} :
        loop' = R!Loop(g, best, DOMAIN routes[g].services)
  /\ UNCHANGED <<job, phase, iter, solved, closed>>

LEMMA ApplyPeersStep ==
  ASSUME NEW g, R!ApplyPeers(g)
  PROVE  PeersStep(g, routes[g].peers) /\ phase = "apply"
  BY DEF R!ApplyPeers, PeersStep, R!WithPeers, R!BestPaths

LEMMA ClosePeersStep ==
  ASSUME NEW g, R!ClosePeers(g)
  PROVE  PeersStep(g, R!FlushPeers(routes[g].peers)) /\ phase = "close"
  BY DEF R!ClosePeers, PeersStep, R!WithPeers

LEMMA PeersStepInside ==
  ASSUME LoopsInside, NEW g, NEW pl, PeersStep(g, pl), stage' # "idle" => job' # "none",
         DOMAIN pl = DOMAIN routes[g].peers, phase \in {"apply", "close"}
  PROVE  /\ LoopsInside' /\ SameLists /\ g \in DOMAIN routes /\ DOMAIN routes' = DOMAIN routes
         /\ routes'[g].peers = R!ApplyPeerList(pl)
         /\ \A h \in DOMAIN routes : h # g => routes'[h] = routes[h]
         /\ loop' # NoLoop => loop'.gid = g /\ loop'.todo = DOMAIN routes[g].services
         /\ loop' = NoLoop => DOMAIN routes[g].services = {}
<1> DEFINE group == [peers |-> R!ApplyPeerList(pl), services |-> routes[g].services]
<1>1. /\ g \in DOMAIN routes /\ todo' \subseteq DOMAIN routes
      /\ routes' = [routes EXCEPT ![g] = group]
      /\ UNCHANGED <<job, phase>> /\ kernel' = R!ApplyPeerDevs(pl)
  BY DEF PeersStep, LoopsInside
<1>0. DOMAIN R!ApplyPeerList(pl) \subseteq DOMAIN routes[g].peers
  BY DEF R!ApplyPeerList
<1>2. group.peers = R!ApplyPeerList(pl) /\ group.services = routes[g].services
  OBVIOUS
<1> HIDE DEF group
<1>3. /\ DOMAIN routes' = DOMAIN routes /\ routes'[g] = group
      /\ \A h \in DOMAIN routes : h # g => routes'[h] = routes[h]
  BY <1>1
<1>4. /\ loop' # NoLoop => /\ loop'.gid = g /\ loop'.todo = DOMAIN routes[g].services
                           /\ loop'.best \in Addr \cup {NoAddr}
      /\ loop' = NoLoop => DOMAIN routes[g].services = {}
  <2>1. PICK best \in Addr \cup {NoAddr} : loop' = R!Loop(g, best, DOMAIN routes[g].services)
    BY <1>1, <1>0 DEF PeersStep, LoopsInside
  <2>2. DOMAIN routes[g].services \in SUBSET Addr /\ g \in Gid
    BY <1>1 DEF LoopsInside
  <2> QED BY <2>1, <2>2, NullAssumption DEF R!Loop
<1>5. DOMAIN kernel' = Addr
  BY <1>1 DEF R!ApplyPeerDevs
<1>6. LoopsInside'
  BY <1>0, <1>1, <1>2, <1>3, <1>4, <1>5 DEF LoopsInside
<1>7. SameLists
  BY <1>2, <1>3 DEF SameLists
<1> QED BY <1>1, <1>2, <1>3, <1>4, <1>6, <1>7

LEMMA EndPassStep ==
  ASSUME LoopsInside, stage' # "idle" => job' # "none", R!EndPass
  PROVE  /\ LoopsInside' /\ SameLists
         /\ \A g \in DOMAIN routes' : routes'[g] = routes[g]
         /\ \A g \in DOMAIN routes : DOMAIN routes[g].peers # {} => g \in DOMAIN routes'
<1> DEFINE live == {g \in DOMAIN routes : DOMAIN routes[g].peers # {}}
<1>1. routes' = [g \in live |-> routes[g]] /\ todo' = live /\ UNCHANGED <<kernel, job>>
      /\ loop = NoLoop /\ loop' = NoLoop
  BY DEF R!EndPass, R!Restrict
<1> QED BY <1>1 DEF LoopsInside, SameLists

LEMMA ResolveStep ==
  ASSUME LoopsInside, stage' # "idle" => job' # "none", NEW g, R!ResolveIpConflict(g)
  PROVE  /\ LoopsInside' /\ SameLists /\ DOMAIN routes' = DOMAIN routes
         /\ \A h \in DOMAIN routes :
              /\ DOMAIN routes'[h].services = DOMAIN routes[h].services
              /\ DOMAIN routes'[h].peers = DOMAIN routes[h].peers
              /\ \A a \in DOMAIN routes[h].peers :
                   "Disabled" \notin routes[h].peers[a].flags =>
                     routes'[h].peers[a] = routes[h].peers[a]
<1>1. /\ g \in todo /\ todo' = todo \ {g} /\ phase = "resolve"
      /\ UNCHANGED <<kernel, job, phase, loop>>
  BY DEF R!ResolveIpConflict
<1> DEFINE F == {a \in DOMAIN routes[g].peers :
                   "Disabled" \in routes[g].peers[a].flags /\ ~R!HasIpConflict(a, g)}
           S == {s \in DOMAIN routes[g].services :
                   routes[g].services[s].disabled /\ ~R!HasIpConflict(s, g)}
           pl == [a \in DOMAIN routes[g].peers |->
                    IF a \in F THEN R!WithFlags(routes[g].peers[a],
                                                routes[g].peers[a].flags \ {"Disabled"})
                               ELSE routes[g].peers[a]]
           svc == [s \in DOMAIN routes[g].services |->
                     [disabled |-> routes[g].services[s].disabled /\ s \notin S,
                      list     |-> routes[g].services[s].list]]
<1>2. routes' = [routes EXCEPT ![g] = [peers |-> pl, services |-> svc]]
  BY DEF R!ResolveIpConflict
<1>3. /\ DOMAIN pl = DOMAIN routes[g].peers /\ DOMAIN svc = DOMAIN routes[g].services
      /\ \A a \in DOMAIN routes[g].peers :
           "Disabled" \notin routes[g].peers[a].flags => pl[a] = routes[g].peers[a]
      /\ \A s \in DOMAIN routes[g].services :
           /\ svc[s].disabled => routes[g].services[s].disabled
           /\ svc[s].list = routes[g].services[s].list
  OBVIOUS
<1> HIDE DEF pl, svc
<1>4. g \in DOMAIN routes /\ loop = NoLoop
  BY <1>1 DEF LoopsInside
<1>5. /\ DOMAIN routes' = DOMAIN routes
      /\ routes'[g].peers = pl /\ routes'[g].services = svc
      /\ \A h \in DOMAIN routes : h # g => routes'[h] = routes[h]
  BY <1>2, <1>4
<1> QED BY <1>1, <1>3, <1>4, <1>5 DEF LoopsInside, SameLists

LEMMA RouterTurn ==
  ASSUME LoopsInside, stage' # "idle" => job' # "none",
         R!Apply \/ R!PingProcess \/ R!EndReroute \/ R!Close \/ R!EndClose
         \/ \E g : R!RerouteGroup(g)
  PROVE  LoopsInside' /\ UNCHANGED <<routes, kernel, job>>
<1>1. UNCHANGED <<routes, kernel, job>>
  BY DEF R!Apply, R!PingProcess, R!EndReroute, R!Close, R!EndClose, R!RerouteGroup
<1>2. CASE R!Apply \/ R!PingProcess \/ R!EndReroute \/ R!Close \/ R!EndClose
  BY <1>1, <1>2 DEF LoopsInside, R!Apply, R!PingProcess, R!EndReroute, R!Close, R!EndClose, R!Idle
<1>3. ASSUME NEW g, R!RerouteGroup(g)
      PROVE  LoopsInside'
  <2>1. g \in todo /\ todo' = todo \ {g} /\ phase = "reroute" /\ phase' = "reroute"
    BY <1>3 DEF R!RerouteGroup
  <2>2. PICK best \in DOMAIN routes[g].peers \cup {NoAddr} :
          loop' = R!Loop(g, best, DOMAIN routes[g].services)
    BY <1>3 DEF R!RerouteGroup, R!BestPaths
  <2>3. loop' # NoLoop => /\ loop'.gid = g /\ loop'.todo = DOMAIN routes[g].services
                          /\ loop'.best = best
    BY <2>2 DEF R!Loop
  <2>4. best \in Addr \cup {NoAddr} /\ g \in DOMAIN routes
    BY <2>1, <2>2 DEF LoopsInside
  <2> QED BY <1>1, <2>1, <2>3, <2>4 DEF LoopsInside
<1> QED BY <1>1, <1>2, <1>3

LEMMA EndResolveStep ==
  ASSUME LoopsInside, stage' # "idle" => job' # "none", R!EndResolve
  PROVE  LoopsInside' /\ UNCHANGED <<routes, kernel>>
  BY DEF LoopsInside, R!EndResolve

(***************************************************************************)
(* The controller's messages, as the router takes them.                     *)
(***************************************************************************)
Offers(g, s) == \E h \in DOMAIN routes \ {g} : s \in DOMAIN routes[h].services

\* a peer never counts as a conflict (see HasPeer), a service may
LEMMA Conflicts ==
  ASSUME NEW g, NEW a, R!HasIpConflict(a, g)
  PROVE  Offers(g, a)
  BY DEF R!HasIpConflict, R!HasPeer, R!HasAddress, Offers

LEMMA RouteAddEffect ==
  ASSUME LoopsInside, NEW q \in Peer, R!RouteAdd(Path(q))
  PROVE  LET old == R!FindOrCreate(q.gid)
             new == routes'[q.gid]
         IN  /\ phase = "idle" /\ job # "none"
             /\ UNCHANGED <<kernel, job, phase, iter, todo, loop, solved, closed>>
             /\ DOMAIN routes' = DOMAIN routes \cup {q.gid}
             /\ \A g \in DOMAIN routes : g # q.gid => routes'[g] = routes[g]
             /\ DOMAIN new.peers = DOMAIN old.peers \cup {q.gw}
             /\ \A a \in DOMAIN old.peers : a # q.gw => new.peers[a] = old.peers[a]
             /\ new.peers[q.gw].ifname = q.ifname
             /\ "AddPending" \in new.peers[q.gw].flags
             /\ "DelPending" \notin new.peers[q.gw].flags
             /\ "Disabled" \in new.peers[q.gw].flags =>
                  \/ Offers(q.gid, q.gw)
                  \/ q.gw \in DOMAIN old.peers /\ "Disabled" \in old.peers[q.gw].flags
             /\ DOMAIN new.services = DOMAIN old.services \cup q.svc
             /\ \A s \in DOMAIN old.services \ q.svc : new.services[s] = old.services[s]
             /\ \A s \in q.svc :
                  /\ new.services[s].disabled =>
                       IF s \in DOMAIN old.services THEN old.services[s].disabled
                                                    ELSE Offers(q.gid, s)
                  /\ q.gw \in DOMAIN new.services[s].list
                  /\ \A gw \in DOMAIN new.services[s].list :
                       \/ /\ s \in DOMAIN old.services /\ gw \in DOMAIN old.services[s].list
                          /\ new.services[s].list[gw].ifname = old.services[s].list[gw].ifname
                          /\ gw # q.gw => new.services[s].list[gw] = old.services[s].list[gw]
                       \/ gw = q.gw /\ new.services[s].list[gw].ifname = q.ifname
<1> DEFINE old == R!FindOrCreate(q.gid)
           C == {a \in Addr : R!HasIpConflict(a, q.gid)}
           pl == R!AddPeer(old.peers, Path(q), q.gw \in C)
           svc == R!ServicesAdd(old.services, Path(q), q.svc, C)
<1>1. /\ Path(q).gid = q.gid /\ Path(q).gw = q.gw /\ Path(q).ifname = q.ifname
      /\ Path(q).svc = q.svc /\ q.svc \ {} = q.svc
  BY DEF Path
<1>2. /\ phase = "idle" /\ job # "none"
      /\ UNCHANGED <<kernel, job, phase, iter, todo, loop, solved, closed>>
      /\ routes' = Put(routes, q.gid, [peers |-> pl, services |-> svc])
  BY <1>1, RouterMaps DEF R!RouteAdd, R!Idle
<1>3. /\ DOMAIN pl = DOMAIN old.peers \cup {q.gw}
      /\ \A a \in DOMAIN old.peers : a # q.gw => pl[a] = old.peers[a]
      /\ pl[q.gw].ifname = q.ifname
      /\ "AddPending" \in pl[q.gw].flags
      /\ "DelPending" \notin pl[q.gw].flags
      /\ "Disabled" \in pl[q.gw].flags =>
           \/ q.gw \in C
           \/ q.gw \in DOMAIN old.peers /\ "Disabled" \in old.peers[q.gw].flags
  <2> DEFINE F == IF q.gw \in DOMAIN old.peers THEN old.peers[q.gw].flags ELSE {}
             N == ((F \cup {"AddPending"}) \ {"DelPending"})
                  \cup (IF q.gw \in C THEN {"Disabled"} ELSE {})
  <2>1. pl = Put(old.peers, q.gw, [ifname |-> q.ifname, flags |-> N])
    BY <1>1, RouterMaps DEF R!AddPeer
  <2>2. /\ "AddPending" \in N /\ "DelPending" \notin N
        /\ "Disabled" \in N => q.gw \in C \/ "Disabled" \in F
    OBVIOUS
  <2> HIDE DEF N, pl, C, old
  <2>3. /\ DOMAIN pl = DOMAIN old.peers \cup {q.gw}
        /\ \A a \in DOMAIN old.peers : a # q.gw => pl[a] = old.peers[a]
        /\ pl[q.gw] = [ifname |-> q.ifname, flags |-> N]
    BY <2>1 DEF Put
  <2> QED BY <2>2, <2>3
<1>4. /\ DOMAIN svc = DOMAIN old.services \cup q.svc
      /\ \A s \in DOMAIN old.services \ q.svc : svc[s] = old.services[s]
  BY DEF R!ServicesAdd
<1>5. ASSUME NEW s \in q.svc
      PROVE  /\ svc[s].disabled =>
                  IF s \in DOMAIN old.services THEN old.services[s].disabled ELSE s \in C
             /\ q.gw \in DOMAIN svc[s].list
             /\ \A gw \in DOMAIN svc[s].list :
                  \/ /\ s \in DOMAIN old.services /\ gw \in DOMAIN old.services[s].list
                     /\ svc[s].list[gw].ifname = old.services[s].list[gw].ifname
                     /\ gw # q.gw => svc[s].list[gw] = old.services[s].list[gw]
                  \/ gw = q.gw /\ svc[s].list[gw].ifname = q.ifname
  <2> DEFINE rl == IF s \in DOMAIN old.services THEN old.services[s] ELSE R!NewRouteList(s \in C)
             e == IF q.gw \in DOMAIN rl.list
                  THEN R!WithFlags(rl.list[q.gw], rl.list[q.gw].flags \ {"PendingDel"})
                  ELSE [ifname |-> q.ifname, flags |-> {"PendingAdd"}]
  <2>1. svc[s] = R!ListAdd(rl, Path(q))
    BY DEF R!ServicesAdd
  <2>2. R!ListAdd(rl, Path(q)) = [disabled |-> rl.disabled, list |-> Put(rl.list, q.gw, e)]
    BY <1>1, RouterMaps DEF R!ListAdd
  <2>3. s \notin DOMAIN old.services => rl.disabled = (s \in C) /\ DOMAIN rl.list = {}
    BY RouterMaps, NoDevice DEF R!NewRouteList
  <2>4. s \in DOMAIN old.services => rl = old.services[s]
    OBVIOUS
  <2>5. e.ifname = IF q.gw \in DOMAIN rl.list THEN rl.list[q.gw].ifname ELSE q.ifname
    BY DEF R!WithFlags
  <2> HIDE DEF rl, e, svc, old, C
  <2>6. /\ svc[s].disabled = rl.disabled
        /\ DOMAIN svc[s].list = DOMAIN rl.list \cup {q.gw}
        /\ svc[s].list[q.gw] = e
        /\ \A gw \in DOMAIN rl.list : gw # q.gw => svc[s].list[gw] = rl.list[gw]
    BY <2>1, <2>2 DEF Put
  <2> QED BY <2>3, <2>4, <2>5, <2>6
<1>6. \A a \in C : Offers(q.gid, a)
  BY Conflicts
<1> HIDE DEF pl, svc, C
<1>7. /\ DOMAIN routes' = DOMAIN routes \cup {q.gid}
      /\ \A g \in DOMAIN routes : g # q.gid => routes'[g] = routes[g]
      /\ routes'[q.gid].peers = pl /\ routes'[q.gid].services = svc
  BY <1>2 DEF Put
<1> HIDE DEF old
<1>8. /\ DOMAIN routes'[q.gid].peers = DOMAIN old.peers \cup {q.gw}
      /\ \A a \in DOMAIN old.peers : a # q.gw => routes'[q.gid].peers[a] = old.peers[a]
      /\ routes'[q.gid].peers[q.gw].ifname = q.ifname
      /\ "AddPending" \in routes'[q.gid].peers[q.gw].flags
      /\ "DelPending" \notin routes'[q.gid].peers[q.gw].flags
      /\ "Disabled" \in routes'[q.gid].peers[q.gw].flags =>
           \/ Offers(q.gid, q.gw)
           \/ q.gw \in DOMAIN old.peers /\ "Disabled" \in old.peers[q.gw].flags
  BY <1>3, <1>6, <1>7
<1>9. /\ DOMAIN routes'[q.gid].services = DOMAIN old.services \cup q.svc
      /\ \A s \in DOMAIN old.services \ q.svc : routes'[q.gid].services[s] = old.services[s]
  BY <1>4, <1>7
<1>10. \A s \in q.svc :
         /\ routes'[q.gid].services[s].disabled =>
              IF s \in DOMAIN old.services THEN old.services[s].disabled
                                           ELSE Offers(q.gid, s)
         /\ q.gw \in DOMAIN routes'[q.gid].services[s].list
         /\ \A gw \in DOMAIN routes'[q.gid].services[s].list :
              LET new == routes'[q.gid].services[s].list[gw]
              IN  \/ /\ s \in DOMAIN old.services /\ gw \in DOMAIN old.services[s].list
                     /\ new.ifname = old.services[s].list[gw].ifname
                     /\ gw # q.gw => new = old.services[s].list[gw]
                  \/ gw = q.gw /\ new.ifname = q.ifname
  BY <1>5, <1>6, <1>7
<1> QED BY <1>2, <1>7, <1>8, <1>9, <1>10 DEF old

LEMMA RouteDelEffect ==
  ASSUME LoopsInside, NEW g, NEW gw, NEW S,
         R!RouteDel([gid |-> g, gw |-> gw, svc |-> S])
  PROVE  LET old == routes[g]
             new == routes'[g]
         IN  /\ phase = "idle" /\ g \in DOMAIN routes
             /\ UNCHANGED <<kernel, job, phase, iter, todo, loop, solved, closed>>
             /\ DOMAIN routes' = DOMAIN routes
             /\ \A h \in DOMAIN routes : h # g => routes'[h] = routes[h]
             /\ DOMAIN new.peers = DOMAIN old.peers
             /\ \A a \in DOMAIN old.peers : a # gw => new.peers[a] = old.peers[a]
             /\ gw \in DOMAIN old.peers =>
                  /\ new.peers[gw].ifname = old.peers[gw].ifname
                  /\ new.peers[gw].flags = old.peers[gw].flags \cup {"DelPending"}
             /\ DOMAIN new.services = DOMAIN old.services
             /\ \A s \in DOMAIN old.services :
                  /\ s \notin S => new.services[s] = old.services[s]
                  /\ new.services[s].disabled = old.services[s].disabled
                  /\ DOMAIN new.services[s].list = DOMAIN old.services[s].list
                  /\ \A h \in DOMAIN old.services[s].list :
                       /\ new.services[s].list[h].ifname = old.services[s].list[h].ifname
                       /\ "PendingDel" \in old.services[s].list[h].flags =>
                            "PendingDel" \in new.services[s].list[h].flags
                       /\ s \in S /\ h = gw => "PendingDel" \in new.services[s].list[h].flags
<1> DEFINE r == [gid |-> g, gw |-> gw, svc |-> S]
           old == routes[g]
           pl == R!DelPeer(old.peers, gw)
           svc == R!ServicesDel(old.services, gw, S)
<1>1. /\ phase = "idle" /\ g \in DOMAIN routes
      /\ UNCHANGED <<kernel, job, phase, iter, todo, loop, solved, closed>>
      /\ routes' = [routes EXCEPT ![g] = [peers |-> pl, services |-> svc]]
  BY DEF R!RouteDel, R!Idle
<1>2. /\ DOMAIN pl = DOMAIN old.peers
      /\ \A a \in DOMAIN old.peers : a # gw => pl[a] = old.peers[a]
      /\ gw \in DOMAIN old.peers =>
           /\ pl[gw].ifname = old.peers[gw].ifname
           /\ pl[gw].flags = old.peers[gw].flags \cup {"DelPending"}
  BY DEF R!DelPeer, R!SetFlag, R!WithFlags
<1>3. DOMAIN svc = DOMAIN old.services
  BY DEF R!ServicesDel
<1>4. ASSUME NEW s \in DOMAIN old.services
      PROVE  /\ s \notin S => svc[s] = old.services[s]
             /\ svc[s].disabled = old.services[s].disabled
             /\ DOMAIN svc[s].list = DOMAIN old.services[s].list
             /\ \A h \in DOMAIN old.services[s].list :
                  /\ svc[s].list[h].ifname = old.services[s].list[h].ifname
                  /\ "PendingDel" \in old.services[s].list[h].flags =>
                       "PendingDel" \in svc[s].list[h].flags
                  /\ s \in S /\ h = gw => "PendingDel" \in svc[s].list[h].flags
  <2>1. CASE s \notin S
    BY <2>1 DEF R!ServicesDel
  <2>2. CASE s \in S
    <3>1. svc[s] = R!MarkDel(old.services[s], {gw})
      BY <2>2 DEF R!ServicesDel
    <3> HIDE DEF svc, old
    <3> QED BY <2>2, <3>1 DEF R!MarkDel, R!WithFlags
  <2> QED BY <2>1, <2>2
<1> HIDE DEF pl, svc
<1>5. /\ DOMAIN routes' = DOMAIN routes
      /\ \A h \in DOMAIN routes : h # g => routes'[h] = routes[h]
      /\ routes'[g].peers = pl /\ routes'[g].services = svc
  BY <1>1
<1> QED BY <1>1, <1>2, <1>3, <1>4, <1>5

LEMMA FlushEffect ==
  ASSUME R!ConfigInfo
  PROVE  /\ phase = "idle" /\ job' = "config"
         /\ UNCHANGED <<kernel, phase, iter, todo, loop, solved, closed>>
         /\ DOMAIN routes' = DOMAIN routes
         /\ \A g \in DOMAIN routes :
              /\ DOMAIN routes'[g].peers = DOMAIN routes[g].peers
              /\ \A a \in DOMAIN routes[g].peers :
                   /\ routes'[g].peers[a].ifname = routes[g].peers[a].ifname
                   /\ routes'[g].peers[a].flags = routes[g].peers[a].flags \cup {"DelPending"}
              /\ \A s \in DOMAIN routes'[g].services :
                   /\ s \in DOMAIN routes[g].services
                   /\ ~routes'[g].services[s].disabled
                   /\ DOMAIN routes'[g].services[s].list = DOMAIN routes[g].services[s].list
                   /\ \A h \in DOMAIN routes[g].services[s].list :
                        /\ routes'[g].services[s].list[h].ifname =
                             routes[g].services[s].list[h].ifname
                        /\ "PendingDel" \in routes'[g].services[s].list[h].flags
<1>1. /\ phase = "idle" /\ job' = "config"
      /\ UNCHANGED <<kernel, phase, iter, todo, loop, solved, closed>>
      /\ DOMAIN routes' = DOMAIN routes
      /\ \A g \in DOMAIN routes :
           /\ routes'[g].peers = R!FlushPeers(routes[g].peers)
           /\ routes'[g].services = R!FlushServices(routes[g].services)
  BY DEF R!ConfigInfo, R!Settled, R!Idle
<1>2. \A pl : /\ DOMAIN R!FlushPeers(pl) = DOMAIN pl
              /\ \A a \in DOMAIN pl :
                   /\ R!FlushPeers(pl)[a].ifname = pl[a].ifname
                   /\ R!FlushPeers(pl)[a].flags = pl[a].flags \cup {"DelPending"}
  BY DEF R!FlushPeers, R!SetFlag, R!WithFlags
<1>3. ASSUME NEW svc, NEW s \in DOMAIN R!FlushServices(svc)
      PROVE  LET new == R!FlushServices(svc)[s]
             IN  /\ s \in DOMAIN svc /\ ~new.disabled
                 /\ DOMAIN new.list = DOMAIN svc[s].list
                 /\ \A h \in DOMAIN svc[s].list :
                      /\ new.list[h].ifname = svc[s].list[h].ifname
                      /\ "PendingDel" \in new.list[h].flags
  <2>1. /\ s \in DOMAIN svc /\ ~svc[s].disabled
        /\ R!FlushServices(svc)[s] = R!MarkDel(svc[s], DOMAIN svc[s].list)
    BY DEF R!FlushServices
  <2> QED BY <2>1 DEF R!MarkDel, R!WithFlags
<1> QED BY <1>1, <1>2, <1>3

(***************************************************************************)
(* The loops stay inside, whatever happens around the router.               *)
(***************************************************************************)
LEMMA InitInside == Init => LoopsInside
  BY NoDevice DEF Init, LoopsInside

\* a step that leaves the router's cache alone
LEMMA KeptInside ==
  ASSUME LoopsInside, UNCHANGED <<routes, phase, todo, loop>>, DOMAIN kernel' = Addr,
         stage' # "idle" => job' # "none"
  PROVE  LoopsInside'
  BY DEF LoopsInside

\* the steps of Apply; ping rounds; Close
LEMMA ApplyRoutesInside ==
  ASSUME LoopsInside, ApplyRoutes
  PROVE  LoopsInside'
<1>1. stage' # "idle" => job' # "none"
  BY DEF ApplyRoutes, LoopsInside
<1>2. CASE R!Apply
  BY <1>1, <1>2, RouterTurn
<1>3. CASE R!EndPass
  BY <1>1, <1>3, EndPassStep
<1>4. CASE R!EndResolve
  BY <1>1, <1>4, EndResolveStep
<1>5. ASSUME NEW g \in Gid, R!ApplyPeers(g)
      PROVE  LoopsInside'
  BY <1>1, <1>5, ApplyPeersStep, PeersStepInside
<1>6. ASSUME NEW g \in Gid, R!ResolveIpConflict(g)
      PROVE  LoopsInside'
  BY <1>1, <1>6, ResolveStep
<1>7. ASSUME NEW s \in Addr,
             R!ApplySkip(s) \/ R!SetRoute(s) \/ R!ClearRoute(s) \/ R!MergeRoutes(s)
      PROVE  LoopsInside'
  BY <1>1, <1>7, SkipStep, SetRouteStep, ClearRouteStep, MergeRoutesStep, ServiceStepInside
<1> QED BY <1>2, <1>3, <1>4, <1>5, <1>6, <1>7 DEF ApplyRoutes

LEMMA PingRoundInside ==
  ASSUME LoopsInside, PingRound
  PROVE  LoopsInside'
<1>1. stage' # "idle" => job' # "none"
  BY PingRoundKeeps DEF LoopsInside
<1>2. CASE R!PingProcess \/ R!EndReroute
  BY <1>1, <1>2, RouterTurn
<1>3. ASSUME NEW g \in Gid, R!RerouteGroup(g)
      PROVE  LoopsInside'
  BY <1>1, <1>3, RouterTurn
<1>4. ASSUME NEW s \in Addr, R!RerouteService(s) \/ R!RerouteSkip(s)
      PROVE  LoopsInside'
  BY <1>1, <1>4, SkipStep, RerouteServiceStep, ServiceStepInside
<1> QED BY <1>2, <1>3, <1>4 DEF PingRound

LEMMA FlushPeersDomain ==
  ASSUME NEW pl
  PROVE  DOMAIN R!FlushPeers(pl) = DOMAIN pl
  BY DEF R!FlushPeers, R!SetFlag

LEMMA CloseRouterInside ==
  ASSUME LoopsInside, CloseRouter
  PROVE  LoopsInside'
<1>1. UNCHANGED stage /\ UNCHANGED job
  BY DEF CloseRouter, R!Close, R!EndClose, R!ClosePeers, R!CloseService, R!AtService
<1>2. stage' # "idle" => job' # "none"
  BY <1>1 DEF LoopsInside
<1>3. CASE R!Close \/ R!EndClose
  BY <1>2, <1>3, RouterTurn
<1>4. ASSUME NEW g \in Gid, R!ClosePeers(g)
      PROVE  LoopsInside'
  BY <1>2, <1>4, ClosePeersStep, PeersStepInside, FlushPeersDomain
<1>5. ASSUME NEW s \in Addr, R!CloseService(s)
      PROVE  LoopsInside'
  BY <1>2, <1>5, CloseServiceStep, ServiceStepInside
<1> QED BY <1>3, <1>4, <1>5 DEF CloseRouter

LEMMA FindOrCreate ==
  ASSUME NEW g
  PROVE  LET group == R!FindOrCreate(g)
         IN  IF g \in DOMAIN routes THEN group = routes[g]
             ELSE DOMAIN group.peers = {} /\ DOMAIN group.services = {}
  BY RouterMaps, NoDevice DEF R!FindOrCreate, R!EmptyGroup

LEMMA AddPeerInside ==
  ASSUME LoopsInside, NEW q \in Peer, AddPeer(q)
  PROVE  LoopsInside'
<1> DEFINE old == R!FindOrCreate(q.gid)
<1>1. R!RouteAdd(Path(q)) /\ UNCHANGED stage
  BY DEF AddPeer
<1>2. q.gid \in Gid /\ q.gw \in Addr /\ q.svc \subseteq Addr
  BY PeerAssumption
<1>3. /\ phase = "idle" /\ UNCHANGED <<kernel, job, phase, todo, loop>>
      /\ DOMAIN routes' = DOMAIN routes \cup {q.gid}
      /\ \A g \in DOMAIN routes : g # q.gid => routes'[g] = routes[g]
      /\ DOMAIN routes'[q.gid].peers = DOMAIN old.peers \cup {q.gw}
      /\ DOMAIN routes'[q.gid].services = DOMAIN old.services \cup q.svc
  BY <1>1, RouteAddEffect
<1>4. DOMAIN old.peers \cup DOMAIN old.services \subseteq Addr
  BY FindOrCreate DEF LoopsInside
<1> HIDE DEF old
<1>5. loop = NoLoop
  BY <1>3 DEF LoopsInside
<1> QED BY <1>1, <1>2, <1>3, <1>4, <1>5 DEF LoopsInside

LEMMA RemovePeerRoutes ==
  ASSUME NEW q \in Peer, RemovePeer(q)
  PROVE  \/ /\ makeKey(q) \in DOMAIN peers
            /\ R!RouteDel([gid |-> peers[makeKey(q)].gid, gw |-> q.gw, svc |-> q.svc])
         \/ /\ makeKey(q) \in DOMAIN peers => peers[makeKey(q)].gid \notin DOMAIN routes
            /\ UNCHANGED rvars
  BY DEF RemovePeer

LEMMA RemovePeerInside ==
  ASSUME LoopsInside, NEW q \in Peer, RemovePeer(q)
  PROVE  LoopsInside'
<1>1. UNCHANGED stage
  BY DEF RemovePeer
<1>2. CASE UNCHANGED rvars
  BY <1>1, <1>2 DEF LoopsInside, rvars
<1>3. ASSUME NEW g, R!RouteDel([gid |-> g, gw |-> q.gw, svc |-> q.svc])
      PROVE  LoopsInside'
  <2>1. /\ phase = "idle" /\ UNCHANGED <<kernel, job, phase, todo, loop>>
        /\ DOMAIN routes' = DOMAIN routes
        /\ \A h \in DOMAIN routes :
             /\ DOMAIN routes'[h].peers = DOMAIN routes[h].peers
             /\ DOMAIN routes'[h].services = DOMAIN routes[h].services
    BY <1>3, RouteDelEffect
  <2> QED BY <1>1, <2>1 DEF LoopsInside
<1> QED BY <1>2, <1>3, RemovePeerRoutes

LEMMA StepInside == LoopsInside /\ [Next]_vars => LoopsInside'
<1> SUFFICES ASSUME LoopsInside, [Next]_vars
             PROVE  LoopsInside'
  OBVIOUS
<1>1. CASE ConfigInfo
  <2>1. /\ R!ConfigInfo /\ UNCHANGED <<kernel, phase, todo, loop>> /\ phase = "idle"
        /\ job' = "config" /\ DOMAIN routes' = DOMAIN routes
        /\ \A g \in DOMAIN routes :
             /\ DOMAIN routes'[g].peers = DOMAIN routes[g].peers
             /\ DOMAIN routes'[g].services \subseteq DOMAIN routes[g].services
    BY <1>1, FlushEffect DEF ConfigInfo
  <2> QED BY <2>1 DEF LoopsInside
<1>2. CASE WgConf
  BY <1>2, KeptInside DEF WgConf, R!WgConf, LoopsInside
<1>3. ASSUME NEW i \in Iface, CreateInterface(i)
      PROVE  LoopsInside'
  BY <1>3, KeptInside DEF CreateInterface, rvars, mvars, LoopsInside
<1>4. ASSUME NEW p \in Peer, AddPeer(p)
      PROVE  LoopsInside'
  BY <1>4, AddPeerInside
<1>5. ASSUME NEW p \in Peer, RemovePeer(p)
      PROVE  LoopsInside'
  BY <1>5, RemovePeerInside
<1>6. CASE ApplyWireguard \/ ApplyBlocks \/ ApplyLeftovers
  BY <1>6, KeptInside DEF ApplyWireguard, ApplyBlocks, ApplyLeftovers, RouterCacheStays,
     KernelDropsRoutes, DeleteRoutes, LoopsInside
<1>7. CASE ApplyHosts
  BY <1>7, KeptInside DEF ApplyHosts, rvars, LoopsInside
<1>8. CASE ApplyRoutes
  BY <1>8, ApplyRoutesInside
<1>9. CASE PingRound
  BY <1>9, PingRoundInside
<1>10. CASE CloseHosts
  BY <1>10, KeptInside DEF CloseHosts, rvars, LoopsInside
<1>11. CASE CloseRouter
  BY <1>11, CloseRouterInside
<1>12. CASE CloseWireguard
  BY <1>12, KeptInside DEF CloseWireguard, RouterCacheStays, KernelDropsRoutes, LoopsInside
<1>13. CASE Restart
  BY <1>13, NoDevice DEF Restart, LoopsInside
<1>14. CASE UNCHANGED vars
  BY <1>14, KeptInside DEF vars, rvars, mvars, LoopsInside
<1> QED BY <1>1, <1>2, <1>3, <1>4, <1>5, <1>6, <1>7, <1>8, <1>9, <1>10, <1>11, <1>12, <1>13, <1>14
        DEF Next, Message, Apply, Close

(***************************************************************************)
(* Services, one step at a time.                                            *)
(***************************************************************************)
LEMMA OwnServicePeers ==
  ASSUME NEW s \in OwnService, NEW p \in Peer, s \in p.svc
  PROVE  /\ Exclusive(p, s)
         /\ \A q \in Peer :
              /\ makeKey(q) = makeKey(p) => s \in q.svc /\ q.gid = p.gid /\ q.gw = p.gw
              /\ s \in q.svc => q.gid = p.gid
              /\ s \in q.svc /\ q.gw = p.gw => makeKey(q) = makeKey(p)
<1>1. \A q \in Peer :
        /\ makeKey(q) = makeKey(p) => s \in q.svc /\ q.gw = p.gw
        /\ s \in q.svc => q.gid = p.gid
        /\ s \in q.svc /\ q.gw = p.gw => makeKey(q) = makeKey(p)
        /\ s \in AllowedIPs(q) /\ q.ifname = p.ifname => makeKey(q) = makeKey(p)
  BY DEF OwnService
<1>2. Exclusive(p, s)
  BY <1>1, SameKey DEF Exclusive, AllowedIPs
<1> QED BY <1>1, <1>2

\* the lists after a step of the router
LaterServices ==
  \A g \in DOMAIN routes' : g \in DOMAIN routes /\ \A s \in DOMAIN routes'[g].services :
    LET old == routes[g].services[s]
        new == routes'[g].services[s]
    IN  /\ s \in DOMAIN routes[g].services
        /\ new.disabled => old.disabled
        /\ Later(old.list, new.list)
        /\ ServiceVisited(g, s)' => \/ ServiceVisited(g, s)
                                    \/ new.disabled
                                    \/ R!Having(new.list, "PendingDel") = {}

LEMMA LaterOwned ==
  ASSUME ServicesOwned, LaterServices, \A p \in Peer : Wanted(p) => Wanted(p)',
         closing' = "no" => closing = "no"
  PROVE  ServicesOwned'
<1> SUFFICES ASSUME closing' = "no", NEW g \in DOMAIN routes',
                    NEW s \in DOMAIN routes'[g].services, s \in OwnService
             PROVE  LET rl == routes'[g].services[s]
                    IN  /\ ~rl.disabled
                        /\ \E p \in Peer : p.gid = g /\ s \in p.svc
                        /\ \A gw \in DOMAIN rl.list :
                             \E p \in Peer :
                               /\ p.gid = g /\ p.gw = gw /\ s \in p.svc
                               /\ rl.list[gw].ifname = p.ifname
                               /\ "PendingDel" \notin rl.list[gw].flags => Wanted(p)'
                        /\ ServiceVisited(g, s)' => R!Having(rl.list, "PendingDel") = {}
  BY DEF ServicesOwned, ListOwned
<1> DEFINE old == routes[g].services[s]
           new == routes'[g].services[s]
<1>1. /\ g \in DOMAIN routes /\ s \in DOMAIN routes[g].services
      /\ new.disabled => old.disabled
      /\ Later(old.list, new.list)
      /\ ServiceVisited(g, s)' => \/ ServiceVisited(g, s)
                                  \/ new.disabled
                                  \/ R!Having(new.list, "PendingDel") = {}
  BY DEF LaterServices
<1>2. /\ ~old.disabled
      /\ \E p \in Peer : p.gid = g /\ s \in p.svc
      /\ ListOwned(g, s, old.list)
      /\ ServiceVisited(g, s) => R!Having(old.list, "PendingDel") = {}
  BY <1>1 DEF ServicesOwned
<1> HIDE DEF old, new
<1>3. ASSUME NEW gw \in DOMAIN new.list
      PROVE  \E p \in Peer :
               /\ p.gid = g /\ p.gw = gw /\ s \in p.svc
               /\ new.list[gw].ifname = p.ifname
               /\ "PendingDel" \notin new.list[gw].flags => Wanted(p)'
  <2>1. PICK p \in Peer : /\ p.gid = g /\ p.gw = gw /\ s \in p.svc
                          /\ old.list[gw].ifname = p.ifname
                          /\ "PendingDel" \notin old.list[gw].flags => Wanted(p)
    BY <1>1, <1>2 DEF Later, ListOwned
  <2> QED BY <1>1, <2>1 DEF Later
<1>4. ServiceVisited(g, s)' => R!Having(new.list, "PendingDel") = {}
  <2>1. R!Having(old.list, "PendingDel") = {} => R!Having(new.list, "PendingDel") = {}
    BY <1>1 DEF Later, R!Having
  <2> QED BY <1>1, <1>2, <2>1
<1> QED BY <1>1, <1>2, <1>3, <1>4 DEF new

LEMMA KeptOwned ==
  ASSUME ServicesOwned, UNCHANGED <<routes, phase, todo, loop>>,
         \A p \in Peer : Wanted(p) => Wanted(p)',
         closing' = "no" => closing = "no", stage' = "idle" => stage = "idle"
  PROVE  ServicesOwned'
<1>1. LaterServices
  BY ListOps DEF LaterServices, ServiceVisited
<1> QED BY <1>1, LaterOwned

\* a step of a service loop
LEMMA LoopLater ==
  ASSUME LoopsInside, NEW s, ServiceStep(s), stage' = "idle" => stage = "idle"
  PROVE  LaterServices
<1> SUFFICES ASSUME NEW g \in DOMAIN routes', NEW t \in DOMAIN routes'[g].services
             PROVE  LET old == routes[g].services[t]
                        new == routes'[g].services[t]
                    IN  /\ t \in DOMAIN routes[g].services
                        /\ new.disabled => old.disabled
                        /\ Later(old.list, new.list)
                        /\ ServiceVisited(g, t)' => \/ ServiceVisited(g, t)
                                                    \/ new.disabled
                                                    \/ R!Having(new.list, "PendingDel") = {}
  BY DEF LaterServices, ServiceStep
<1>1. /\ UNCHANGED <<phase, todo>> /\ loop # NoLoop /\ s \in loop.todo
      /\ loop' = R!Loop(loop.gid, loop.best, loop.todo \ {s})
      /\ phase \in {"apply", "reroute", "close"}
      /\ g \in DOMAIN routes /\ (g # loop.gid => routes'[g] = routes[g])
      /\ loop.gid \in DOMAIN routes /\ loop.todo \subseteq DOMAIN routes[loop.gid].services
  BY DEF ServiceStep, LoopsInside
<1>2. ServiceVisited(g, t)' /\ ~(g = loop.gid /\ t = s) => ServiceVisited(g, t)
  <2>1. CASE g # loop.gid
    BY <1>1, <2>1 DEF ServiceVisited
  <2>2. CASE g = loop.gid /\ t # s
    <3>1. /\ loop' = NoLoop => loop.todo \ {s} = {}
          /\ loop' # NoLoop => loop'.gid = loop.gid /\ loop'.todo = loop.todo \ {s}
      <4>1. /\ loop.gid \in Gid /\ loop.best \in Addr \cup {NoAddr}
            /\ loop.todo \ {s} \in SUBSET Addr
        BY <1>1 DEF LoopsInside
      <4> QED BY <1>1, <4>1, NullAssumption DEF R!Loop
    <3> QED BY <1>1, <2>2, <3>1 DEF ServiceVisited
  <2> QED BY <2>1, <2>2
<1>3. CASE g # loop.gid
  BY <1>1, <1>2, <1>3, ListOps
<1>4. CASE g = loop.gid
  <2> DEFINE old == routes[g].services
             new == routes'[g].services
  <2>1. \/ /\ new = old
           /\ phase = "apply" => old[s].disabled \/ R!Having(old[s].list, "PendingDel") = {}
        \/ /\ DOMAIN new = DOMAIN old /\ \A x \in DOMAIN old : x # s => new[x] = old[x]
           /\ new[s].disabled = old[s].disabled
           /\ Later(old[s].list, new[s].list)
           /\ phase = "apply" => R!Having(new[s].list, "PendingDel") = {}
        \/ /\ DOMAIN new = DOMAIN old \ {s} /\ \A x \in DOMAIN new : new[x] = old[x]
    BY <1>4 DEF ServiceStep, LoopStep
  <2>2. ServiceVisited(g, t)' => ServiceVisited(g, t) \/ phase = "apply"
    BY <1>1 DEF ServiceVisited
  <2>3. \A l : Later(l, l)
    BY ListOps
  <2> HIDE DEF old, new
  <2>4. t \in DOMAIN new /\ t \in DOMAIN old
    BY <2>1 DEF old, new
  <2>5. /\ new[t].disabled => old[t].disabled
        /\ Later(old[t].list, new[t].list)
        /\ ServiceVisited(g, t)' => \/ ServiceVisited(g, t)
                                    \/ new[t].disabled
                                    \/ R!Having(new[t].list, "PendingDel") = {}
    <3>1. CASE t = s
      BY <2>1, <2>2, <2>3, <2>4, <3>1
    <3>2. CASE t # s
      BY <1>2, <2>1, <2>3, <2>4, <3>2
    <3> QED BY <3>1, <3>2
  <2> QED BY <1>1, <2>4, <2>5 DEF old, new
<1> QED BY <1>3, <1>4

\* the lists stay; what is visited now was visited before
LEMMA SameListsLater ==
  ASSUME SameLists,
         \A g \in DOMAIN routes' : \A s \in DOMAIN routes'[g].services :
           ServiceVisited(g, s)' => ServiceVisited(g, s)
  PROVE  LaterServices
  BY ListOps DEF SameLists, LaterServices

LEMMA ApplyRoutesLater ==
  ASSUME LoopsInside, ApplyRoutes
  PROVE  LaterServices
<1>1. /\ stage = "routes" /\ job # "none" /\ (stage' # "idle" => job' # "none")
      /\ job' # "none" => stage' = stage
  BY DEF ApplyRoutes, LoopsInside
<1>2. CASE R!Apply
  <2>1. todo' = DOMAIN routes /\ phase' = "apply" /\ UNCHANGED <<routes, job>>
    BY <1>2 DEF R!Apply
  <2> QED BY <1>1, <2>1, UnchangedLists, SameListsLater DEF ServiceVisited
<1>3. CASE R!EndPass
  <2>1. phase = "apply" /\ todo = {} /\ loop = NoLoop
    BY <1>3 DEF R!EndPass
  <2> QED BY <1>1, <1>3, <2>1, EndPassStep, SameListsLater DEF ServiceVisited
<1>4. CASE R!EndResolve
  <2>1. phase = "resolve"
    BY <1>4 DEF R!EndResolve
  <2> QED BY <1>1, <1>4, <2>1, EndResolveStep, UnchangedLists, SameListsLater DEF ServiceVisited
<1>5. ASSUME NEW g \in Gid, R!ApplyPeers(g)
      PROVE  LaterServices
  <2>1. /\ phase = "apply" /\ phase' = "apply" /\ loop = NoLoop /\ todo' = todo \ {g}
        /\ job' = job /\ PeersStep(g, routes[g].peers)
    BY <1>5, ApplyPeersStep DEF PeersStep
  <2>2. /\ SameLists /\ DOMAIN routes' = DOMAIN routes
        /\ loop' # NoLoop => loop'.gid = g /\ loop'.todo = DOMAIN routes[g].services
        /\ loop' = NoLoop => DOMAIN routes[g].services = {}
    BY <1>1, <2>1, PeersStepInside
  <2>3. ASSUME NEW h \in DOMAIN routes', NEW s \in DOMAIN routes'[h].services,
               ServiceVisited(h, s)'
        PROVE  ServiceVisited(h, s)
    <3>1. stage' # "idle"
      BY <1>1, <2>1
    <3>2. CASE h = g
      <4>1. s \in DOMAIN routes[g].services
        BY <2>2, <3>2 DEF SameLists
      <4> QED BY <2>1, <2>2, <2>3, <3>1, <3>2, <4>1 DEF ServiceVisited
    <3>3. CASE h # g
      BY <2>1, <2>3, <3>1, <3>3 DEF ServiceVisited
    <3> QED BY <3>2, <3>3
  <2> QED BY <2>2, <2>3, SameListsLater
<1>6. ASSUME NEW g \in Gid, R!ResolveIpConflict(g)
      PROVE  LaterServices
  <2>1. phase = "resolve"
    BY <1>6 DEF R!ResolveIpConflict
  <2> QED BY <1>1, <1>6, <2>1, ResolveStep, SameListsLater DEF ServiceVisited
<1>7. ASSUME NEW s \in Addr,
             R!ApplySkip(s) \/ R!SetRoute(s) \/ R!ClearRoute(s) \/ R!MergeRoutes(s)
      PROVE  LaterServices
  <2>1. ServiceStep(s)
    BY <1>7, SkipStep, SetRouteStep, ClearRouteStep, MergeRoutesStep
  <2>2. stage' = stage
    BY <1>1, <2>1 DEF ServiceStep
  <2> QED BY <2>1, <2>2, LoopLater
<1> QED BY <1>2, <1>3, <1>4, <1>5, <1>6, <1>7 DEF ApplyRoutes

LEMMA PingRoundLater ==
  ASSUME LoopsInside, PingRound
  PROVE  LaterServices
<1>1. UNCHANGED stage
  BY PingRoundKeeps
<1>2. CASE R!PingProcess \/ R!EndReroute
  <2>1. UNCHANGED routes /\ phase' \notin {"apply", "resolve"}
    BY <1>2 DEF R!PingProcess, R!EndReroute
  <2> QED BY <1>1, <2>1, UnchangedLists, SameListsLater DEF ServiceVisited
<1>3. ASSUME NEW g \in Gid, R!RerouteGroup(g)
      PROVE  LaterServices
  <2>1. UNCHANGED routes /\ phase' \notin {"apply", "resolve"}
    BY <1>3 DEF R!RerouteGroup
  <2> QED BY <1>1, <2>1, UnchangedLists, SameListsLater DEF ServiceVisited
<1>4. ASSUME NEW s \in Addr, R!RerouteService(s) \/ R!RerouteSkip(s)
      PROVE  LaterServices
  BY <1>1, <1>4, SkipStep, RerouteServiceStep, LoopLater
<1> QED BY <1>2, <1>3, <1>4 DEF PingRound

LEMMA AddPeerKeepsWanted ==
  ASSUME SInv, NEW q \in Peer, AddPeer(q)
  PROVE  \A p \in Peer : Wanted(p) => Wanted(p)'
<1>1. \A p \in Peer : makeKey(p) = makeKey(q) => Wanted(p)'
  BY SameKey, AddPeerWanted DEF Wanted
<1> QED BY <1>1, AddPeerWanted

LEMMA AddPeerOwned ==
  ASSUME SInv, LoopsInside, ServicesOwned, NEW q \in Peer, AddPeer(q)
  PROVE  ServicesOwned'
<1> SUFFICES ASSUME closing = "no", NEW g \in DOMAIN routes',
                    NEW s \in DOMAIN routes'[g].services, s \in OwnService
             PROVE  LET rl == routes'[g].services[s]
                    IN  /\ ~rl.disabled
                        /\ \E p \in Peer : p.gid = g /\ s \in p.svc
                        /\ \A gw \in DOMAIN rl.list :
                             \E p \in Peer :
                               /\ p.gid = g /\ p.gw = gw /\ s \in p.svc
                               /\ rl.list[gw].ifname = p.ifname
                               /\ "PendingDel" \notin rl.list[gw].flags => Wanted(p)'
                        /\ ~ServiceVisited(g, s)'
  BY DEF ServicesOwned, ListOwned, AddPeer
<1> DEFINE old == R!FindOrCreate(q.gid)
           rl == routes'[g].services[s]
<1>1. /\ stage = "exec" /\ UNCHANGED stage /\ R!RouteAdd(Path(q))
  BY DEF AddPeer
<1>2. /\ phase = "idle" /\ phase' = phase
      /\ DOMAIN routes' = DOMAIN routes \cup {q.gid}
      /\ \A h \in DOMAIN routes : h # q.gid => routes'[h] = routes[h]
  BY <1>1, RouteAddEffect
<1>3. ~ServiceVisited(g, s)'
  BY <1>1, <1>2 DEF ServiceVisited
<1>4. ASSUME NEW h \in DOMAIN routes, s \in DOMAIN routes[h].services
      PROVE  /\ ~routes[h].services[s].disabled
             /\ \E p \in Peer : p.gid = h /\ s \in p.svc
             /\ ListOwned(h, s, routes[h].services[s].list)
  BY <1>4 DEF ServicesOwned
<1>5. CASE g # q.gid \/ s \notin q.svc
  <2>1. g \in DOMAIN routes /\ s \in DOMAIN routes[g].services /\ rl = routes[g].services[s]
    <3>1. CASE g # q.gid
      BY <1>2, <3>1
    <3>2. CASE g = q.gid /\ s \notin q.svc
      <4>1. /\ DOMAIN routes'[g].services = DOMAIN old.services \cup q.svc
            /\ \A t \in DOMAIN old.services \ q.svc : routes'[g].services[t] = old.services[t]
        BY <1>1, <3>2, RouteAddEffect
      <4> QED BY <3>2, <4>1, FindOrCreate
    <3> QED BY <1>5, <3>1, <3>2
  <2> HIDE DEF rl
  <2>2. /\ ~rl.disabled /\ \E p \in Peer : p.gid = g /\ s \in p.svc
        /\ ListOwned(g, s, rl.list)
    BY <1>4, <2>1
  <2> QED BY <1>3, <2>2, AddPeerKeepsWanted DEF ListOwned, rl
<1>6. CASE g = q.gid /\ s \in q.svc
  <2>1. /\ rl.disabled => IF s \in DOMAIN old.services THEN old.services[s].disabled
                                                      ELSE Offers(q.gid, s)
        /\ \A gw \in DOMAIN rl.list :
             \/ /\ s \in DOMAIN old.services /\ gw \in DOMAIN old.services[s].list
                /\ rl.list[gw].ifname = old.services[s].list[gw].ifname
                /\ gw # q.gw => rl.list[gw] = old.services[s].list[gw]
             \/ gw = q.gw /\ rl.list[gw].ifname = q.ifname
    <3> DEFINE new == routes'[q.gid].services
    <3>1. \A t \in q.svc :
            /\ new[t].disabled => IF t \in DOMAIN old.services THEN old.services[t].disabled
                                                             ELSE Offers(q.gid, t)
            /\ \A gw \in DOMAIN new[t].list :
                 \/ /\ t \in DOMAIN old.services /\ gw \in DOMAIN old.services[t].list
                    /\ new[t].list[gw].ifname = old.services[t].list[gw].ifname
                    /\ gw # q.gw => new[t].list[gw] = old.services[t].list[gw]
                 \/ gw = q.gw /\ new[t].list[gw].ifname = q.ifname
      BY <1>1, RouteAddEffect
    <3> HIDE DEF old
    <3>2. rl = new[s]
      BY <1>6
    <3> HIDE DEF rl, new
    <3> QED BY <1>6, <3>1, <3>2
  <2>2. s \in DOMAIN old.services => g \in DOMAIN routes /\ old = routes[g]
    BY <1>6, FindOrCreate
  <2> HIDE DEF old, rl
  <2>3. ~Offers(q.gid, s)
    <3> SUFFICES ASSUME NEW h \in DOMAIN routes, h # q.gid, s \in DOMAIN routes[h].services
                 PROVE  FALSE
      BY DEF Offers
    <3> QED BY <1>4, <1>6, OwnServicePeers
  <2>4. ~rl.disabled
    BY <1>4, <2>1, <2>2, <2>3
  <2>5. ASSUME NEW gw \in DOMAIN rl.list
        PROVE  \E p \in Peer :
                 /\ p.gid = g /\ p.gw = gw /\ s \in p.svc
                 /\ rl.list[gw].ifname = p.ifname
                 /\ "PendingDel" \notin rl.list[gw].flags => Wanted(p)'
    <3>1. CASE gw = q.gw /\ rl.list[gw].ifname = q.ifname
      BY <1>6, <3>1, AddPeerWanted
    <3>2. CASE /\ s \in DOMAIN old.services /\ gw \in DOMAIN old.services[s].list
               /\ rl.list[gw].ifname = old.services[s].list[gw].ifname
               /\ gw # q.gw => rl.list[gw] = old.services[s].list[gw]
      <4>1. PICK p \in Peer :
              /\ p.gid = g /\ p.gw = gw /\ s \in p.svc
              /\ old.services[s].list[gw].ifname = p.ifname
              /\ "PendingDel" \notin old.services[s].list[gw].flags => Wanted(p)
        BY <1>4, <2>2, <3>2 DEF ListOwned
      <4>2. CASE gw = q.gw
        <5>1. makeKey(p) = makeKey(q)
          BY <1>6, <4>1, <4>2, OwnServicePeers
        <5> QED BY <3>2, <4>1, <5>1, AddPeerWanted, SameKey DEF Wanted
      <4>3. CASE gw # q.gw
        BY <3>2, <4>1, <4>3, AddPeerKeepsWanted
      <4> QED BY <4>2, <4>3
    <3> QED BY <2>1, <3>1, <3>2
  <2> QED BY <1>3, <1>6, <2>4, <2>5 DEF rl
<1> QED BY <1>5, <1>6

\* while nobody closes, a wanted peer is in the peer cache, under its group
LEMMA WantedCached ==
  ASSUME SInv, WInv, closing = "no", NEW p \in Peer
  PROVE  /\ Wanted(p) <=> makeKey(p) \in DOMAIN peers
         /\ (\A q \in Peer : makeKey(q) = makeKey(p) => q.gid = p.gid) =>
              (Wanted(p) => peers[makeKey(p)].gid = p.gid)
<1>1. Wanted(p) <=> makeKey(p) \in CachedKeys
  BY PeerFields DEF Wanted, CachedKeys
<1> QED BY <1>1 DEF SInv, InStep, WInv, CacheKnows

LEMMA RemovePeerOwned ==
  ASSUME SInv, WInv, LoopsInside, ServicesOwned, NEW q \in Peer, RemovePeer(q)
  PROVE  ServicesOwned'
<1> SUFFICES ASSUME closing = "no"
             PROVE  ServicesOwned'
  BY DEF ServicesOwned, RemovePeer
<1>1. stage = "exec" /\ UNCHANGED stage
  BY DEF RemovePeer
<1>2. \A p \in Peer : makeKey(p) # makeKey(q) => (Wanted(p) => Wanted(p)')
  BY RemovePeerWanted
<1>3. CASE /\ makeKey(q) \in DOMAIN peers => peers[makeKey(q)].gid \notin DOMAIN routes
           /\ UNCHANGED rvars
  <2> SUFFICES ASSUME NEW g \in DOMAIN routes, NEW s \in DOMAIN routes[g].services,
                      s \in OwnService, NEW p \in Peer, p.gid = g, s \in p.svc, Wanted(p)
               PROVE  Wanted(p)'
    BY <1>1, <1>3 DEF ServicesOwned, ListOwned, ServiceVisited, rvars
  <2>1. CASE makeKey(p) = makeKey(q)
    <3>1. makeKey(q) \in DOMAIN peers /\ peers[makeKey(q)].gid = g
      BY <2>1, WantedCached, OwnServicePeers
    <3> QED BY <1>3, <3>1
  <2> QED BY <1>2, <2>1
<1>4. ASSUME NEW k, makeKey(q) \in DOMAIN peers, k = peers[makeKey(q)].gid,
             R!RouteDel([gid |-> k, gw |-> q.gw, svc |-> q.svc])
      PROVE  ServicesOwned'
  <2>1. /\ phase = "idle" /\ UNCHANGED <<phase, todo, loop>> /\ k \in DOMAIN routes
        /\ DOMAIN routes' = DOMAIN routes
        /\ \A h \in DOMAIN routes : h # k => routes'[h] = routes[h]
        /\ DOMAIN routes'[k].services = DOMAIN routes[k].services
        /\ \A s \in DOMAIN routes[k].services :
             LET new == routes'[k].services[s]
                 old == routes[k].services[s]
             IN  /\ new.disabled = old.disabled
                 /\ DOMAIN new.list = DOMAIN old.list
                 /\ \A gw \in DOMAIN old.list :
                      /\ new.list[gw].ifname = old.list[gw].ifname
                      /\ "PendingDel" \in old.list[gw].flags => "PendingDel" \in new.list[gw].flags
                      /\ s \in q.svc /\ gw = q.gw => "PendingDel" \in new.list[gw].flags
    BY <1>4, RouteDelEffect
  <2> SUFFICES ASSUME NEW g \in DOMAIN routes,
                      NEW s \in DOMAIN routes[g].services, s \in OwnService
               PROVE  LET rl == routes'[g].services[s]
                      IN  /\ ~rl.disabled
                          /\ \E p \in Peer : p.gid = g /\ s \in p.svc
                          /\ \A gw \in DOMAIN rl.list :
                               \E p \in Peer :
                                 /\ p.gid = g /\ p.gw = gw /\ s \in p.svc
                                 /\ rl.list[gw].ifname = p.ifname
                                 /\ "PendingDel" \notin rl.list[gw].flags => Wanted(p)'
                          /\ ~ServiceVisited(g, s)'
    BY <2>1 DEF ServicesOwned, ListOwned
  <2> DEFINE old == routes[g].services[s]
             new == routes'[g].services[s]
  <2>2. /\ new.disabled = old.disabled
        /\ DOMAIN new.list = DOMAIN old.list
        /\ \A gw \in DOMAIN old.list :
             /\ new.list[gw].ifname = old.list[gw].ifname
             /\ "PendingDel" \in old.list[gw].flags => "PendingDel" \in new.list[gw].flags
             /\ g = k /\ s \in q.svc /\ gw = q.gw => "PendingDel" \in new.list[gw].flags
    <3>1. CASE g = k
      BY <2>1, <3>1
    <3>2. CASE g # k
      BY <2>1, <3>2
    <3> QED BY <3>1, <3>2
  <2>3. /\ ~old.disabled /\ \E p \in Peer : p.gid = g /\ s \in p.svc
        /\ ListOwned(g, s, old.list)
    BY DEF ServicesOwned
  <2>4. ~ServiceVisited(g, s)'
    BY <1>1, <2>1 DEF ServiceVisited
  <2> HIDE DEF old, new
  <2>5. ASSUME NEW gw \in DOMAIN new.list
        PROVE  \E p \in Peer :
                 /\ p.gid = g /\ p.gw = gw /\ s \in p.svc
                 /\ new.list[gw].ifname = p.ifname
                 /\ "PendingDel" \notin new.list[gw].flags => Wanted(p)'
    <3>1. PICK p \in Peer : /\ p.gid = g /\ p.gw = gw /\ s \in p.svc
                            /\ old.list[gw].ifname = p.ifname
                            /\ "PendingDel" \notin old.list[gw].flags => Wanted(p)
      BY <2>2, <2>3 DEF ListOwned
    <3>2. CASE makeKey(p) = makeKey(q)
      <4>1. k = g /\ s \in q.svc /\ q.gw = gw
        BY <1>4, <3>1, <3>2, WantedCached, OwnServicePeers
      <4> QED BY <2>2, <3>1, <4>1
    <3>3. CASE makeKey(p) # makeKey(q)
      BY <1>2, <2>2, <3>1, <3>3
    <3> QED BY <3>2, <3>3
  <2> QED BY <2>2, <2>3, <2>4, <2>5 DEF new
<1> QED BY <1>3, <1>4, RemovePeerRoutes

LEMMA ConfigInfoOwned ==
  ASSUME ServicesOwned, ConfigInfo
  PROVE  ServicesOwned'
<1>1. R!ConfigInfo /\ UNCHANGED closing /\ stage' = "exec"
  BY DEF ConfigInfo
<1>2. /\ phase' = "idle" /\ DOMAIN routes' = DOMAIN routes
      /\ \A g \in DOMAIN routes : \A s \in DOMAIN routes'[g].services :
           /\ s \in DOMAIN routes[g].services
           /\ ~routes'[g].services[s].disabled
           /\ DOMAIN routes'[g].services[s].list = DOMAIN routes[g].services[s].list
           /\ \A gw \in DOMAIN routes[g].services[s].list :
                /\ routes'[g].services[s].list[gw].ifname = routes[g].services[s].list[gw].ifname
                /\ "PendingDel" \in routes'[g].services[s].list[gw].flags
  BY <1>1, FlushEffect
<1>3. \A g, s : ~ServiceVisited(g, s)'
  BY <1>1, <1>2 DEF ServiceVisited
<1> QED BY <1>1, <1>2, <1>3 DEF ServicesOwned, ListOwned

LEMMA InitOwned == Init => ServicesOwned
  BY NoDevice DEF Init, ServicesOwned

LEMMA StepOwned == SInv /\ WInv /\ LoopsInside /\ ServicesOwned /\ [Next]_vars => ServicesOwned'
<1> SUFFICES ASSUME SInv, WInv, LoopsInside, ServicesOwned, [Next]_vars
             PROVE  ServicesOwned'
  OBVIOUS
<1>1. CASE ConfigInfo
  BY <1>1, ConfigInfoOwned
<1>2. CASE WgConf
  BY <1>2, KeptOwned DEF WgConf, R!WgConf, wvars, Wanted
<1>3. ASSUME NEW i \in Iface, CreateInterface(i)
      PROVE  ServicesOwned'
  <2>1. \A p \in Peer : Wanted(p) => Wanted(p)'
    BY <1>3, SameMaps DEF CreateInterface, W!CreateInterface, Wanted, Put
  <2> QED BY <1>3, <2>1, KeptOwned DEF CreateInterface, rvars, mvars
<1>4. ASSUME NEW p \in Peer, AddPeer(p)
      PROVE  ServicesOwned'
  BY <1>4, AddPeerOwned
<1>5. ASSUME NEW p \in Peer, RemovePeer(p)
      PROVE  ServicesOwned'
  BY <1>5, RemovePeerOwned
<1>6. CASE ApplyWireguard \/ ApplyBlocks \/ ApplyLeftovers
  BY <1>6, KeptOwned DEF ApplyWireguard, ApplyBlocks, ApplyLeftovers, RouterCacheStays,
     W!Apply, W!ApplyBlocks, wvars, Wanted
<1>7. CASE ApplyHosts
  BY <1>7, KeptOwned DEF ApplyHosts, rvars, wvars, Wanted
<1>8. CASE ApplyRoutes
  BY <1>8, ApplyRoutesLater, LaterOwned DEF ApplyRoutes, wvars, Wanted
<1>9. CASE PingRound
  BY <1>9, PingRoundLater, PingRoundKeeps, LaterOwned DEF Wanted
<1>10. CASE CloseHosts \/ CloseRouter \/ CloseWireguard
  BY <1>10 DEF CloseHosts, CloseRouter, CloseWireguard, ServicesOwned
<1>11. CASE Restart
  BY <1>11, NoDevice DEF Restart, ServicesOwned
<1>12. CASE UNCHANGED vars
  BY <1>12, KeptOwned DEF vars, rvars, wvars, mvars, Wanted
<1> QED BY <1>1, <1>2, <1>3, <1>4, <1>5, <1>6, <1>7, <1>8, <1>9, <1>10, <1>11, <1>12
        DEF Next, Message, Apply, Close

(***************************************************************************)
(* Between two messages every service of one group the router sends into a  *)
(* tunnel is accepted there by a peer, for any peers, interfaces and        *)
(* restarts, whichever order groups and services are visited in, and with   *)
(* ping rounds between any two steps: an entry that survives an Apply has   *)
(* not been removed, so its peer is in WireGuard's cache, and what the      *)
(* cache wants, the kernel lets through.                                    *)
(***************************************************************************)
THEOREM NoBlackHole == Spec => []RoutesLeadToPeers
<1>1. WInv /\ ServicesOwned => RoutesLeadToPeers
  <2> SUFFICES ASSUME WInv, ServicesOwned, stage = "idle", closing = "no",
                      NEW g \in DOMAIN routes, NEW s \in DOMAIN routes[g].services,
                      s \in OwnService,
                      NEW i \in R!ActiveDev(routes[g].services[s].list)
               PROVE  i \in DOMAIN os /\ \E k \in DOMAIN os[i] : s \in os[i][k]
    BY DEF RoutesLeadToPeers
  <2> DEFINE list == routes[g].services[s].list
  <2>1. ListOwned(g, s, list) /\ R!Having(list, "PendingDel") = {} /\ s \in Addr
    BY DEF ServicesOwned, ServiceVisited, OwnService
  <2> HIDE DEF list
  <2>2. PICK gw \in DOMAIN list : i = list[gw].ifname
    BY DEF R!ActiveDev, R!Having, list
  <2>3. PICK p \in Peer : p.ifname = i /\ s \in p.svc /\ Wanted(p)
    BY <2>1, <2>2 DEF ListOwned, R!Having
  <2>4. Allowed(p, s)
    BY <2>1, <2>3, OwnServicePeers DEF WInv, WantedAllowed
  <2> QED BY <2>3, <2>4 DEF Allowed
<1>2. WInv /\ LoopsInside /\ ServicesOwned /\ SInv /\ [Next]_vars =>
        (WInv /\ LoopsInside /\ ServicesOwned)'
  BY StepWInv, StepInside, StepOwned
<1>3. Init => WInv /\ LoopsInside /\ ServicesOwned
  BY InitWInv, InitInside, InitOwned
<1> QED BY <1>1, <1>2, <1>3, SyncedInvariance, PTL DEF Spec

(***************************************************************************)
(* Gateways.  The address of a peer is nowhere but in the peer list of its  *)
(* group.                                                                   *)
(***************************************************************************)
Sole == {p \in Peer : p.gw \in OwnGateway}

Known(p) == p.gid \in DOMAIN routes /\ p.gw \in DOMAIN routes[p.gid].peers

Flags(p) == routes[p.gid].peers[p.gw].flags

Apart(p) ==
  /\ \A g \in DOMAIN routes :
       /\ p.gw \notin DOMAIN routes[g].services
       /\ p.gw \in DOMAIN routes[g].peers => g = p.gid
  /\ Known(p) => /\ routes[p.gid].peers[p.gw].ifname = p.ifname
                 /\ "Disabled" \notin Flags(p)

\* a message that a restart or a Close cut off, or that never ends, is left out
Whole == ~torn /\ stage # "blocked"

PeerVisited(p) ==
  stage = "idle" \/ phase = "resolve" \/ (phase = "apply" /\ p.gid \notin todo)

\* the flags say what the message has asked for
Flagged(p) ==
  /\ Known(p) => ~({"AddPending", "DelPending"} \subseteq Flags(p))
  /\ Known(p) /\ PeerVisited(p) => Flags(p) = {}
  /\ closing = "no" => (Wanted(p) <=> Known(p) /\ "DelPending" \notin Flags(p))

Routed(p) == kernel[p.gw] \in Iface

\* who answers for the route at each stage of a message
Answered(p) ==
  Routed(p) =>
    /\ kernel[p.gw] = p.ifname /\ p.ifname \in DOMAIN os
    /\ \/ stage = "idle" /\ Allowed(p, p.gw)
       \/ stage = "exec" /\ (Known(p) \/ Allowed(p, p.gw))
       \/ stage = "left" /\ (Known(p) \/ p.gw \in left)
       \/ stage \in {"hosts", "routes"} /\ Known(p)
    /\ stage = "idle" /\ closing = "no" /\ devices # EmptyMap => Known(p)

GInv ==
  /\ \A p \in Sole : Apart(p)
  /\ Whole => /\ closing # "no" => stage = "idle"
              /\ \A p \in Sole : Flagged(p) /\ Answered(p)

(***************************************************************************)
(* Gateways, one step at a time.                                            *)
(***************************************************************************)
LEMMA SolePeers ==
  ASSUME NEW p \in Sole
  PROVE  /\ p \in Peer /\ p.gw \in Addr /\ p.gid \in Gid /\ p.ifname \in Iface
         /\ Exclusive(p, p.gw)
         /\ \A q \in Peer :
              /\ p.gw \notin q.svc
              /\ makeKey(q) = makeKey(p) => q.gw = p.gw /\ q.gid = p.gid
              /\ makeKey(q) # makeKey(p) => p.gw \notin AllowedIPs(q) /\ q.gw # p.gw
<1>1. p \in Peer /\ p.gw \in OwnGateway
  BY DEF Sole
<1>2. \A q \in Peer : p.gw \in AllowedIPs(q) \/ makeKey(q) = makeKey(p) =>
        q.gw = p.gw /\ p.gw \notin q.svc /\ q.gid = p.gid /\ makeKey(q) = makeKey(p)
  BY <1>1 DEF OwnGateway
<1>3. \A q \in Peer : q.gw \in AllowedIPs(q) /\ q.svc \subseteq AllowedIPs(q)
  BY DEF AllowedIPs
<1>4. Exclusive(p, p.gw)
  BY <1>1, <1>2, <1>3, SameKey DEF Exclusive
<1>5. p.gw \in Addr
  BY <1>1 DEF OwnGateway
<1> QED BY <1>1, <1>2, <1>3, <1>4, <1>5, PeerFields

\* no step but AddPeer brings a peer, a service or a conflict
Fewer ==
  \A g \in DOMAIN routes' :
    /\ g \in DOMAIN routes
    /\ DOMAIN routes'[g].services \subseteq DOMAIN routes[g].services
    /\ \A a \in DOMAIN routes'[g].peers :
         /\ a \in DOMAIN routes[g].peers
         /\ routes'[g].peers[a].ifname = routes[g].peers[a].ifname
         /\ "Disabled" \in routes'[g].peers[a].flags => "Disabled" \in routes[g].peers[a].flags

LEMMA FewerApart ==
  ASSUME NEW p \in Sole, Apart(p), Fewer
  PROVE  Apart(p)'
  BY DEF Apart, Fewer, Known, Flags

LEMMA ServiceStepFewer ==
  ASSUME LoopsInside, NEW s, ServiceStep(s)
  PROVE  Fewer
<1>1. ASSUME NEW g \in DOMAIN routes
      PROVE  DOMAIN routes'[g].services \subseteq DOMAIN routes[g].services
  <2>1. CASE g = loop.gid
    BY <2>1 DEF ServiceStep, LoopStep
  <2>2. CASE g # loop.gid
    BY <2>2 DEF ServiceStep
  <2> QED BY <2>1, <2>2
<1> QED BY <1>1 DEF Fewer, ServiceStep

\* the flags Apply leaves
LEMMA AppliedPeers ==
  ASSUME NEW pl
  PROVE  /\ \A a : a \in DOMAIN R!ApplyPeerList(pl) <=>
                     a \in DOMAIN pl /\ ~R!PeerDropped(pl[a])
         /\ \A a \in DOMAIN R!ApplyPeerList(pl) :
              /\ R!ApplyPeerList(pl)[a].ifname = pl[a].ifname
              /\ "Disabled" \in R!ApplyPeerList(pl)[a].flags => "Disabled" \in pl[a].flags
              /\ "Disabled" \notin pl[a].flags => R!ApplyPeerList(pl)[a].flags = {}
<1> DEFINE new == R!ApplyPeerList(pl)
<1>1. /\ \A a : a \in DOMAIN new <=> a \in DOMAIN pl /\ ~R!PeerDropped(pl[a])
      /\ \A a \in DOMAIN new :
           new[a] = IF "Disabled" \in pl[a].flags THEN pl[a] ELSE R!WithFlags(pl[a], {})
  BY DEF R!ApplyPeerList
<1>2. ASSUME NEW a \in DOMAIN new
      PROVE  /\ new[a].ifname = pl[a].ifname
             /\ "Disabled" \in new[a].flags => "Disabled" \in pl[a].flags
             /\ "Disabled" \notin pl[a].flags => new[a].flags = {}
  BY <1>1, <1>2 DEF R!WithFlags
<1> QED BY <1>1, <1>2

LEMMA FlushedPeers ==
  ASSUME NEW pl
  PROVE  /\ DOMAIN R!FlushPeers(pl) = DOMAIN pl
         /\ \A a \in DOMAIN pl :
              /\ R!FlushPeers(pl)[a].ifname = pl[a].ifname
              /\ R!FlushPeers(pl)[a].flags = pl[a].flags \cup {"DelPending"}
  BY DEF R!FlushPeers, R!SetFlag, R!WithFlags

\* the list a loop over the groups applies
Applicable(g, pl) ==
  /\ DOMAIN pl = DOMAIN routes[g].peers
  /\ \A a \in DOMAIN pl :
       /\ pl[a].ifname = routes[g].peers[a].ifname
       /\ "Disabled" \in pl[a].flags => "Disabled" \in routes[g].peers[a].flags

LEMMA PeersStepFewer ==
  ASSUME LoopsInside, NEW g, NEW pl, PeersStep(g, pl), Applicable(g, pl),
         stage' # "idle" => job' # "none", phase \in {"apply", "close"}
  PROVE  Fewer
<1>1. /\ SameLists /\ g \in DOMAIN routes /\ DOMAIN routes' = DOMAIN routes
      /\ routes'[g].peers = R!ApplyPeerList(pl)
      /\ \A h \in DOMAIN routes : h # g => routes'[h] = routes[h]
  BY PeersStepInside DEF Applicable
<1>2. \A h \in DOMAIN routes : DOMAIN routes'[h].services \subseteq DOMAIN routes[h].services
  BY <1>1 DEF SameLists
<1>3. \A a \in DOMAIN routes'[g].peers :
        /\ a \in DOMAIN routes[g].peers
        /\ routes'[g].peers[a].ifname = routes[g].peers[a].ifname
        /\ "Disabled" \in routes'[g].peers[a].flags => "Disabled" \in routes[g].peers[a].flags
  <2> DEFINE new == R!ApplyPeerList(pl)
  <2>1. \A a \in DOMAIN new :
          /\ a \in DOMAIN pl
          /\ new[a].ifname = pl[a].ifname
          /\ "Disabled" \in new[a].flags => "Disabled" \in pl[a].flags
    BY AppliedPeers
  <2>2. routes'[g].peers = new
    BY <1>1
  <2>3. \A a \in DOMAIN pl :
          /\ a \in DOMAIN routes[g].peers
          /\ pl[a].ifname = routes[g].peers[a].ifname
          /\ "Disabled" \in pl[a].flags => "Disabled" \in routes[g].peers[a].flags
    BY DEF Applicable
  <2> HIDE DEF new
  <2> QED BY <2>1, <2>2, <2>3
<1> QED BY <1>1, <1>2, <1>3 DEF Fewer

LEMMA ApplicableLists ==
  ASSUME NEW g
  PROVE  Applicable(g, routes[g].peers) /\ Applicable(g, R!FlushPeers(routes[g].peers))
<1>1. Applicable(g, routes[g].peers)
  BY DEF Applicable
<1>2. Applicable(g, R!FlushPeers(routes[g].peers))
  BY FlushedPeers DEF Applicable
<1> QED BY <1>1, <1>2

LEMMA ResolveFewer ==
  ASSUME LoopsInside, stage' # "idle" => job' # "none", NEW g, R!ResolveIpConflict(g)
  PROVE  Fewer
<1> DEFINE pl == routes[g].peers
           svc == routes[g].services
           F == {a \in DOMAIN pl : "Disabled" \in pl[a].flags /\ ~R!HasIpConflict(a, g)}
           new == [a \in DOMAIN pl |->
                     IF a \in F THEN R!WithFlags(pl[a], pl[a].flags \ {"Disabled"}) ELSE pl[a]]
<1>1. \E s : routes' = [routes EXCEPT ![g] = [peers |-> new, services |-> s]]
  BY DEF R!ResolveIpConflict
<1>2. \A a \in DOMAIN new :
        /\ a \in DOMAIN pl /\ new[a].ifname = pl[a].ifname
        /\ "Disabled" \in new[a].flags => "Disabled" \in pl[a].flags
  BY DEF R!WithFlags
<1>3. /\ DOMAIN routes' = DOMAIN routes
      /\ \A h \in DOMAIN routes : DOMAIN routes'[h].services = DOMAIN routes[h].services
  BY ResolveStep
<1> HIDE DEF new, pl
<1>4. \A h \in DOMAIN routes : routes'[h].peers = IF h = g THEN new ELSE routes[h].peers
  BY <1>1
<1>5. ASSUME NEW h \in DOMAIN routes, NEW a \in DOMAIN routes'[h].peers
      PROVE  /\ a \in DOMAIN routes[h].peers
             /\ routes'[h].peers[a].ifname = routes[h].peers[a].ifname
             /\ "Disabled" \in routes'[h].peers[a].flags => "Disabled" \in routes[h].peers[a].flags
  <2>1. CASE h = g
    BY <1>2, <1>4, <2>1 DEF pl
  <2>2. CASE h # g
    BY <1>4, <2>2
  <2> QED BY <2>1, <2>2
<1> QED BY <1>3, <1>5 DEF Fewer

LEMMA SameFewer == UNCHANGED routes => Fewer
  BY DEF Fewer

LEMMA ApplyRoutesFewer ==
  ASSUME LoopsInside, ApplyRoutes
  PROVE  Fewer
<1>1. stage' # "idle" => job' # "none"
  BY DEF ApplyRoutes, LoopsInside
<1>2. CASE R!Apply \/ R!EndResolve
  BY <1>2, SameFewer DEF R!Apply, R!EndResolve
<1>3. CASE R!EndPass
  <2>1. /\ SameLists /\ \A g \in DOMAIN routes' : routes'[g] = routes[g]
    BY <1>1, <1>3, EndPassStep
  <2> QED BY <2>1 DEF Fewer, SameLists
<1>4. ASSUME NEW g \in Gid, R!ApplyPeers(g)
      PROVE  Fewer
  BY <1>1, <1>4, ApplyPeersStep, ApplicableLists, PeersStepFewer
<1>5. ASSUME NEW g \in Gid, R!ResolveIpConflict(g)
      PROVE  Fewer
  BY <1>1, <1>5, ResolveFewer
<1>6. ASSUME NEW s \in Addr,
             R!ApplySkip(s) \/ R!SetRoute(s) \/ R!ClearRoute(s) \/ R!MergeRoutes(s)
      PROVE  Fewer
  BY <1>6, SkipStep, SetRouteStep, ClearRouteStep, MergeRoutesStep, ServiceStepFewer
<1> QED BY <1>2, <1>3, <1>4, <1>5, <1>6 DEF ApplyRoutes

LEMMA PingRoundFewer ==
  ASSUME LoopsInside, PingRound
  PROVE  Fewer
<1>1. CASE R!PingProcess \/ R!EndReroute \/ \E g \in Gid : R!RerouteGroup(g)
  BY <1>1, SameFewer DEF R!PingProcess, R!EndReroute, R!RerouteGroup
<1>2. ASSUME NEW s \in Addr, R!RerouteService(s) \/ R!RerouteSkip(s)
      PROVE  Fewer
  BY <1>2, SkipStep, RerouteServiceStep, ServiceStepFewer
<1> QED BY <1>1, <1>2 DEF PingRound

LEMMA CloseRouterFewer ==
  ASSUME LoopsInside, CloseRouter
  PROVE  Fewer
<1>1. stage' # "idle" => job' # "none"
  BY DEF CloseRouter, LoopsInside, R!Close, R!EndClose, R!ClosePeers, R!CloseService, R!AtService
<1>2. CASE R!Close \/ R!EndClose
  BY <1>2, SameFewer DEF R!Close, R!EndClose
<1>3. ASSUME NEW g \in Gid, R!ClosePeers(g)
      PROVE  Fewer
  BY <1>1, <1>3, ClosePeersStep, ApplicableLists, PeersStepFewer
<1>4. ASSUME NEW s \in Addr, R!CloseService(s)
      PROVE  Fewer
  BY <1>4, CloseServiceStep, ServiceStepFewer
<1> QED BY <1>2, <1>3, <1>4 DEF CloseRouter

LEMMA AddPeerApart ==
  ASSUME LoopsInside, NEW p \in Sole, Apart(p), NEW q \in Peer, AddPeer(q)
  PROVE  Apart(p)'
<1> DEFINE old == R!FindOrCreate(q.gid)
           new == routes'[q.gid]
<1>1. /\ DOMAIN routes' = DOMAIN routes \cup {q.gid}
      /\ \A g \in DOMAIN routes : g # q.gid => routes'[g] = routes[g]
      /\ DOMAIN new.peers = DOMAIN old.peers \cup {q.gw}
      /\ \A a \in DOMAIN old.peers : a # q.gw => new.peers[a] = old.peers[a]
      /\ new.peers[q.gw].ifname = q.ifname
      /\ "Disabled" \in new.peers[q.gw].flags =>
           \/ Offers(q.gid, q.gw)
           \/ q.gw \in DOMAIN old.peers /\ "Disabled" \in old.peers[q.gw].flags
      /\ DOMAIN new.services = DOMAIN old.services \cup q.svc
  BY RouteAddEffect DEF AddPeer
<1>2. IF q.gid \in DOMAIN routes THEN old = routes[q.gid]
      ELSE DOMAIN old.peers = {} /\ DOMAIN old.services = {}
  BY FindOrCreate
<1> HIDE DEF old, new
<1>3. /\ p.gw \notin q.svc
      /\ q.gw = p.gw => makeKey(q) = makeKey(p) /\ q.gid = p.gid /\ q.ifname = p.ifname
  BY SolePeers, SameKey
<1>4. \A g \in DOMAIN routes : /\ p.gw \notin DOMAIN routes[g].services
                               /\ p.gw \in DOMAIN routes[g].peers => g = p.gid
  BY DEF Apart
<1>5. p.gid \in DOMAIN routes /\ p.gw \in DOMAIN routes[p.gid].peers =>
        /\ routes[p.gid].peers[p.gw].ifname = p.ifname
        /\ "Disabled" \notin routes[p.gid].peers[p.gw].flags
  BY DEF Apart, Known, Flags
<1>6. /\ p.gw \notin DOMAIN new.services
      /\ p.gw \in DOMAIN new.peers => q.gid = p.gid
  BY <1>1, <1>2, <1>3, <1>4
<1>7. p.gw \in DOMAIN new.peers =>
        new.peers[p.gw].ifname = p.ifname /\ "Disabled" \notin new.peers[p.gw].flags
  <2>1. CASE q.gw = p.gw
    <3>1. ~Offers(q.gid, q.gw)
      BY <1>4, <2>1 DEF Offers
    <3> QED BY <1>1, <1>2, <1>3, <1>5, <2>1, <3>1
  <2>2. CASE q.gw # p.gw
    BY <1>1, <1>2, <1>5, <1>6, <2>2
  <2> QED BY <2>1, <2>2
<1>8. ASSUME NEW g \in DOMAIN routes'
      PROVE  /\ p.gw \notin DOMAIN routes'[g].services
             /\ p.gw \in DOMAIN routes'[g].peers =>
                  /\ g = p.gid
                  /\ routes'[g].peers[p.gw].ifname = p.ifname
                  /\ "Disabled" \notin routes'[g].peers[p.gw].flags
  <2>1. CASE g = q.gid
    BY <1>6, <1>7, <2>1 DEF new
  <2>2. CASE g # q.gid
    BY <1>1, <1>4, <1>5, <2>2
  <2> QED BY <2>1, <2>2
<1> QED BY <1>8 DEF Apart, Known, Flags

LEMMA StepApart ==
  ASSUME LoopsInside, NEW p \in Sole, Apart(p), [Next]_vars
  PROVE  Apart(p)'
<1>1. CASE ConfigInfo
  <2>1. /\ DOMAIN routes' = DOMAIN routes
        /\ \A g \in DOMAIN routes :
             /\ DOMAIN routes'[g].peers = DOMAIN routes[g].peers
             /\ \A a \in DOMAIN routes[g].peers :
                  /\ routes'[g].peers[a].ifname = routes[g].peers[a].ifname
                  /\ routes'[g].peers[a].flags = routes[g].peers[a].flags \cup {"DelPending"}
             /\ DOMAIN routes'[g].services \subseteq DOMAIN routes[g].services
    BY <1>1, FlushEffect DEF ConfigInfo
  <2> QED BY <2>1, FewerApart DEF Fewer
<1>2. CASE WgConf
  BY <1>2, SameFewer, FewerApart DEF WgConf, R!WgConf
<1>3. ASSUME NEW i \in Iface, CreateInterface(i)
      PROVE  Apart(p)'
  BY <1>3, SameFewer, FewerApart DEF CreateInterface, rvars
<1>4. ASSUME NEW q \in Peer, AddPeer(q)
      PROVE  Apart(p)'
  BY <1>4, AddPeerApart
<1>5. ASSUME NEW q \in Peer, RemovePeer(q)
      PROVE  Apart(p)'
  <2>1. CASE UNCHANGED rvars
    BY <2>1, SameFewer, FewerApart DEF rvars
  <2>2. ASSUME NEW g, R!RouteDel([gid |-> g, gw |-> q.gw, svc |-> q.svc])
        PROVE  Fewer
    <3>1. /\ DOMAIN routes' = DOMAIN routes
          /\ \A h \in DOMAIN routes : h # g => routes'[h] = routes[h]
          /\ DOMAIN routes'[g].peers = DOMAIN routes[g].peers
          /\ \A a \in DOMAIN routes[g].peers : a # q.gw => routes'[g].peers[a] = routes[g].peers[a]
          /\ q.gw \in DOMAIN routes[g].peers =>
               /\ routes'[g].peers[q.gw].ifname = routes[g].peers[q.gw].ifname
               /\ routes'[g].peers[q.gw].flags = routes[g].peers[q.gw].flags \cup {"DelPending"}
          /\ DOMAIN routes'[g].services = DOMAIN routes[g].services
      BY <2>2, RouteDelEffect
    <3> QED BY <3>1 DEF Fewer
  <2> QED BY <1>5, <2>1, <2>2, RemovePeerRoutes, FewerApart
<1>6. CASE ApplyWireguard \/ ApplyBlocks \/ ApplyLeftovers
  BY <1>6, SameFewer, FewerApart DEF ApplyWireguard, ApplyBlocks, ApplyLeftovers, RouterCacheStays
<1>7. CASE ApplyHosts
  BY <1>7, SameFewer, FewerApart DEF ApplyHosts, rvars
<1>8. CASE ApplyRoutes
  BY <1>8, ApplyRoutesFewer, FewerApart
<1>9. CASE PingRound
  BY <1>9, PingRoundFewer, FewerApart
<1>10. CASE CloseHosts \/ CloseWireguard
  BY <1>10, SameFewer, FewerApart DEF CloseHosts, CloseWireguard, RouterCacheStays, rvars
<1>11. CASE CloseRouter
  BY <1>11, CloseRouterFewer, FewerApart
<1>12. CASE Restart
  BY <1>12, NoDevice DEF Restart, Apart, Known
<1>13. CASE UNCHANGED vars
  BY <1>13, SameFewer, FewerApart DEF vars, rvars
<1> QED BY <1>1, <1>2, <1>3, <1>4, <1>5, <1>6, <1>7, <1>8, <1>9, <1>10, <1>11, <1>12, <1>13
        DEF Next, Message, Apply, Close

\* the entry of a peer in its group's list is as it was
SamePeer(p) == /\ Known(p)' <=> Known(p)
               /\ Known(p) => Flags(p)' = Flags(p)

LEMMA SamePeers ==
  ASSUME NEW p, p.gid \in DOMAIN routes' <=> p.gid \in DOMAIN routes,
         p.gid \in DOMAIN routes =>
           /\ p.gw \in DOMAIN routes'[p.gid].peers <=> p.gw \in DOMAIN routes[p.gid].peers
           /\ p.gw \in DOMAIN routes[p.gid].peers =>
                routes'[p.gid].peers[p.gw].flags = routes[p.gid].peers[p.gw].flags
  PROVE  SamePeer(p)
  BY DEF SamePeer, Known, Flags

LEMMA SameRoutes ==
  ASSUME NEW p, UNCHANGED routes
  PROVE  SamePeer(p)
  BY DEF SamePeer, Known, Flags

LEMMA SameFlagged ==
  ASSUME NEW p, Flagged(p), SamePeer(p),
         Known(p) /\ PeerVisited(p)' => PeerVisited(p),
         closing' = "no" => closing = "no" /\ (Wanted(p)' <=> Wanted(p))
  PROVE  Flagged(p)'
  BY DEF Flagged, SamePeer

\* what the proofs below start from
Steady(p) ==
  /\ Apart(p) /\ Flagged(p) /\ Answered(p)
  /\ stage # "blocked" /\ (closing # "no" => stage = "idle")

LEMMA ConfigInfoGateway ==
  ASSUME LoopsInside, NEW p \in Sole, Steady(p), ConfigInfo, ~torn'
  PROVE  Flagged(p)' /\ Answered(p)'
<1>1. /\ stage = "idle" /\ stage' = "exec" /\ closing = "no" /\ closing' = "no"
      /\ UNCHANGED os /\ devices' = EmptyMap
  BY SameMaps DEF ConfigInfo, W!Flush
<1>2. /\ UNCHANGED kernel /\ phase = "idle" /\ phase' = "idle" /\ DOMAIN routes' = DOMAIN routes
      /\ \A g \in DOMAIN routes :
           /\ DOMAIN routes'[g].peers = DOMAIN routes[g].peers
           /\ \A a \in DOMAIN routes[g].peers :
                routes'[g].peers[a].flags = routes[g].peers[a].flags \cup {"DelPending"}
  BY FlushEffect DEF ConfigInfo
<1>3. Known(p)' <=> Known(p)
  BY <1>2 DEF Known
<1>4. Known(p) => Flags(p) = {}
  BY <1>1 DEF Steady, Flagged, PeerVisited
<1>5. Known(p) => Flags(p)' = {"DelPending"}
  BY <1>2, <1>4 DEF Known, Flags
<1>6. ~PeerVisited(p)' /\ ~Wanted(p)'
  BY <1>1, <1>2, NoDevice DEF PeerVisited, Wanted
<1>7. Flagged(p)'
  BY <1>3, <1>5, <1>6 DEF Flagged
<1>8. Answered(p)'
  BY <1>1, <1>2 DEF Steady, Answered, Routed, Allowed
<1> QED BY <1>7, <1>8

LEMMA WgConfGateway ==
  ASSUME NEW p \in Sole, Steady(p), WgConf, ~torn'
  PROVE  Flagged(p)' /\ Answered(p)'
<1>1. /\ stage = "idle" /\ stage' = "exec" /\ closing = "no" /\ closing' = "no"
      /\ UNCHANGED <<routes, kernel, phase, todo, devices, os>> /\ phase = "idle"
  BY DEF WgConf, R!WgConf, R!Settled, R!Idle, wvars
<1>2. Flagged(p)'
  <2>1. Wanted(p)' <=> Wanted(p)
    BY <1>1 DEF Wanted
  <2>2. PeerVisited(p)
    BY <1>1 DEF PeerVisited
  <2> QED BY <1>1, <2>1, <2>2, SameRoutes, SameFlagged DEF Steady
<1>3. Answered(p)'
  BY <1>1 DEF Steady, Answered, Routed, Allowed
<1> QED BY <1>2, <1>3

LEMMA CreateInterfaceGateway ==
  ASSUME NEW p \in Sole, Steady(p), NEW i \in Iface, CreateInterface(i)
  PROVE  Flagged(p)' /\ Answered(p)'
<1>1. /\ stage = "exec" /\ UNCHANGED <<stage, closing, routes, kernel, phase, todo>>
      /\ i \notin DOMAIN devices /\ devices' = Put(devices, i, EmptyMap)
      /\ os' = os \/ (i \notin DOMAIN os /\ os' = Put(os, i, EmptyMap))
  BY SameMaps DEF CreateInterface, W!CreateInterface, rvars, mvars
<1>2. Wanted(p)' <=> Wanted(p)
  BY <1>1, NoDevice DEF Wanted, Put
<1>3. /\ DOMAIN os \subseteq DOMAIN os'
      /\ Allowed(p, p.gw) => Allowed(p, p.gw)'
  BY <1>1 DEF Allowed, Put
<1>4. PeerVisited(p)' => PeerVisited(p)
  BY <1>1 DEF PeerVisited
<1>5. Flagged(p)'
  BY <1>1, <1>2, <1>4, SameRoutes, SameFlagged DEF Steady
<1>6. Answered(p)'
  BY <1>1, <1>3 DEF Steady, Answered, Routed, Known
<1> QED BY <1>5, <1>6

LEMMA AddPeerGateway ==
  ASSUME SInv, LoopsInside, NEW p \in Sole, Steady(p), NEW q \in Peer, AddPeer(q)
  PROVE  Flagged(p)' /\ Answered(p)'
<1> DEFINE old == R!FindOrCreate(q.gid)
           new == routes'[q.gid]
<1>1. /\ DOMAIN routes' = DOMAIN routes \cup {q.gid}
      /\ \A g \in DOMAIN routes : g # q.gid => routes'[g] = routes[g]
      /\ DOMAIN new.peers = DOMAIN old.peers \cup {q.gw}
      /\ \A a \in DOMAIN old.peers : a # q.gw => new.peers[a] = old.peers[a]
      /\ "AddPending" \in new.peers[q.gw].flags
      /\ "DelPending" \notin new.peers[q.gw].flags
      /\ UNCHANGED <<kernel, phase>> /\ phase = "idle"
  BY RouteAddEffect DEF AddPeer
<1>2. IF q.gid \in DOMAIN routes THEN old = routes[q.gid] ELSE DOMAIN old.peers = {}
  BY FindOrCreate
<1> HIDE DEF old, new
<1>3. stage = "exec" /\ UNCHANGED <<stage, closing>> /\ ~PeerVisited(p)'
  BY <1>1 DEF AddPeer, PeerVisited
<1>4. DOMAIN os' = DOMAIN os
  BY AddPeerEffect
<1>5. CASE makeKey(q) = makeKey(p)
  <2>1. q.gw = p.gw /\ q.gid = p.gid /\ q.ifname = p.ifname /\ q.key = p.key
    BY <1>5, SolePeers, SameKey
  <2>2. Known(p)' /\ "AddPending" \in Flags(p)' /\ "DelPending" \notin Flags(p)'
    BY <1>1, <2>1 DEF Known, Flags, new
  <2>3. Wanted(p)'
    BY <2>1, AddPeerWanted DEF Wanted
  <2>4. Flagged(p)'
    BY <1>3, <2>2, <2>3 DEF Flagged
  <2>5. Answered(p)'
    BY <1>1, <1>3, <1>4, <2>2 DEF Steady, Answered, Routed
  <2> QED BY <2>4, <2>5
<1>6. CASE makeKey(q) # makeKey(p)
  <2>1. q.gw # p.gw /\ p.gw \notin AllowedIPs(q) /\ p \in Peer
    BY <1>6, SolePeers
  <2>2. SamePeer(p)
    <3>1. CASE p.gid = q.gid
      BY <1>1, <1>2, <2>1, <3>1 DEF SamePeer, Known, Flags, new
    <3>2. CASE p.gid # q.gid
      BY <1>1, <3>2, SamePeers
    <3> QED BY <3>1, <3>2
  <2>3. (Wanted(p)' <=> Wanted(p)) /\ (Allowed(p, p.gw)' <=> Allowed(p, p.gw))
    BY <1>6, <2>1, AddPeerWanted
  <2>4. Flagged(p)'
    BY <1>3, <2>2, <2>3, SameFlagged DEF Steady
  <2>5. Answered(p)'
    BY <1>1, <1>3, <1>4, <2>2, <2>3 DEF Steady, Answered, Routed, SamePeer
  <2> QED BY <2>4, <2>5
<1> QED BY <1>5, <1>6

\* a message may remove a peer the kernel alone still has
LEMMA RemovePeerGateway ==
  ASSUME SInv, WInv, LoopsInside, NEW p \in Sole, Steady(p), NEW q \in Peer, RemovePeer(q)
  PROVE  Flagged(p)' /\ Answered(p)'
<1>1. stage = "exec" /\ job = "wgconf" /\ closing = "no" /\ UNCHANGED <<stage, closing>>
  BY DEF RemovePeer, Steady
<1>2. /\ UNCHANGED <<kernel, phase, todo>>
      /\ phase = "idle" \/ UNCHANGED routes
      /\ Known(p)' <=> Known(p)
      /\ Known(p) => Flags(p)' = Flags(p) \/ Flags(p)' = Flags(p) \cup {"DelPending"}
  <2>1. CASE UNCHANGED rvars
    BY <2>1 DEF rvars, Known, Flags
  <2>2. ASSUME NEW g, R!RouteDel([gid |-> g, gw |-> q.gw, svc |-> q.svc])
        PROVE  /\ UNCHANGED <<kernel, phase, todo>> /\ phase = "idle"
               /\ Known(p)' <=> Known(p)
               /\ Known(p) => Flags(p)' = Flags(p) \/ Flags(p)' = Flags(p) \cup {"DelPending"}
    <3>1. /\ phase = "idle" /\ UNCHANGED <<kernel, phase, todo>>
          /\ DOMAIN routes' = DOMAIN routes
          /\ \A h \in DOMAIN routes : h # g => routes'[h] = routes[h]
          /\ DOMAIN routes'[g].peers = DOMAIN routes[g].peers
          /\ \A a \in DOMAIN routes[g].peers :
               a # q.gw => routes'[g].peers[a] = routes[g].peers[a]
          /\ q.gw \in DOMAIN routes[g].peers =>
               routes'[g].peers[q.gw].flags = routes[g].peers[q.gw].flags \cup {"DelPending"}
      BY <2>2, RouteDelEffect
    <3>2. CASE g = p.gid
      BY <3>1, <3>2 DEF Known, Flags
    <3>3. CASE g # p.gid
      BY <3>1, <3>3 DEF Known, Flags
    <3> QED BY <3>1, <3>2, <3>3
  <2> QED BY <2>1, <2>2, RemovePeerRoutes
<1>3. DOMAIN os' = DOMAIN os
  BY RemovePeerEffect
<1>4. CASE makeKey(q) = makeKey(p)
  <2>1. /\ p \in Peer /\ q.gw = p.gw /\ q.gid = p.gid /\ q.ifname = p.ifname /\ q.key = p.key
        /\ \A r \in Peer : makeKey(r) = makeKey(p) => r.gid = p.gid
    BY <1>4, SolePeers, SameKey
  <2>2. ~Wanted(p)'
    BY <2>1, RemovePeerWanted DEF Wanted
  <2>3. Known(p) => "AddPending" \notin Flags(p)
    BY <2>1 DEF RemovePeer, AddedNow, Known, Flags
  <2>4. Known(p) => "DelPending" \in Flags(p)'
    <3>1. CASE /\ makeKey(q) \in DOMAIN peers
               /\ R!RouteDel([gid |-> peers[makeKey(q)].gid, gw |-> q.gw, svc |-> q.svc])
      <4> DEFINE k == peers[makeKey(q)].gid
      <4>1. k = p.gid
        BY <1>4, <2>1, <3>1 DEF WInv, CacheKnows
      <4> HIDE DEF k
      <4>2. R!RouteDel([gid |-> k, gw |-> q.gw, svc |-> q.svc])
        BY <3>1 DEF k
      <4>3. q.gw \in DOMAIN routes[k].peers =>
              routes'[k].peers[q.gw].flags = routes[k].peers[q.gw].flags \cup {"DelPending"}
        BY <4>2, RouteDelEffect
      <4> QED BY <2>1, <4>1, <4>3 DEF Known, Flags
    <3>2. CASE /\ makeKey(q) \in DOMAIN peers => peers[makeKey(q)].gid \notin DOMAIN routes
               /\ UNCHANGED rvars
      <4>1. Wanted(p) => ~Known(p)
        BY <1>1, <1>4, <2>1, <3>2, WantedCached DEF Known
      <4>2. ~Wanted(p) /\ Known(p) => "DelPending" \in Flags(p)
        BY <1>1 DEF Steady, Flagged
      <4>3. Flags(p)' = Flags(p)
        BY <3>2 DEF Flags, rvars
      <4> QED BY <4>1, <4>2, <4>3
    <3> QED BY <3>1, <3>2, RemovePeerRoutes
  <2>5. Known(p) /\ PeerVisited(p)' => FALSE
    <3>1. CASE phase = "idle"
      BY <1>1, <1>2, <3>1 DEF PeerVisited
    <3>2. CASE UNCHANGED routes
      <4>1. PeerVisited(p)' => PeerVisited(p)
        BY <1>1, <1>2 DEF PeerVisited
      <4>2. Flags(p)' = Flags(p)
        BY <3>2 DEF Flags
      <4> QED BY <2>4, <4>1, <4>2 DEF Steady, Flagged
    <3> QED BY <1>2, <3>1, <3>2
  <2>6. Flagged(p)'
    BY <1>2, <2>2, <2>3, <2>4, <2>5 DEF Flagged
  <2>7. ~Known(p) /\ Allowed(p, p.gw) => Allowed(p, p.gw)'
    <3>1. ~Known(p) => ~Wanted(p)
      BY <1>1 DEF Steady, Flagged
    <3>2. ~Wanted(p) /\ Allowed(p, p.gw) => p.ifname \notin DOMAIN devices
      BY <1>1 DEF Wanted, Allowed, WInv, WgConfInStep
    <3>3. p.ifname \notin DOMAIN devices => UNCHANGED os
      BY <2>1, RemovePeerEffect
    <3> QED BY <3>1, <3>2, <3>3 DEF Allowed
  <2>8. Answered(p)'
    BY <1>1, <1>2, <1>3, <2>7 DEF Steady, Answered, Routed
  <2> QED BY <2>6, <2>8
<1>5. CASE makeKey(q) # makeKey(p)
  <2>1. p \in Peer /\ q.gw # p.gw
    BY <1>5, SolePeers
  <2>2. (Wanted(p)' <=> Wanted(p)) /\ (Allowed(p, p.gw)' <=> Allowed(p, p.gw))
    BY <1>5, <2>1, RemovePeerWanted
  <2>3. SamePeer(p)
    <3>1. CASE UNCHANGED rvars
      BY <3>1, SameRoutes DEF rvars
    <3>2. ASSUME NEW g, R!RouteDel([gid |-> g, gw |-> q.gw, svc |-> q.svc])
          PROVE  SamePeer(p)
      <4>1. /\ DOMAIN routes' = DOMAIN routes
            /\ \A h \in DOMAIN routes : h # g => routes'[h] = routes[h]
            /\ DOMAIN routes'[g].peers = DOMAIN routes[g].peers
            /\ \A a \in DOMAIN routes[g].peers :
                 a # q.gw => routes'[g].peers[a] = routes[g].peers[a]
        BY <3>2, RouteDelEffect
      <4> QED BY <2>1, <4>1, SamePeers
    <3> QED BY <3>1, <3>2, RemovePeerRoutes
  <2>4. PeerVisited(p)' => PeerVisited(p)
    BY <1>1, <1>2 DEF PeerVisited
  <2>5. Flagged(p)'
    BY <1>1, <2>2, <2>3, <2>4, SameFlagged DEF Steady
  <2>6. Answered(p)'
    BY <1>1, <1>2, <1>3, <2>2 DEF Steady, Answered, Routed
  <2> QED BY <2>5, <2>6
<1> QED BY <1>4, <1>5

LEMMA ApplyWireguardGateway ==
  ASSUME WInv, NEW p \in Sole, Steady(p), ApplyWireguard
  PROVE  Flagged(p)' /\ Answered(p)'
<1>1. /\ stage = "exec" /\ stage' = "left" /\ closing = "no" /\ UNCHANGED closing
      /\ UNCHANGED <<routes, phase, todo, devices>>
  BY DEF ApplyWireguard, RouterCacheStays, W!Apply, Steady
<1>2. p \in Peer /\ p.gw \in Addr /\ NoRoute \notin Iface
  BY SolePeers, NullAssumption
<1>3. Routed(p)' => kernel'[p.gw] = kernel[p.gw] /\ kernel[p.gw] \in DOMAIN os'
  BY <1>2 DEF ApplyWireguard, KernelDropsRoutes, Routed
<1>4. ~Known(p) => ~Wanted(p)
  BY <1>1 DEF Steady, Flagged
<1>5. ~Wanted(p) /\ Allowed(p, p.gw) => p.gw \in left'
  BY <1>2, ApplyWireguardEffect
<1>6. Answered(p)'
  BY <1>1, <1>3, <1>4, <1>5, SameRoutes DEF Steady, Answered, Routed, SamePeer
<1>7. Flagged(p)'
  <2>1. Wanted(p)' <=> Wanted(p)
    BY <1>1 DEF Wanted
  <2>2. PeerVisited(p)' => PeerVisited(p)
    BY <1>1 DEF PeerVisited
  <2> QED BY <1>1, <2>1, <2>2, SameRoutes, SameFlagged DEF Steady
<1> QED BY <1>6, <1>7

LEMMA ApplyLeftoversGateway ==
  ASSUME NEW p \in Sole, Steady(p), ApplyLeftovers
  PROVE  Flagged(p)' /\ Answered(p)'
<1>1. /\ stage = "left" /\ stage' = "hosts" /\ closing = "no" /\ UNCHANGED closing
      /\ UNCHANGED <<routes, phase, todo, devices, os>>
  BY DEF ApplyLeftovers, RouterCacheStays, wvars, Steady
<1>2. p.gw \in Addr /\ NoRoute \notin Iface
  BY SolePeers, NullAssumption
<1>3. ~HasActiveRoute(p.gw)
  BY DEF HasActiveRoute, R!HasPeer, R!HasAddress, Steady, Apart
<1>4. p.gw \notin Mistakable    \* no other route is found in its place
  BY SolePeers DEF Mistakable, NC!RouteSearch, Sole, OwnGateway, R!Alone
<1>5. Routed(p)' => p.gw \notin left /\ kernel'[p.gw] = kernel[p.gw]
  BY <1>2, <1>3, <1>4 DEF ApplyLeftovers, DeleteRoutes, Routed
<1>6. Answered(p)'
  BY <1>1, <1>5 DEF Steady, Answered, Routed, Known
<1>7. Flagged(p)'
  <2>1. Wanted(p)' <=> Wanted(p)
    BY <1>1 DEF Wanted
  <2>2. PeerVisited(p)' => PeerVisited(p)
    BY <1>1 DEF PeerVisited
  <2> QED BY <1>1, <2>1, <2>2, SameRoutes, SameFlagged DEF Steady
<1> QED BY <1>6, <1>7

LEMMA ApplyHostsGateway ==
  ASSUME NEW p \in Sole, Steady(p), ApplyHosts
  PROVE  Flagged(p)' /\ Answered(p)'
<1>1. /\ stage = "hosts" /\ stage' = "routes" /\ UNCHANGED closing
      /\ UNCHANGED <<routes, kernel, phase, todo, devices, os>>
  BY DEF ApplyHosts, rvars, wvars
<1>2. Answered(p)'
  BY <1>1 DEF Steady, Answered, Routed, Known
<1>3. Flagged(p)'
  <2>1. Wanted(p)' <=> Wanted(p)
    BY <1>1 DEF Wanted
  <2>2. PeerVisited(p)' => PeerVisited(p)
    BY <1>1 DEF PeerVisited
  <2> QED BY <1>1, <2>1, <2>2, SameRoutes, SameFlagged DEF Steady
<1> QED BY <1>2, <1>3

\* the route of a peer whose list is applied
LEMMA PeerDevs ==
  ASSUME NEW e, NEW a, "Disabled" \notin e.flags,
         kernel[a] \in Iface => kernel[a] = e.ifname /\ e.ifname \in DOMAIN os,
         R!PeerDev(e, a) \in Iface
  PROVE  /\ R!PeerDev(e, a) = e.ifname /\ e.ifname \in DOMAIN os
         /\ "AddPending" \in e.flags \/ (kernel[a] \in Iface /\ "DelPending" \notin e.flags)
<1>1. CASE "AddPending" \in e.flags
  <2>1. R!PeerDev(e, a) = R!Added(kernel, a, e.ifname)
    BY <1>1 DEF R!PeerDev
  <2>2. R!PeerDev(e, a) = kernel[a] \/ (R!PeerDev(e, a) = e.ifname /\ e.ifname \in DOMAIN os)
    BY <2>1 DEF R!Added, R!NC!RouteAdd, R!NC!RouteAddFails
  <2> QED BY <1>1, <2>2
<1>2. CASE "AddPending" \notin e.flags /\ "DelPending" \in e.flags
  <2>1. R!PeerDev(e, a) = R!NC!RouteDel(kernel[a], e.ifname, DOMAIN os)
    BY <1>2 DEF R!PeerDev
  <2>2. \/ R!PeerDev(e, a) = NoRoute
        \/ R!PeerDev(e, a) = kernel[a] /\ ~(kernel[a] = e.ifname /\ e.ifname \in DOMAIN os)
    BY <2>1 DEF R!NC!RouteDel
  <2> QED BY <2>2, NullAssumption
<1>3. CASE "AddPending" \notin e.flags /\ "DelPending" \notin e.flags
  BY <1>3 DEF R!PeerDev
<1> QED BY <1>1, <1>2, <1>3

LEMMA PeerRoutes ==
  ASSUME NEW pl, NEW a \in Addr, kernel' = R!ApplyPeerDevs(pl)
  PROVE  kernel'[a] = IF a \in DOMAIN pl THEN R!PeerDev(pl[a], a) ELSE kernel[a]
  BY DEF R!ApplyPeerDevs

\* another group, or one without the peer
LEMMA PeersStepElsewhere ==
  ASSUME LoopsInside, NEW p \in Sole, Steady(p), NEW g, NEW pl, PeersStep(g, pl),
         Applicable(g, pl), stage' # "idle" => job' # "none", phase \in {"apply", "close"},
         g # p.gid \/ ~Known(p)
  PROVE  SamePeer(p) /\ kernel'[p.gw] = kernel[p.gw]
<1>1. /\ g \in DOMAIN routes /\ DOMAIN routes' = DOMAIN routes
      /\ routes'[g].peers = R!ApplyPeerList(pl)
      /\ \A h \in DOMAIN routes : h # g => routes'[h] = routes[h]
  BY PeersStepInside DEF Applicable
<1>2. p.gw \notin DOMAIN pl
  BY <1>1 DEF Applicable, Steady, Apart, Known
<1>3. kernel'[p.gw] = kernel[p.gw]
  BY <1>2, SolePeers, PeerRoutes DEF PeersStep
<1>4. p.gw \notin DOMAIN routes'[g].peers
  BY <1>1, <1>2, AppliedPeers
<1>5. SamePeer(p)
  <2>1. CASE g = p.gid
    BY <1>1, <1>4, <2>1 DEF SamePeer, Known
  <2>2. CASE g # p.gid
    BY <1>1, <2>2, SamePeers
  <2> QED BY <2>1, <2>2
<1> QED BY <1>3, <1>5

\* the peer's own group
LEMMA PeersStepHere ==
  ASSUME LoopsInside, NEW p \in Sole, Steady(p), NEW pl, PeersStep(p.gid, pl),
         Applicable(p.gid, pl), stage' # "idle" => job' # "none", phase \in {"apply", "close"},
         Known(p)
  PROVE  /\ p.gw \in DOMAIN pl
         /\ Known(p)' <=> ~("DelPending" \in pl[p.gw].flags /\ "AddPending" \notin pl[p.gw].flags)
         /\ Known(p)' => Flags(p)' = {}
         /\ Routed(p)' => /\ kernel'[p.gw] = p.ifname /\ p.ifname \in DOMAIN os
                          /\ Known(p)'
<1>1. /\ p.gid \in DOMAIN routes /\ DOMAIN routes' = DOMAIN routes
      /\ routes'[p.gid].peers = R!ApplyPeerList(pl)
  BY PeersStepInside DEF Applicable
<1>2. /\ p.gw \in DOMAIN pl /\ pl[p.gw].ifname = p.ifname /\ "Disabled" \notin pl[p.gw].flags
  BY <1>1 DEF Applicable, Steady, Apart, Known, Flags
<1>3. R!PeerDropped(pl[p.gw]) <=> "DelPending" \in pl[p.gw].flags /\ "AddPending" \notin pl[p.gw].flags
  BY <1>2 DEF R!PeerDropped
<1>4. Known(p)' <=> ~("DelPending" \in pl[p.gw].flags /\ "AddPending" \notin pl[p.gw].flags)
  BY <1>1, <1>2, <1>3, AppliedPeers DEF Known
<1>5. Known(p)' => Flags(p)' = {}
  BY <1>1, <1>2, AppliedPeers DEF Known, Flags
<1>6. ASSUME Routed(p)'
      PROVE  /\ kernel'[p.gw] = p.ifname /\ p.ifname \in DOMAIN os
             /\ Known(p)'
  <2>1. kernel'[p.gw] = R!PeerDev(pl[p.gw], p.gw)
    BY <1>2, SolePeers, PeerRoutes DEF PeersStep
  <2>2. kernel[p.gw] \in Iface => kernel[p.gw] = p.ifname /\ p.ifname \in DOMAIN os
    BY DEF Steady, Answered, Routed
  <2> DEFINE e == pl[p.gw]
  <2>3. /\ "Disabled" \notin e.flags /\ e.ifname = p.ifname
        /\ kernel[p.gw] \in Iface => kernel[p.gw] = e.ifname /\ e.ifname \in DOMAIN os
        /\ R!PeerDev(e, p.gw) \in Iface
    BY <1>2, <1>6, <2>1, <2>2 DEF Routed
  <2> HIDE DEF e
  <2>4. /\ R!PeerDev(e, p.gw) = e.ifname /\ e.ifname \in DOMAIN os
        /\ "AddPending" \in e.flags \/ (kernel[p.gw] \in Iface /\ "DelPending" \notin e.flags)
    BY <2>3, PeerDevs
  <2> QED BY <1>4, <2>1, <2>3, <2>4 DEF e
<1> QED BY <1>2, <1>4, <1>5, <1>6

LEMMA ServiceStepSame ==
  ASSUME LoopsInside, NEW p \in Sole, Steady(p), NEW s, ServiceStep(s)
  PROVE  SamePeer(p) /\ kernel'[p.gw] = kernel[p.gw] /\ UNCHANGED <<phase, todo, job>>
<1>1. SamePeer(p)
  <2>1. /\ DOMAIN routes' = DOMAIN routes
        /\ \A g \in DOMAIN routes : routes'[g].peers = routes[g].peers
    BY DEF ServiceStep
  <2> QED BY <2>1, SamePeers
<1>2. s \in DOMAIN routes[loop.gid].services /\ loop.gid \in DOMAIN routes
  BY DEF ServiceStep, LoopsInside
<1>3. s # p.gw
  BY <1>2 DEF Steady, Apart
<1>4. kernel'[p.gw] = kernel[p.gw]
  BY <1>3, SolePeers DEF ServiceStep
<1> QED BY <1>1, <1>4 DEF ServiceStep

\* a step of the router that does not concern the peer, while Apply runs
LEMMA ApplyElsewhere ==
  ASSUME NEW p, Steady(p), stage = "routes", stage' = "routes", UNCHANGED <<closing, devices, os>>,
         SamePeer(p), kernel'[p.gw] = kernel[p.gw],
         Known(p) /\ PeerVisited(p)' => PeerVisited(p)
  PROVE  Flagged(p)' /\ Answered(p)'
<1>1. Wanted(p)' <=> Wanted(p)
  BY DEF Wanted
<1>2. Flagged(p)'
  BY <1>1, SameFlagged DEF Steady
<1>3. Answered(p)'
  BY DEF Steady, Answered, Routed, SamePeer
<1> QED BY <1>2, <1>3

LEMMA ApplyRoutesGateway ==
  ASSUME SInv, WInv, LoopsInside, NEW p \in Sole, Steady(p), ApplyRoutes
  PROVE  Flagged(p)' /\ Answered(p)'
<1>1. /\ stage = "routes" /\ job # "none" /\ closing = "no"
      /\ UNCHANGED <<closing, devices, os>>
      /\ stage' = IF job' = "none" THEN "idle" ELSE stage
  BY DEF ApplyRoutes, wvars, Steady, LoopsInside
<1>2. stage' # "idle" => job' # "none"
  BY <1>1
<1>3. CASE R!Apply
  <2>1. UNCHANGED <<routes, kernel, job>> /\ phase' = "apply" /\ todo' = DOMAIN routes
    BY <1>3 DEF R!Apply
  <2>2. ~(Known(p) /\ PeerVisited(p)')
    BY <1>1, <2>1 DEF Known, PeerVisited
  <2> QED BY <1>1, <2>1, <2>2, SameRoutes, ApplyElsewhere
<1>4. CASE R!EndPass
  <2>1. UNCHANGED <<kernel, job>> /\ phase = "apply" /\ todo = {}
    BY <1>4 DEF R!EndPass
  <2>2. /\ SameLists /\ \A g \in DOMAIN routes' : routes'[g] = routes[g]
        /\ \A g \in DOMAIN routes : DOMAIN routes[g].peers # {} => g \in DOMAIN routes'
    BY <1>2, <1>4, EndPassStep
  <2>3. SamePeer(p)
    BY <2>2 DEF SameLists, SamePeer, Known, Flags
  <2>4. PeerVisited(p)
    BY <2>1 DEF PeerVisited
  <2> QED BY <1>1, <2>1, <2>3, <2>4, ApplyElsewhere
<1>5. CASE R!EndResolve
  <2>1. /\ UNCHANGED <<routes, kernel>> /\ phase = "resolve"
    BY <1>5 DEF R!EndResolve
  <2>2. PeerVisited(p)
    BY <2>1 DEF PeerVisited
  <2>3. CASE job' = "none"
    <3>1. stage' = "idle" /\ (Wanted(p)' <=> Wanted(p))
      BY <1>1, <2>3 DEF Wanted
    <3>2. Flagged(p)'
      BY <1>1, <2>1, <2>2, <3>1, SameRoutes, SameFlagged DEF Steady
    <3>3. Routed(p) => Known(p) /\ Flags(p) = {}
      BY <1>1, <2>2 DEF Steady, Answered, Flagged
    <3>4. Routed(p) => Allowed(p, p.gw)
      <4>1. Routed(p) => Wanted(p)
        BY <1>1, <3>3 DEF Steady, Flagged
      <4> QED BY <4>1, SolePeers DEF WInv, WantedAllowed
    <3>5. Answered(p)'
      BY <1>1, <2>1, <3>1, <3>3, <3>4 DEF Steady, Answered, Routed, Known, Allowed
    <3> QED BY <3>2, <3>5
  <2>4. CASE job' # "none"
    BY <1>1, <2>1, <2>2, <2>4, SameRoutes, ApplyElsewhere
  <2> QED BY <2>3, <2>4
<1>6. ASSUME NEW g \in Gid, R!ApplyPeers(g)
      PROVE  Flagged(p)' /\ Answered(p)'
  <2> DEFINE pl == routes[g].peers
  <2>1. PeersStep(g, pl) /\ phase = "apply" /\ Applicable(g, pl)
    BY <1>6, ApplyPeersStep, ApplicableLists
  <2>2. UNCHANGED <<job, phase>> /\ todo' = todo \ {g} /\ stage' = "routes"
    BY <1>1, <2>1 DEF PeersStep
  <2>3. CASE g # p.gid \/ ~Known(p)
    <3>1. SamePeer(p) /\ kernel'[p.gw] = kernel[p.gw]
      BY <1>2, <2>1, <2>3, PeersStepElsewhere
    <3>2. Known(p) /\ PeerVisited(p)' => PeerVisited(p)
      BY <1>1, <2>2, <2>3 DEF PeerVisited
    <3> QED BY <1>1, <2>2, <3>1, <3>2, ApplyElsewhere
  <2>4. CASE g = p.gid /\ Known(p)
    <3>1. /\ p.gw \in DOMAIN pl
          /\ Known(p)' <=> ~("DelPending" \in pl[p.gw].flags /\ "AddPending" \notin pl[p.gw].flags)
          /\ Known(p)' => Flags(p)' = {}
          /\ Routed(p)' => /\ kernel'[p.gw] = p.ifname /\ p.ifname \in DOMAIN os
                           /\ Known(p)'
      BY <1>2, <2>1, <2>4, PeersStepHere
    <3>2. pl[p.gw].flags = Flags(p)
      BY <2>4 DEF Flags
    <3> HIDE DEF pl
    <3>3. Wanted(p)' <=> Known(p)'
      <4>1. Wanted(p)' <=> "DelPending" \notin Flags(p)
        BY <1>1, <2>4 DEF Steady, Flagged, Wanted
      <4>2. ~("AddPending" \in Flags(p) /\ "DelPending" \in Flags(p))
        BY <2>4 DEF Steady, Flagged
      <4> QED BY <3>1, <3>2, <4>1, <4>2
    <3>4. Flagged(p)'
      BY <3>1, <3>3 DEF Flagged
    <3>5. Answered(p)'
      BY <1>1, <2>2, <3>1 DEF Answered
    <3> QED BY <3>4, <3>5
  <2> QED BY <2>3, <2>4
<1>7. ASSUME NEW g \in Gid, R!ResolveIpConflict(g)
      PROVE  Flagged(p)' /\ Answered(p)'
  <2>1. UNCHANGED <<kernel, job>> /\ phase = "resolve" /\ stage' = "routes"
    BY <1>1, <1>7 DEF R!ResolveIpConflict
  <2>2. /\ DOMAIN routes' = DOMAIN routes
        /\ \A h \in DOMAIN routes :
             /\ DOMAIN routes'[h].peers = DOMAIN routes[h].peers
             /\ \A a \in DOMAIN routes[h].peers :
                  "Disabled" \notin routes[h].peers[a].flags =>
                    routes'[h].peers[a] = routes[h].peers[a]
    BY <1>2, <1>7, ResolveStep
  <2>3. SamePeer(p)
    BY <2>2 DEF SamePeer, Known, Flags, Steady, Apart
  <2>4. PeerVisited(p)
    BY <2>1 DEF PeerVisited
  <2> QED BY <1>1, <2>1, <2>3, <2>4, ApplyElsewhere
<1>8. ASSUME NEW s \in Addr,
             R!ApplySkip(s) \/ R!SetRoute(s) \/ R!ClearRoute(s) \/ R!MergeRoutes(s)
      PROVE  Flagged(p)' /\ Answered(p)'
  <2>1. SamePeer(p) /\ kernel'[p.gw] = kernel[p.gw] /\ UNCHANGED <<phase, todo, job>>
    BY <1>8, SkipStep, SetRouteStep, ClearRouteStep, MergeRoutesStep, ServiceStepSame
  <2>2. PeerVisited(p)' => PeerVisited(p)
    BY <1>1, <2>1 DEF PeerVisited
  <2> QED BY <1>1, <2>1, <2>2, ApplyElsewhere
<1> QED BY <1>3, <1>4, <1>5, <1>6, <1>7, <1>8 DEF ApplyRoutes

LEMMA PingRoundGateway ==
  ASSUME LoopsInside, NEW p \in Sole, Steady(p), PingRound
  PROVE  Flagged(p)' /\ Answered(p)'
<1>1. UNCHANGED <<stage, closing, left, devices, os>>
  BY PingRoundKeeps
<1>2. /\ SamePeer(p) /\ kernel'[p.gw] = kernel[p.gw]
      /\ PeerVisited(p)' => PeerVisited(p)
  <2>1. CASE R!PingProcess \/ R!EndReroute \/ \E g \in Gid : R!RerouteGroup(g)
    <3>1. UNCHANGED <<routes, kernel>> /\ phase' \notin {"apply", "resolve"}
      BY <2>1 DEF R!PingProcess, R!EndReroute, R!RerouteGroup
    <3> QED BY <1>1, <3>1, SameRoutes DEF PeerVisited
  <2>2. ASSUME NEW s \in Addr, R!RerouteService(s) \/ R!RerouteSkip(s)
        PROVE  /\ SamePeer(p) /\ kernel'[p.gw] = kernel[p.gw]
               /\ PeerVisited(p)' => PeerVisited(p)
    <3>1. SamePeer(p) /\ kernel'[p.gw] = kernel[p.gw] /\ UNCHANGED <<phase, todo, job>>
      BY <2>2, SkipStep, RerouteServiceStep, ServiceStepSame
    <3> QED BY <1>1, <3>1 DEF PeerVisited
  <2> QED BY <2>1, <2>2 DEF PingRound
<1>3. Flagged(p)'
  <2>1. Wanted(p)' <=> Wanted(p)
    BY <1>1 DEF Wanted
  <2> QED BY <1>1, <1>2, <2>1, SameFlagged DEF Steady
<1>4. Answered(p)'
  BY <1>1, <1>2 DEF Steady, Answered, Routed, SamePeer, Allowed
<1> QED BY <1>3, <1>4

LEMMA CloseHostsGateway ==
  ASSUME NEW p \in Sole, Steady(p), CloseHosts, ~torn'
  PROVE  Flagged(p)' /\ Answered(p)'
<1>1. /\ stage = "idle" /\ stage' = "idle" /\ closing' = "hosts"
      /\ UNCHANGED <<routes, kernel, phase, todo, os>>
  BY DEF CloseHosts, rvars, wvars
<1>2. PeerVisited(p)
  BY <1>1 DEF PeerVisited
<1>3. Flagged(p)'
  BY <1>1, <1>2, SameRoutes, SameFlagged DEF Steady
<1>4. Answered(p)'
  BY <1>1 DEF Steady, Answered, Routed, Allowed
<1> QED BY <1>3, <1>4

LEMMA CloseRouterGateway ==
  ASSUME LoopsInside, NEW p \in Sole, Steady(p), CloseRouter
  PROVE  Flagged(p)' /\ Answered(p)'
<1>1. /\ closing = "hosts" /\ closing' # "no" /\ stage = "idle" /\ stage' = "idle"
      /\ UNCHANGED os /\ PeerVisited(p) /\ PeerVisited(p)'
  BY DEF CloseRouter, wvars, Steady, PeerVisited
<1>2. SamePeer(p) /\ kernel'[p.gw] = kernel[p.gw] => Flagged(p)' /\ Answered(p)'
  <2> SUFFICES ASSUME SamePeer(p), kernel'[p.gw] = kernel[p.gw]
               PROVE  Flagged(p)' /\ Answered(p)'
    OBVIOUS
  <2>1. Flagged(p)'
    BY <1>1, SameFlagged DEF Steady
  <2>2. Answered(p)'
    BY <1>1 DEF Steady, Answered, Routed, Allowed
  <2> QED BY <2>1, <2>2
<1>3. CASE R!Close \/ R!EndClose
  BY <1>2, <1>3, SameRoutes DEF R!Close, R!EndClose
<1>4. ASSUME NEW g \in Gid, R!ClosePeers(g)
      PROVE  Flagged(p)' /\ Answered(p)'
  <2> DEFINE pl == R!FlushPeers(routes[g].peers)
  <2>1. PeersStep(g, pl) /\ phase = "close" /\ Applicable(g, pl)
    BY <1>4, ClosePeersStep, ApplicableLists
  <2>2. CASE g # p.gid \/ ~Known(p)
    BY <1>1, <1>2, <2>1, <2>2, PeersStepElsewhere
  <2>3. CASE g = p.gid /\ Known(p)
    <3>1. /\ p.gw \in DOMAIN pl
          /\ Known(p)' <=> ~("DelPending" \in pl[p.gw].flags /\ "AddPending" \notin pl[p.gw].flags)
          /\ Known(p)' => Flags(p)' = {}
          /\ Routed(p)' => Known(p)'
      BY <1>1, <2>1, <2>3, PeersStepHere
    <3>2. pl[p.gw].flags = {"DelPending"}
      <4>1. Flags(p) = {} /\ p.gw \in DOMAIN routes[g].peers
        BY <1>1, <2>3 DEF Steady, Flagged, Known
      <4> QED BY <2>3, <4>1, FlushedPeers DEF Flags
    <3> HIDE DEF pl
    <3>3. ~Known(p)' /\ ~Routed(p)'
      BY <3>1, <3>2
    <3> QED BY <1>1, <3>3 DEF Flagged, Answered
  <2> QED BY <2>2, <2>3
<1>5. ASSUME NEW s \in Addr, R!CloseService(s)
      PROVE  Flagged(p)' /\ Answered(p)'
  BY <1>2, <1>5, CloseServiceStep, ServiceStepSame
<1> QED BY <1>3, <1>4, <1>5 DEF CloseRouter

LEMMA CloseWireguardGateway ==
  ASSUME NEW p \in Sole, Steady(p), CloseWireguard
  PROVE  Flagged(p)' /\ Answered(p)'
<1>1. /\ closing = "router" /\ closing' = "done" /\ stage = "idle" /\ stage' = "idle"
      /\ UNCHANGED <<routes, phase, todo>>
      /\ \A i \in DOMAIN os' : i \in DOMAIN os /\ os'[i] = os[i]
  BY SameMaps DEF CloseWireguard, RouterCacheStays, W!Close, Without, wvars, Steady
<1>2. p.gw \in Addr /\ NoRoute \notin Iface
  BY SolePeers, NullAssumption
<1>3. Routed(p)' => kernel'[p.gw] = kernel[p.gw] /\ kernel[p.gw] \in DOMAIN os'
  BY <1>2 DEF CloseWireguard, KernelDropsRoutes, Routed
<1>4. PeerVisited(p)
  BY <1>1 DEF PeerVisited
<1>5. Flagged(p)'
  BY <1>1, <1>4, SameRoutes, SameFlagged DEF Steady
<1>6. Answered(p)'
  BY <1>1, <1>3 DEF Steady, Answered, Routed, Allowed
<1> QED BY <1>5, <1>6

LEMMA RestartGateway ==
  ASSUME NEW p \in Sole, Steady(p), Restart, ~torn'
  PROVE  Flagged(p)' /\ Answered(p)'
<1>1. /\ stage = "idle" /\ stage' = "idle" /\ routes' = EmptyMap /\ devices' = EmptyMap
      /\ UNCHANGED <<kernel, os>>
  BY DEF Restart
<1>2. ~Known(p)' /\ ~Wanted(p)'
  BY <1>1, NoDevice DEF Known, Wanted
<1>3. Flagged(p)'
  BY <1>2 DEF Flagged
<1>4. Answered(p)'
  BY <1>1 DEF Steady, Answered, Routed, Allowed
<1> QED BY <1>3, <1>4

LEMMA InitGInv == Init => GInv
<1> SUFFICES ASSUME Init
             PROVE  GInv
  OBVIOUS
<1>1. ASSUME NEW p \in Sole
      PROVE  Apart(p) /\ Flagged(p) /\ Answered(p)
  <2>1. ~Known(p) /\ ~Wanted(p) /\ ~Routed(p)
    BY NoDevice, SolePeers, NullAssumption DEF Init, Known, Wanted, Routed
  <2>2. Apart(p)
    BY <2>1, NoDevice DEF Init, Apart
  <2> QED BY <2>1, <2>2 DEF Flagged, Answered
<1>2. closing = "no"
  BY DEF Init
<1> QED BY <1>1, <1>2 DEF GInv

\* what is torn or blocked is not made whole, and Close tears a running message
LEMMA StepWhole ==
  ASSUME Whole', [Next]_vars
  PROVE  /\ Whole
         /\ (closing # "no" => stage = "idle") => (closing' # "no" => stage' = "idle")
<1>1. CASE ConfigInfo \/ WgConf
  BY <1>1 DEF ConfigInfo, WgConf, Whole
<1>2. CASE \E i \in Iface : CreateInterface(i)
  BY <1>2 DEF CreateInterface, mvars, Whole
<1>3. CASE \E q \in Peer : AddPeer(q) \/ RemovePeer(q)
  BY <1>3 DEF AddPeer, RemovePeer, Whole
<1>4. CASE ApplyWireguard \/ ApplyBlocks \/ ApplyLeftovers \/ ApplyHosts \/ ApplyRoutes
  BY <1>4 DEF ApplyWireguard, ApplyBlocks, ApplyLeftovers, ApplyHosts, ApplyRoutes, Whole
<1>5. CASE PingRound
  BY <1>5 DEF PingRound, mvars, Whole
<1>6. CASE CloseHosts
  BY <1>6 DEF CloseHosts, Whole
<1>7. CASE CloseRouter \/ CloseWireguard
  <2>1. closing # "no" /\ UNCHANGED <<stage, torn>>
    BY <1>7 DEF CloseRouter, CloseWireguard
  <2> QED BY <2>1 DEF Whole
<1>8. CASE Restart
  BY <1>8 DEF Restart, Whole
<1>9. CASE UNCHANGED vars
  BY <1>9 DEF vars, mvars, Whole
<1> QED BY <1>1, <1>2, <1>3, <1>4, <1>5, <1>6, <1>7, <1>8, <1>9 DEF Next, Message, Apply, Close

LEMMA StepGInv == SInv /\ WInv /\ LoopsInside /\ GInv /\ [Next]_vars => GInv'
<1> SUFFICES ASSUME SInv, WInv, LoopsInside, GInv, [Next]_vars
             PROVE  GInv'
  OBVIOUS
<1>1. \A p \in Sole : Apart(p)'
  BY StepApart DEF GInv
<1>2. ASSUME Whole'
      PROVE  /\ closing' # "no" => stage' = "idle"
             /\ \A p \in Sole : Flagged(p)' /\ Answered(p)'
  <2>1. Whole
    BY <1>2, StepWhole
  <2>2. closing # "no" => stage = "idle"
    BY <2>1 DEF GInv
  <2>3. (closing' # "no" => stage' = "idle") /\ ~torn'
    BY <1>2, <2>2, StepWhole DEF Whole
  <2>4. ASSUME NEW p \in Sole
        PROVE  Flagged(p)' /\ Answered(p)'
    <3>1. Steady(p)
      BY <2>1, <2>2 DEF GInv, Whole, Steady
    <3>2. CASE ConfigInfo
      BY <2>3, <3>1, <3>2, ConfigInfoGateway
    <3>3. CASE WgConf
      BY <2>3, <3>1, <3>3, WgConfGateway
    <3>4. ASSUME NEW i \in Iface, CreateInterface(i)
          PROVE  Flagged(p)' /\ Answered(p)'
      BY <3>1, <3>4, CreateInterfaceGateway
    <3>5. ASSUME NEW q \in Peer, AddPeer(q)
          PROVE  Flagged(p)' /\ Answered(p)'
      BY <3>1, <3>5, AddPeerGateway
    <3>6. ASSUME NEW q \in Peer, RemovePeer(q)
          PROVE  Flagged(p)' /\ Answered(p)'
      BY <3>1, <3>6, RemovePeerGateway
    <3>7. CASE ApplyWireguard
      BY <3>1, <3>7, ApplyWireguardGateway
    <3>8. ~ApplyBlocks
      BY <1>2 DEF ApplyBlocks, Whole
    <3>9. CASE ApplyLeftovers
      BY <3>1, <3>9, ApplyLeftoversGateway
    <3>10. CASE ApplyHosts
      BY <3>1, <3>10, ApplyHostsGateway
    <3>11. CASE ApplyRoutes
      BY <3>1, <3>11, ApplyRoutesGateway
    <3>12. CASE PingRound
      BY <3>1, <3>12, PingRoundGateway
    <3>13. CASE CloseHosts
      BY <2>3, <3>1, <3>13, CloseHostsGateway
    <3>14. CASE CloseRouter
      BY <3>1, <3>14, CloseRouterGateway
    <3>15. CASE CloseWireguard
      BY <3>1, <3>15, CloseWireguardGateway
    <3>16. CASE Restart
      BY <2>3, <3>1, <3>16, RestartGateway
    <3>17. CASE UNCHANGED vars
      BY <3>1, <3>17 DEF vars, rvars, wvars, mvars, Steady, Flagged, Answered, Routed, Known,
         Flags, PeerVisited, Wanted, Allowed
    <3> QED BY <3>2, <3>3, <3>4, <3>5, <3>6, <3>7, <3>8, <3>9, <3>10, <3>11, <3>12, <3>13,
               <3>14, <3>15, <3>16, <3>17 DEF Next, Message, Apply, Close
  <2> QED BY <2>3, <2>4
<1> QED BY <1>1, <1>2 DEF GInv

(***************************************************************************)
(* Once a message is done, the address of a peer that is gone has no route  *)
(* into a tunnel, for any peers, with any number of restarts, refused peers *)
(* and missing devices, as long as no message was cut off: a gateway that   *)
(* has a route is always either in the peer list of its group, or still     *)
(* allowed by WireGuard, or among what Apply has taken from it.             *)
(***************************************************************************)
THEOREM NoObsoleteRoute == Spec => []ObsoletePeersGone
<1>1. GInv => ObsoletePeersGone
  <2> SUFFICES ASSUME GInv, Quiet, ~torn, NEW p \in Peer, p.gw \in OwnGateway, Routed(p)
               PROVE  Known(p)
    BY DEF ObsoletePeersGone, Routed, Known
  <2>1. p \in Sole /\ Whole
    BY DEF Sole, Whole, Quiet
  <2> QED BY <2>1 DEF GInv, Answered, Quiet
<1>2. WInv /\ LoopsInside /\ GInv /\ SInv /\ [Next]_vars => (WInv /\ LoopsInside /\ GInv)'
  BY StepWInv, StepInside, StepGInv
<1>3. Init => WInv /\ LoopsInside /\ GInv
  BY InitWInv, InitInside, InitGInv
<1> QED BY <1>1, <1>2, <1>3, SyncedInvariance, PTL DEF Spec
=============================================================================
