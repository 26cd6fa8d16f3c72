---------------------------- MODULE RouterProofs ----------------------------
(***************************************************************************)
(* Proofs about the routing cache, for any groups, addresses and interfaces.*)
(*                                                                         *)
(* The inductive invariant is the type of the routing cache with every      *)
(* service's list a "good" one: one active entry at most, and none while    *)
(* the service is disabled.                                                 *)
(***************************************************************************)
EXTENDS Router, TLAPS

PartialFn(S, T) == UNION {[D -> T] : D \in SUBSET S}

Entries  == PartialFn(Addr, RouteEntry)
GoodList(rl) == /\ AtMostOneActive(rl.list)
                /\ rl.disabled => Having(rl.list, "Active") = {}
Lists    == {rl \in [disabled: BOOLEAN, list: Entries] : GoodList(rl)}
Peers    == PartialFn(Addr, PeerInfo)
Services == PartialFn(Addr, Lists)
Groups   == [peers: Peers, services: Services]

IInv == routes \in PartialFn(Gid, Groups) /\ ControlType

-----------------------------------------------------------------------------
LEMMA PartialFnDef ==
  ASSUME NEW S, NEW T, NEW f
  PROVE  f \in PartialFn(S, T) <=> /\ f = [x \in DOMAIN f |-> f[x]]
                                   /\ DOMAIN f \subseteq S
                                   /\ \A x \in DOMAIN f : f[x] \in T
<1>1. f \in PartialFn(S, T) <=> \E D \in SUBSET S : f \in [D -> T]
  BY DEF PartialFn
<1> QED BY <1>1

LEMMA IInvTypeOK == IInv => TypeOK
<1> SUFFICES ASSUME IInv PROVE RoutesType
  BY DEF IInv, TypeOK
<1>1. /\ IsMap(routes, Gid)
      /\ \A g \in DOMAIN routes : routes[g] \in Groups
  BY PartialFnDef DEF IInv, IsMap
<1>2. ASSUME NEW pl \in Peers PROVE PeersType(pl)
  BY PartialFnDef DEF Peers, PeersType, IsMap
<1>3. ASSUME NEW list \in Entries PROVE ListType(list)
  BY PartialFnDef DEF Entries, ListType, IsMap
<1>4. ASSUME NEW services \in Services PROVE ServicesType(services)
  <2>1. /\ IsMap(services, Addr)
        /\ \A s \in DOMAIN services : services[s] \in Lists
    BY PartialFnDef DEF Services, IsMap
  <2> QED BY <2>1, <1>3 DEF ServicesType, Lists
<1> QED BY <1>1, <1>2, <1>4 DEF RoutesType, Groups

LEMMA IInvLists ==
  IInv => \A g \in DOMAIN routes : \A s \in DOMAIN routes[g].services :
            GoodList(routes[g].services[s])
<1> SUFFICES ASSUME IInv, NEW g \in DOMAIN routes, NEW s \in DOMAIN routes[g].services
             PROVE  GoodList(routes[g].services[s])
  OBVIOUS
<1>1. routes[g] \in Groups
  BY PartialFnDef DEF IInv
<1>2. routes[g].services \in Services
  BY <1>1 DEF Groups
<1>3. routes[g].services[s] \in Lists
  BY <1>2, PartialFnDef DEF Services
<1> QED BY <1>3 DEF Lists

-----------------------------------------------------------------------------
(***************************************************************************)
(* What the operations of a route list preserve.                           *)
(***************************************************************************)
LEMMA PutPartialFn ==
  ASSUME NEW S, NEW T, NEW f \in PartialFn(S, T), NEW k \in S, NEW v \in T
  PROVE  Put(f, k, v) \in PartialFn(S, T)
<1>1. DOMAIN f \subseteq S /\ \A x \in DOMAIN f : f[x] \in T
  BY PartialFnDef
<1>2. /\ DOMAIN Put(f, k, v) = DOMAIN f \cup {k}
      /\ \A x \in DOMAIN f \cup {k} : Put(f, k, v)[x] = IF x = k THEN v ELSE f[x]
      /\ Put(f, k, v) = [x \in DOMAIN Put(f, k, v) |-> Put(f, k, v)[x]]
  BY DEF Put
<1> QED BY <1>1, <1>2, PartialFnDef

LEMMA EmptyPartialFn ==
  ASSUME NEW S, NEW T
  PROVE  EmptyMap \in PartialFn(S, T)
<1>1. /\ DOMAIN EmptyMap = {}
      /\ EmptyMap = [x \in DOMAIN EmptyMap |-> EmptyMap[x]]
  BY DEF EmptyMap
<1> QED BY <1>1, PartialFnDef

LEMMA RestrictPartialFn ==
  ASSUME NEW S, NEW T, NEW f \in PartialFn(S, T), NEW D \in SUBSET DOMAIN f
  PROVE  Restrict(f, D) \in PartialFn(S, T)
<1>1. DOMAIN f \subseteq S /\ \A x \in DOMAIN f : f[x] \in T
  BY PartialFnDef
<1>2. /\ DOMAIN Restrict(f, D) = D
      /\ \A x \in D : Restrict(f, D)[x] = f[x]
      /\ Restrict(f, D) = [x \in DOMAIN Restrict(f, D) |-> Restrict(f, D)[x]]
  BY DEF Restrict
<1> QED BY <1>1, <1>2, PartialFnDef

LEMMA EntryType ==
  ASSUME NEW list \in Entries
  PROVE  /\ list = [g \in DOMAIN list |-> list[g]]
         /\ DOMAIN list \subseteq Addr
         /\ \A g \in DOMAIN list : list[g] \in RouteEntry
BY PartialFnDef DEF Entries

LEMMA EntryIntro ==
  ASSUME NEW list, list = [g \in DOMAIN list |-> list[g]],
         DOMAIN list \subseteq Addr,
         \A g \in DOMAIN list : list[g] \in RouteEntry
  PROVE  list \in Entries
BY PartialFnDef DEF Entries

LEMMA ListIntro ==
  ASSUME NEW list \in Entries, NEW a, Having(list, "Active") \subseteq {a}
  PROVE  [disabled |-> FALSE, list |-> list] \in Lists
BY DEF Lists, GoodList, AtMostOneActive

LEMMA NewRouteListGood ==
  ASSUME NEW d \in BOOLEAN
  PROVE  NewRouteList(d) \in Lists
<1>1. EmptyMap \in Entries
  BY EmptyPartialFn DEF Entries
<1>2. Having(EmptyMap, "Active") = {}
  BY DEF Having, EmptyMap
<1> QED BY <1>1, <1>2 DEF NewRouteList, Lists, GoodList, AtMostOneActive

LEMMA GetActiveAll ==
  ASSUME NEW list, AtMostOneActive(list), NEW old \in GetActive(list)
  PROVE  Having(list, "Active") \subseteq {old}
BY DEF AtMostOneActive, GetActive

LEMMA ListAddGood ==
  ASSUME NEW rl \in Lists, NEW o \in NetPath
  PROVE  ListAdd(rl, o) \in Lists
<1> DEFINE list == rl.list
           e    == IF o.gw \in DOMAIN list
                   THEN WithFlags(list[o.gw], list[o.gw].flags \ {"PendingDel"})
                   ELSE [ifname |-> o.ifname, flags |-> {"PendingAdd"}]
           new  == Put(list, o.gw, e)
<1>1. /\ rl \in [disabled: BOOLEAN, list: Entries]
      /\ list \in Entries /\ o.gw \in Addr /\ o.ifname \in Iface
      /\ ListAdd(rl, o) = [disabled |-> rl.disabled, list |-> new]
  BY DEF Lists, NetPath, ListAdd
<1>2. /\ e \in RouteEntry
      /\ "Active" \in e.flags <=> o.gw \in Having(list, "Active")
  BY <1>1, EntryType DEF RouteEntry, RfFlags, WithFlags, Having
<1> HIDE DEF e
<1>3. new \in Entries
  BY <1>1, <1>2, PutPartialFn DEF Entries
<1>4. Having(new, "Active") = Having(list, "Active")
  BY <1>2 DEF Having, Put
<1> QED BY <1>1, <1>3, <1>4 DEF Lists, GoodList, AtMostOneActive

LEMMA MarkDelGood ==
  ASSUME NEW rl \in Lists, NEW S
  PROVE  MarkDel(rl, S) \in Lists
<1> DEFINE list == rl.list
           new  == MarkDel(rl, S).list
<1>0. /\ rl \in [disabled: BOOLEAN, list: Entries]
      /\ list \in Entries
      /\ MarkDel(rl, S) = [disabled |-> rl.disabled, list |-> new]
  BY DEF Lists, MarkDel
<1>1. new = [g \in DOMAIN list |-> IF g \in S
               THEN WithFlags(list[g], list[g].flags \cup {"PendingDel"}) ELSE list[g]]
  BY <1>0 DEF MarkDel
<1>2. \A g \in DOMAIN list : /\ new[g] \in RouteEntry
                             /\ "Active" \in new[g].flags <=> "Active" \in list[g].flags
  BY <1>0, <1>1, EntryType DEF RouteEntry, RfFlags, WithFlags
<1> HIDE DEF new
<1>3. new = [g \in DOMAIN new |-> new[g]] /\ DOMAIN new = DOMAIN list
  BY <1>1
<1>4. new \in Entries
  BY <1>0, <1>2, <1>3, EntryType, EntryIntro
<1>5. Having(new, "Active") = Having(list, "Active")
  BY <1>2, <1>3 DEF Having
<1> QED BY <1>0, <1>4, <1>5 DEF Lists, GoodList, AtMostOneActive

LEMMA ResetPendingEntries ==
  ASSUME NEW list \in Entries
  PROVE  /\ ResetPending(list) \in Entries
         /\ Having(ResetPending(list), "Active") = Having(list, "Active")
<1> DEFINE new == ResetPending(list)
<1>1. new = [g \in DOMAIN list |-> WithFlags(list[g], list[g].flags \ {"PendingAdd", "PendingDel"})]
  BY DEF ResetPending
<1>2. \A g \in DOMAIN list : /\ new[g] \in RouteEntry
                             /\ "Active" \in new[g].flags <=> "Active" \in list[g].flags
  BY <1>1, EntryType DEF RouteEntry, RfFlags, WithFlags
<1> HIDE DEF new
<1>3. new = [g \in DOMAIN new |-> new[g]] /\ DOMAIN new = DOMAIN list
  BY <1>1
<1>4. new \in Entries
  BY <1>2, <1>3, EntryType, EntryIntro
<1>5. Having(new, "Active") = Having(list, "Active")
  BY <1>2, <1>3 DEF Having
<1> QED BY <1>4, <1>5 DEF new

LEMMA MoveActiveEntries ==
  ASSUME NEW list \in Entries, NEW old, NEW new,
         Having(list, "Active") \subseteq {old}
  PROVE  /\ MoveActive(list, old, new) \in Entries
         /\ Having(MoveActive(list, old, new), "Active") \subseteq {new}
<1> DEFINE res == MoveActive(list, old, new)
<1>1. res = [g \in DOMAIN list |->
               WithFlags(list[g], (IF g = old THEN list[g].flags \ {"Active"} ELSE list[g].flags)
                                  \cup (IF g = new THEN {"Active"} ELSE {}))]
  BY DEF MoveActive
<1>2. \A g \in DOMAIN list : /\ res[g] \in RouteEntry
                             /\ "Active" \in res[g].flags =>
                                  g = new \/ (g # old /\ "Active" \in list[g].flags)
  BY <1>1, EntryType DEF RouteEntry, RfFlags, WithFlags
<1> HIDE DEF res
<1>3. res = [g \in DOMAIN res |-> res[g]] /\ DOMAIN res = DOMAIN list
  BY <1>1
<1>4. res \in Entries
  BY <1>2, <1>3, EntryType, EntryIntro
<1>5. Having(res, "Active") \subseteq {new}
  BY <1>2, <1>3 DEF Having
<1> QED BY <1>4, <1>5 DEF res

LEMMA RerouteListEntries ==
  ASSUME NEW list \in Entries, NEW new, NEW old,
         Having(list, "Active") \subseteq {old}
  PROVE  /\ RerouteList(list, new, old) \in Entries
         /\ Having(RerouteList(list, new, old), "Active") \subseteq {new}
BY MoveActiveEntries DEF RerouteList

LEMMA RestrictEntries ==
  ASSUME NEW list \in Entries, NEW D \in SUBSET DOMAIN list
  PROVE  /\ Restrict(list, D) \in Entries
         /\ Having(Restrict(list, D), "Active") \subseteq Having(list, "Active")
<1>1. Restrict(list, D) \in Entries
  BY RestrictPartialFn DEF Entries
<1> QED BY <1>1 DEF Having, Restrict

-----------------------------------------------------------------------------
(***************************************************************************)
(* The same for peer lists, services and groups.                           *)
(***************************************************************************)
LEMMA PeersType_ ==
  ASSUME NEW pl \in Peers
  PROVE  /\ pl = [a \in DOMAIN pl |-> pl[a]]
         /\ DOMAIN pl \subseteq Addr
         /\ \A a \in DOMAIN pl : pl[a] \in PeerInfo
BY PartialFnDef DEF Peers

LEMMA PeersIntro ==
  ASSUME NEW pl, pl = [a \in DOMAIN pl |-> pl[a]], DOMAIN pl \subseteq Addr,
         \A a \in DOMAIN pl : pl[a] \in PeerInfo
  PROVE  pl \in Peers
BY PartialFnDef DEF Peers

LEMMA AddPeerType ==
  ASSUME NEW pl \in Peers, NEW o \in NetPath, NEW d \in BOOLEAN
  PROVE  AddPeer(pl, o, d) \in Peers
<1> DEFINE old == IF o.gw \in DOMAIN pl THEN pl[o.gw].flags ELSE {}
           p   == [ifname |-> o.ifname,
                   flags  |-> ((old \cup {"AddPending"}) \ {"DelPending"})
                              \cup (IF d THEN {"Disabled"} ELSE {})]
<1>1. o.gw \in Addr /\ o.ifname \in Iface
  BY DEF NetPath
<1>2. old \subseteq PifFlags
  BY PeersType_ DEF PeerInfo
<1>3. p \in PeerInfo
  BY <1>1, <1>2 DEF PeerInfo, PifFlags
<1> HIDE DEF p
<1>4. Put(pl, o.gw, p) \in Peers
  BY <1>1, <1>3, PutPartialFn DEF Peers
<1> QED BY <1>4 DEF p, AddPeer

LEMMA SetFlagType ==
  ASSUME NEW pl \in Peers, NEW S, NEW f \in PifFlags
  PROVE  SetFlag(pl, S, f) \in Peers
<1> DEFINE new == SetFlag(pl, S, f)
<1>1. new = [a \in DOMAIN pl |-> IF a \in S THEN WithFlags(pl[a], pl[a].flags \cup {f})
                                            ELSE pl[a]]
  BY DEF SetFlag
<1>2. \A a \in DOMAIN pl : new[a] \in PeerInfo
  BY <1>1, PeersType_ DEF PeerInfo, WithFlags
<1> HIDE DEF new
<1>3. new = [a \in DOMAIN new |-> new[a]] /\ DOMAIN new = DOMAIN pl
  BY <1>1
<1>4. new \in Peers
  BY <1>2, <1>3, PeersType_, PeersIntro
<1> QED BY <1>4 DEF new

LEMMA FlushPeersType ==
  ASSUME NEW pl \in Peers
  PROVE  FlushPeers(pl) \in Peers
BY SetFlagType DEF FlushPeers, PifFlags

LEMMA ApplyPeerListType ==
  ASSUME NEW pl \in Peers
  PROVE  ApplyPeerList(pl) \in Peers
<1> DEFINE new == ApplyPeerList(pl)
<1>1. new = [a \in {b \in DOMAIN pl : ~PeerDropped(pl[b])} |->
               IF "Disabled" \in pl[a].flags THEN pl[a] ELSE WithFlags(pl[a], {})]
  BY DEF ApplyPeerList
<1>2. \A a \in DOMAIN new : new[a] \in PeerInfo
  BY <1>1, PeersType_ DEF PeerInfo, WithFlags
<1> HIDE DEF new
<1>3. new = [a \in DOMAIN new |-> new[a]] /\ DOMAIN new \subseteq DOMAIN pl
  BY <1>1
<1>4. new \in Peers
  BY <1>2, <1>3, PeersType_, PeersIntro
<1> QED BY <1>4 DEF new

LEMMA ServicesElim ==
  ASSUME NEW svc \in Services
  PROVE  /\ svc = [s \in DOMAIN svc |-> svc[s]]
         /\ DOMAIN svc \subseteq Addr
         /\ \A s \in DOMAIN svc : svc[s] \in Lists
BY PartialFnDef DEF Services

LEMMA ServicesIntro ==
  ASSUME NEW svc, svc = [s \in DOMAIN svc |-> svc[s]], DOMAIN svc \subseteq Addr,
         \A s \in DOMAIN svc : svc[s] \in Lists
  PROVE  svc \in Services
BY PartialFnDef DEF Services

LEMMA ServicesAddGood ==
  ASSUME NEW svc \in Services, NEW o \in NetPath, NEW S \in SUBSET Addr, NEW C
  PROVE  ServicesAdd(svc, o, S, C) \in Services
<1> DEFINE new == ServicesAdd(svc, o, S, C)
           Prev(s) == IF s \in DOMAIN svc THEN svc[s] ELSE NewRouteList(s \in C)
<1>1. new = [s \in DOMAIN svc \cup S |-> IF s \notin S THEN svc[s] ELSE ListAdd(Prev(s), o)]
  BY DEF ServicesAdd
<1>2. \A s \in S : Prev(s) \in Lists
  <2> SUFFICES ASSUME NEW s \in S, s \notin DOMAIN svc
               PROVE  NewRouteList(s \in C) \in Lists
    BY ServicesElim
  <2>1. (s \in C) \in BOOLEAN
    OBVIOUS
  <2>2. \A d \in BOOLEAN : NewRouteList(d) \in Lists
    BY NewRouteListGood
  <2> QED BY <2>1, <2>2
<1>3. \A s \in S : ListAdd(Prev(s), o) \in Lists
  <2> HIDE DEF Prev
  <2> QED BY <1>2, ListAddGood
<1>4. \A s \in DOMAIN svc \cup S : new[s] \in Lists
  <2> HIDE DEF Prev
  <2> QED BY <1>1, <1>3, ServicesElim
<1> HIDE DEF new
<1>5. new = [s \in DOMAIN new |-> new[s]] /\ DOMAIN new = DOMAIN svc \cup S
  BY <1>1
<1>6. new \in Services
  BY <1>4, <1>5, ServicesElim, ServicesIntro
<1> QED BY <1>6 DEF new

LEMMA ServicesDelGood ==
  ASSUME NEW svc \in Services, NEW gw, NEW S
  PROVE  /\ ServicesDel(svc, gw, S) \in Services
         /\ DOMAIN ServicesDel(svc, gw, S) = DOMAIN svc
<1> DEFINE new == ServicesDel(svc, gw, S)
<1>1. new = [s \in DOMAIN svc |-> IF s \in S THEN MarkDel(svc[s], {gw}) ELSE svc[s]]
  BY DEF ServicesDel
<1>2. \A s \in DOMAIN svc : MarkDel(svc[s], {gw}) \in Lists
  BY ServicesElim, MarkDelGood
<1>3. \A s \in DOMAIN svc : new[s] \in Lists
  BY <1>1, <1>2, ServicesElim
<1> HIDE DEF new
<1>4. new = [s \in DOMAIN new |-> new[s]] /\ DOMAIN new = DOMAIN svc
  BY <1>1
<1>5. new \in Services
  BY <1>3, <1>4, ServicesElim, ServicesIntro
<1> QED BY <1>4, <1>5 DEF new

LEMMA FlushServicesGood ==
  ASSUME NEW svc \in Services
  PROVE  FlushServices(svc) \in Services
<1> DEFINE new == FlushServices(svc)
<1>1. new = [s \in {t \in DOMAIN svc : ~svc[t].disabled} |->
               MarkDel(svc[s], DOMAIN svc[s].list)]
  BY DEF FlushServices
<1>2. \A s \in DOMAIN svc : MarkDel(svc[s], DOMAIN svc[s].list) \in Lists
  BY ServicesElim, MarkDelGood
<1>3. \A s \in DOMAIN new : new[s] \in Lists
  BY <1>1, <1>2
<1> HIDE DEF new
<1>4. new = [s \in DOMAIN new |-> new[s]] /\ DOMAIN new \subseteq DOMAIN svc
  BY <1>1
<1>5. new \in Services
  BY <1>3, <1>4, ServicesElim, ServicesIntro
<1> QED BY <1>5 DEF new

-----------------------------------------------------------------------------
(***************************************************************************)
(* The cache as a whole, the kernel's table and the loop.                  *)
(***************************************************************************)
Dev == Iface \cup {OtherDev, NoRoute}

LEMMA RoutesElim ==
  ASSUME IInv
  PROVE  /\ routes = [g \in DOMAIN routes |-> routes[g]]
         /\ DOMAIN routes \subseteq Gid
         /\ \A g \in DOMAIN routes : /\ routes[g].peers \in Peers
                                     /\ routes[g].services \in Services
                                     /\ routes[g] \in Groups
<1>1. /\ routes = [g \in DOMAIN routes |-> routes[g]]
      /\ DOMAIN routes \subseteq Gid
      /\ \A g \in DOMAIN routes : routes[g] \in Groups
  BY PartialFnDef DEF IInv
<1> QED BY <1>1 DEF Groups

LEMMA RoutesIntro ==
  ASSUME NEW r, r = [g \in DOMAIN r |-> r[g]], DOMAIN r \subseteq Gid,
         \A g \in DOMAIN r : r[g] \in Groups
  PROVE  r \in PartialFn(Gid, Groups)
BY PartialFnDef

LEMMA NewGroup ==
  ASSUME NEW pl \in Peers, NEW svc \in Services
  PROVE  [peers |-> pl, services |-> svc] \in Groups
BY DEF Groups

LEMMA NetcfgType ==
  ASSUME ControlType, NEW dev \in Dev, NEW i
  PROVE  /\ NC!RouteDel(dev, i, links) \in Dev
         /\ NC!RouteReplace(dev, i, links) \in Dev
BY DEF ControlType, Dev, NC!RouteDel, NC!RouteReplace

LEMMA AddedType ==
  ASSUME links \subseteq Iface, NEW table \in [Addr -> Dev], NEW a \in Addr, NEW i
  PROVE  Added(table, a, i) \in Dev
BY DEF Dev, Added, NC!RouteAdd, NC!RouteAddFails

LEMMA KernelType ==
  ASSUME ControlType
  PROVE  kernel \in [Addr -> Dev] /\ links \subseteq Iface
BY DEF ControlType, Dev

LEMMA ApplyPeerDevsType ==
  ASSUME ControlType, NEW pl
  PROVE  ApplyPeerDevs(pl) \in [Addr -> Dev]
<1>1. \A a \in Addr : kernel[a] \in Dev
  BY KernelType
<1>2. \A a \in Addr : PeerDev(pl[a], a) \in Dev
  BY <1>1, NetcfgType, AddedType, KernelType DEF PeerDev
<1> QED BY <1>1, <1>2 DEF ApplyPeerDevs

LEMMA RerouteDevType ==
  ASSUME ControlType, NEW s \in Addr, NEW list, NEW new, NEW old
  PROVE  RerouteDev(list, new, old, s) \in Dev
BY NetcfgType, AddedType, KernelType DEF RerouteDev

LEMMA KernelUpdate ==
  ASSUME ControlType, NEW s \in Addr, NEW dev \in Dev
  PROVE  [kernel EXCEPT ![s] = dev] \in [Addr -> Dev]
BY DEF ControlType, Dev

\* the service a running loop is at
LEMMA AtServiceElim ==
  ASSUME IInv, NEW p, NEW s, AtService(p, s)
  PROVE  /\ loop.gid \in DOMAIN routes
         /\ loop.todo \subseteq DOMAIN routes[loop.gid].services
         /\ s \in DOMAIN routes[loop.gid].services
         /\ s \in Addr
         /\ kernel[s] \in Dev
         /\ routes[loop.gid].services \in Services
         /\ ListAt(s) \in Lists
         /\ ListAt(s).list \in Entries
         /\ AtMostOneActive(ListAt(s).list)
<1>1. /\ loop.gid \in DOMAIN routes
      /\ loop.todo \subseteq DOMAIN routes[loop.gid].services
      /\ s \in DOMAIN routes[loop.gid].services
  BY DEF IInv, ControlType, LoopType, AtService
<1>2. routes[loop.gid].services \in Services
  BY <1>1, RoutesElim
<1>3. s \in Addr /\ ListAt(s) \in Lists
  BY <1>1, <1>2, ServicesElim DEF ListAt
<1>4. ListAt(s).list \in Entries /\ AtMostOneActive(ListAt(s).list)
  BY <1>3 DEF Lists, GoodList
<1>5. kernel[s] \in Dev
  BY <1>3 DEF IInv, ControlType, Dev
<1> QED BY <1>1, <1>2, <1>3, <1>4, <1>5

LEMMA AtServiceControl ==
  ASSUME IInv, NEW p \in {"apply", "reroute", "close"}, NEW s, AtService(p, s),
         kernel' \in [Addr -> Dev],
         DOMAIN routes' = DOMAIN routes,
         loop.todo \ {s} \subseteq DOMAIN routes'[loop.gid].services
  PROVE  ControlType'
<1>1. /\ loop \in [gid: DOMAIN routes, best: Addr \cup {NoAddr}, todo: SUBSET Addr]
      /\ phase' = phase /\ phase = p
  BY DEF IInv, ControlType, LoopType, AtService
<1>2. LoopType'
  BY <1>1 DEF LoopType, AtService, Loop
<1> QED BY <1>2 DEF IInv, ControlType, AtService, Dev

LEMMA UpdateGroup ==
  ASSUME IInv, NEW g \in DOMAIN routes, NEW group \in Groups,
         routes' = [routes EXCEPT ![g] = group]
  PROVE  /\ routes' \in PartialFn(Gid, Groups)
         /\ DOMAIN routes' = DOMAIN routes
         /\ \A h \in DOMAIN routes : routes'[h] = IF h = g THEN group ELSE routes[h]
<1>1. /\ DOMAIN routes' = DOMAIN routes
      /\ routes' = [h \in DOMAIN routes' |-> routes'[h]]
      /\ \A h \in DOMAIN routes : routes'[h] = IF h = g THEN group ELSE routes[h]
  BY RoutesElim
<1>2. \A h \in DOMAIN routes' : routes'[h] \in Groups
  BY <1>1, RoutesElim
<1> QED BY <1>1, <1>2, RoutesElim, RoutesIntro

LEMMA SetServicesGood ==
  ASSUME IInv, loop.gid \in DOMAIN routes, NEW svc \in Services, SetServices(svc)
  PROVE  /\ routes' \in PartialFn(Gid, Groups)
         /\ DOMAIN routes' = DOMAIN routes
         /\ routes'[loop.gid].services = svc
<1> DEFINE group == WithServices(routes[loop.gid], svc)
<1>1. group \in Groups /\ group.services = svc
  BY RoutesElim, NewGroup DEF WithServices
<1>2. routes' = [routes EXCEPT ![loop.gid] = group]
  BY DEF SetServices
<1> HIDE DEF group
<1> QED BY <1>1, <1>2, UpdateGroup

LEMMA SetListGood ==
  ASSUME IInv, NEW p, NEW s, AtService(p, s), ~ListAt(s).disabled,
         NEW list \in Entries, NEW a, Having(list, "Active") \subseteq {a},
         SetList(s, list)
  PROVE  /\ routes' \in PartialFn(Gid, Groups)
         /\ DOMAIN routes' = DOMAIN routes
         /\ DOMAIN routes'[loop.gid].services = DOMAIN routes[loop.gid].services
<1> DEFINE svc == routes[loop.gid].services
           rl  == [disabled |-> ListAt(s).disabled, list |-> list]
<1>1. /\ loop.gid \in DOMAIN routes /\ s \in DOMAIN svc /\ s \in Addr
      /\ svc \in Services /\ ListAt(s) \in Lists
  BY AtServiceElim
<1>2. rl \in Lists
  <2>1. ListAt(s).disabled = FALSE
    BY <1>1 DEF Lists
  <2> QED BY <2>1, ListIntro
<1> HIDE DEF rl
<1>3. Put(svc, s, rl) \in Services
  BY <1>1, <1>2, PutPartialFn DEF Services
<1>4. DOMAIN Put(svc, s, rl) = DOMAIN svc
  BY <1>1 DEF Put
<1>5. SetServices(Put(svc, s, rl))
  BY DEF SetList, rl
<1> QED BY <1>1, <1>3, <1>4, <1>5, SetServicesGood

LEMMA DropListGood ==
  ASSUME IInv, NEW p, NEW s, AtService(p, s), DropList(s)
  PROVE  /\ routes' \in PartialFn(Gid, Groups)
         /\ DOMAIN routes' = DOMAIN routes
         /\ DOMAIN routes'[loop.gid].services = DOMAIN routes[loop.gid].services \ {s}
<1> DEFINE svc == routes[loop.gid].services
           new == Restrict(svc, DOMAIN svc \ {s})
<1>1. loop.gid \in DOMAIN routes /\ svc \in Services
  BY AtServiceElim
<1>2. new \in Services /\ DOMAIN new = DOMAIN svc \ {s}
  BY <1>1, RestrictPartialFn DEF Services, Restrict
<1>3. SetServices(new)
  BY DEF DropList
<1> QED BY <1>1, <1>2, <1>3, SetServicesGood

-----------------------------------------------------------------------------
(***************************************************************************)
(* What the operations change.  A step of a service loop at service s       *)
(* changes the list of s and nothing else of the cache.                     *)
(***************************************************************************)
LEMMA SetServicesEffect ==
  ASSUME IInv, loop.gid \in DOMAIN routes, NEW svc, SetServices(svc)
  PROVE  /\ DOMAIN routes' = DOMAIN routes
         /\ \A h \in DOMAIN routes :
              /\ routes'[h].peers = routes[h].peers
              /\ routes'[h].services = IF h = loop.gid THEN svc ELSE routes[h].services
BY RoutesElim DEF SetServices, WithServices

LEMMA SetListEffect ==
  ASSUME IInv, NEW p, NEW s, AtService(p, s), NEW list, SetList(s, list)
  PROVE  /\ DOMAIN routes' = DOMAIN routes
         /\ \A h \in DOMAIN routes :
              /\ routes'[h].peers = routes[h].peers
              /\ DOMAIN routes'[h].services = DOMAIN routes[h].services
              /\ \A t \in DOMAIN routes[h].services :
                   routes'[h].services[t] = IF h = loop.gid /\ t = s
                     THEN [disabled |-> ListAt(s).disabled, list |-> list]
                     ELSE routes[h].services[t]
<1> DEFINE svc == routes[loop.gid].services
           new == Put(svc, s, [disabled |-> ListAt(s).disabled, list |-> list])
<1>1. loop.gid \in DOMAIN routes /\ s \in DOMAIN svc /\ SetServices(new)
  BY AtServiceElim DEF SetList
<1>2. /\ DOMAIN new = DOMAIN svc
      /\ \A t \in DOMAIN svc :
           new[t] = IF t = s THEN [disabled |-> ListAt(s).disabled, list |-> list] ELSE svc[t]
  BY <1>1 DEF Put
<1> HIDE DEF new
<1> QED BY <1>1, <1>2, SetServicesEffect

LEMMA DropListEffect ==
  ASSUME IInv, NEW p, NEW s, AtService(p, s), DropList(s)
  PROVE  /\ DOMAIN routes' = DOMAIN routes
         /\ \A h \in DOMAIN routes :
              /\ routes'[h].peers = routes[h].peers
              /\ DOMAIN routes'[h].services =
                   {t \in DOMAIN routes[h].services : ~(h = loop.gid /\ t = s)}
              /\ \A t \in DOMAIN routes'[h].services :
                   routes'[h].services[t] = routes[h].services[t]
<1> DEFINE svc == routes[loop.gid].services
           new == Restrict(svc, DOMAIN svc \ {s})
<1>1. loop.gid \in DOMAIN routes /\ SetServices(new)
  BY AtServiceElim DEF DropList
<1>2. DOMAIN new = DOMAIN svc \ {s} /\ \A t \in DOMAIN new : new[t] = svc[t]
  BY DEF Restrict
<1> HIDE DEF new
<1> QED BY <1>1, <1>2, SetServicesEffect

\* the loop after a step at s still has what it had to visit
LEMMA LoopGoesOn ==
  ASSUME IInv, NEW p, NEW s, AtService(p, s), NEW a, a # s, a \in loop.todo
  PROVE  loop' # NoLoop /\ loop'.gid = loop.gid /\ a \in loop'.todo
<1>1. /\ loop.gid \in Gid /\ loop.best \in Addr \cup {NoAddr} /\ loop.todo \subseteq Addr
  BY RoutesElim DEF IInv, ControlType, LoopType, AtService
<1>2. loop' = [gid |-> loop.gid, best |-> loop.best, todo |-> loop.todo \ {s}]
  BY DEF AtService, Loop
<1> QED BY <1>1, <1>2, NullAssumption

LEMMA ActiveIs ==
  ASSUME NEW list \in Entries, AtMostOneActive(list), NEW old \in GetActive(list)
  PROVE  \/ old = NoAddr /\ Having(list, "Active") = {}
         \/ old # NoAddr /\ old \in DOMAIN list /\ Having(list, "Active") = {old}
<1>1. DOMAIN list \subseteq Addr
  BY EntryType
<1> QED BY <1>1, NullAssumption DEF AtMostOneActive, GetActive, Having

LEMMA ResetPendingEffect ==
  ASSUME NEW list
  PROVE  /\ DOMAIN ResetPending(list) = DOMAIN list
         /\ \A gw \in DOMAIN list : ResetPending(list)[gw].ifname = list[gw].ifname
         /\ Having(ResetPending(list), "Active") = Having(list, "Active")
         /\ Unpending(ResetPending(list))
BY DEF ResetPending, WithFlags, Having, Unpending

LEMMA MoveActiveEffect ==
  ASSUME NEW list, NEW old, NEW new, Having(list, "Active") \subseteq {old}
  PROVE  /\ DOMAIN MoveActive(list, old, new) = DOMAIN list
         /\ \A gw \in DOMAIN list : MoveActive(list, old, new)[gw].ifname = list[gw].ifname
         /\ Having(MoveActive(list, old, new), "Active") = DOMAIN list \cap {new}
         /\ \A f \in {"PendingAdd", "PendingDel"} :
              Having(MoveActive(list, old, new), f) = Having(list, f)
BY DEF MoveActive, WithFlags, Having

LEMMA RerouteListEffect ==
  ASSUME NEW list, NEW old, NEW new, NoAddr \notin DOMAIN list,
         Having(list, "Active") = DOMAIN list \cap {old}
  PROVE  /\ DOMAIN RerouteList(list, new, old) = DOMAIN list
         /\ \A gw \in DOMAIN list : RerouteList(list, new, old)[gw].ifname = list[gw].ifname
         /\ Having(RerouteList(list, new, old), "Active") = DOMAIN list \cap {new}
         /\ \A f \in {"PendingAdd", "PendingDel"} :
              Having(RerouteList(list, new, old), f) = Having(list, f)
BY MoveActiveEffect DEF RerouteList

LEMMA SetPeersEffect ==
  ASSUME IInv, NEW g \in DOMAIN routes, NEW pl,
         routes' = [routes EXCEPT ![g] = WithPeers(routes[g], pl)]
  PROVE  /\ DOMAIN routes' = DOMAIN routes
         /\ \A h \in DOMAIN routes :
              /\ routes'[h].services = routes[h].services
              /\ routes'[h].peers = IF h = g THEN pl ELSE routes[h].peers
BY RoutesElim DEF WithPeers

\* flushing changes no interface and only adds the flag to delete
LEMMA FlushPeersEffect ==
  ASSUME NEW pl
  PROVE  /\ DOMAIN FlushPeers(pl) = DOMAIN pl
         /\ \A a \in DOMAIN pl : /\ FlushPeers(pl)[a].ifname = pl[a].ifname
                                 /\ FlushPeers(pl)[a].flags = pl[a].flags \cup {"DelPending"}
BY DEF FlushPeers, SetFlag, WithFlags

LEMMA MarkDelEffect ==
  ASSUME NEW rl, NEW S
  PROVE  /\ MarkDel(rl, S).disabled = rl.disabled
         /\ DOMAIN MarkDel(rl, S).list = DOMAIN rl.list
         /\ Having(MarkDel(rl, S).list, "Active") = Having(rl.list, "Active")
         /\ \A gw \in DOMAIN rl.list :
              /\ MarkDel(rl, S).list[gw].ifname = rl.list[gw].ifname
              /\ "PendingDel" \in MarkDel(rl, S).list[gw].flags <=>
                   gw \in S \/ "PendingDel" \in rl.list[gw].flags
BY DEF MarkDel, WithFlags, Having

LEMMA FlushServicesEffect ==
  ASSUME NEW svc, NEW s
  PROVE  /\ s \in DOMAIN FlushServices(svc) <=> s \in DOMAIN svc /\ ~svc[s].disabled
         /\ s \in DOMAIN FlushServices(svc) =>
              FlushServices(svc)[s] = MarkDel(svc[s], DOMAIN svc[s].list)
BY DEF FlushServices

LEMMA ListAddEffect ==
  ASSUME NEW rl, NEW o
  PROVE  LET new == ListAdd(rl, o)
         IN  /\ new.disabled = rl.disabled
             /\ DOMAIN new.list = DOMAIN rl.list \cup {o.gw}
             /\ \A gw \in DOMAIN rl.list :
                  /\ new.list[gw].ifname = rl.list[gw].ifname
                  /\ gw # o.gw => new.list[gw] = rl.list[gw]
             /\ o.gw \notin DOMAIN rl.list => new.list[o.gw].ifname = o.ifname
             /\ Having(new.list, "Active") = Having(rl.list, "Active")
BY DEF ListAdd, Put, WithFlags, Having

LEMMA ServicesAddEffect ==
  ASSUME NEW svc, NEW o, NEW S, NEW C, NEW s
  PROVE  /\ s \in DOMAIN ServicesAdd(svc, o, S, C) <=> s \in DOMAIN svc \/ s \in S
         /\ s \notin S /\ s \in DOMAIN svc => ServicesAdd(svc, o, S, C)[s] = svc[s]
         /\ s \in S /\ s \in DOMAIN svc => ServicesAdd(svc, o, S, C)[s] = ListAdd(svc[s], o)
         /\ s \in S /\ s \notin DOMAIN svc =>
              ServicesAdd(svc, o, S, C)[s] = ListAdd(NewRouteList(s \in C), o)
BY DEF ServicesAdd

LEMMA AddPeerEffect ==
  ASSUME NEW pl, NEW o, NEW d
  PROVE  LET new == AddPeer(pl, o, d)
         IN  /\ DOMAIN new = DOMAIN pl \cup {o.gw}
             /\ \A b \in DOMAIN pl \ {o.gw} : new[b] = pl[b]
             /\ new[o.gw].ifname = o.ifname
             /\ "AddPending" \in new[o.gw].flags /\ "DelPending" \notin new[o.gw].flags
             /\ "Disabled" \in new[o.gw].flags =>
                  d \/ (o.gw \in DOMAIN pl /\ "Disabled" \in pl[o.gw].flags)
BY DEF AddPeer, Put

-----------------------------------------------------------------------------
(***************************************************************************)
(* Every step preserves the invariant.                                     *)
(***************************************************************************)
LEMMA InitIInv == Init => IInv
<1> SUFFICES ASSUME Init PROVE IInv
  OBVIOUS
<1>1. routes \in PartialFn(Gid, Groups)
  BY EmptyPartialFn DEF Init
<1>2. ControlType
  <2>1. kernel \in [Addr -> Iface \cup {OtherDev, NoRoute}]
    BY DEF Init
  <2>2. iter \in 0..MaxIteration
    BY DEF Init, MaxIteration
  <2>3. LoopType /\ solved \in BOOLEAN /\ closed \in BOOLEAN
    BY DEF Init, LoopType
  <2> QED BY <2>1, <2>2, <2>3 DEF Init, ControlType
<1> QED BY <1>1, <1>2 DEF IInv

LEMMA IdleNoLoop ==
  ASSUME IInv, phase \in {"idle", "resolve"}
  PROVE  loop = NoLoop
BY DEF IInv, ControlType, LoopType

LEMMA ConfigInfoStep ==
  ASSUME IInv, ConfigInfo
  PROVE  IInv'
<1> DEFINE new(g) == [peers    |-> FlushPeers(routes[g].peers),
                      services |-> FlushServices(routes[g].services)]
<1>1. \A g \in DOMAIN routes : new(g) \in Groups
  BY RoutesElim, FlushPeersType, FlushServicesGood, NewGroup
<1>2. routes' = [g \in DOMAIN routes |-> new(g)]
  BY DEF ConfigInfo
<1> HIDE DEF new
<1>3. /\ DOMAIN routes' = DOMAIN routes
      /\ routes' = [g \in DOMAIN routes' |-> routes'[g]]
      /\ \A g \in DOMAIN routes' : routes'[g] \in Groups
  BY <1>1, <1>2
<1>4. routes' \in PartialFn(Gid, Groups)
  BY <1>3, RoutesElim, RoutesIntro
<1>5. ControlType'
  BY <1>3, IdleNoLoop DEF ConfigInfo, Settled, Idle, IInv, ControlType, LoopType
<1> QED BY <1>4, <1>5 DEF IInv

LEMMA RouteAddStep ==
  ASSUME IInv, NEW o \in Offer, RouteAdd(o)
  PROVE  IInv'
<1> DEFINE group     == FindOrCreate(o.gid)
           dests     == IF VpnClient THEN o.svc ELSE o.svc \ DefaultRoute
           conflicts == {a \in Addr : HasIpConflict(a, o.gid)}
           new       == [peers    |-> AddPeer(group.peers, o, o.gw \in conflicts),
                         services |-> ServicesAdd(group.services, o, dests, conflicts)]
<1>1. o \in NetPath /\ o.gid \in Gid /\ dests \in SUBSET Addr
  BY OfferAssumption DEF NetPath
<1>2. group.peers \in Peers /\ group.services \in Services
  <2>1. CASE o.gid \in DOMAIN routes
    BY <2>1, RoutesElim DEF FindOrCreate
  <2>2. CASE o.gid \notin DOMAIN routes
    BY <2>2, EmptyPartialFn DEF FindOrCreate, EmptyGroup, Peers, Services
  <2> QED BY <2>1, <2>2
<1>3. new \in Groups
  <2> HIDE DEF group, dests, conflicts
  <2>1. (o.gw \in conflicts) \in BOOLEAN
    OBVIOUS
  <2> DEFINE d == o.gw \in conflicts
  <2> HIDE DEF d
  <2>2. d \in BOOLEAN
    BY <2>1 DEF d
  <2>3. AddPeer(group.peers, o, d) \in Peers
    BY <1>1, <1>2, <2>2, AddPeerType
  <2>4. ServicesAdd(group.services, o, dests, conflicts) \in Services
    BY <1>1, <1>2, ServicesAddGood
  <2>5. [peers    |-> AddPeer(group.peers, o, d),
         services |-> ServicesAdd(group.services, o, dests, conflicts)] \in Groups
    BY <2>3, <2>4, NewGroup
  <2> QED BY <2>5 DEF d
<1>4. routes' = Put(routes, o.gid, new)
  BY DEF RouteAdd
<1> HIDE DEF new
<1>5. routes' \in PartialFn(Gid, Groups)
  BY <1>1, <1>3, <1>4, PutPartialFn DEF IInv
<1>6. DOMAIN routes \subseteq DOMAIN routes'
  BY <1>4 DEF Put
<1>7. ControlType'
  BY <1>6, IdleNoLoop DEF RouteAdd, Idle, IInv, ControlType, LoopType
<1> QED BY <1>5, <1>7 DEF IInv

LEMMA RouteDelStep ==
  ASSUME IInv, NEW r \in Removal, RouteDel(r)
  PROVE  IInv'
<1> DEFINE group == routes[r.gid]
           new   == [peers    |-> DelPeer(group.peers, r.gw),
                     services |-> ServicesDel(group.services, r.gw, r.svc)]
<1>1. group.peers \in Peers /\ group.services \in Services
  BY RoutesElim DEF RouteDel
<1>2. new \in Groups
  BY <1>1, SetFlagType, ServicesDelGood, NewGroup DEF DelPeer, PifFlags
<1>3. r.gid \in DOMAIN routes /\ routes' = [routes EXCEPT ![r.gid] = new]
  BY DEF RouteDel
<1> HIDE DEF new
<1>4. routes' \in PartialFn(Gid, Groups) /\ DOMAIN routes' = DOMAIN routes
  BY <1>2, <1>3, UpdateGroup
<1>5. ControlType'
  BY <1>4, IdleNoLoop DEF RouteDel, Idle, IInv, ControlType, LoopType
<1> QED BY <1>4, <1>5 DEF IInv

LEMMA ApplyPeersStep ==
  ASSUME IInv, NEW g, ApplyPeers(g)
  PROVE  IInv'
<1> DEFINE new == WithPeers(routes[g], ApplyPeerList(routes[g].peers))
<1>1. g \in DOMAIN routes
  BY DEF IInv, ControlType, ApplyPeers
<1>2. new \in Groups /\ new.services = routes[g].services
  BY <1>1, RoutesElim, ApplyPeerListType, NewGroup DEF WithPeers
<1>3. routes' = [routes EXCEPT ![g] = new]
  BY DEF ApplyPeers
<1> HIDE DEF new
<1>4. /\ routes' \in PartialFn(Gid, Groups)
      /\ DOMAIN routes' = DOMAIN routes
      /\ routes'[g].services = routes[g].services
  BY <1>1, <1>2, <1>3, UpdateGroup
<1>5. kernel' \in [Addr -> Dev]
  BY ApplyPeerDevsType DEF ApplyPeers, IInv
<1>6. LoopType'
  <2>1. PICK best \in BestPaths(ApplyPeerList(routes[g].peers)) :
               loop' = Loop(g, best, DOMAIN routes[g].services)
    BY DEF ApplyPeers
  <2>2. best \in Addr \cup {NoAddr}
    BY <1>1, RoutesElim, ApplyPeerListType, PeersType_ DEF BestPaths
  <2>3. DOMAIN routes[g].services \subseteq Addr
    BY <1>1, RoutesElim, ServicesElim
  <2> QED BY <1>1, <1>4, <2>1, <2>2, <2>3 DEF LoopType, Loop, ApplyPeers
<1>7. ControlType'
  BY <1>4, <1>5, <1>6 DEF ApplyPeers, IInv, ControlType, Dev
<1> QED BY <1>4, <1>7 DEF IInv

LEMMA ApplySkipStep ==
  ASSUME IInv, NEW s, ApplySkip(s)
  PROVE  IInv'
<1>1. AtService("apply", s) /\ routes' = routes /\ kernel' = kernel
  BY DEF ApplySkip
<1>2. ControlType'
  <2>1. kernel' \in [Addr -> Dev]
    BY <1>1 DEF IInv, ControlType, Dev
  <2>2. loop.todo \ {s} \subseteq DOMAIN routes'[loop.gid].services
    BY <1>1, AtServiceElim
  <2> QED BY <1>1, <2>1, <2>2, AtServiceControl
<1> QED BY <1>1, <1>2 DEF IInv

LEMMA RerouteSkipStep ==
  ASSUME IInv, NEW s, RerouteSkip(s)
  PROVE  IInv'
<1>1. AtService("reroute", s) /\ routes' = routes /\ kernel' = kernel
  BY DEF RerouteSkip
<1>2. ControlType'
  <2>1. kernel' \in [Addr -> Dev]
    BY <1>1 DEF IInv, ControlType, Dev
  <2>2. loop.todo \ {s} \subseteq DOMAIN routes'[loop.gid].services
    BY <1>1, AtServiceElim
  <2> QED BY <1>1, <2>1, <2>2, AtServiceControl
<1> QED BY <1>1, <1>2 DEF IInv

\* a step that replaces the list of the service the loop is at
LEMMA SetListStep ==
  ASSUME IInv, NEW p \in {"apply", "reroute", "close"}, NEW s, AtService(p, s),
         ~ListAt(s).disabled, kernel' \in [Addr -> Dev],
         NEW list \in Entries, NEW a, Having(list, "Active") \subseteq {a},
         SetList(s, list)
  PROVE  IInv'
<1>1. /\ routes' \in PartialFn(Gid, Groups)
      /\ DOMAIN routes' = DOMAIN routes
      /\ DOMAIN routes'[loop.gid].services = DOMAIN routes[loop.gid].services
  BY SetListGood
<1>2. loop.todo \ {s} \subseteq DOMAIN routes'[loop.gid].services
  BY <1>1, AtServiceElim
<1> QED BY <1>1, <1>2, AtServiceControl DEF IInv

\* a step that forgets the service the loop is at
LEMMA DropListStep ==
  ASSUME IInv, NEW p \in {"apply", "reroute", "close"}, NEW s, AtService(p, s),
         kernel' \in [Addr -> Dev], DropList(s)
  PROVE  IInv'
<1>1. /\ routes' \in PartialFn(Gid, Groups)
      /\ DOMAIN routes' = DOMAIN routes
      /\ DOMAIN routes'[loop.gid].services = DOMAIN routes[loop.gid].services \ {s}
  BY DropListGood
<1>2. loop.todo \ {s} \subseteq DOMAIN routes'[loop.gid].services
  BY <1>1, AtServiceElim
<1> QED BY <1>1, <1>2, AtServiceControl DEF IInv

LEMMA SetRouteStep ==
  ASSUME IInv, NEW s, SetRoute(s)
  PROVE  IInv'
<1> DEFINE list == ListAt(s).list
<1>1. /\ AtService("apply", s)
      /\ ~ListAt(s).disabled
      /\ list \in Entries /\ AtMostOneActive(list)
      /\ s \in Addr /\ kernel[s] \in Dev
  BY AtServiceElim DEF SetRoute
<1>2. ASSUME NEW old \in GetActive(list), NEW g
      PROVE  /\ ResetPending(MoveActive(list, old, g)) \in Entries
             /\ Having(ResetPending(MoveActive(list, old, g)), "Active") \subseteq {g}
  <2>1. Having(list, "Active") \subseteq {old}
    BY <1>1, GetActiveAll
  <2>2. /\ MoveActive(list, old, g) \in Entries
        /\ Having(MoveActive(list, old, g), "Active") \subseteq {g}
    BY <1>1, <2>1, MoveActiveEntries
  <2> QED BY <2>2, ResetPendingEntries
<1>3. kernel' \in [Addr -> Dev]
  <2>1. \/ kernel' = kernel
        \/ \E g, table : /\ table \in RoutedSince
                          /\ kernel' = [table EXCEPT ![s] = Added(table, s, list[g].ifname)]
    BY DEF SetRoute
  <2>2. RoutedSince \subseteq [Addr -> Dev]
    BY KernelType DEF IInv, RoutedSince, Dev
  <2>3. \A table \in RoutedSince : \A i : Added(table, s, i) \in Dev
    BY <1>1, <2>2, AddedType, KernelType DEF IInv
  <2> QED BY <1>1, <2>1, <2>2, <2>3, KernelType DEF IInv
<1>4. \/ SetList(s, ResetPending(list))
      \/ \E g : \E old \in GetActive(list) : SetList(s, ResetPending(MoveActive(list, old, g)))
  BY DEF SetRoute
<1>5. CASE SetList(s, ResetPending(list))
  <2>1. PICK old \in GetActive(list) : TRUE
    BY DEF GetActive
  <2>2. Having(ResetPending(list), "Active") \subseteq {old} /\ ResetPending(list) \in Entries
    BY <1>1, <2>1, GetActiveAll, ResetPendingEntries
  <2> QED BY <1>1, <1>3, <1>5, <2>2, SetListStep
<1>6. CASE \E g : \E old \in GetActive(list) : SetList(s, ResetPending(MoveActive(list, old, g)))
  <2>1. PICK g, old : old \in GetActive(list) /\ SetList(s, ResetPending(MoveActive(list, old, g)))
    BY <1>6
  <2> DEFINE new == ResetPending(MoveActive(list, old, g))
  <2>2. new \in Entries /\ Having(new, "Active") \subseteq {g}
    BY <1>2, <2>1
  <2>3. SetList(s, new)
    BY <2>1
  <2> HIDE DEF new, list
  <2> QED BY <1>1, <1>3, <2>2, <2>3, SetListStep
<1> QED BY <1>4, <1>5, <1>6

LEMMA ClearedDevType ==
  ASSUME ControlType, NEW dev \in Dev, NEW list, NEW active
  PROVE  ClearedDev(list, active, dev) \in Dev
BY NetcfgType DEF ClearedDev

LEMMA ClearRouteStep ==
  ASSUME IInv, NEW s, ClearRoute(s)
  PROVE  IInv'
<1>1. /\ AtService("apply", s) /\ DropList(s)
      /\ s \in Addr /\ kernel[s] \in Dev
  BY AtServiceElim DEF ClearRoute
<1>2. kernel' \in [Addr -> Dev]
  <2>1. PICK active :
          kernel' = [kernel EXCEPT ![s] = ClearedDev(ListAt(s).list, active, kernel[s])]
    BY DEF ClearRoute
  <2>2. ClearedDev(ListAt(s).list, active, kernel[s]) \in Dev
    BY <1>1, ClearedDevType DEF IInv
  <2> QED BY <1>1, <2>1, <2>2, KernelUpdate DEF IInv
<1> QED BY <1>1, <1>2, DropListStep

LEMMA MergeRoutesStep ==
  ASSUME IInv, NEW s, MergeRoutes(s)
  PROVE  IInv'
<1> DEFINE list == ListAt(s).list
           best == IF loop.best \in Kept(list) THEN loop.best ELSE NoAddr
           kept == ResetPending(Restrict(list, Kept(list)))
<1>1. /\ AtService("apply", s)
      /\ ~ListAt(s).disabled
      /\ list \in Entries /\ AtMostOneActive(list)
      /\ s \in Addr /\ kernel[s] \in Dev
  BY AtServiceElim DEF MergeRoutes
<1>2. PICK old \in GetActive(list) :
        /\ SetList(s, RerouteList(kept, best, old))
        /\ kernel' = [kernel EXCEPT ![s] = RerouteDev(list, best, old, s)]
  BY DEF MergeRoutes
<1>3. kept \in Entries /\ Having(kept, "Active") \subseteq {old}
  <2>1. Having(list, "Active") \subseteq {old}
    BY <1>1, GetActiveAll
  <2>2. Kept(list) \in SUBSET DOMAIN list
    BY DEF Kept
  <2>3. /\ Restrict(list, Kept(list)) \in Entries
        /\ Having(Restrict(list, Kept(list)), "Active") \subseteq {old}
    BY <1>1, <2>1, <2>2, RestrictEntries
  <2> QED BY <2>3, ResetPendingEntries
<1>4. RerouteDev(list, best, old, s) \in Dev
  BY <1>1, RerouteDevType DEF IInv
<1>5. kernel' \in [Addr -> Dev]
  BY <1>1, <1>2, <1>4, KernelUpdate DEF IInv
<1> HIDE DEF list, best, kept
<1>6. /\ RerouteList(kept, best, old) \in Entries
      /\ Having(RerouteList(kept, best, old), "Active") \subseteq {best}
  BY <1>3, RerouteListEntries
<1> QED BY <1>1, <1>2, <1>5, <1>6, SetListStep

LEMMA RerouteServiceStep ==
  ASSUME IInv, NEW s, RerouteService(s)
  PROVE  IInv'
<1> DEFINE list == ListAt(s).list
           best == IF loop.best \in DOMAIN list THEN loop.best ELSE NoAddr
<1>1. /\ AtService("reroute", s)
      /\ ~ListAt(s).disabled
      /\ list \in Entries /\ AtMostOneActive(list)
      /\ s \in Addr /\ kernel[s] \in Dev
  BY AtServiceElim DEF RerouteService
<1>2. PICK old \in GetActive(list) :
        /\ SetList(s, RerouteList(list, best, old))
        /\ kernel' = [kernel EXCEPT ![s] = RerouteDev(list, best, old, s)]
  BY DEF RerouteService
<1>3. RerouteDev(list, best, old, s) \in Dev
  BY <1>1, RerouteDevType DEF IInv
<1>4. kernel' \in [Addr -> Dev]
  BY <1>1, <1>2, <1>3, KernelUpdate DEF IInv
<1> HIDE DEF list, best
<1>5. /\ RerouteList(list, best, old) \in Entries
      /\ Having(RerouteList(list, best, old), "Active") \subseteq {best}
  BY <1>1, GetActiveAll, RerouteListEntries
<1> QED BY <1>1, <1>2, <1>4, <1>5, SetListStep

LEMMA CloseServiceStep ==
  ASSUME IInv, NEW s, CloseService(s)
  PROVE  IInv'
<1>1. /\ AtService("close", s) /\ DropList(s)
      /\ s \in Addr /\ kernel[s] \in Dev
  BY AtServiceElim DEF CloseService
<1>2. kernel' \in [Addr -> Dev]
  <2>1. CASE kernel' = kernel
    BY <2>1 DEF IInv, ControlType, Dev
  <2>2. CASE \E active :
          kernel' = [kernel EXCEPT ![s] = ClearedDev(ListAt(s).list, active, kernel[s])]
    <3>1. PICK active :
            kernel' = [kernel EXCEPT ![s] = ClearedDev(ListAt(s).list, active, kernel[s])]
      BY <2>2
    <3>2. ClearedDev(ListAt(s).list, active, kernel[s]) \in Dev
      BY <1>1, ClearedDevType DEF IInv
    <3> QED BY <1>1, <3>1, <3>2, KernelUpdate DEF IInv
  <2> QED BY <2>1, <2>2 DEF CloseService
<1> QED BY <1>1, <1>2, DropListStep

LEMMA EndPassStep ==
  ASSUME IInv, EndPass
  PROVE  IInv'
<1> DEFINE live == {g \in DOMAIN routes : DOMAIN routes[g].peers # {}}
<1>1. routes' = Restrict(routes, live) /\ todo' = live
  BY DEF EndPass
<1>2. routes' \in PartialFn(Gid, Groups)
  BY <1>1, RestrictPartialFn DEF IInv
<1>3. todo' \subseteq DOMAIN routes'
  BY <1>1 DEF Restrict
<1>4. ControlType'
  BY <1>3 DEF EndPass, IInv, ControlType, LoopType
<1> QED BY <1>2, <1>4 DEF IInv

LEMMA ResolveIpConflictStep ==
  ASSUME IInv, NEW g, ResolveIpConflict(g)
  PROVE  IInv'
<1> DEFINE pl    == routes[g].peers
           svc   == routes[g].services
           freeP == {a \in DOMAIN pl : "Disabled" \in pl[a].flags /\ ~HasIpConflict(a, g)}
           freeS == {s \in DOMAIN svc : svc[s].disabled /\ ~HasIpConflict(s, g)}
           newP  == [a \in DOMAIN pl |->
                       IF a \in freeP THEN WithFlags(pl[a], pl[a].flags \ {"Disabled"})
                                      ELSE pl[a]]
           newS  == [s \in DOMAIN svc |-> [disabled |-> svc[s].disabled /\ s \notin freeS,
                                           list     |-> svc[s].list]]
<1>1. g \in DOMAIN routes /\ pl \in Peers /\ svc \in Services
  BY RoutesElim DEF IInv, ControlType, ResolveIpConflict
<1>2. newP \in Peers
  <2> HIDE DEF freeP
  <2>1. \A a \in DOMAIN pl : newP[a] \in PeerInfo
    BY <1>1, PeersType_ DEF PeerInfo, WithFlags
  <2>2. newP = [a \in DOMAIN newP |-> newP[a]] /\ DOMAIN newP = DOMAIN pl
    OBVIOUS
  <2> HIDE DEF newP, pl
  <2> QED BY <1>1, <2>1, <2>2, PeersType_, PeersIntro
<1>3. newS \in Services
  <2> HIDE DEF freeS
  <2>1. \A s \in DOMAIN svc : newS[s] \in Lists
    <3> SUFFICES ASSUME NEW s \in DOMAIN svc PROVE newS[s] \in Lists
      OBVIOUS
    <3>1. svc[s] \in Lists
      BY <1>1, ServicesElim
    <3>2. newS[s] = [disabled |-> svc[s].disabled /\ s \notin freeS, list |-> svc[s].list]
      OBVIOUS
    <3> HIDE DEF newS, svc
    <3>3. CASE s \in freeS
      <4>1. newS[s] = [disabled |-> FALSE, list |-> svc[s].list]
        BY <3>2, <3>3
      <4> QED BY <3>1, <4>1 DEF Lists, GoodList
    <3>4. CASE s \notin freeS
      <4>1. newS[s] = svc[s]
        <5>1. svc[s] = [disabled |-> svc[s].disabled, list |-> svc[s].list]
              /\ svc[s].disabled \in BOOLEAN
          BY <3>1 DEF Lists
        <5>2. (svc[s].disabled /\ s \notin freeS) = svc[s].disabled
          BY <3>4, <5>1
        <5> QED BY <3>2, <5>1, <5>2
      <4> QED BY <3>1, <4>1
    <3> QED BY <3>3, <3>4
  <2>2. newS = [s \in DOMAIN newS |-> newS[s]] /\ DOMAIN newS = DOMAIN svc
    OBVIOUS
  <2> HIDE DEF newS, svc
  <2> QED BY <1>1, <2>1, <2>2, ServicesElim, ServicesIntro
<1> DEFINE group == [peers |-> newP, services |-> newS]
<1>4. routes' = [routes EXCEPT ![g] = group]
  BY DEF ResolveIpConflict
<1> HIDE DEF newP, newS
<1>5. group \in Groups
  BY <1>2, <1>3, NewGroup
<1> HIDE DEF group
<1>6. routes' \in PartialFn(Gid, Groups) /\ DOMAIN routes' = DOMAIN routes
  BY <1>1, <1>4, <1>5, UpdateGroup
<1>7. solved' \in BOOLEAN
  BY DEF ResolveIpConflict, IInv, ControlType
<1>8. ControlType'
  BY <1>6, <1>7, IdleNoLoop DEF ResolveIpConflict, IInv, ControlType, LoopType
<1> QED BY <1>6, <1>8 DEF IInv

LEMMA ClosePeersStep ==
  ASSUME IInv, NEW g, ClosePeers(g)
  PROVE  IInv'
<1> DEFINE pl  == FlushPeers(routes[g].peers)
           new == WithPeers(routes[g], ApplyPeerList(pl))
<1>1. g \in DOMAIN routes
  BY DEF IInv, ControlType, ClosePeers
<1>2. new \in Groups /\ new.services = routes[g].services
  BY <1>1, RoutesElim, FlushPeersType, ApplyPeerListType, NewGroup DEF WithPeers
<1>3. routes' = [routes EXCEPT ![g] = new]
  BY DEF ClosePeers
<1>4. kernel' \in [Addr -> Dev]
  BY ApplyPeerDevsType DEF ClosePeers, IInv
<1> HIDE DEF new
<1>5. /\ routes' \in PartialFn(Gid, Groups)
      /\ DOMAIN routes' = DOMAIN routes
      /\ routes'[g].services = routes[g].services
  BY <1>1, <1>2, <1>3, UpdateGroup
<1>6. LoopType'
  <2>1. DOMAIN routes[g].services \subseteq Addr
    BY <1>1, RoutesElim, ServicesElim
  <2> QED BY <1>1, <1>5, <2>1 DEF LoopType, Loop, ClosePeers
<1>7. ControlType'
  BY <1>4, <1>5, <1>6 DEF ClosePeers, IInv, ControlType, Dev
<1> QED BY <1>5, <1>7 DEF IInv

LEMMA RerouteGroupStep ==
  ASSUME IInv, NEW g, RerouteGroup(g)
  PROVE  IInv'
<1>1. g \in DOMAIN routes /\ routes' = routes
  BY DEF IInv, ControlType, RerouteGroup
<1>2. PICK best \in BestPaths(routes[g].peers) :
        loop' = Loop(g, best, DOMAIN routes[g].services)
  BY DEF RerouteGroup
<1>3. best \in Addr \cup {NoAddr} /\ DOMAIN routes[g].services \subseteq Addr
  BY <1>1, RoutesElim, PeersType_, ServicesElim DEF BestPaths
<1>4. LoopType'
  BY <1>1, <1>2, <1>3 DEF LoopType, Loop, RerouteGroup
<1>5. ControlType'
  BY <1>1, <1>4 DEF RerouteGroup, IInv, ControlType
<1> QED BY <1>1, <1>5 DEF IInv

\* the steps that only start or end a method, or only change the kernel
LEMMA ControlStep ==
  ASSUME IInv, routes' = routes,
         WgConf \/ Apply \/ EndResolve \/ PingProcess \/ EndReroute \/ Close \/ EndClose
  PROVE  IInv'
<1>1. kernel' = kernel /\ links' = links /\ loop' = loop
  BY DEF WgConf, Apply, EndResolve, PingProcess, EndReroute, Close, EndClose
<1>2. iter' \in 0..MaxIteration
  <2>1. CASE EndResolve
    BY <2>1 DEF EndResolve, IInv, ControlType, MaxIteration
  <2>2. CASE WgConf \/ Apply \/ PingProcess \/ EndReroute \/ Close \/ EndClose
    BY <2>2 DEF WgConf, Apply, PingProcess, EndReroute, Close, EndClose, IInv, ControlType,
                MaxIteration
  <2> QED BY <2>1, <2>2
<1>3. todo' \subseteq DOMAIN routes
  BY DEF WgConf, Apply, EndResolve, PingProcess, EndReroute, Close, EndClose, IInv, ControlType
<1>4. LoopType'
  <2>1. loop = NoLoop
    BY IdleNoLoop DEF WgConf, Settled, Idle, Apply, EndResolve, PingProcess, EndReroute, Close,
                      EndClose
  <2> QED BY <1>1, <2>1 DEF LoopType
<1>5. /\ job' \in {"none", "config", "wgconf"}
      /\ phase' \in {"idle", "apply", "resolve", "reroute", "close"}
      /\ solved' \in BOOLEAN /\ closed' \in BOOLEAN
  BY DEF WgConf, Apply, EndResolve, PingProcess, EndReroute, Close, EndClose, IInv, ControlType
<1> QED BY <1>1, <1>2, <1>3, <1>4, <1>5 DEF IInv, ControlType

LEMMA EnvironmentStep ==
  ASSUME IInv, Environment
  PROVE  IInv'
<1>1. /\ kernel' \in [Addr -> Iface \cup {OtherDev, NoRoute}]
      /\ links' \subseteq Iface
  BY DEF Environment, LinkDel, LinkAdd, ForeignAdd, ForeignDel, IInv, ControlType
<1>2. UNCHANGED <<routes, job, phase, iter, todo, loop, solved, closed>>
  BY DEF Environment, LinkDel, LinkAdd, ForeignAdd, ForeignDel
<1> QED BY <1>1, <1>2 DEF IInv, ControlType, LoopType

LEMMA StepIInv == IInv /\ [Next]_vars => IInv'
<1> SUFFICES ASSUME IInv, [Next]_vars PROVE IInv'
  OBVIOUS
<1>1. CASE Message
  BY <1>1, ConfigInfoStep, RouteAddStep, RouteDelStep, ControlStep DEF Message, WgConf
<1>2. CASE GroupStep
  BY <1>2, EndPassStep, ApplyPeersStep, ResolveIpConflictStep, RerouteGroupStep, ClosePeersStep,
     ControlStep
     DEF GroupStep, Apply, EndResolve, PingProcess, EndReroute, Close, EndClose
<1>3. CASE ServiceStep
  BY <1>3, ApplySkipStep, SetRouteStep, ClearRouteStep, MergeRoutesStep, RerouteServiceStep,
     RerouteSkipStep, CloseServiceStep DEF ServiceStep
<1>4. CASE Environment
  BY <1>4, EnvironmentStep
<1>5. CASE UNCHANGED vars
  BY <1>5 DEF vars, IInv, ControlType, LoopType
<1> QED BY <1>1, <1>2, <1>3, <1>4, <1>5 DEF Next

-----------------------------------------------------------------------------
LEMMA Invariance == Spec => []IInv
BY InitIInv, StepIInv, PTL DEF Spec

(***************************************************************************)
(* The type invariant of the routing cache, the kernel's table and the      *)
(* loops over them: no loop of the router ever visits a group or a service  *)
(* that is gone.                                                            *)
(***************************************************************************)
THEOREM TypeCorrect == Spec => []TypeOK
BY Invariance, IInvTypeOK, PTL

(***************************************************************************)
(* Whatever the controller sends, whichever peers are best and whichever    *)
(* kernel calls fail, a service has at most one active route.               *)
(***************************************************************************)
THEOREM AtMostOneRoute == Spec => []OneActive
<1>1. IInv => OneActive
  BY IInvLists DEF GoodList, OneActive
<1> QED BY <1>1, Invariance, PTL

(***************************************************************************)
(* A service disabled by an address conflict has no active route, so        *)
(* skipping it in Close, Flush and Reroute leaves nothing behind.           *)
(***************************************************************************)
THEOREM DisabledIsInactive == Spec => []DisabledHasNoRoute
<1>1. IInv => DisabledHasNoRoute
  BY IInvLists DEF GoodList, DisabledHasNoRoute
<1> QED BY <1>1, Invariance, PTL

(***************************************************************************)
(* Apply finishes what a controller message asked for: no conflict outlives *)
(* its cause, for any number of groups and any order in which they are      *)
(* visited, and nothing is left to be applied at an address that three      *)
(* groups at most contend for.                                              *)
(*                                                                         *)
(* One pass of resolveIpConflict is enough because resolving a conflict     *)
(* only ever creates conflicts: a destination that is enabled again is one  *)
(* more that HasAddress finds.  So what the pass left disabled in a group   *)
(* is still in conflict when the pass has been through the others.          *)
(***************************************************************************)

\* the groups that the pass in progress has been through
Resolved == phase = "resolve" => \A g \in DOMAIN routes \ todo : ConflictsHold(g)

\* between messages nothing undoes the last pass
Quiet == job = "none" /\ phase \in {"idle", "reroute"} =>
           \A g \in DOMAIN routes : ConflictsHold(g)

\* Close leaves nothing that could be in conflict
Emptied(g) ==
  /\ \A a \in DOMAIN routes[g].peers : "Disabled" \notin routes[g].peers[a].flags
  /\ \/ DOMAIN routes[g].services = {}
     \/ loop # NoLoop /\ loop.gid = g /\ DOMAIN routes[g].services = loop.todo

Closing == phase = "close" => \A g \in DOMAIN routes \ todo : Emptied(g)

CInv == IInv /\ Resolved /\ Quiet /\ Closing

-----------------------------------------------------------------------------
\* the precedence of & and | in peerlist.go makes HasPeer false for any peer
LEMMA NoPeerFound == \A pl, a : ~HasPeer(pl, a)
BY DEF HasPeer

LEMMA ConflictDef ==
  ASSUME NEW a, NEW g
  PROVE  HasIpConflict(a, g) <=>
           \E h \in DOMAIN routes \ {g} : HasAddress(routes[h].services, a)
BY NoPeerFound DEF HasIpConflict

LEMMA ConflictDefNext ==
  ASSUME NEW a, NEW g
  PROVE  HasIpConflict(a, g)' <=>
           \E h \in DOMAIN routes' \ {g} : HasAddress(routes'[h].services, a)
BY NoPeerFound DEF HasIpConflict

\* a step that takes no address away keeps the conflicts of what it leaves as it is
LEMMA ConflictsKept ==
  ASSUME DOMAIN routes' = DOMAIN routes, NEW g \in DOMAIN routes,
         ConflictsHold(g),
         \A h \in DOMAIN routes \ {g} : \A a :
           HasAddress(routes[h].services, a) => HasAddress(routes'[h].services, a),
         \A a \in DOMAIN routes'[g].peers :
           "Disabled" \in routes'[g].peers[a].flags =>
             a \in DOMAIN routes[g].peers /\ "Disabled" \in routes[g].peers[a].flags,
         \A s \in DOMAIN routes'[g].services :
           routes'[g].services[s].disabled =>
             s \in DOMAIN routes[g].services /\ routes[g].services[s].disabled
  PROVE  ConflictsHold(g)'
<1>1. \A a : HasIpConflict(a, g) => HasIpConflict(a, g)'
  BY ConflictDef, ConflictDefNext
<1> QED BY <1>1 DEF ConflictsHold

\* moving the active route changes nothing a conflict depends on
LEMMA RerouteKeepsPending ==
  ASSUME NEW list, NEW new, NEW old
  PROVE  /\ OnlyDels(RerouteList(list, new, old)) <=> OnlyDels(list)
         /\ Unpending(RerouteList(list, new, old)) <=> Unpending(list)
<1> DEFINE res == RerouteList(list, new, old)
<1>1. DOMAIN res = DOMAIN list
  BY DEF RerouteList, MoveActive
<1>2. \A g \in DOMAIN list : \A f \in {"PendingAdd", "PendingDel"} :
        f \in res[g].flags <=> f \in list[g].flags
  BY DEF RerouteList, MoveActive, WithFlags
<1> HIDE DEF res
<1>3. /\ Having(res, "PendingDel") = Having(list, "PendingDel")
      /\ Having(res, "PendingAdd") = Having(list, "PendingAdd")
  BY <1>1, <1>2 DEF Having
<1>4. (OnlyDels(res) <=> OnlyDels(list)) /\ (Unpending(res) <=> Unpending(list))
  BY <1>1, <1>3 DEF OnlyDels, Unpending
<1> QED BY <1>4 DEF res

-----------------------------------------------------------------------------
(***************************************************************************)
(* The actions, one lemma for those that matter.                           *)
(***************************************************************************)
LEMMA ResolveStep ==
  ASSUME CInv, NEW g, ResolveIpConflict(g)
  PROVE  Resolved'
<1> DEFINE pl    == routes[g].peers
           svc   == routes[g].services
           freeP == {a \in DOMAIN pl : "Disabled" \in pl[a].flags /\ ~HasIpConflict(a, g)}
           freeS == {s \in DOMAIN svc : svc[s].disabled /\ ~HasIpConflict(s, g)}
           newP  == [a \in DOMAIN pl |->
                       IF a \in freeP THEN WithFlags(pl[a], pl[a].flags \ {"Disabled"})
                                      ELSE pl[a]]
           newS  == [s \in DOMAIN svc |-> [disabled |-> svc[s].disabled /\ s \notin freeS,
                                           list     |-> svc[s].list]]
           group == [peers |-> newP, services |-> newS]
<1>1. /\ phase = "resolve" /\ g \in todo /\ todo' = todo \ {g}
      /\ routes' = [routes EXCEPT ![g] = group]
  BY DEF ResolveIpConflict
<1>2. g \in DOMAIN routes
  BY <1>1 DEF CInv, IInv, ControlType
<1>3. \A a \in DOMAIN newP : "Disabled" \in newP[a].flags =>
        "Disabled" \in pl[a].flags /\ HasIpConflict(a, g)
  BY DEF WithFlags
<1>4. \A s \in DOMAIN newS : newS[s].disabled => svc[s].disabled /\ HasIpConflict(s, g)
  OBVIOUS
<1>5. \A a : HasAddress(svc, a) => HasAddress(newS, a)
  BY DEF HasAddress
<1>6. DOMAIN newP = DOMAIN pl /\ DOMAIN newS = DOMAIN svc
  OBVIOUS
<1> HIDE DEF newP, newS
<1>7. /\ DOMAIN routes' = DOMAIN routes
      /\ routes'[g].peers = newP /\ routes'[g].services = newS
      /\ \A h \in DOMAIN routes \ {g} : routes'[h] = routes[h]
  BY <1>1, <1>2, RoutesElim DEF CInv
<1>8. \A h \in DOMAIN routes : \A a :
        HasAddress(routes[h].services, a) => HasAddress(routes'[h].services, a)
  BY <1>5, <1>7
<1>9. ConflictsHold(g)'
  <2>1. \A a : HasIpConflict(a, g) => HasIpConflict(a, g)'
    BY <1>7, <1>8, ConflictDef, ConflictDefNext
  <2> QED BY <1>3, <1>4, <1>7, <2>1 DEF ConflictsHold
<1>10. ASSUME NEW h \in DOMAIN routes \ todo, h # g
       PROVE  ConflictsHold(h)'
  <2>1. ConflictsHold(h)
    BY <1>1 DEF CInv, Resolved
  <2>2. routes'[h] = routes[h]
    BY <1>7, <1>10
  <2> QED BY <1>7, <1>8, <2>1, <2>2, ConflictsKept
<1> QED BY <1>1, <1>7, <1>9, <1>10 DEF Resolved

LEMMA EndResolveStep ==
  ASSUME CInv, EndResolve
  PROVE  Quiet'
<1>1. \A g \in DOMAIN routes : ConflictsHold(g)
  BY DEF EndResolve, CInv, Resolved
<1>2. routes' = routes
  BY DEF EndResolve
<1>3. \A g \in DOMAIN routes' : ConflictsHold(g)'
  BY <1>1, <1>2 DEF ConflictsHold, HasIpConflict
<1> QED BY <1>3 DEF Quiet

LEMMA RerouteQuiet ==
  ASSUME CInv, NEW s, RerouteService(s)
  PROVE  Quiet'
<1> DEFINE g    == loop.gid
           svc  == routes[g].services
           rl   == ListAt(s)
           best == IF loop.best \in DOMAIN rl.list THEN loop.best ELSE NoAddr
<1>1. /\ AtService("reroute", s) /\ ~rl.disabled /\ IInv
      /\ g \in DOMAIN routes /\ s \in DOMAIN svc /\ rl = svc[s]
  BY AtServiceElim DEF RerouteService, CInv, ListAt
<1>2. PICK old : SetList(s, RerouteList(rl.list, best, old))
  BY DEF RerouteService
<1> DEFINE new == [disabled |-> rl.disabled, list |-> RerouteList(rl.list, best, old)]
           all == Put(svc, s, new)
<1>3. /\ DOMAIN routes' = DOMAIN routes
      /\ \A h \in DOMAIN routes : /\ routes'[h].peers = routes[h].peers
                                  /\ routes'[h].services = IF h = g THEN all
                                                           ELSE routes[h].services
  <2>1. routes' = [routes EXCEPT ![g] = WithServices(routes[g], all)]
    BY <1>2 DEF SetList, SetServices
  <2> HIDE DEF all
  <2> QED BY <1>1, <2>1, RoutesElim DEF WithServices
<1>4. /\ DOMAIN all = DOMAIN svc
      /\ \A t \in DOMAIN svc : all[t] = IF t = s THEN new ELSE svc[t]
  BY <1>1 DEF Put
<1>5. new.disabled = rl.disabled /\ (OnlyDels(new.list) <=> OnlyDels(rl.list))
  BY RerouteKeepsPending
<1> HIDE DEF new, all
<1>6. \A t \in DOMAIN svc : all[t].disabled = svc[t].disabled
  BY <1>1, <1>4, <1>5
<1>7. \A a : HasAddress(svc, a) => HasAddress(all, a)
  BY <1>1, <1>4, <1>5 DEF HasAddress
<1>8. job' = job /\ phase' = phase /\ phase = "reroute"
  BY <1>1 DEF AtService
<1>9. SUFFICES ASSUME job = "none", NEW h \in DOMAIN routes
                PROVE  ConflictsHold(h)'
  BY <1>3, <1>8 DEF Quiet
<1>10. ConflictsHold(h)
  BY <1>8, <1>9 DEF CInv, Quiet
<1>11. \A k \in DOMAIN routes : \A a :
         HasAddress(routes[k].services, a) => HasAddress(routes'[k].services, a)
  BY <1>3, <1>7
<1>12. \A t \in DOMAIN routes'[h].services :
         routes'[h].services[t].disabled =>
           t \in DOMAIN routes[h].services /\ routes[h].services[t].disabled
  BY <1>3, <1>4, <1>6
<1> QED BY <1>3, <1>10, <1>11, <1>12, ConflictsKept

LEMMA ClosePeersClosing ==
  ASSUME CInv, NEW g, ClosePeers(g)
  PROVE  Closing'
<1> DEFINE pl  == FlushPeers(routes[g].peers)
           new == WithPeers(routes[g], ApplyPeerList(pl))
<1>1. /\ g \in DOMAIN routes /\ todo' = todo \ {g} /\ loop = NoLoop
      /\ phase = "close" /\ IInv
      /\ routes' = [routes EXCEPT ![g] = new]
      /\ loop' = Loop(g, NoAddr, DOMAIN routes[g].services)
  BY DEF CInv, IInv, ControlType, ClosePeers
<1>2. \A a \in DOMAIN ApplyPeerList(pl) : "Disabled" \notin ApplyPeerList(pl)[a].flags
  <2>1. \A a \in DOMAIN pl : "DelPending" \in pl[a].flags
    BY DEF FlushPeers, SetFlag, WithFlags
  <2> HIDE DEF pl
  <2> QED BY <2>1 DEF ApplyPeerList, PeerDropped, WithFlags
<1>3. new.services = routes[g].services /\ new.peers = ApplyPeerList(pl)
  BY DEF WithPeers
<1> HIDE DEF new
<1>4. /\ DOMAIN routes' = DOMAIN routes
      /\ \A h \in DOMAIN routes : routes'[h] = IF h = g THEN new ELSE routes[h]
  BY <1>1, RoutesElim
<1>5. Emptied(g)'
  <2>1. CASE DOMAIN routes[g].services = {}
    BY <1>1, <1>2, <1>3, <1>4, <2>1 DEF Emptied
  <2>2. CASE DOMAIN routes[g].services # {}
    <3>1. loop' # NoLoop
      <4>1. DOMAIN routes[g].services \subseteq Addr /\ g \in Gid
        BY <1>1, RoutesElim, ServicesElim
      <4> QED BY <1>1, <2>2, <4>1, NullAssumption DEF Loop
    <3>2. loop'.gid = g /\ loop'.todo = DOMAIN routes[g].services
      BY <1>1, <2>2 DEF Loop
    <3> QED BY <1>1, <1>2, <1>3, <1>4, <3>1, <3>2 DEF Emptied
  <2> QED BY <2>1, <2>2
<1>6. ASSUME NEW h \in DOMAIN routes \ todo, h # g
      PROVE  Emptied(h)'
  <2>1. Emptied(h)
    BY <1>1 DEF CInv, Closing
  <2> QED BY <1>1, <1>4, <1>6, <2>1 DEF Emptied
<1> QED BY <1>1, <1>4, <1>5, <1>6 DEF Closing

LEMMA CloseServiceClosing ==
  ASSUME CInv, NEW s, CloseService(s)
  PROVE  Closing'
<1>0. PICK g : g = loop.gid
  OBVIOUS
<1> DEFINE svc == routes[g].services
           new == Restrict(svc, DOMAIN svc \ {s})
<1>1. /\ AtService("close", s) /\ DropList(s) /\ IInv
      /\ g \in DOMAIN routes /\ s \in DOMAIN svc /\ s \in loop.todo
  BY <1>0, AtServiceElim DEF CloseService, CInv, AtService
<1>2. /\ phase = "close" /\ todo' = todo /\ loop # NoLoop
      /\ loop' = Loop(g, loop.best, loop.todo \ {s})
  BY <1>0, <1>1 DEF AtService
<1>3. DOMAIN new = DOMAIN svc \ {s}
  BY DEF Restrict
<1>4. /\ DOMAIN routes' = DOMAIN routes
      /\ \A h \in DOMAIN routes : /\ routes'[h].peers = routes[h].peers
                                  /\ routes'[h].services = IF h = g THEN new
                                                           ELSE routes[h].services
  <2>1. routes' = [routes EXCEPT ![g] = WithServices(routes[g], new)]
    BY <1>0, <1>1 DEF DropList, SetServices
  <2> HIDE DEF new
  <2> QED BY <1>1, <2>1, RoutesElim DEF WithServices
<1> HIDE DEF new
<1>5. ASSUME NEW h \in DOMAIN routes \ todo, h # g
      PROVE  Emptied(h)'
  <2>1. Emptied(h)
    BY <1>2 DEF CInv, Closing
  <2>2. DOMAIN routes[h].services = {}
    BY <1>0, <1>5, <2>1 DEF Emptied
  <2> QED BY <1>4, <1>5, <2>1, <2>2 DEF Emptied
<1>6. ASSUME g \notin todo
      PROVE  Emptied(g)'
  <2>1. Emptied(g)
    BY <1>1, <1>2, <1>6 DEF CInv, Closing
  <2>2. DOMAIN svc = loop.todo
    BY <1>0, <1>1, <2>1 DEF Emptied
  <2>3. DOMAIN routes'[g].services = loop.todo \ {s}
    BY <1>1, <1>3, <1>4, <2>2
  <2>4. CASE loop.todo \ {s} = {}
    BY <1>1, <1>4, <2>1, <2>3, <2>4 DEF Emptied
  <2>5. CASE loop.todo \ {s} # {}
    <3>1. loop' = [gid |-> g, best |-> loop.best, todo |-> loop.todo \ {s}]
      BY <1>2, <2>5 DEF Loop
    <3>2. loop' # NoLoop
      <4>1. /\ g \in Gid /\ loop.best \in Addr \cup {NoAddr}
            /\ loop.todo \subseteq Addr
        BY <1>0, <1>1, <1>2, RoutesElim DEF IInv, ControlType, LoopType
      <4> QED BY <3>1, <4>1, NullAssumption
    <3> QED BY <1>1, <1>4, <2>1, <2>3, <3>1, <3>2 DEF Emptied
  <2> QED BY <2>4, <2>5
<1> QED BY <1>2, <1>4, <1>5, <1>6 DEF Closing

LEMMA EndCloseQuiet ==
  ASSUME CInv, EndClose
  PROVE  Quiet'
<1>1. \A g \in DOMAIN routes : Emptied(g) /\ loop = NoLoop
  BY DEF EndClose, CInv, Closing
<1>2. routes' = routes
  BY DEF EndClose
<1>3. \A g \in DOMAIN routes' : ConflictsHold(g)'
  BY <1>1, <1>2 DEF Emptied, ConflictsHold
<1> QED BY <1>3 DEF Quiet

-----------------------------------------------------------------------------
LEMMA InitCInv == Init => CInv
BY InitIInv DEF Init, CInv, Resolved, Quiet, Closing, EmptyMap

\* the parts of the invariant, from what the actions do to the phase
LEMMA StepResolved ==
  ASSUME CInv, IInv', [Next]_vars
  PROVE  Resolved'
<1>1. CASE \E g \in Gid : ResolveIpConflict(g)
  BY <1>1, ResolveStep
<1>2. CASE EndPass
  <2>1. DOMAIN routes' = todo'
    BY <1>2 DEF EndPass, Restrict
  <2> QED BY <2>1 DEF Resolved
<1>3. CASE UNCHANGED <<routes, phase, todo>>
  BY <1>3 DEF CInv, Resolved, ConflictsHold, HasIpConflict
<1>4. CASE phase' # "resolve"
  BY <1>4 DEF Resolved
<1>5. CASE Message
  <2>1. phase' = "idle"
    BY <1>5 DEF Message, ConfigInfo, WgConf, RouteAdd, RouteDel, Settled, Idle
  <2> QED BY <2>1 DEF Resolved
<1>6. CASE ServiceStep
  <2>1. phase' # "resolve"
    BY <1>6 DEF ServiceStep, ApplySkip, SetRoute, ClearRoute, MergeRoutes, RerouteService,
                RerouteSkip, CloseService, AtService
  <2> QED BY <2>1 DEF Resolved
<1>7. CASE Environment
  BY <1>3, <1>7 DEF Environment, LinkDel, LinkAdd, ForeignAdd, ForeignDel
<1>8. CASE UNCHANGED vars
  BY <1>3, <1>8 DEF vars
<1>9. CASE GroupStep /\ ~EndPass /\ ~\E g \in Gid : ResolveIpConflict(g)
  <2>1. phase' # "resolve"
    BY <1>9 DEF GroupStep, Apply, EndResolve, PingProcess, EndReroute, Close, EndClose,
                ApplyPeers, RerouteGroup, ClosePeers, Idle
  <2> QED BY <2>1 DEF Resolved
<1> QED BY <1>1, <1>2, <1>5, <1>6, <1>7, <1>8, <1>9 DEF Next

LEMMA StepQuiet ==
  ASSUME CInv, [Next]_vars
  PROVE  Quiet'
<1>1. CASE EndResolve
  BY <1>1, EndResolveStep
<1>2. CASE EndClose
  BY <1>2, EndCloseQuiet
<1>3. CASE \E s \in Addr : RerouteService(s)
  BY <1>3, RerouteQuiet
<1>4. CASE /\ UNCHANGED <<routes, job>>
           /\ phase' \in {"idle", "reroute"} => phase \in {"idle", "reroute"}
  BY <1>4 DEF CInv, Quiet, ConflictsHold, HasIpConflict
<1>5. CASE Message
  <2>1. job' # "none"
    BY <1>5 DEF Message, ConfigInfo, WgConf, RouteAdd, RouteDel
  <2> QED BY <2>1 DEF Quiet
<1>6. CASE Environment \/ UNCHANGED vars
  BY <1>4, <1>6 DEF Environment, LinkDel, LinkAdd, ForeignAdd, ForeignDel, vars
<1>7. CASE PingProcess \/ EndReroute \/ \E s \in Addr : RerouteSkip(s)
  BY <1>4, <1>7 DEF PingProcess, EndReroute, RerouteSkip, AtService, Idle
<1>8. CASE \E g \in Gid : RerouteGroup(g)
  BY <1>4, <1>8 DEF RerouteGroup
<1>9. CASE Close
  <2>1. UNCHANGED <<routes, job>> /\ phase = "idle"
    BY <1>9 DEF Close, Idle
  <2> QED BY <1>4, <2>1
<1>10. CASE Apply \/ EndPass \/ \E g \in Gid : ApplyPeers(g) \/ ResolveIpConflict(g) \/ ClosePeers(g)
  <2>1. phase' \notin {"idle", "reroute"}
    BY <1>10 DEF Apply, EndPass, ApplyPeers, ResolveIpConflict, ClosePeers
  <2> QED BY <2>1 DEF Quiet
<1>11. CASE \E s \in Addr : ApplySkip(s) \/ SetRoute(s) \/ ClearRoute(s) \/ MergeRoutes(s)
                            \/ CloseService(s)
  <2>1. phase' \notin {"idle", "reroute"}
    BY <1>11 DEF ApplySkip, SetRoute, ClearRoute, MergeRoutes, CloseService, AtService
  <2> QED BY <2>1 DEF Quiet
<1> QED BY <1>1, <1>2, <1>3, <1>5, <1>6, <1>7, <1>8, <1>9, <1>10, <1>11
        DEF Next, GroupStep, ServiceStep

LEMMA StepClosing ==
  ASSUME CInv, [Next]_vars
  PROVE  Closing'
<1>1. CASE \E g \in Gid : ClosePeers(g)
  BY <1>1, ClosePeersClosing
<1>2. CASE \E s \in Addr : CloseService(s)
  BY <1>2, CloseServiceClosing
<1>3. CASE Close
  <2>1. phase' = "idle" \/ (todo' = DOMAIN routes /\ routes' = routes)
    BY <1>3 DEF Close, Idle
  <2> QED BY <2>1 DEF Closing
<1>4. CASE UNCHANGED <<routes, phase, todo, loop>>
  BY <1>4 DEF CInv, Closing, Emptied
<1>5. CASE Environment \/ UNCHANGED vars
  BY <1>4, <1>5 DEF Environment, LinkDel, LinkAdd, ForeignAdd, ForeignDel, vars
<1>6. CASE Message
  <2>1. phase' = "idle"
    BY <1>6 DEF Message, ConfigInfo, WgConf, RouteAdd, RouteDel, Settled, Idle
  <2> QED BY <2>1 DEF Closing
<1>7. CASE Apply \/ EndPass \/ EndResolve \/ PingProcess \/ EndReroute \/ EndClose
           \/ \E g \in Gid : ApplyPeers(g) \/ ResolveIpConflict(g) \/ RerouteGroup(g)
  <2>1. phase' # "close"
    BY <1>7 DEF Apply, EndPass, EndResolve, PingProcess, EndReroute, EndClose, ApplyPeers,
                ResolveIpConflict, RerouteGroup
  <2> QED BY <2>1 DEF Closing
<1>8. CASE \E s \in Addr : ApplySkip(s) \/ SetRoute(s) \/ ClearRoute(s) \/ MergeRoutes(s)
                           \/ RerouteService(s) \/ RerouteSkip(s)
  <2>1. phase' # "close"
    BY <1>8 DEF ApplySkip, SetRoute, ClearRoute, MergeRoutes, RerouteService, RerouteSkip,
                AtService
  <2> QED BY <2>1 DEF Closing
<1> QED BY <1>1, <1>2, <1>3, <1>5, <1>6, <1>7, <1>8 DEF Next, GroupStep, ServiceStep

LEMMA StepCInv == CInv /\ [Next]_vars => CInv'
<1> SUFFICES ASSUME CInv, [Next]_vars PROVE CInv'
  OBVIOUS
<1>1. IInv'
  BY StepIInv DEF CInv
<1> QED BY <1>1, StepResolved, StepQuiet, StepClosing DEF CInv

-----------------------------------------------------------------------------
(***************************************************************************)
(* Once a controller message is executed, every destination that is left    *)
(* disabled is in conflict with another group: the passes of Apply leave no *)
(* group waiting for an address that has become free.                       *)
(***************************************************************************)
THEOREM NoConflictOutlivesItsCause == Spec => []NoStaleConflict
<1>1. Spec => []CInv
  BY InitCInv, StepCInv, PTL DEF Spec
<1>2. CInv => NoStaleConflict
  BY DEF CInv, Quiet, NoStaleConflict, Settled, Idle
<1> QED BY <1>1, <1>2, PTL
-----------------------------------------------------------------------------
(***************************************************************************)
(* Three iterations are enough for three rivals.  When Apply starts, an     *)
(* address has two losers at most: there is an owner.  While an address is  *)
(* not held by a group that has been applied, each resolution takes one     *)
(* loser away; once it is held no resolution frees it any more.  So what    *)
(* the third resolution frees is nothing.                                   *)
(***************************************************************************)
\* what group g holds for an address: a peer or a service that is disabled, a
\* service that is enabled, and whether what is enabled has been applied
PeerOff(g, a) == a \in DOMAIN routes[g].peers /\ "Disabled" \in routes[g].peers[a].flags

ServiceOff(g, a) == a \in DOMAIN routes[g].services /\ routes[g].services[a].disabled

ServiceOn(g, a) == a \in DOMAIN routes[g].services /\ ~routes[g].services[a].disabled

PeerDone(g, a) ==
  a \in DOMAIN routes[g].peers => PeerOff(g, a) \/ routes[g].peers[a].flags = {}

ServiceDone(g, a) ==
  a \in DOMAIN routes[g].services => ServiceOff(g, a) \/ Unpending(routes[g].services[a].list)

AllDone(a) == \A g \in DOMAIN routes : PeerDone(g, a) /\ ServiceDone(g, a)

Losers(a) == {g \in DOMAIN routes : PeerOff(g, a) \/ ServiceOff(g, a)}

\* a group has the address for as long as Apply runs
Holder(g, a) ==
  /\ ServiceOn(g, a)
  /\ Unpending(routes[g].services[a].list)
  /\ DOMAIN routes[g].services[a].list # {}

Held(a) == \E g \in DOMAIN routes : Holder(g, a)

Few(S, n) ==
  \/ S = {}
  \/ n = 1 /\ \A x, y \in S : x = y
  \/ n = 2 /\ \A x, y, z \in S : x = y \/ y = z \/ x = z

Sourced(a) ==
  \A g \in DOMAIN routes :
    /\ a \in DOMAIN routes[g].peers => \E o \in Offer : o.gid = g /\ o.gw = a
    /\ a \in DOMAIN routes[g].services => \E o \in Offer : o.gid = g /\ a \in o.svc

Owned(a) ==
  phase \in {"idle", "reroute"} /\ Losers(a) # {} => \E k \in DOMAIN routes : ServiceOn(k, a)

Calm(a) == job = "none" /\ phase \in {"idle", "reroute", "close"} => AllDone(a)

PassDone(a) ==
  phase = "apply" => \A g \in DOMAIN routes \ todo :
    /\ PeerDone(g, a)
    /\ ServiceDone(g, a) \/ (loop # NoLoop /\ loop.gid = g /\ a \in loop.todo)

InPass(a) ==
  phase = "apply" =>
    /\ iter \in 1..MaxIteration
    /\ (iter > 1 /\ Held(a)) \/ Few(Losers(a), 3 - iter)

InResolve(a) ==
  phase = "resolve" =>
    /\ iter \in 1..MaxIteration
    /\ \/ AllDone(a) /\ (Held(a) \/ Few(Losers(a), 3 - iter))
       \/ iter < MaxIteration /\ Few(Losers(a), 2 - iter)

Unsolved(a) == phase = "resolve" /\ ~solved => AllDone(a)

\* only the first iteration drops peers, and with them groups
Staying(g) ==
  /\ phase = "resolve" \/ (phase = "apply" /\ (iter > 1 \/ g \notin todo)) =>
       \A a \in DOMAIN routes[g].peers : "DelPending" \notin routes[g].peers[a].flags
  /\ phase = "resolve" \/ (phase = "apply" /\ iter > 1) => DOMAIN routes[g].peers # {}

AddrInv(a) ==
  Owned(a) /\ Calm(a) /\ PassDone(a) /\ InPass(a) /\ InResolve(a) /\ Unsolved(a)

Progress ==
  /\ \A g \in DOMAIN routes : Staying(g)
  /\ \A a \in Addr : Sourced(a)
  /\ \A a \in Uncrowded : AddrInv(a)

PInv == CInv /\ Progress

-----------------------------------------------------------------------------
LEMMA FewSubset ==
  ASSUME NEW S, NEW T, S \subseteq T, NEW n, Few(T, n)
  PROVE  Few(S, n)
BY DEF Few

LEMMA FewLess ==
  ASSUME NEW S, NEW g \in S, NEW n \in 0..2, Few(S, n)
  PROVE  n > 0 /\ Few(S \ {g}, n - 1)
<1>1. CASE n = 1
  BY <1>1 DEF Few
<1>2. CASE n = 2
  <2>1. \A x, y \in S \ {g} : x = y
    BY <1>2 DEF Few
  <2> QED BY <1>2, <2>1 DEF Few
<1>3. n # 0
  BY DEF Few
<1> QED BY <1>1, <1>2, <1>3

\* an owner and two losers are all there can be
LEMMA OwnedIsFew ==
  ASSUME Progress, NEW a \in Uncrowded, NEW k \in DOMAIN routes, ServiceOn(k, a)
  PROVE  Few(Losers(a), 2)
<1>1. PICK x, y, z \in Gid : Rivals(a) \subseteq {x, y, z}
  BY DEF Uncrowded
<1>2. Sourced(a)
  BY DEF Progress, Uncrowded
<1>3. k \in Rivals(a) /\ Losers(a) \subseteq Rivals(a)
  BY <1>2 DEF Sourced, Rivals, Dests, Losers, PeerOff, ServiceOff, ServiceOn
<1>4. k \notin Losers(a)
  BY <1>2 DEF Sourced, Uncrowded, Losers, PeerOff, ServiceOff, ServiceOn
<1> QED BY <1>1, <1>3, <1>4 DEF Few

LEMMA HolderConflicts ==
  ASSUME NEW a, NEW g \in DOMAIN routes, Holder(g, a)
  PROVE  HasAddress(routes[g].services, a)
BY DEF Holder, ServiceOn, HasAddress, Unpending, OnlyDels

LEMMA AddressIsOn ==
  ASSUME NEW a, NEW g \in DOMAIN routes, HasAddress(routes[g].services, a)
  PROVE  ServiceOn(g, a) /\ (ServiceDone(g, a) => Holder(g, a))
BY DEF Holder, ServiceOn, ServiceOff, ServiceDone, HasAddress, Unpending, OnlyDels

\* who loses an address in conflict loses it to a group that has it
LEMMA LosersLose ==
  ASSUME NEW a, \A g \in DOMAIN routes : ConflictsHold(g), Losers(a) # {}
  PROVE  \E k \in DOMAIN routes : HasAddress(routes[k].services, a)
BY ConflictDef DEF Losers, PeerOff, ServiceOff, ConflictsHold


-----------------------------------------------------------------------------
(***************************************************************************)
(* Steps that leave the cache as it is.                                    *)
(***************************************************************************)
LEMMA SameStatus ==
  ASSUME NEW a, routes' = routes
  PROVE  /\ Losers(a)' = Losers(a)
         /\ AllDone(a)' <=> AllDone(a)
         /\ Held(a)' <=> Held(a)
         /\ Sourced(a)' <=> Sourced(a)
         /\ \A g \in DOMAIN routes : /\ PeerDone(g, a)' <=> PeerDone(g, a)
                                     /\ ServiceDone(g, a)' <=> ServiceDone(g, a)
                                     /\ ServiceOn(g, a)' <=> ServiceOn(g, a)
BY DEF Losers, AllDone, Held, Holder, Sourced, PeerDone, ServiceDone, ServiceOn, ServiceOff,
       PeerOff

LEMMA ElsewhereProgress ==
  ASSUME PInv, \/ WgConf \/ PingProcess \/ EndReroute \/ Close
               \/ \E g \in Gid : RerouteGroup(g)
               \/ \E s \in Addr : RerouteSkip(s)
  PROVE  Progress'
<1>1. /\ routes' = routes /\ phase' \in {"idle", "reroute", "close"}
      /\ phase \in {"idle", "reroute"}
      /\ job' = "none" => job = "none"
  BY DEF WgConf, PingProcess, EndReroute, Close, RerouteGroup, RerouteSkip, AtService, Settled,
         Idle
<1>2. \A g \in DOMAIN routes : Staying(g)'
  BY <1>1 DEF Staying
<1>3. \A a \in Addr : Sourced(a)'
  BY <1>1, SameStatus DEF PInv, Progress
<1>4. ASSUME NEW a \in Uncrowded PROVE AddrInv(a)'
  <2>1. Owned(a)' /\ Calm(a)'
    BY <1>1, SameStatus DEF PInv, Progress, AddrInv, Owned, Calm
  <2>2. PassDone(a)' /\ InPass(a)' /\ InResolve(a)' /\ Unsolved(a)'
    BY <1>1 DEF PassDone, InPass, InResolve, Unsolved
  <2> QED BY <2>1, <2>2 DEF AddrInv
<1> QED BY <1>1, <1>2, <1>3, <1>4 DEF Progress

LEMMA EnvironmentProgress ==
  ASSUME PInv, Environment \/ UNCHANGED vars
  PROVE  Progress'
<1>1. UNCHANGED <<routes, job, phase, iter, todo, loop, solved, closed>>
  BY DEF Environment, LinkDel, LinkAdd, ForeignAdd, ForeignDel, vars
<1>2. \A g \in DOMAIN routes : Staying(g)'
  BY <1>1 DEF PInv, Progress, Staying
<1>3. \A a \in Addr : Sourced(a)'
  BY <1>1, SameStatus DEF PInv, Progress
<1>4. ASSUME NEW a \in Uncrowded PROVE AddrInv(a)'
  <2>1. AddrInv(a)
    BY DEF PInv, Progress
  <2>2. Owned(a)' /\ Calm(a)' /\ Unsolved(a)'
    BY <1>1, <2>1, SameStatus DEF AddrInv, Owned, Calm, Unsolved
  <2>3. PassDone(a)'
    BY <1>1, <2>1, SameStatus DEF AddrInv, PassDone
  <2>4. InPass(a)' /\ InResolve(a)'
    BY <1>1, <2>1, SameStatus DEF AddrInv, InPass, InResolve, MaxIteration
  <2> QED BY <2>2, <2>3, <2>4 DEF AddrInv
<1> QED BY <1>1, <1>2, <1>3, <1>4 DEF Progress

LEMMA EndCloseProgress ==
  ASSUME PInv, EndClose
  PROVE  Progress'
<1>1. /\ routes' = routes /\ phase' = "idle" /\ phase = "close" /\ job' = job
      /\ todo = {} /\ loop = NoLoop
  BY DEF EndClose
<1>2. \A g \in DOMAIN routes : Staying(g)'
  BY <1>1 DEF Staying
<1>3. \A a \in Addr : Sourced(a)'
  BY <1>1, SameStatus DEF PInv, Progress
<1>4. ASSUME NEW a \in Uncrowded PROVE AddrInv(a)'
  <2>1. Calm(a)'
    BY <1>1, SameStatus DEF PInv, Progress, AddrInv, Calm
  <2>2. Losers(a) = {}
    BY <1>1 DEF PInv, CInv, Closing, Emptied, Losers, PeerOff, ServiceOff
  <2>3. Owned(a)'
    BY <1>1, <2>2, SameStatus DEF Owned
  <2>4. PassDone(a)' /\ InPass(a)' /\ InResolve(a)' /\ Unsolved(a)'
    BY <1>1 DEF PassDone, InPass, InResolve, Unsolved
  <2> QED BY <2>1, <2>3, <2>4 DEF AddrInv
<1> QED BY <1>1, <1>2, <1>3, <1>4 DEF Progress

\* the first iteration starts
LEMMA ApplyProgress ==
  ASSUME PInv, Apply
  PROVE  Progress'
<1>1. /\ routes' = routes /\ phase' = "apply" /\ phase = "idle" /\ job' = job
      /\ iter' = 1 /\ todo' = DOMAIN routes
  BY DEF Apply, Idle
<1>2. \A g \in DOMAIN routes : Staying(g)'
  BY <1>1 DEF Staying
<1>3. \A a \in Addr : Sourced(a)'
  BY <1>1, SameStatus DEF PInv, Progress
<1>4. ASSUME NEW a \in Uncrowded PROVE AddrInv(a)'
  <2>1. Owned(a)' /\ Calm(a)' /\ PassDone(a)' /\ InResolve(a)' /\ Unsolved(a)'
    BY <1>1 DEF Owned, Calm, PassDone, InResolve, Unsolved
  <2>2. Few(Losers(a), 2)
    <3>1. CASE Losers(a) = {}
      BY <3>1 DEF Few
    <3>2. CASE Losers(a) # {}
      BY <1>1, <3>2, OwnedIsFew DEF PInv, Progress, AddrInv, Owned
    <3> QED BY <3>1, <3>2
  <2>3. Losers(a)' = Losers(a)
    BY <1>1, SameStatus
  <2>4. InPass(a)'
    BY <1>1, <2>2, <2>3 DEF InPass, MaxIteration
  <2> QED BY <2>1, <2>4 DEF AddrInv
<1> QED BY <1>1, <1>2, <1>3, <1>4 DEF Progress

\* an iteration ends: another one starts, or the message is executed
LEMMA EndResolveProgress ==
  ASSUME PInv, EndResolve
  PROVE  Progress'
<1>1. /\ routes' = routes /\ phase = "resolve" /\ todo = {}
      /\ \/ phase' = "apply" /\ iter < 3 /\ iter' = iter + 1 /\ todo' = DOMAIN routes
         \/ phase' = "idle" /\ (~solved \/ iter = 3)
  BY DEF EndResolve, MaxIteration
<1>2. \A g \in DOMAIN routes : Staying(g)'
  BY <1>1 DEF PInv, Progress, Staying
<1>3. \A a \in Addr : Sourced(a)'
  BY <1>1, SameStatus DEF PInv, Progress
<1>4. ASSUME NEW a \in Uncrowded PROVE AddrInv(a)'
  <2>1. /\ iter \in 1..3 /\ AddrInv(a)
        /\ Losers(a)' = Losers(a) /\ (AllDone(a)' <=> AllDone(a)) /\ (Held(a)' <=> Held(a))
        /\ \A g \in DOMAIN routes : ServiceOn(g, a)' <=> ServiceOn(g, a)
    BY <1>1, SameStatus DEF PInv, Progress, AddrInv, InResolve, MaxIteration
  <2>2. Losers(a) # {} => \E k \in DOMAIN routes : HasAddress(routes[k].services, a)
    BY <1>1, LosersLose DEF PInv, CInv, Resolved
  <2>3. Owned(a)'
    BY <1>1, <2>1, <2>2, AddressIsOn DEF Owned
  <2>4. ~solved \/ iter = 3 => AllDone(a)
    BY <1>1, <2>1 DEF AddrInv, Unsolved, InResolve, MaxIteration
  <2>5. Calm(a)'
    BY <1>1, <2>1, <2>4 DEF Calm
  <2>6. InPass(a)'
    <3>1. SUFFICES ASSUME phase' = "apply" PROVE Held(a) \/ Few(Losers(a), 2 - iter)
      BY <1>1, <2>1 DEF InPass, MaxIteration
    <3>2. CASE AllDone(a)
      <4>1. Losers(a) = {} \/ Held(a)
        BY <2>2, <3>2, AddressIsOn DEF AllDone, Held
      <4> QED BY <4>1 DEF Few
    <3>3. CASE ~AllDone(a)
      BY <1>1, <2>1, <3>3 DEF AddrInv, InResolve
    <3> QED BY <3>2, <3>3
  <2>7. PassDone(a)' /\ InResolve(a)' /\ Unsolved(a)'
    BY <1>1 DEF PassDone, InResolve, Unsolved
  <2> QED BY <2>3, <2>5, <2>6, <2>7 DEF AddrInv
<1> QED BY <1>1, <1>2, <1>3, <1>4 DEF Progress

-----------------------------------------------------------------------------
(***************************************************************************)
(* Messages.  A group that loses an address to another one loses it to a    *)
(* service that is enabled, and no message disables a service.              *)
(***************************************************************************)
LEMMA MessageProgress ==
  ASSUME phase' = "idle", job' # "none",
         \A a \in Addr : Sourced(a)', \A a \in Uncrowded : Owned(a)'
  PROVE  Progress'
BY DEF Progress, Staying, AddrInv, Calm, PassDone, InPass, InResolve, Unsolved

LEMMA ConfigInfoProgress ==
  ASSUME PInv, ConfigInfo
  PROVE  Progress'
<1>1. /\ phase = "idle" /\ phase' = "idle" /\ job' # "none"
      /\ DOMAIN routes' = DOMAIN routes
      /\ \A g \in DOMAIN routes : /\ routes'[g].peers = FlushPeers(routes[g].peers)
                                  /\ routes'[g].services = FlushServices(routes[g].services)
  BY DEF ConfigInfo, Settled, Idle
<1>2. ASSUME NEW a, NEW g \in DOMAIN routes
      PROVE  /\ a \in DOMAIN routes'[g].peers <=> a \in DOMAIN routes[g].peers
             /\ a \in DOMAIN routes'[g].services => a \in DOMAIN routes[g].services
             /\ PeerOff(g, a)' => PeerOff(g, a)
             /\ ~ServiceOff(g, a)'
             /\ ServiceOn(g, a) => ServiceOn(g, a)'
  <2>1. /\ a \in DOMAIN routes'[g].peers <=> a \in DOMAIN routes[g].peers
        /\ PeerOff(g, a)' => PeerOff(g, a)
    BY <1>1, FlushPeersEffect DEF PeerOff
  <2>2. /\ a \in DOMAIN routes'[g].services <=>
             a \in DOMAIN routes[g].services /\ ~routes[g].services[a].disabled
        /\ a \in DOMAIN routes'[g].services => ~routes'[g].services[a].disabled
    BY <1>1, FlushServicesEffect, MarkDelEffect
  <2> QED BY <2>1, <2>2 DEF ServiceOff, ServiceOn
<1>3. \A a \in Addr : Sourced(a)'
  BY <1>1, <1>2 DEF PInv, Progress, Sourced
<1>4. ASSUME NEW a \in Uncrowded PROVE Owned(a)'
  <2>1. Losers(a)' \subseteq Losers(a)
    BY <1>1, <1>2 DEF Losers
  <2> QED BY <1>1, <1>2, <2>1 DEF PInv, Progress, AddrInv, Owned
<1> QED BY <1>1, <1>3, <1>4, MessageProgress

LEMMA RouteDelProgress ==
  ASSUME PInv, NEW r \in Removal, RouteDel(r)
  PROVE  Progress'
<1>1. /\ phase = "idle" /\ phase' = "idle" /\ job' # "none" /\ r.gid \in DOMAIN routes
  BY DEF RouteDel, Idle
<1> DEFINE pl  == DelPeer(routes[r.gid].peers, r.gw)
           svc == ServicesDel(routes[r.gid].services, r.gw, r.svc)
<1>2. /\ DOMAIN routes' = DOMAIN routes
      /\ \A g \in DOMAIN routes :
           /\ routes'[g].peers = IF g = r.gid THEN pl ELSE routes[g].peers
           /\ routes'[g].services = IF g = r.gid THEN svc ELSE routes[g].services
  <2> HIDE DEF pl, svc
  <2>1. routes' = [routes EXCEPT ![r.gid] = [peers |-> pl, services |-> svc]]
    BY DEF RouteDel, pl, svc
  <2> QED BY <2>1, RoutesElim DEF PInv, CInv
<1>3. /\ DOMAIN pl = DOMAIN routes[r.gid].peers
      /\ \A a \in DOMAIN pl : "Disabled" \in pl[a].flags => "Disabled" \in routes[r.gid].peers[a].flags
      /\ DOMAIN svc = DOMAIN routes[r.gid].services
      /\ \A a \in DOMAIN svc : svc[a].disabled = routes[r.gid].services[a].disabled
  BY DEF DelPeer, SetFlag, WithFlags, ServicesDel, MarkDel
<1> HIDE DEF pl, svc
<1>4. ASSUME NEW a, NEW g \in DOMAIN routes
      PROVE  /\ a \in DOMAIN routes'[g].peers <=> a \in DOMAIN routes[g].peers
             /\ a \in DOMAIN routes'[g].services <=> a \in DOMAIN routes[g].services
             /\ PeerOff(g, a)' => PeerOff(g, a)
             /\ ServiceOff(g, a)' => ServiceOff(g, a)
             /\ ServiceOn(g, a) => ServiceOn(g, a)'
  BY <1>2, <1>3 DEF PeerOff, ServiceOff, ServiceOn
<1>5. \A a \in Addr : Sourced(a)'
  BY <1>2, <1>4 DEF PInv, Progress, Sourced
<1>6. ASSUME NEW a \in Uncrowded PROVE Owned(a)'
  <2>1. Losers(a)' \subseteq Losers(a)
    BY <1>2, <1>4 DEF Losers
  <2> QED BY <1>1, <1>2, <1>4, <2>1 DEF PInv, Progress, AddrInv, Owned
<1> QED BY <1>1, <1>5, <1>6, MessageProgress

LEMMA RouteAddProgress ==
  ASSUME PInv, NEW o \in Offer, RouteAdd(o)
  PROVE  Progress'
<1> DEFINE group     == FindOrCreate(o.gid)
           dests     == IF VpnClient THEN o.svc ELSE o.svc \ DefaultRoute
           conflicts == {a \in Addr : HasIpConflict(a, o.gid)}
           pl        == AddPeer(group.peers, o, o.gw \in conflicts)
           svc       == ServicesAdd(group.services, o, dests, conflicts)
<1>1. /\ phase = "idle" /\ phase' = "idle" /\ job' # "none"
      /\ routes' = Put(routes, o.gid, [peers |-> pl, services |-> svc])
      /\ dests \subseteq o.svc
  BY DEF RouteAdd, Idle
<1>2. /\ DOMAIN pl = DOMAIN group.peers \cup {o.gw}
      /\ \A a \in DOMAIN pl : "Disabled" \in pl[a].flags =>
           \/ a \in DOMAIN group.peers /\ "Disabled" \in group.peers[a].flags
           \/ a \in conflicts
  <2> HIDE DEF group, conflicts
  <2>1. /\ DOMAIN pl = DOMAIN group.peers \cup {o.gw}
        /\ \A b \in DOMAIN group.peers \ {o.gw} : pl[b] = group.peers[b]
        /\ pl[o.gw].ifname = o.ifname
        /\ "AddPending" \in pl[o.gw].flags /\ "DelPending" \notin pl[o.gw].flags
        /\ "Disabled" \in pl[o.gw].flags =>
             \/ o.gw \in conflicts
             \/ o.gw \in DOMAIN group.peers /\ "Disabled" \in group.peers[o.gw].flags
    BY AddPeerEffect
  <2> HIDE DEF pl
  <2> QED BY <2>1
<1>3. /\ DOMAIN svc = DOMAIN group.services \cup dests
      /\ \A a \in DOMAIN svc :
           svc[a].disabled = IF a \in DOMAIN group.services THEN group.services[a].disabled
                                                            ELSE a \in conflicts
  BY DEF ServicesAdd, ListAdd, NewRouteList
<1>4. /\ o.gid \in DOMAIN routes => group = routes[o.gid]
      /\ o.gid \notin DOMAIN routes => DOMAIN group.peers = {} /\ DOMAIN group.services = {}
  BY DEF FindOrCreate, EmptyGroup, EmptyMap
<1> HIDE DEF group, dests, pl, svc
<1>5. /\ DOMAIN routes' = DOMAIN routes \cup {o.gid}
      /\ routes'[o.gid].peers = pl /\ routes'[o.gid].services = svc
      /\ \A g \in DOMAIN routes \ {o.gid} : routes'[g] = routes[g]
  BY <1>1 DEF Put
<1>6. ASSUME NEW a \in Addr PROVE Sourced(a)'
  <2>1. Sourced(a)
    BY DEF PInv, Progress
  <2>2. ASSUME NEW g \in DOMAIN routes'
        PROVE  /\ a \in DOMAIN routes'[g].peers => \E n \in Offer : n.gid = g /\ n.gw = a
               /\ a \in DOMAIN routes'[g].services => \E n \in Offer : n.gid = g /\ a \in n.svc
    <3>1. CASE g # o.gid
      BY <1>5, <2>1, <3>1 DEF Sourced
    <3>2. CASE g = o.gid
      <4>1. /\ a \in DOMAIN group.peers => \E n \in Offer : n.gid = g /\ n.gw = a
            /\ a \in DOMAIN group.services => \E n \in Offer : n.gid = g /\ a \in n.svc
        BY <1>4, <2>1, <3>2 DEF Sourced
      <4>2. a \in DOMAIN pl => a \in DOMAIN group.peers \/ a = o.gw
        BY <1>2
      <4>3. a \in DOMAIN svc => a \in DOMAIN group.services \/ a \in o.svc
        BY <1>1, <1>3
      <4> QED BY <1>5, <3>2, <4>1, <4>2, <4>3
    <3> QED BY <3>1, <3>2
  <2> QED BY <2>2 DEF Sourced
<1>7. ASSUME NEW a, NEW g \in DOMAIN routes, ServiceOn(g, a) PROVE ServiceOn(g, a)'
  BY <1>3, <1>4, <1>5, <1>7 DEF ServiceOn
<1>8. ASSUME NEW a \in Uncrowded PROVE Owned(a)'
  <2>1. SUFFICES ASSUME Losers(a)' # {} PROVE \E k \in DOMAIN routes : ServiceOn(k, a)
    BY <1>5, <1>7 DEF Owned
  <2>2. CASE Losers(a) # {}
    BY <1>1, <2>2 DEF PInv, Progress, AddrInv, Owned
  <2>3. CASE Losers(a) = {}
    <3>1. PICK g \in DOMAIN routes' : PeerOff(g, a)' \/ ServiceOff(g, a)'
      BY <2>1 DEF Losers
    <3>2. g = o.gid
      BY <1>5, <2>3, <3>1 DEF Losers, PeerOff, ServiceOff
    <3>3. a \in conflicts
      <4>1. o.gid \in DOMAIN routes => /\ ~(a \in DOMAIN group.peers /\ "Disabled" \in group.peers[a].flags)
                                       /\ ~(a \in DOMAIN group.services /\ group.services[a].disabled)
        BY <1>4, <2>3 DEF Losers, PeerOff, ServiceOff
      <4> QED BY <1>2, <1>3, <1>4, <1>5, <3>1, <3>2, <4>1 DEF PeerOff, ServiceOff
    <3> QED BY <3>3, ConflictDef, AddressIsOn
  <2> QED BY <2>2, <2>3
<1> QED BY <1>1, <1>6, <1>8, MessageProgress

-----------------------------------------------------------------------------
(***************************************************************************)
(* The loops over the groups.                                              *)
(***************************************************************************)
LEMMA FewerLosers ==
  ASSUME NEW a, NEW n, Few(Losers(a), n), DOMAIN routes' \subseteq DOMAIN routes,
         \A g \in DOMAIN routes' : /\ PeerOff(g, a)' => PeerOff(g, a)
                                   /\ ServiceOff(g, a)' => ServiceOff(g, a)
  PROVE  Few(Losers(a)', n)
<1>1. Losers(a)' \subseteq Losers(a)
  BY DEF Losers
<1> QED BY <1>1, FewSubset

LEMMA AppliedPeers ==
  ASSUME NEW pl, NEW a
  PROVE  /\ a \in DOMAIN ApplyPeerList(pl) =>
              /\ a \in DOMAIN pl
              /\ "DelPending" \notin ApplyPeerList(pl)[a].flags
              /\ "Disabled" \in ApplyPeerList(pl)[a].flags => "Disabled" \in pl[a].flags
              /\ "Disabled" \in ApplyPeerList(pl)[a].flags \/ ApplyPeerList(pl)[a].flags = {}
         /\ a \in DOMAIN pl /\ "DelPending" \notin pl[a].flags => a \in DOMAIN ApplyPeerList(pl)
BY DEF ApplyPeerList, PeerDropped, WithFlags

LEMMA ApplyPeersProgress ==
  ASSUME PInv, NEW g, ApplyPeers(g)
  PROVE  Progress'
<1> DEFINE pl == ApplyPeerList(routes[g].peers)
<1>1. /\ phase = "apply" /\ phase' = "apply" /\ loop = NoLoop /\ iter' = iter
      /\ g \in todo /\ todo' = todo \ {g} /\ IInv /\ g \in DOMAIN routes
      /\ routes' = [routes EXCEPT ![g] = WithPeers(routes[g], pl)]
  BY DEF ApplyPeers, PInv, CInv, IInv, ControlType
<1>2. PICK best \in Addr \cup {NoAddr} : loop' = Loop(g, best, DOMAIN routes[g].services)
  <2>1. DOMAIN pl \subseteq Addr
    BY <1>1, RoutesElim, PeersType_ DEF ApplyPeerList
  <2> HIDE DEF pl
  <2> QED BY <2>1 DEF ApplyPeers, BestPaths, pl
<1>3. /\ DOMAIN routes' = DOMAIN routes
      /\ \A h \in DOMAIN routes : /\ routes'[h].services = routes[h].services
                                  /\ routes'[h].peers = IF h = g THEN pl ELSE routes[h].peers
  <2> HIDE DEF pl
  <2> QED BY <1>1, SetPeersEffect
<1>4. \A a : /\ a \in DOMAIN pl =>
                  /\ a \in DOMAIN routes[g].peers
                  /\ "DelPending" \notin pl[a].flags
                  /\ "Disabled" \in pl[a].flags => "Disabled" \in routes[g].peers[a].flags
                  /\ "Disabled" \in pl[a].flags \/ pl[a].flags = {}
             /\ a \in DOMAIN routes[g].peers /\ "DelPending" \notin routes[g].peers[a].flags =>
                  a \in DOMAIN pl
  BY AppliedPeers
<1> HIDE DEF pl
<1>5. ASSUME NEW h \in DOMAIN routes PROVE Staying(h)'
  <2>1. Staying(h)
    BY DEF PInv, Progress
  <2>2. CASE h # g
    BY <1>1, <1>3, <2>1, <2>2 DEF Staying
  <2>3. CASE h = g
    <3>1. \A a \in DOMAIN routes'[g].peers : "DelPending" \notin routes'[g].peers[a].flags
      BY <1>1, <1>3, <1>4
    <3>2. iter > 1 => DOMAIN routes'[g].peers # {}
      BY <1>1, <1>3, <1>4, <2>1, <2>3 DEF Staying
    <3> QED BY <1>1, <2>3, <3>1, <3>2 DEF Staying
  <2> QED BY <2>2, <2>3
<1>6. ASSUME NEW a \in Addr PROVE Sourced(a)'
  <2>1. Sourced(a)
    BY DEF PInv, Progress
  <2> QED BY <1>1, <1>3, <1>4, <2>1 DEF Sourced
<1>7. ASSUME NEW a \in Uncrowded PROVE AddrInv(a)'
  <2>1. /\ Owned(a)' /\ Calm(a)' /\ InResolve(a)' /\ Unsolved(a)'
        /\ PassDone(a) /\ InPass(a)
    BY <1>1 DEF Owned, Calm, InResolve, Unsolved, PInv, Progress, AddrInv
  <2>2. \A h \in DOMAIN routes :
          /\ PeerOff(h, a)' => PeerOff(h, a)
          /\ ServiceOff(h, a)' <=> ServiceOff(h, a)
          /\ ServiceDone(h, a)' <=> ServiceDone(h, a)
          /\ h # g => (PeerDone(h, a)' <=> PeerDone(h, a))
          /\ Holder(h, a)' <=> Holder(h, a)
    BY <1>1, <1>3, <1>4 DEF PeerOff, ServiceOff, ServiceOn, ServiceDone, PeerDone, Holder
  <2>3. PeerDone(g, a)'
    BY <1>1, <1>3, <1>4 DEF PeerOff, PeerDone
  <2>4. InPass(a)'
    BY <1>1, <1>3, <2>1, <2>2, FewerLosers DEF InPass, Held, MaxIteration
  <2>5. ServiceDone(g, a)' \/ (loop' # NoLoop /\ loop'.gid = g /\ a \in loop'.todo)
    <3>1. CASE a \notin DOMAIN routes[g].services
      BY <1>1, <1>3, <3>1 DEF ServiceDone
    <3>2. CASE a \in DOMAIN routes[g].services
      <4>1. loop' = [gid |-> g, best |-> best, todo |-> DOMAIN routes[g].services]
        BY <1>2, <3>2 DEF Loop
      <4>2. g \in Gid /\ DOMAIN routes[g].services \subseteq Addr
        BY <1>1, RoutesElim, ServicesElim
      <4> QED BY <3>2, <4>1, <4>2, NullAssumption
    <3> QED BY <3>1, <3>2
  <2>6. PassDone(a)'
    <3>1. \A h \in DOMAIN routes \ todo : PeerDone(h, a) /\ ServiceDone(h, a)
      BY <1>1, <2>1 DEF PassDone
    <3> QED BY <1>1, <1>3, <2>2, <2>3, <2>5, <3>1 DEF PassDone
  <2> QED BY <2>1, <2>4, <2>6 DEF AddrInv
<1> QED BY <1>3, <1>5, <1>6, <1>7 DEF Progress

LEMMA ClosePeersProgress ==
  ASSUME PInv, NEW g, ClosePeers(g)
  PROVE  Progress'
<1> DEFINE pl == ApplyPeerList(FlushPeers(routes[g].peers))
<1>1. /\ phase = "close" /\ phase' = "close" /\ job' = job /\ IInv /\ g \in DOMAIN routes
      /\ routes' = [routes EXCEPT ![g] = WithPeers(routes[g], pl)]
  BY DEF ClosePeers, PInv, CInv, IInv, ControlType
<1>2. \A a \in DOMAIN pl : /\ a \in DOMAIN routes[g].peers
                           /\ "Disabled" \in pl[a].flags \/ pl[a].flags = {}
  BY AppliedPeers, FlushPeersEffect
<1> HIDE DEF pl
<1>3. /\ DOMAIN routes' = DOMAIN routes
      /\ \A h \in DOMAIN routes : /\ routes'[h].services = routes[h].services
                                  /\ routes'[h].peers = IF h = g THEN pl ELSE routes[h].peers
  BY <1>1, SetPeersEffect
<1>4. ASSUME NEW a \in Addr PROVE Sourced(a)'
  <2>1. Sourced(a)
    BY DEF PInv, Progress
  <2> QED BY <1>1, <1>2, <1>3, <2>1 DEF Sourced
<1>5. ASSUME NEW a \in Uncrowded PROVE AddrInv(a)'
  <2>1. Calm(a) /\ Owned(a)' /\ PassDone(a)' /\ InPass(a)' /\ InResolve(a)' /\ Unsolved(a)'
    BY <1>1 DEF Owned, PassDone, InPass, InResolve, Unsolved, PInv, Progress, AddrInv
  <2>2. \A h \in DOMAIN routes : /\ ServiceDone(h, a)' <=> ServiceDone(h, a)
                                 /\ PeerDone(h, a) => PeerDone(h, a)'
    BY <1>1, <1>2, <1>3 DEF PeerOff, PeerDone, ServiceOff, ServiceDone
  <2>3. Calm(a)'
    BY <1>1, <1>3, <2>1, <2>2 DEF Calm, AllDone
  <2> QED BY <2>1, <2>3 DEF AddrInv
<1> QED BY <1>1, <1>4, <1>5 DEF Progress, Staying

\* a pass ends: all that is enabled has been applied
LEMMA EndPassProgress ==
  ASSUME PInv, EndPass
  PROVE  Progress'
<1>1. /\ phase = "apply" /\ phase' = "resolve" /\ todo = {} /\ loop = NoLoop /\ iter' = iter
      /\ DOMAIN routes' = {g \in DOMAIN routes : DOMAIN routes[g].peers # {}}
      /\ \A g \in DOMAIN routes' : routes'[g] = routes[g]
  BY DEF EndPass, Restrict
<1>2. \A g \in DOMAIN routes' : Staying(g)'
  BY <1>1 DEF PInv, Progress, Staying
<1>3. ASSUME NEW a \in Addr PROVE Sourced(a)'
  <2>1. Sourced(a)
    BY DEF PInv, Progress
  <2> QED BY <1>1, <2>1 DEF Sourced
<1>4. ASSUME NEW a \in Uncrowded PROVE AddrInv(a)'
  <2>1. Owned(a)' /\ Calm(a)' /\ PassDone(a)' /\ InPass(a)' /\ PassDone(a) /\ InPass(a)
    BY <1>1 DEF Owned, Calm, PassDone, InPass, PInv, Progress, AddrInv
  <2>2. \A g \in DOMAIN routes' : /\ PeerOff(g, a)' <=> PeerOff(g, a)
                                  /\ ServiceOff(g, a)' <=> ServiceOff(g, a)
                                  /\ PeerDone(g, a)' <=> PeerDone(g, a)
                                  /\ ServiceDone(g, a)' <=> ServiceDone(g, a)
                                  /\ Holder(g, a)' <=> Holder(g, a)
    BY <1>1 DEF PeerOff, ServiceOff, ServiceOn, ServiceDone, PeerDone, Holder
  <2>3. AllDone(a)'
    BY <1>1, <2>1, <2>2 DEF PassDone, AllDone
  <2>4. iter > 1 /\ Held(a) => Held(a)'
    BY <1>1, <2>2 DEF Held, PInv, Progress, Staying
  <2>5. Few(Losers(a), 3 - iter) => Few(Losers(a)', 3 - iter)
    BY <1>1, <2>2, FewerLosers
  <2>6. InResolve(a)'
    BY <1>1, <2>1, <2>3, <2>4, <2>5 DEF InPass, InResolve
  <2>7. Unsolved(a)'
    BY <2>3 DEF Unsolved
  <2> QED BY <2>1, <2>6, <2>7 DEF AddrInv
<1> QED BY <1>2, <1>3, <1>4 DEF Progress

\* an address becomes free for a group: no other group has it, and there is
\* one loser less
LEMMA ResolveProgress ==
  ASSUME PInv, NEW g, ResolveIpConflict(g)
  PROVE  Progress'
<1> DEFINE pl    == routes[g].peers
           svc   == routes[g].services
           freeP == {a \in DOMAIN pl : "Disabled" \in pl[a].flags /\ ~HasIpConflict(a, g)}
           freeS == {s \in DOMAIN svc : svc[s].disabled /\ ~HasIpConflict(s, g)}
           newP  == [a \in DOMAIN pl |->
                       IF a \in freeP THEN WithFlags(pl[a], pl[a].flags \ {"Disabled"})
                                      ELSE pl[a]]
           newS  == [s \in DOMAIN svc |-> [disabled |-> svc[s].disabled /\ s \notin freeS,
                                           list     |-> svc[s].list]]
<1>1. /\ phase = "resolve" /\ phase' = "resolve" /\ iter' = iter
      /\ routes' = [routes EXCEPT ![g] = [peers |-> newP, services |-> newS]]
      /\ solved' = (solved \/ freeP # {} \/ freeS # {})
      /\ IInv /\ g \in DOMAIN routes
  BY DEF ResolveIpConflict, PInv, CInv, IInv, ControlType
<1>2. /\ DOMAIN newP = DOMAIN pl
      /\ \A a \in DOMAIN pl : /\ a \in freeP => newP[a].flags = pl[a].flags \ {"Disabled"}
                              /\ a \notin freeP => newP[a] = pl[a]
      /\ DOMAIN newS = DOMAIN svc
      /\ \A a \in DOMAIN svc : /\ newS[a].disabled <=> svc[a].disabled /\ a \notin freeS
                               /\ newS[a].list = svc[a].list
  BY DEF WithFlags
<1> HIDE DEF newP, newS
<1>3. /\ DOMAIN routes' = DOMAIN routes
      /\ routes'[g].peers = newP /\ routes'[g].services = newS
      /\ \A h \in DOMAIN routes \ {g} : routes'[h] = routes[h]
  BY <1>1, RoutesElim
<1>4. ASSUME NEW h \in DOMAIN routes PROVE Staying(h)'
  <2>1. Staying(h)
    BY DEF PInv, Progress
  <2> QED BY <1>1, <1>2, <1>3, <2>1 DEF Staying
<1>5. ASSUME NEW a \in Addr PROVE Sourced(a)'
  <2>1. Sourced(a)
    BY DEF PInv, Progress
  <2> QED BY <1>1, <1>2, <1>3, <2>1 DEF Sourced
<1>6. ASSUME NEW a \in Uncrowded PROVE AddrInv(a)'
  <2>1. /\ Owned(a)' /\ Calm(a)' /\ PassDone(a)' /\ InPass(a)'
        /\ InResolve(a) /\ Unsolved(a)
    BY <1>1 DEF Owned, Calm, PassDone, InPass, PInv, Progress, AddrInv
  <2>2. \A h \in DOMAIN routes \ {g} :
          /\ PeerOff(h, a)' <=> PeerOff(h, a)
          /\ ServiceOff(h, a)' <=> ServiceOff(h, a)
          /\ PeerDone(h, a)' <=> PeerDone(h, a)
          /\ ServiceDone(h, a)' <=> ServiceDone(h, a)
          /\ Holder(h, a)' <=> Holder(h, a)
    BY <1>3 DEF PeerOff, ServiceOff, ServiceOn, ServiceDone, PeerDone, Holder
  <2>3. CASE a \notin freeP \cup freeS
    <3>1. /\ PeerOff(g, a)' <=> PeerOff(g, a)
          /\ ServiceOff(g, a)' <=> ServiceOff(g, a)
          /\ PeerDone(g, a)' <=> PeerDone(g, a)
          /\ ServiceDone(g, a)' <=> ServiceDone(g, a)
          /\ Holder(g, a)' <=> Holder(g, a)
      BY <1>1, <1>2, <1>3, <2>3 DEF PeerOff, ServiceOff, ServiceOn, ServiceDone, PeerDone, Holder
    <3>2. /\ Losers(a)' = Losers(a) /\ (AllDone(a)' <=> AllDone(a)) /\ (Held(a)' <=> Held(a))
      BY <1>3, <2>2, <3>1 DEF Losers, AllDone, Held
    <3> QED BY <1>1, <2>1, <3>2 DEF AddrInv, InResolve, Unsolved, MaxIteration
  <2>4. CASE a \in freeP \cup freeS
    <3>1. g \in Losers(a) /\ ~HasIpConflict(a, g) /\ solved'
      BY <1>1, <2>4 DEF Losers, PeerOff, ServiceOff
    <3>2. ~PeerOff(g, a)' /\ ~ServiceOff(g, a)'
      BY <1>2, <1>3, <3>1 DEF PeerOff, ServiceOff
    <3>3. Losers(a)' = Losers(a) \ {g}
      BY <1>3, <2>2, <3>2 DEF Losers
    <3>4. ~Held(a)
      <4>1. \A h \in DOMAIN routes \ {g} : ~Holder(h, a)
        BY <3>1, HolderConflicts, ConflictDef
      <4>2. Sourced(a)
        BY DEF PInv, Progress, Uncrowded
      <4>3. ~Holder(g, a)
        BY <1>1, <3>1, <4>2 DEF Sourced, Uncrowded, Losers, PeerOff, ServiceOff, Holder, ServiceOn
      <4> QED BY <4>1, <4>3 DEF Held
    <3>5. iter \in 1..3 /\ (Few(Losers(a), 3 - iter) \/ (iter < 3 /\ Few(Losers(a), 2 - iter)))
      BY <1>1, <2>1, <3>4 DEF InResolve, MaxIteration
    <3>6. iter < 3 /\ Few(Losers(a)', 2 - iter)
      <4>1. CASE Few(Losers(a), 3 - iter)
        <5>1. 3 - iter \in 0..2 /\ (3 - iter) - 1 = 2 - iter
          BY <3>5
        <5> QED BY <3>1, <3>3, <3>5, <4>1, <5>1, FewLess
      <4>2. CASE iter < 3 /\ Few(Losers(a), 2 - iter)
        BY <3>3, <4>2, FewSubset
      <4> QED BY <3>5, <4>1, <4>2
    <3>7. InResolve(a)'
      BY <1>1, <3>5, <3>6 DEF InResolve, MaxIteration
    <3>8. Unsolved(a)'
      BY <3>1 DEF Unsolved
    <3> QED BY <2>1, <3>7, <3>8 DEF AddrInv
  <2> QED BY <2>3, <2>4
<1> QED BY <1>3, <1>4, <1>5, <1>6 DEF Progress

-----------------------------------------------------------------------------
(***************************************************************************)
(* The loops over the services of a group.                                 *)
(***************************************************************************)
LEMMA ServiceProgress ==
  ASSUME PInv, NEW p \in {"apply", "reroute", "close"}, NEW s, AtService(p, s),
         NEW g, g = loop.gid,
         DOMAIN routes' = DOMAIN routes,
         \A h \in DOMAIN routes :
           /\ routes'[h].peers = routes[h].peers
           /\ \A a : h # g \/ a # s =>
                /\ a \in DOMAIN routes'[h].services <=> a \in DOMAIN routes[h].services
                /\ a \in DOMAIN routes[h].services =>
                     routes'[h].services[a] = routes[h].services[a],
         s \in DOMAIN routes'[g].services =>
           routes'[g].services[s].disabled = routes[g].services[s].disabled,
         ServiceDone(g, s) => ServiceDone(g, s)',
         p = "reroute" => s \in DOMAIN routes'[g].services,
         p = "apply" => ServiceDone(g, s)' /\ (~Holder(g, s) \/ routes' = routes)
  PROVE  Progress'
<1>1. /\ IInv /\ phase = p /\ phase' = p /\ job' = job /\ todo' = todo /\ iter' = iter
      /\ g \in DOMAIN routes /\ s \in DOMAIN routes[g].services
  BY AtServiceElim DEF PInv, CInv, AtService
<1>2. ASSUME NEW h \in DOMAIN routes, NEW a
      PROVE  /\ PeerOff(h, a)' <=> PeerOff(h, a)
             /\ PeerDone(h, a)' <=> PeerDone(h, a)
             /\ ServiceOff(h, a)' => ServiceOff(h, a)
             /\ ServiceDone(h, a) => ServiceDone(h, a)'
             /\ p = "reroute" /\ ServiceOn(h, a) => ServiceOn(h, a)'
             /\ p = "apply" /\ Holder(h, a) => Holder(h, a)'
  <2>1. /\ PeerOff(h, a)' <=> PeerOff(h, a)
        /\ PeerDone(h, a)' <=> PeerDone(h, a)
    BY DEF PeerOff, PeerDone
  <2>2. CASE h # g \/ a # s
    BY <2>1, <2>2 DEF ServiceOff, ServiceOn, ServiceDone, Holder
  <2>3. CASE h = g /\ a = s
    <3>1. /\ ServiceOff(g, s)' => ServiceOff(g, s)
          /\ p = "reroute" /\ ServiceOn(g, s) => ServiceOn(g, s)'
      BY <1>1 DEF ServiceOff, ServiceOn
    <3>2. p = "apply" /\ Holder(g, s) => Holder(g, s)'
      BY DEF Holder, ServiceOn
    <3> QED BY <2>1, <2>3, <3>1, <3>2
  <2> QED BY <2>2, <2>3
<1>3. ASSUME NEW h \in DOMAIN routes PROVE Staying(h)'
  BY <1>1 DEF PInv, Progress, Staying
<1>4. ASSUME NEW a \in Addr PROVE Sourced(a)'
  <2>1. Sourced(a)
    BY DEF PInv, Progress
  <2>2. \A h \in DOMAIN routes :
          /\ a \in DOMAIN routes'[h].peers => a \in DOMAIN routes[h].peers
          /\ a \in DOMAIN routes'[h].services => a \in DOMAIN routes[h].services
    BY <1>1
  <2> QED BY <2>1, <2>2 DEF Sourced
<1>5. ASSUME NEW a \in Uncrowded PROVE AddrInv(a)'
  <2>1. AddrInv(a)
    BY DEF PInv, Progress
  <2>2. Losers(a)' \subseteq Losers(a)
    BY <1>2 DEF Losers
  <2>3. Owned(a)'
    BY <1>1, <1>2, <2>1, <2>2 DEF AddrInv, Owned
  <2>4. Calm(a)'
    BY <1>1, <1>2, <2>1 DEF AddrInv, Calm, AllDone
  <2>5. PassDone(a)'
    <3>1. SUFFICES ASSUME p = "apply", NEW h \in DOMAIN routes \ todo
                   PROVE  /\ PeerDone(h, a)'
                          /\ \/ ServiceDone(h, a)'
                             \/ loop' # NoLoop /\ loop'.gid = h /\ a \in loop'.todo
      BY <1>1 DEF PassDone
    <3>2. PeerDone(h, a) /\ (ServiceDone(h, a) \/ (loop.gid = h /\ a \in loop.todo))
      BY <1>1, <2>1, <3>1 DEF AddrInv, PassDone
    <3>3. CASE h = g /\ a = s
      BY <1>2, <3>1, <3>2, <3>3
    <3>4. CASE a # s \/ h # g
      <4>1. CASE ServiceDone(h, a)
        BY <1>2, <3>2, <4>1
      <4>2. CASE h = g /\ a \in loop.todo /\ a # s
        BY <1>1, <1>2, <3>2, <4>2, LoopGoesOn
      <4> QED BY <3>2, <3>4, <4>1, <4>2
    <3> QED BY <3>3, <3>4
  <2>6. InPass(a)'
    BY <1>1, <1>2, <2>1, <2>2, FewSubset DEF AddrInv, InPass, Held, MaxIteration
  <2>7. InResolve(a)' /\ Unsolved(a)'
    BY <1>1 DEF InResolve, Unsolved
  <2> QED BY <2>3, <2>4, <2>5, <2>6, <2>7 DEF AddrInv
<1> QED BY <1>3, <1>4, <1>5 DEF Progress

LEMMA SkipProgress ==
  ASSUME PInv, NEW s, ApplySkip(s)
  PROVE  Progress'
<1>1. AtService("apply", s) /\ routes' = routes /\ IInv
  BY DEF ApplySkip, PInv, CInv
<1>2. PICK g : g = loop.gid
  OBVIOUS
<1>3. g \in DOMAIN routes /\ s \in DOMAIN routes[g].services /\ ServiceDone(g, s)
  BY <1>1, <1>2, AtServiceElim DEF ApplySkip, ListAt, ServiceDone, ServiceOff
<1>4. ServiceDone(g, s)'
  BY <1>1, <1>3, SameStatus
<1> QED BY <1>1, <1>2, <1>3, <1>4, ServiceProgress

\* the list of the service the loop is at is replaced
LEMMA ListProgress ==
  ASSUME PInv, NEW p \in {"apply", "reroute"}, NEW s, AtService(p, s),
         NEW list, SetList(s, list),
         p = "apply" => ~Unpending(ListAt(s).list) /\ Unpending(list),
         Unpending(ListAt(s).list) => Unpending(list)
  PROVE  Progress'
<1>1. PICK g : g = loop.gid
  OBVIOUS
<1>2. /\ g \in DOMAIN routes /\ s \in DOMAIN routes[g].services
      /\ ListAt(s) = routes[g].services[s]
  BY <1>1, AtServiceElim DEF ListAt, PInv, CInv
<1>3. /\ DOMAIN routes' = DOMAIN routes
      /\ \A h \in DOMAIN routes :
           /\ routes'[h].peers = routes[h].peers
           /\ DOMAIN routes'[h].services = DOMAIN routes[h].services
           /\ \A t \in DOMAIN routes[h].services :
                routes'[h].services[t] = IF h = g /\ t = s
                  THEN [disabled |-> ListAt(s).disabled, list |-> list]
                  ELSE routes[h].services[t]
  BY <1>1, SetListEffect DEF PInv, CInv
<1>4. /\ routes'[g].services[s].disabled = routes[g].services[s].disabled
      /\ routes'[g].services[s].list = list
  BY <1>2, <1>3
<1>5. ServiceDone(g, s) => ServiceDone(g, s)'
  BY <1>2, <1>3, <1>4 DEF ServiceDone, ServiceOff
<1>6. p = "apply" => ServiceDone(g, s)' /\ ~Holder(g, s)
  BY <1>2, <1>3, <1>4 DEF ServiceDone, ServiceOff, Holder
<1>7. \A h \in DOMAIN routes :
        /\ routes'[h].peers = routes[h].peers
        /\ \A a : h # g \/ a # s =>
             /\ a \in DOMAIN routes'[h].services <=> a \in DOMAIN routes[h].services
             /\ a \in DOMAIN routes[h].services =>
                  routes'[h].services[a] = routes[h].services[a]
  BY <1>3
<1> QED BY <1>1, <1>2, <1>3, <1>4, <1>5, <1>6, <1>7, ServiceProgress

LEMMA DropProgress ==
  ASSUME PInv, NEW p \in {"apply", "close"}, NEW s, AtService(p, s), DropList(s),
         p = "apply" => ~Unpending(ListAt(s).list)
  PROVE  Progress'
<1>1. PICK g : g = loop.gid
  OBVIOUS
<1>2. /\ g \in DOMAIN routes /\ s \in DOMAIN routes[g].services
      /\ ListAt(s) = routes[g].services[s]
  BY <1>1, AtServiceElim DEF ListAt, PInv, CInv
<1>3. /\ DOMAIN routes' = DOMAIN routes
      /\ \A h \in DOMAIN routes :
           /\ routes'[h].peers = routes[h].peers
           /\ DOMAIN routes'[h].services = {t \in DOMAIN routes[h].services : ~(h = g /\ t = s)}
           /\ \A t \in DOMAIN routes'[h].services :
                routes'[h].services[t] = routes[h].services[t]
  BY <1>1, DropListEffect DEF PInv, CInv
<1>4. s \notin DOMAIN routes'[g].services
  BY <1>2, <1>3
<1>5. ServiceDone(g, s)' /\ (p = "apply" => ~Holder(g, s))
  BY <1>2, <1>4 DEF ServiceDone, Holder
<1>6. \A h \in DOMAIN routes :
        /\ routes'[h].peers = routes[h].peers
        /\ \A a : h # g \/ a # s =>
             /\ a \in DOMAIN routes'[h].services <=> a \in DOMAIN routes[h].services
             /\ a \in DOMAIN routes[h].services =>
                  routes'[h].services[a] = routes[h].services[a]
  BY <1>3
<1> QED BY <1>1, <1>3, <1>4, <1>5, <1>6, ServiceProgress

LEMMA SetRouteProgress ==
  ASSUME PInv, NEW s, SetRoute(s)
  PROVE  Progress'
<1>1. AtService("apply", s) /\ ~Unpending(ListAt(s).list)
  BY DEF SetRoute
<1>2. PICK list : SetList(s, ResetPending(list))
  BY DEF SetRoute
<1>3. Unpending(ResetPending(list))
  BY ResetPendingEffect
<1> QED BY <1>1, <1>2, <1>3, ListProgress

LEMMA MergeRoutesProgress ==
  ASSUME PInv, NEW s, MergeRoutes(s)
  PROVE  Progress'
<1>1. AtService("apply", s) /\ ~Unpending(ListAt(s).list)
  BY DEF MergeRoutes
<1>2. PICK list, new, old : SetList(s, RerouteList(ResetPending(list), new, old))
  BY DEF MergeRoutes
<1>3. Unpending(RerouteList(ResetPending(list), new, old))
  BY ResetPendingEffect, RerouteKeepsPending
<1> QED BY <1>1, <1>2, <1>3, ListProgress

LEMMA RerouteServiceProgress ==
  ASSUME PInv, NEW s, RerouteService(s)
  PROVE  Progress'
<1>1. AtService("reroute", s)
  BY DEF RerouteService
<1>2. PICK new, old : SetList(s, RerouteList(ListAt(s).list, new, old))
  BY DEF RerouteService
<1>3. Unpending(ListAt(s).list) => Unpending(RerouteList(ListAt(s).list, new, old))
  BY RerouteKeepsPending
<1> QED BY <1>1, <1>2, <1>3, ListProgress

-----------------------------------------------------------------------------
LEMMA InitPInv == Init => PInv
BY InitCInv DEF Init, EmptyMap, PInv, Progress, Staying, Sourced, AddrInv, Owned, Calm, PassDone,
   InPass, InResolve, Unsolved, AllDone, Losers

LEMMA StepPInv == PInv /\ [Next]_vars => PInv'
<1> SUFFICES ASSUME PInv, [Next]_vars PROVE Progress'
  BY StepCInv DEF PInv
<1>1. CASE Message
  BY <1>1, ConfigInfoProgress, ElsewhereProgress, RouteAddProgress, RouteDelProgress DEF Message
<1>2. CASE GroupStep
  BY <1>2, ApplyProgress, EndPassProgress, EndResolveProgress, ElsewhereProgress,
     EndCloseProgress, ApplyPeersProgress, ResolveProgress, ClosePeersProgress DEF GroupStep
<1>3. CASE ServiceStep
  <2>1. ASSUME NEW s, ClearRoute(s) PROVE Progress'
    BY <2>1, DropProgress DEF ClearRoute
  <2>2. ASSUME NEW s, CloseService(s) PROVE Progress'
    BY <2>2, DropProgress DEF CloseService
  <2> QED BY <1>3, <2>1, <2>2, SkipProgress, SetRouteProgress, MergeRoutesProgress,
             RerouteServiceProgress, ElsewhereProgress DEF ServiceStep
<1>4. CASE Environment \/ UNCHANGED vars
  BY <1>4, EnvironmentProgress
<1> QED BY <1>1, <1>2, <1>3, <1>4 DEF Next

(***************************************************************************)
(* Three iterations are enough for three rivals: once a controller message  *)
(* is executed nothing waits to be applied at an address that three groups  *)
(* at most can contend for, in whichever order the groups are visited.      *)
(***************************************************************************)
THEOREM ThreeIterationsSuffice == Spec => []NothingPending
<1>1. Spec => []PInv
  BY InitPInv, StepPInv, PTL DEF Spec
<1>2. ASSUME PInv PROVE NothingPending
  <2>1. SUFFICES ASSUME Settled, NEW g \in DOMAIN routes, NEW a \in Uncrowded, a \in Waiting(g)
                 PROVE  FALSE
    BY DEF NothingPending
  <2>2. PeerDone(g, a) /\ ServiceDone(g, a)
    BY <1>2, <2>1 DEF PInv, Progress, AddrInv, Calm, AllDone, Settled, Idle
  <2> QED BY <2>1, <2>2 DEF Waiting, PeerDone, PeerOff, ServiceDone, ServiceOff
<1> QED BY <1>1, <1>2, PTL
=============================================================================
