--------------------------- MODULE HostRouteProofs ---------------------------
(***************************************************************************)
(* The host router implements HostRouteSpec, and leaves no route behind     *)
(* that its cache does not know.                                            *)
(***************************************************************************)
EXTENDS HostRoute, TLAPS

(***************************************************************************)
(* The types of the host router, for any number of addresses, users and     *)
(* interfaces: whatever is added, given back and flushed in whatever order, *)
(* no count of users wraps around below zero.                               *)
(***************************************************************************)
THEOREM TypeCorrect == Spec => []TypeOK
<1>1. Init => TypeOK
  BY DEF Init, TypeOK, EmptyMap
<1>2. ASSUME TypeOK, [Next]_hvars
      PROVE  TypeOK'
  <2>1. \A ip \in Ip : Count(ip) \in 0..MaxCount /\ Pending(ip) \in BOOLEAN
    BY <1>2, CountAssumption DEF TypeOK, Count, Pending, Entry
  <2>2. ASSUME NEW ip \in Ip, Add(ip)
        PROVE  TypeOK'
    <3> DEFINE e == [count |-> Count(ip) + 1, pending |-> Pending(ip)]
    <3>1. e \in Entry
      BY <1>2, <2>1, <2>2, CountAssumption DEF Add, Entry
    <3>2. routes' = Put(routes, ip, e)
      BY <2>2 DEF Add
    <3> HIDE DEF e
    <3>3. DOMAIN routes' \subseteq Ip /\ routes' \in [DOMAIN routes' -> Entry]
      BY <1>2, <3>1, <3>2 DEF Put, TypeOK
    <3> QED BY <1>2, <2>2, <3>3 DEF Add, TypeOK
  <2>3. ASSUME NEW ip \in Ip, Del(ip)
        PROVE  TypeOK'
    <3> DEFINE e == [count |-> routes[ip].count - 1, pending |-> routes[ip].pending]
    <3>1. CASE Count(ip) > 0
      <4>1. ip \in DOMAIN routes /\ routes[ip] \in Entry
        BY <1>2, <3>1 DEF Count, TypeOK
      <4>2. e \in Entry
        BY <1>2, <3>1, <4>1, CountAssumption DEF Count, Entry
      <4>3. routes' = [routes EXCEPT ![ip] = e]
        BY <2>3, <3>1 DEF Del
      <4> HIDE DEF e
      <4> QED BY <1>2, <2>3, <4>1, <4>2, <4>3 DEF Del, TypeOK
    <3>2. CASE ~(Count(ip) > 0)
      BY <1>2, <2>3, <3>2 DEF Del, TypeOK
    <3> QED BY <3>1, <3>2
  <2>4. CASE Flush
    <3>1. \A i \in DOMAIN routes : [count |-> 0, pending |-> routes[i].pending] \in Entry
      BY <1>2, CountAssumption DEF TypeOK, Entry
    <3> QED BY <1>2, <2>4, <3>1 DEF Flush, TypeOK
  <2>5. CASE Apply
    <3>1. \A i \in DOMAIN routes : [count |-> Count(i), pending |-> FALSE] \in Entry
      BY <1>2, <2>1 DEF TypeOK, Entry
    <3>2. DOMAIN routes' \subseteq Ip /\ routes' \in [DOMAIN routes' -> Entry]
      BY <1>2, <2>5, <3>1 DEF Apply, TypeOK
    <3>3. \A ip \in Ip : AppliedDev(ip, Gateway) \in Wan \cup {NoRoute, OtherDev}
      BY <1>2 DEF Gateway, AppliedDev, Added, TypeOK, NC!RouteAdd, NC!RouteAddFails, NC!RouteDel
    <3>4. dev' \in [Ip -> Wan \cup {NoRoute, OtherDev}]
      BY <2>5, <3>3 DEF Apply
    <3> QED BY <1>2, <2>5, <3>2, <3>4 DEF Apply, TypeOK
  <2>6. CASE Close
    <3>1. dev' \in [Ip -> Wan \cup {NoRoute, OtherDev}]
      BY <1>2, <2>6 DEF Close, TypeOK, NC!RouteDel
    <3> QED BY <1>2, <2>6, <3>1 DEF Close, TypeOK, EmptyMap
  <2>7. ASSUME NEW i \in Wan, DefaultRoute(i) \/ LinkDown(i)
        PROVE  TypeOK'
    BY <1>2, <2>7 DEF DefaultRoute, LinkDown, TypeOK
  <2>8. ASSUME NEW ip \in Ip, ForeignAdd(ip) \/ ForeignDel(ip)
        PROVE  TypeOK'
    BY <1>2, <2>8 DEF ForeignAdd, ForeignDel, TypeOK
  <2>9. CASE UNCHANGED hvars
    BY <1>2, <2>9 DEF hvars, TypeOK
  <2> QED BY <1>2, <2>2, <2>3, <2>4, <2>5, <2>6, <2>7, <2>8, <2>9 DEF Next
<1> QED BY <1>1, <1>2, PTL DEF Spec

(***************************************************************************)
(* A route of the agent in the kernel is always one the cache has recorded  *)
(* as added, on the interface the router will use to delete it.             *)
(***************************************************************************)
THEOREM NoOrphanRoute == CleanupOnExit => (Spec => []NoOrphan)
<1> SUFFICES ASSUME CleanupOnExit PROVE Spec => []NoOrphan
  OBVIOUS
<1>1. Init => NoOrphan
  BY GatewayAssumption DEF Init, NoOrphan
<1>2. ASSUME TypeOK, NoOrphan, [Next]_hvars
      PROVE  NoOrphan'
  <2>1. ASSUME NEW ip \in Ip, Add(ip)
        PROVE  NoOrphan'
    <3>1. \A i \in Ip : Applied(i) => Applied(i)'
      BY <2>1 DEF Add, Put, Applied, Pending
    <3> QED BY <1>2, <2>1, <3>1 DEF NoOrphan, Add
  <2>2. ASSUME NEW ip \in Ip, Del(ip)
        PROVE  NoOrphan'
    <3>1. \A i \in Ip : Applied(i) => Applied(i)'
      BY <1>2, <2>2 DEF Del, Applied, TypeOK, Entry
    <3> QED BY <1>2, <2>2, <3>1 DEF NoOrphan, Del
  <2>3. CASE Flush
    BY <1>2, <2>3 DEF Flush, NoOrphan, Applied
  <2>4. CASE Apply
    <3> SUFFICES ASSUME NEW ip \in Ip, dev'[ip] \in Wan
                 PROVE  Applied(ip)' /\ dev'[ip] = ifname'
      BY DEF NoOrphan
    <3>1. /\ dev'[ip] = AppliedDev(ip, ifname) /\ ifname' = ifname /\ ifname \in Wan
          /\ routes' = [i \in {j \in DOMAIN routes : Count(j) > 0} |->
                          [count |-> Count(i), pending |-> FALSE]]
      BY <1>2, <2>4 DEF Apply, Gateway, TypeOK
    <3>2. ~Applied(ip) => dev[ip] \notin Wan
      BY <1>2 DEF NoOrphan
    <3>3. Applied(ip) => (dev[ip] \in Wan => dev[ip] = ifname)
      BY <1>2 DEF NoOrphan
    <3>4. CASE ip \in DOMAIN routes /\ Count(ip) > 0
      <4>1. Applied(ip)'
        BY <3>1, <3>4 DEF Applied
      <4>2. dev'[ip] = ifname
        BY <3>1, <3>2, <3>3, <3>4
           DEF AppliedDev, Added, Applied, Pending, NC!RouteAdd, NC!RouteAddFails
      <4> QED BY <3>1, <4>1, <4>2
    <3>5. CASE ip \in DOMAIN routes /\ ~(Count(ip) > 0)
      <4>1. Count(ip) = 0
        BY <1>2, <3>5 DEF Count, TypeOK, Entry
      <4>2. dev'[ip] \notin Wan
        BY <1>2, <3>1, <3>2, <3>3, <4>1, GatewayAssumption DEF AppliedDev, NC!RouteDel, TypeOK
      <4> QED BY <4>2
    <3>6. CASE ip \notin DOMAIN routes
      BY <3>1, <3>2, <3>6 DEF AppliedDev, Applied, Count
    <3> QED BY <3>4, <3>5, <3>6
  <2>5. CASE Close
    BY <1>2, <2>5, GatewayAssumption DEF Close, NoOrphan, NC!RouteDel
  <2>6. ASSUME NEW i \in Wan, DefaultRoute(i) \/ LinkDown(i)
        PROVE  NoOrphan'
    BY <1>2, <2>6, GatewayAssumption DEF DefaultRoute, LinkDown, NoOrphan, Applied
  <2>7. ASSUME NEW ip \in Ip, ForeignAdd(ip) \/ ForeignDel(ip)
        PROVE  NoOrphan'
    BY <1>2, <2>7, GatewayAssumption DEF ForeignAdd, ForeignDel, NoOrphan, Applied, TypeOK
  <2>8. CASE UNCHANGED hvars
    BY <1>2, <2>8 DEF hvars, NoOrphan, Applied
  <2> QED BY <1>2, <2>1, <2>2, <2>3, <2>4, <2>5, <2>6, <2>7, <2>8 DEF Next
<1> QED BY <1>1, <1>2, TypeCorrect, PTL DEF Spec

(***************************************************************************)
(* Cache and kernel agree: besides NoOrphan, a route the cache has recorded *)
(* is in the kernel, unless its interface may go down or another program    *)
(* uses its address.  The one interface the router asked for when it        *)
(* started makes this true: wherever the default route moves later, routes  *)
(* are added, found and deleted on that interface.  Needs that only other   *)
(* programs put OtherDev there.                                             *)
(***************************************************************************)
NotForeign == \A ip \in Ip \ ForeignDst : dev[ip] # OtherDev

THEOREM KernelAgrees == CleanupOnExit => (Spec => []RoutesInPlace)
<1> SUFFICES ASSUME CleanupOnExit PROVE Spec => []RoutesInPlace
  OBVIOUS
<1>1. Init => NotForeign /\ AppliedIsInKernel
  BY GatewayAssumption DEF Init, NotForeign, AppliedIsInKernel, Applied, EmptyMap
<1>2. ASSUME TypeOK, NoOrphan, NotForeign, AppliedIsInKernel, [Next]_hvars
      PROVE  NotForeign' /\ AppliedIsInKernel'
  <2>1. ASSUME NEW ip \in Ip, Add(ip) \/ Del(ip)
        PROVE  NotForeign' /\ AppliedIsInKernel'
    <3>1. \A i \in Ip : Applied(i)' => Applied(i)
      <4>1. CASE Add(ip)
        BY <4>1 DEF Add, Put, Applied, Pending
      <4>2. CASE Del(ip) /\ ~(Count(ip) > 0)
        BY <4>2 DEF Del, Applied
      <4>3. CASE Del(ip) /\ Count(ip) > 0
        <5>1. ip \in DOMAIN routes
          BY <4>3 DEF Count
        <5> QED BY <4>3, <5>1 DEF Del, Applied
      <4> QED BY <2>1, <4>1, <4>2, <4>3
    <3> QED BY <1>2, <2>1, <3>1 DEF Add, Del, NotForeign, AppliedIsInKernel
  <2>2. CASE Flush
    BY <1>2, <2>2 DEF Flush, NotForeign, AppliedIsInKernel, Applied
  <2>3. CASE Apply
    <3> SUFFICES ASSUME NEW ip \in Ip \ ForeignDst
                 PROVE  /\ dev'[ip] # OtherDev
                        /\ Applied(ip)' /\ ifname' \notin Volatile => dev'[ip] = ifname'
      BY DEF NotForeign, AppliedIsInKernel
    <3>1. /\ dev'[ip] = AppliedDev(ip, ifname) /\ ifname' = ifname /\ ifname \in Wan
          /\ Applied(ip)' <=> ip \in DOMAIN routes /\ Count(ip) > 0
      BY <1>2, <2>3 DEF Apply, Applied, TypeOK, Gateway
    <3>2. dev[ip] \in {NoRoute, ifname}
      BY <1>2 DEF TypeOK, NoOrphan, NotForeign, Applied
    <3>3. Applied(ip) /\ ifname \notin Volatile => dev[ip] = ifname
      BY <1>2 DEF AppliedIsInKernel
    <3>4. Count(ip) > 0 => Count(ip) # 0
      BY <1>2, CountAssumption DEF Count, TypeOK, Entry
    <3>5. CASE Count(ip) > 0 /\ Applied(ip)
      BY <3>1, <3>2, <3>3, <3>4, <3>5, GatewayAssumption DEF AppliedDev, Applied, Pending
    <3>6. CASE Count(ip) > 0 /\ ~Applied(ip)
      <4>1. NC!RouteAdd(dev, ip, {ip}, ifname, Wan) = ifname
        BY <3>1, <3>2 DEF NC!RouteAdd, NC!RouteAddFails, NC!RouteSearch
      <4> QED BY <3>1, <3>4, <3>6, <4>1, GatewayAssumption
              DEF AppliedDev, Added, Applied, Pending, Count
    <3>7. CASE ~(Count(ip) > 0)
      BY <3>1, <3>2, <3>7, GatewayAssumption DEF AppliedDev, NC!RouteDel
    <3> QED BY <3>5, <3>6, <3>7
  <2>4. CASE Close
    BY <1>2, <2>4, GatewayAssumption
       DEF Close, NotForeign, AppliedIsInKernel, Applied, EmptyMap, NC!RouteDel
  <2>5. ASSUME NEW i \in Wan, DefaultRoute(i) \/ LinkDown(i)
        PROVE  NotForeign' /\ AppliedIsInKernel'
    BY <1>2, <2>5, GatewayAssumption
       DEF DefaultRoute, LinkDown, NotForeign, AppliedIsInKernel, Applied
  <2>6. ASSUME NEW ip \in Ip, ForeignAdd(ip) \/ ForeignDel(ip)
        PROVE  NotForeign' /\ AppliedIsInKernel'
    BY <1>2, <2>6, GatewayAssumption
       DEF ForeignAdd, ForeignDel, NotForeign, AppliedIsInKernel, Applied, TypeOK
  <2>7. CASE UNCHANGED hvars
    BY <1>2, <2>7 DEF hvars, NotForeign, AppliedIsInKernel, Applied
  <2> QED BY <1>2, <2>1, <2>2, <2>3, <2>4, <2>5, <2>6, <2>7 DEF Next
<1> QED BY <1>1, <1>2, TypeCorrect, NoOrphanRoute, PTL DEF Spec, RoutesInPlace

(***************************************************************************)
(* The host router implements HostRouteSpec: whatever is added, deleted and *)
(* flushed between two Applys, exactly the addresses with a user have their *)
(* route put in place by the next one.                                      *)
(***************************************************************************)
THEOREM Refinement == Spec => Implements
<1>1. Init => Abs!AInit
  BY DEF Init, Abs!AInit, Count, Applied, EmptyMap
<1>2. ASSUME TypeOK, [Next]_hvars
      PROVE  [Abs!ANext]_<<[ip \in Ip |-> Count(ip)], {ip \in Ip : Applied(ip)}>>
  <2>1. ASSUME NEW ip \in Ip, Add(ip)
        PROVE  Abs!AAdd(ip)
    <3>1. \A i \in Ip : Count(i)' = IF i = ip THEN Count(i) + 1 ELSE Count(i)
      BY <2>1 DEF Add, Count, Put
    <3>2. \A i \in Ip : Applied(i)' <=> Applied(i)
      BY <2>1 DEF Add, Applied, Pending, Put
    <3> QED BY <2>1, <3>1, <3>2 DEF Add, Abs!AAdd
  <2>2. ASSUME NEW ip \in Ip, Del(ip), Count(ip) > 0
        PROVE  Abs!ADel(ip)
    <3>1. ip \in DOMAIN routes /\ routes[ip] \in Entry
      BY <1>2, <2>2 DEF Count, TypeOK
    <3>2. \A i \in Ip : Count(i)' = IF i = ip THEN Count(i) - 1 ELSE Count(i)
      BY <2>2, <3>1 DEF Del, Count
    <3>3. \A i \in Ip : Applied(i)' <=> Applied(i)
      BY <2>2, <3>1 DEF Del, Applied
    <3> QED BY <2>2, <3>2, <3>3 DEF Abs!ADel
  <2>3. CASE Flush
    <3>1. \A i \in Ip : Count(i)' = 0 /\ (Applied(i)' <=> Applied(i))
      BY <2>3 DEF Flush, Count, Applied
    <3>2. Abs!AFlush
      BY <3>1 DEF Abs!AFlush
    <3> QED BY <3>2 DEF Abs!ANext
  <2>4. CASE Apply
    <3>1. \A i \in Ip : Count(i) \in Nat /\ (Count(i) > 0 => i \in DOMAIN routes)
      BY <1>2, CountAssumption DEF Count, TypeOK, Entry
    <3>2. \A i \in Ip : Count(i)' = Count(i) /\ (Applied(i)' <=> Count(i) > 0)
      BY <2>4, <3>1 DEF Apply, Count, Applied
    <3>3. Abs!AApply
      BY <3>2 DEF Abs!AApply
    <3> QED BY <3>3 DEF Abs!ANext
  <2>5. CASE Close
    <3>1. \A i \in Ip : Count(i)' = 0 /\ ~Applied(i)'
      BY <2>5 DEF Close, Count, Applied, EmptyMap
    <3>2. Abs!AClose
      BY <3>1 DEF Abs!AClose
    <3> QED BY <3>2 DEF Abs!ANext
  <2>6. CASE UNCHANGED routes
    <3>1. \A i \in Ip : Count(i)' = Count(i) /\ (Applied(i)' <=> Applied(i))
      BY <2>6 DEF Count, Applied
    <3> QED BY <3>1
  <2>7. (\E ip \in Ip : (Add(ip) \/ (Del(ip) /\ Count(ip) > 0)))
           \/ Flush \/ Apply \/ Close \/ UNCHANGED routes
    BY <1>2 DEF Next, hvars, Del, DefaultRoute, LinkDown, ForeignAdd, ForeignDel
  <2> QED BY <2>1, <2>2, <2>3, <2>4, <2>5, <2>6, <2>7 DEF Abs!ANext
<1> QED BY <1>1, <1>2, TypeCorrect, PTL DEF Spec, Implements, Abs!ASpec

(***************************************************************************)
(* "Flush is used for smart merge" (hostroutes.go): whatever is flushed,    *)
(* counted again and applied, a route that still has a user is not touched, *)
(* wherever the default route has moved; only Close takes all of them.      *)
(***************************************************************************)
THEOREM MergeIsSmart == Spec => SmartMerge
<1> DEFINE Smart == \A ip \in Ip : dev[ip] \in Wan \ Volatile /\ dev'[ip] # dev[ip] =>
                      Count(ip) = 0 \/ routes' = EmptyMap
<1>1. ASSUME TypeOK, [Next]_hvars
      PROVE  Smart
  <2> SUFFICES ASSUME NEW ip \in Ip, dev[ip] \in Wan \ Volatile, dev'[ip] # dev[ip],
                      routes' # EmptyMap
               PROVE  Count(ip) = 0
    OBVIOUS
  <2>1. dev[ip] # NoRoute /\ dev[ip] # OtherDev
    BY GatewayAssumption
  <2>2. CASE Apply
    <3>1. dev'[ip] = AppliedDev(ip, Gateway)
      BY <2>2 DEF Apply
    <3>2. CASE Count(ip) > 0 /\ Pending(ip)
      BY <2>1, <3>1, <3>2 DEF AppliedDev, Added, NC!RouteAdd, NC!RouteAddFails
    <3>3. CASE ~(Count(ip) > 0 /\ Pending(ip))
      BY <3>1, <3>3 DEF AppliedDev
    <3> QED BY <3>2, <3>3
  <2>3. ASSUME NEW i \in Ip, Add(i) \/ Del(i) \/ ForeignAdd(i) \/ ForeignDel(i)
        PROVE  FALSE
    BY <1>1, <2>1, <2>3 DEF Add, Del, ForeignAdd, ForeignDel, TypeOK
  <2>4. ASSUME NEW i \in Wan, DefaultRoute(i) \/ LinkDown(i)
        PROVE  FALSE
    BY <2>4 DEF DefaultRoute, LinkDown
  <2>5. ~Flush /\ ~Close /\ ~UNCHANGED hvars
    BY DEF Flush, Close, hvars
  <2> QED BY <1>1, <2>2, <2>3, <2>4, <2>5 DEF Next
<1>2. TypeOK /\ [Next]_hvars => [Smart]_hvars
  BY <1>1
<1> QED BY <1>2, TypeCorrect, PTL DEF Spec, SmartMerge
=============================================================================
