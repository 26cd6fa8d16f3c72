------------------------------ MODULE PublicIp ------------------------------
(***************************************************************************)
(* The public address of this host: the cache of src/pkg/pubip, which many  *)
(* goroutines ask, and the interface monitor, src/agent/ifacemon, which     *)
(* looks for a new address after an interface has changed, and then makes   *)
(* the controller reconnect.                                                *)
(*                                                                         *)
(* GetPublicIp locks the cache while it asks STUN servers and, if they      *)
(* fail, a web service; Reset does not lock it.  A period later the cache   *)
(* expires.                                                                 *)
(***************************************************************************)
EXTENDS AgentState, Integers

CONSTANTS
  Wan, Home,  \* addresses the host may have; the first one
  NoIp, Nil,  \* 0.0.0.0, when the lookup has failed; and no address at all
  MaxOwed     \* bound: changes the monitor has not acted upon

ASSUME WanAssumption == Home \in Wan /\ NoIp \notin Wan /\ Nil \notin Wan /\ MaxOwed \in Nat

VARIABLES
  wan,         \* the address the host has
  announced,   \* an event of the kernel is waiting
  ip, fresh,   \* publicIP.cache, and whether it has not expired
  provider,
  looker,      \* who holds the lock
  asking,      \* where its lookup is
  answer,
  other,       \* somebody else (controller, CONFIG_INFO, GET_INFO) calls GetPublicIp
  monitor,     \* where the monitor's goroutine is
  check, publicIP,
  raced,       \* history: the last Reset met a lookup
  owed         \* history: changes of the address less calls of Reconnect

cache    == <<ip, fresh, provider>>
lookup   == <<looker, asking, answer>>
watcher  == <<monitor, check, publicIP, owed>>
publicip == <<wan, announced, cache, lookup, other, watcher, raced>>

(***************************************************************************)
(* The host gets another address, or an interface changes and the address   *)
(* does not; the kernel announces both.                                     *)
(***************************************************************************)
LinkUpdate(w) ==
  /\ Up /\ env.moves
  /\ wan' = w /\ announced' = TRUE
  /\ \/ w = wan /\ UNCHANGED owed
     \/ w # wan /\ owed < MaxOwed /\ owed' = owed + 1
  /\ UNCHANGED <<base, cache, lookup, other, monitor, check, publicIP, raced>>

-----------------------------------------------------------------------------
(***************************************************************************)
(* GetPublicIp.                                                             *)
(***************************************************************************)
Callers == {"monitor", "other"}

Calls(c) == IF c = "monitor" THEN monitor = "lookup" ELSE other

\* mutants: 0.0.0.0 is an address; it is not asked again
CompareIp_Unspecified(v) ==
  \/ /\ v # publicIP
     /\ publicIP' = v /\ monitor' = "reconnect"
     /\ owed' = owed - 1
     /\ UNCHANGED check
  \/ /\ v = publicIP
     /\ monitor' = "select" /\ check' = FALSE
     /\ UNCHANGED <<publicIP, owed>>

CompareIp_NoRetry(v) ==
  \/ /\ v \in Wan \ {publicIP}
     /\ publicIP' = v /\ monitor' = "reconnect"
     /\ owed' = owed - 1
     /\ UNCHANGED check
  \/ /\ v \notin Wan \ {publicIP}
     /\ check' = FALSE /\ monitor' = "select"
     /\ UNCHANGED <<publicIP, owed>>

\* the monitor compares; without an address it retries on the next tick
CompareIp(v) ==
  \/ /\ v \in Wan \ {publicIP}
     /\ publicIP' = v /\ monitor' = "reconnect"
     /\ owed' = owed - 1
     /\ UNCHANGED check
  \/ /\ v \notin Wan \ {publicIP}
     /\ monitor' = "select"
     /\ check' = (v \notin Wan)
     /\ UNCHANGED <<publicIP, owed>>

Returns(c, v) ==
  \/ c = "monitor" /\ CompareIp(v) /\ UNCHANGED other
  \/ c = "other" /\ other' = FALSE /\ UNCHANGED watcher

Cached(c) ==
  /\ Up /\ Calls(c) /\ looker = "nobody"
  /\ fresh
  /\ Returns(c, ip)
  /\ UNCHANGED <<base, wan, announced, cache, lookup, raced>>

Lookup(c) ==
  /\ Up /\ Calls(c) /\ looker = "nobody"
  /\ ~fresh
  /\ looker' = c /\ asking' = "stun"
  /\ provider' = IF provider = "fallback" THEN "stun" ELSE provider
  /\ UNCHANGED <<base, wan, announced, ip, fresh, answer, other, watcher, raced>>

Answers(v) == answer' = v /\ asking' = "answered" /\ UNCHANGED provider

AskStun ==
  /\ Up /\ asking = "stun"
  /\ \/ provider = "stun" /\ Answers(wan)
     \/ provider = "stun" /\ env.fails /\ provider' = "web" /\ asking' = "retry" /\ UNCHANGED answer
     \/ provider # "stun" /\ asking' = "web" /\ UNCHANGED <<answer, provider>>
  /\ UNCHANGED <<base, wan, announced, ip, fresh, looker, other, watcher, raced>>

\* A Reset in between makes it skip the web service too: what was found is
\* then the failure of STUN, or nothing.
AskWeb ==
  /\ Up /\ asking \in {"web", "retry"}
  /\ \/ provider = "web" /\ Answers(wan)
     \/ provider = "web" /\ env.fails /\ Answers(NoIp)
     \/ provider # "web" /\ Answers(IF asking = "retry" THEN NoIp ELSE Nil)
  /\ UNCHANGED <<base, wan, announced, ip, fresh, looker, other, watcher, raced>>

Found ==
  /\ Up /\ asking = "answered"
  /\ ip' = answer
  /\ IF answer = NoIp THEN provider' = "fallback" /\ UNCHANGED fresh
                      ELSE fresh' = TRUE /\ UNCHANGED provider
  /\ looker' = "nobody" /\ asking' = "no" /\ answer' = NoIp
  /\ Returns(looker, answer)
  /\ UNCHANGED <<base, wan, announced, raced>>

Expires ==
  /\ Up /\ fresh /\ env.moves
  /\ fresh' = FALSE
  /\ UNCHANGED <<base, wan, announced, ip, provider, lookup, other, watcher, raced>>

OtherCalls ==
  /\ Up /\ ~other /\ env.moves
  /\ other' = TRUE
  /\ UNCHANGED <<base, wan, announced, cache, lookup, watcher, raced>>

-----------------------------------------------------------------------------
(***************************************************************************)
(* The interface monitor.                                                   *)
(***************************************************************************)
TakeUpdate ==
  /\ Up /\ monitor = "select" /\ announced
  /\ announced' = FALSE /\ check' = TRUE
  /\ UNCHANGED <<base, wan, cache, lookup, other, monitor, publicIP, owed, raced>>

\* mutant: the cache is not reset
Reset_None == UNCHANGED <<fresh, provider>>

Reset == fresh' = FALSE /\ provider' = "stun"

CheckTick ==
  /\ Up /\ monitor = "select" /\ check
  /\ Reset
  /\ monitor' = "lookup"
  /\ raced' = (looker = "other")
  /\ UNCHANGED <<base, wan, announced, ip, lookup, other, check, publicIP, owed>>

\* Reconnect returns
Reconnected ==
  /\ Up /\ monitor = "reconnect"
  /\ monitor' = "select" /\ check' = FALSE
  /\ UNCHANGED <<base, wan, announced, cache, lookup, other, publicIP, owed, raced>>

StopMonitor ==
  /\ Up /\ monitor = "select" /\ Cancelled
  /\ monitor' = "done"
  /\ UNCHANGED <<base, wan, announced, cache, lookup, other, check, publicIP, owed, raced>>

\* New looks the address up
PublicIpInit ==
  /\ wan = Home
  /\ announced = FALSE /\ check = FALSE
  /\ publicIP \in {wan} \cup (IF env.moves /\ env.fails THEN {NoIp} ELSE {})
  /\ ip = publicIP
  /\ fresh = (ip \in Wan)
  /\ provider = IF ip \in Wan THEN "stun" ELSE "fallback"
  /\ looker = "nobody" /\ asking = "no" /\ answer = NoIp
  /\ other = FALSE
  /\ monitor = "off"
  /\ raced = FALSE
  /\ owed = IF publicIP = NoIp THEN 1 ELSE 0

Asking == AskStun \/ AskWeb \/ Found \/ \E c \in Callers : Cached(c) \/ Lookup(c)

Monitoring == TakeUpdate \/ CheckTick \/ Reconnected

World == Expires \/ OtherCalls \/ \E w \in Wan : LinkUpdate(w)

PublicIpNext == Asking \/ Monitoring \/ StopMonitor \/ World

-----------------------------------------------------------------------------
PublicIpTypeOK ==
  /\ wan \in Wan /\ announced \in BOOLEAN
  /\ ip \in Wan \cup {NoIp, Nil} /\ fresh \in BOOLEAN
  /\ provider \in {"stun", "web", "fallback"}
  /\ looker \in {"nobody"} \cup Callers
  /\ asking \in {"no", "stun", "web", "retry", "answered"}
  /\ looker # "nobody" <=> asking # "no"
  /\ looker # "nobody" => Calls(looker)
  /\ answer \in Wan \cup {NoIp, Nil}
  /\ other \in BOOLEAN /\ raced \in BOOLEAN
  /\ monitor \in {"off", "select", "lookup", "reconnect", "done"}
  /\ check \in BOOLEAN /\ publicIP \in Wan \cup {NoIp}
  /\ owed \in Int

(***************************************************************************)
(* The connection to the controller is given up for a new address, not for  *)
(* a lookup that failed, an answer that was late or an address that was     *)
(* acted upon before.                                                       *)
(***************************************************************************)
OnlyForAChange == owed >= 0

(***************************************************************************)
(* A new address is noticed, although the lookups that follow the event may *)
(* fail, and although it comes while the last one is looked up.  Except if  *)
(* the Reset meets the lookup of somebody else, who then stores the old     *)
(* address as a fresh one.                                                  *)
(***************************************************************************)
AddressFollowed ==
  \A w \in Wan :
    <>[](/\ Up /\ ~Cancelled /\ monitor \notin {"off", "done"}
         /\ wan = w /\ ~raced /\ publicIP # NoIp)
      => <>[](publicIP = w)
=============================================================================
