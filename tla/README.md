# TLA+ model of the Syntropy agent

This directory holds a TLA+ model of the agent in this repository: modules
translated from its Go code, TLC configurations that check them on small
instances, and TLAPS proofs of the most important properties for all instances.
`PROJECT.json` says, for every definition, which lines of the code it stands for.

    tlc -workers 2 -config router.cfg MCRouter
    tlapm RouterProofs.tla

## 1. The system

The agent connects to a controller, which sends it the peers and services it
shall reach. It builds WireGuard tunnels to the peers and, as several tunnels may
lead to the same service, keeps measuring them and routes every service through
the best one.

    controller -- controller/saas --> agent (command loop)
                                        |  CONFIG_INFO, WG_CONF
                                        v
                                     agent/mole
                      +---------------+-+-------------+----------------+
                      v               v               v                v
               agent/swireguard  agent/hostroute  agent/router    ipfilter, ctrlmgr
                      |               |           peermon, servicemon
                      v               v               v
                   WireGuard     kernel routing table (pkg/netcfg)
                                                      ^
     agent/peerwatch -- pkg/multiping rounds ---------+
     agent/docker, kubernetes, hostnetsrv, ifacemon, autoping: report to the controller

| component | state | operations | what makes it correct |
|---|---|---|---|
| router (`agent/router`) | groups (GID) of peers and services, conflict marks | RouteAdd, RouteDel, Flush, Apply, PingProcess, Close | one active route per service; two groups never own an address; everything pending is applied |
| peer monitor (`router/peermon`) | peer list with pending/disabled flags, ping statistics, the current best path | AddPeer, DelPeer, Apply, ResolveIpConflict, PingProcess, BestPath, Close | the host route of every enabled peer is in the kernel; the best path is a peer of the group |
| service monitor (`router/servicemon`) | per service a list of entries with add/del/active flags | Add, Del, Apply, Reroute, ResolveIpConflict, Flush, Close | the kernel's route is the active entry's |
| host routes (`agent/hostroute`) | address to use count and pending mark; default gateway | Add, Del, Flush, Apply, Close | a route exists exactly while somebody uses it |
| WireGuard cache (`agent/swireguard`) | devices and their peers | CreateInterface, AddPeer, RemovePeer, Flush, Apply, Close | the kernel has the cached devices and peers and no others |
| mole (`agent/mole`) | peer cache; owns the four above | CreateInterface, AddPeer, RemovePeer, Flush, Apply, Close | tunnels, routes and endpoints fit together after every message, also after restarts |
| messages (`configinfo`, `wgconf`) | none | Exec | the order of calls to mole |
| SaaS controller (`controller/saas`) | connection state, websocket, queue, health timer | Open, Recv, Write, Reconnect, Close; sendLoop, healthcheck | no message repeated or reordered, dead connections replaced, callers do not hang |
| other controllers (`script`, `blockchain`) | file position; last commodity | Open, Recv, Write, Close | what is delivered comes in order, the newest is not lost |
| agent (`agent/agent.go`) | list of commands and services, receive queue | Run, Close | messages are executed, in order and once |
| multiping (`pkg/multiping`) | sockets, goroutines of a round, sequence number | Ping, with its receivers, sender and processing | a reply is counted for the request it answers, in its round; Ping returns and nothing it started goes on |
| peer watch, autoping | ping data, list of peers or hosts, counters, ticker | tick, report; AUTO_PING | a report tells what was pinged, of those it is about, and comes again and again |
| service discovery (`docker`, `kubernetes`, `hostnetsrv`) | connection, error count, last reported services | events, periodic scan; GET_INFO | every change is reported, an error is not a change |
| interface monitor, public address | cached address and its age, provider, lock; last address acted upon | GetPublicIp, Reset, netlink events, tick | Reconnect when the address changes, and only then |
| reports (`peeradata`, `routestatus`) | entries of one message | Add, Send | what is reported is what was applied |
| others | | | iptables wrapper, information requests, metrics, configuration, logging: pure I/O or formatting |

What is hard in this code:

* **Concurrency.** A command goroutine executes the controller's messages, a
  ping goroutine reroutes services, the main goroutine closes everything;
  `Mole.Flush` and `Mole.Apply` do not take mole's lock. The SaaS connection has
  six kinds of goroutines that store into one state machine without comparing. A
  ping round has five goroutines and waits for three. The services ping, compare
  and report while commands change what they are about.
* **Order.** Go iterates over maps in any order, and resolving one address
  conflict changes who conflicts.
* **Other programs** change the routing table and the default route.
* **Restarts.** The caches are lost, the kernel keeps its state.
* **Partial failures.** A kernel call fails and the cache goes on.
* **Bounds.** Apply makes at most three passes; the send queue has a capacity;
  host routes are counted.

## 2. Modules

| module | models | state |
|---|---|---|
| `Maps` | Go maps: functions with a finite domain | - |
| `Netcfg` | `pkg/netcfg/route.go`: search, add, delete and replace a route, with the search's confusion of networks that begin with the same address | the device of a destination |
| `Router` | `agent/router`, `peermon`, `servicemon`, with the calls CONFIG_INFO and WG_CONF make | the cache, the kernel's table, the running method and its loops |
| `RouteSelector` | statistics in `peermon/peerlist`, the strategies `routeselector/speed` and `dr` | peers with flags and measurement windows, selected path, underdog counter, path in use |
| `HostRouteSpec` | the abstract promise of a host router | what is wanted, what is in place |
| `HostRoute` | `agent/hostroute`, implements `HostRouteSpec` | cache, gateway, kernel |
| `Wireguard` | `agent/swireguard` | cached devices, kernel devices |
| `Mole` | `agent/mole`, `configinfo`, `wgconf`, restarts; composes the three above | theirs, the peer cache, the stage of message and Close |
| `SaasController` | `controller/saas` | the goroutines' positions, state machine, mutex, connections, queue, timer |
| `PingStats` | what `pkg/multiping/pingdata` counts of a host | - |
| `PingSpec` | the abstract promise of Ping | who waits, for which hosts, and what came out |
| `MultiPing` | `pkg/multiping`, implements `PingSpec` | statistics of each client, lock, sequence number, sockets, goroutines, replies on their way |
| `AgentState` | what the agent's goroutines share | context, the command being executed |
| `AutoPing`, `PeerWatch`, `ServiceWatch`, `PublicIp` | `agent/autoping`; `agent/peerwatch`; `agent/docker`, `kubernetes`, `hostnetsrv`; `agent/ifacemon` with `pkg/pubip` | each the position of its goroutines, its data and its locks |
| `Agent` | `agent/agent.go`, the script and blockchain controllers; composes the four above over `AgentState` | the receiver, the receive queue, the handler |
| `MCRouter`, `MCRouteSelector`, `MCHostRoute`, `MCMole`, `MCSaas`, `MCMultiPing`, `MCAgent` | the values of the constants for TLC | - |
| `RouterProofs` (the cache, conflicts, iterations), `RouterKernelProofs` (cache and kernel), `RouteSelectorProofs`, `HostRouteProofs`, `MoleProofs`, `SaasProofs`, `MultiPingProofs`, `AgentProofs` | theorems | - |

**Grain.** A method that holds its mutex and touches only its cache is one
action. A method that touches the kernel is one action per iteration of its
loops (`ApplyPeers`, `SetRoute`, `MergeRoutes`, `RerouteService`, ...), because
another program may change the kernel in between; the variables `phase`, `iter`,
`todo` and `loop` of `Router` are the program counter and the loop variables of
the method that holds the mutex. In `SaasController` an action is what a
goroutine does between two accesses to shared state.

**Router.** `routes[g].peers[a]` is a `PeerInfo`, its `flags` the set of `Pif`
bits; `routes[g].services[s]` is a `routeList`: `disabled`, and `list` from a
peer's address to its `routeEntry` with the set of `rf` bits. A destination is in
`kernel` with the device of its route. `Base` gives the address a destination
begins with, and `Near` the destinations whose routes a search confuses: a peer's
address is of full length, so no two of them are alike, but a service may begin like
a peer or another service. `RoutedSince` is the table between the search of
`setRoute` and its add, when another program may have been faster. `job` is the message being executed.
`BestPath` is any peer of the group or none: all that is assumed of the route
selectors. `HasPeer` is modelled as the code is (see section 6).

**RouteSelector.** One group, seen by its selector. `sel` is `bestRoute` and the
`underdog`; `Calculate` is the set of outcomes of `calculate`, one per order of the
Go map (`BestRoutes` folds over every order). A window is the ring buffer, oldest
round first, zero where nothing was measured, as the code fills it. Every ping
round sends one packet, so a result is a latency without loss or a loss without
latency. A ping round and an Apply end in `BestPath`, under the same mutex. Averages
are exact; rounding of `float32` is not modelled. `steady` is the assumption of the
liveness property: from some time on each link repeats its last result.

**HostRoute.** `Gateway` is the interface of the default route `Init` found and never
changes: without one `Init` returns an error and the agent does not start, and the
lookup in Apply (`hostroutes.go:91`) is never reached, as even the failed lookup
stores a valid address, 0.0.0.0. `default` is what the host has now. Endpoints are
addresses of full length, so a search finds another route only if another program
has one to a network that begins with an endpoint: in `dev` that is a foreign route
like any other.

**Mole.** The modules are instantiated on common variables: `links` of the router
is the set of devices WireGuard has (`DOMAIN os`), and a device that is deleted
takes its routes along (`KernelDropsRoutes`). `stage` is where the message is,
`closing` where Close is; both advance independently except where mole's lock
forbids it (`Unlocked`). `Restart` loses every cache and keeps the kernel.
`torn` is a history variable: a message was cut off by a restart or met a Close.
Assumed of the controller: it names an interface once in a message, and does not
remove in a WG_CONF a peer it adds in the same one; peers have an endpoint.
What residual peers were allowed is deleted in one action, as is Flush: nothing
else reads that state in between. The search for a leftover route may find one that
begins with the same address, on another interface; then the leftover stays
(`Mistakable`). Host routes and the router's have tables of their own (`hostDev`,
`kernel`): an endpoint is not the address of a peer or a service, and no such network
begins with it.

**SaasController.** Connections are identifiers; one nobody refers to is used
again by the next dial. `dead` is a connection whose other end is gone without a
word, `stuck` one that takes no more data. A call of a method of a nil websocket
or a send on a closed queue is the outcome `panic`. Runs of the health check are
goroutines too; one at a time is enough, as the timer is armed when one ends.
Close and Reconnect may be called, or not, at any time after Open.

**MultiPing.** An action is what a goroutine does between two channel operations;
both channels are unbuffered, so a packet is with one goroutine or the other.
Ping's own actions are `Restart` (lock, sockets, `go`), `Timeout` (close the
sockets) and `Cleanup` (the wait group is empty, forget the data). The network is
`wire`: the replies to requests of this round and the one before, which may arrive
never, late, in any order and again. A goroutine that still needs the data after
`Cleanup` would dereference nil or race with the caller: `overrun`, where a
behaviour ends. A client always passes new or reset statistics, as all callers do.

**Agent.** Each service and the goroutines it shares state with are a module over
`AgentState`; the variables of one are not touched by the others, they meet in
`cmd` (the message handler executes one command at a time), `life` (the context,
cancelled by Close, which waits for nobody) and `env`. `env` is chosen in `Init`
and says which controller there is, what it will send and what may go wrong.
`Ping` is what `PingSpec` promises: it takes any time and leaves every host
unsent, lost or answered. Write and Reconnect return (`SaasController`). Where Go
may stop the program (a nil client, a map that two goroutines use), `life` becomes
"crashed".

* `AutoPing`: `holder` is the owner of the lock, `spawned` counts the goroutines
  Exec has started, `tick` is the ticker's channel of one.
* `PeerWatch`: CONFIG_INFO empties the device cache (`Flush`) and then adds the peers
  one by one (`SetPeer`), in any order; WG_CONF adds and removes. `Mole` is the detailed
  model. A tick under way goes on with the interface objects it has copied (`old`,
  `Held`), with the peers of before the Flush; one that starts meanwhile sees what is
  there by then. An interface not created yet is one without peers.
* `ServiceWatch`: `actual` is the truth, `known` the list sent last; `event` the
  docker event stream, for the others every tick is one; kubernetes' token expires
  once. Docker inspects the containers of its list one after the other, and what is
  gone by then is used all the same (`InspectFails`); kubernetes leaves out a namespace
  it cannot make a client for (`env.skips`). The contents of a list are otherwise
  read at once.
* `PublicIp`: `looker` holds the lock of the cache, `asking` is where its lookup
  is; `CheckTick` is the unlocked Reset. `other` stands for all other callers.

## 3. Runs

All times with two workers; a distinct question has a run of its own.

| run | instance | what it shows |
|---|---|---|
| `router` | three scenarios. Two groups, three peers, a service both publish, and a service with the address of a peer of the other group; a group with two paths for itself; one with one path beside a group whose interface comes and goes and for whose service another program adds and deletes a route | types; one active route; a disabled service holds no route; conflicts are not forgotten; three passes are enough; for everything nobody else touches kernel and cache agree after each step and Close leaves nothing behind, while a service begins with the address of a peer (700k states) |
| `router_one_owner` | the first scenario | *violated*: both groups own the service after a CONFIG_INFO |
| `selector` | a public path and two relays, window of two rounds, one relay may be in conflict with another group, both strategies | best path whatever the map order; loss comes first; no path is left and taken again; steady links lead to the goal of the strategy (200k states) |
| `hostroute` | two addresses, two users each, two WAN interfaces, one may go down, the default route moves or disappears, one foreign route | the cache implements its promise; kernel and cache agree on what is applied and no route is orphaned (`RoutesInPlace`); smart merge |
| `mole` | three peers on two interfaces; one endpoint shared by all, one service by two, and it begins with the address of one of them; an interface may fail; one restart | kernel and caches agree between messages; endpoints stay routed; services lead to peers; nothing obsolete stays (1.9M states; its service is in `OwnService` and two of the three peer addresses in `OwnGateway`, to which the last two claims are limited, see section 6) |
| `mole_residue` | two peers, no cleanup on exit (the default), one restart | *violated*: a residual route of a service survives the first configuration |
| `mole_blocked` | two peers, an interface that cannot be created | *violated*: Apply waits for itself |
| `saas` | six scenarios, one kind of trouble each: failing dials, stalled writes, a dead peer, Reconnect, Close, a full queue | no message twice or out of order; a connection in use is watched, a lost one replaced, a dead one dropped; Write and Close return (230k states) |
| `saas_close_final` | Close and a health check | *violated*: a Close during a reconnection is overwritten |
| `multiping` | one client, a host of each family, with and without an IPv6 socket | only true answers are counted; Ping implements `PingSpec` and returns (175k states) |
| `multiping_overrun` | two clients | *violated*: a reply is still being processed when the round is cleaned up |
| `agent` | thirteen environments (`MCAgent!MCEnvironments`) | commands in order and all executed; reports are about what was asked and true; they come again and again; services and the public address are followed, errors are not changes (51k states, 3 minutes: five liveness properties) |

**Scenarios.** The components in `agent`, the groups in `router` and the
troubles in `saas` would multiply; each scenario fixes some of them. `env` does it
in the initial state. `router` has no such variable, so a state constraint
(`OneScenario`) keeps to the groups of one scenario, and an action constraint (`NothingNew`)
starts no message or round after Close, as the process ends then: neither
hides a step of a message, a round or a Close that has begun.

**Bounds.** `MaxCount` (users of a host route), `MaxRestart`, `msgs`, `MaxOwed`
(changes of the address the monitor has not acted upon: two, one it is looking up
and one that comes meanwhile), `SeqMod` (three sequence numbers: this round, the
one before, and the wrap) and the
sets of the configurations (which give `Base`, the addresses destinations begin with,
too; in `router` the second path of a group leaves with a
CONFIG_INFO, the others also with a WG_CONF) are the only bounds; the number of messages in `Router`
and `Mole`, of ping
rounds, reconnections, ticks, reports and environment steps is not bounded, TLC explores all of
them. Two groups are enough for a conflict (it is a relation of two), two peers
in a group for a choice, and three peers for an interface that has one besides
the one removed. For `NothingPending` the number of groups matters: `router` has two
rivals for an address, and its mutant that allows one pass is caught; that three
passes serve three rivals is proved, and four are too many (section 6). A send queue of one with three messages fills,
blocks and is discarded; the code's capacity is 20 with a limit of 4, but only
"full", "almost full" and "has room" are told apart; the receive queue of `Agent`
is one for the same reason. Two connections, the old
and the new one, are live at a time; a third shows that none is confused. In
`agent` three messages are enough for one executed, one waiting and one arriving;
a period of two rounds (`controlerSendCount`) has a first and a last one; two
errors in a row reconnect to kubernetes (`reconnectErrors`), the counter wraps at
four (`CountMod`).

`selector` has three peers because a choice between two relays needs two besides
the public one; latencies 4, 5 and 8 with thresholds 5/4 and 3 are equal, closer
than half a threshold, and beyond it; a window of two can be half full of losses.

**Deadlock** is checked except in the `saas`, `multiping` and `agent` runs: the agent stops after
Close, or crashes, a behaviour of `multiping` ends with `overrun`, and a script may
be at its end with no service running.

**Fairness** of `RouteSelector`: a timer starts ping rounds for ever
(`SteadyRound`). Of `SaasController`: weak fairness of each goroutine's own
steps: the Go scheduler runs what is runnable. Strong fairness of `WritePong`,
which waits for a mutex that others take again and again: Go's mutexes hand over
to a waiter after 1 ms. Dialling is retried for ever and succeeds some time
(the failures in between are one step, `DialFails`: repeating it changes nothing). Silence of a dead connection is noticed. Nothing is
assumed of the network otherwise, and nobody has to call Close or Reconnect.
Of `MultiPing`: goroutines that can go on do, the timeout comes, a closed socket
ends its reader, and the lock is handed over (strong fairness of `Restart`);
nothing of replies. Of `Agent`: the same for its goroutines and locks, tickers
tick, Ping, Write and Reconnect return (the runs `multiping` and `saas` show it),
and of the lookups of the interface monitor not all fail. Nothing is assumed of
the environment: no event, failure, change or Close has to come.

## 4. What is proved

TLAPS checks these for all values of the constants (any number of groups, peers,
services, interfaces), from the `ASSUME`s of the modules only.

| theorem | argument |
|---|---|
| `RouterProofs!TypeCorrect` | `TypeOK` is inductive. Its parts: every group is well formed (`RoutesType`), and the loop variables point into the cache (`LoopType`): while a method runs it holds the mutex, so groups and services it has still to visit exist. One lemma per helper (`ListAdd`, `MoveActive`, `MergeRoutes`, ...) gives its type. |
| `RouterProofs!AtMostOneRoute` | An active entry of a list is unique. Not inductive alone: an entry becomes active only when `GetActive` found none or after the old one lost its flag, and lists keep their types. |
| `RouterProofs!DisabledIsInactive` | A list becomes disabled in `ResolveIpConflict` or when created, in both cases without an active entry, and no action activates an entry of a disabled list. |
| `RouterProofs!NoConflictOutlivesItsCause` | Resolving a conflict can only create conflicts: a destination that is enabled again is one more that `HasAddress` finds. So what the resolving pass left disabled in a group it has been through (`Resolved`) is still in conflict when the pass ends, in every order of the iterations; and until the next message nothing undoes it (`Quiet`). |
| `RouterProofs!ThreeIterationsSuffice` | `AddrInv`, for one address that three groups at most contend for (`Uncrowded`). When Apply starts it has two losers at most, since there is an owner (`Owned`). As long as nobody who has been applied holds it (`Held`), each resolution takes a loser away (`InPass`, `InResolve`, `Few`), and once somebody holds it, it is not freed again. So in the third resolution nothing is left to be freed, or it is held. Peers are dropped in the first iteration only (`Staying`). |
| `RouterKernelProofs!KernelFollowsCache` | `DestInv`, for one own destination at a time, whatever is done to the others: a search for its route finds no other one, as none begins with the same address (`Alone`). `Synced` says what the property needs; it is not inductive alone, since a group that has lost its last peer is dropped with its services: their routes are gone by then, as an entry is about to be deleted before its peer is (`Backed`) and every list has been applied (`Applied`), and an own destination is never in conflict (`Origin`, from `NoStaleConflict`'s invariant). |
| `RouterKernelProofs!NothingLeftBehind` | the same invariant: Close has been through every group, so the destination is `Unknown`. |
| `RouteSelectorProofs!BestRouteIsLeast` | `Better` is irreflexive and transitive (fractions compared by cross-multiplication, `FractionsTransitive`), the loop keeps a peer that nothing it has seen is better than (`BestInIsLeast`), and every order visits every peer (`OrderVisitsAll`). With complete statistics all peers are valid, so not better means not less. |
| `RouteSelectorProofs!LossComesFirst` | `Decided`: while nobody is pending, the selection is what the strategy made, from some earlier selection, of the statistics as they are. For that a disabled peer must have its `AddPending` flag (`Tidy`): a resolved conflict leaves it pending. A window without a lost round is one in which every round was answered (`CompleteWindow`), which is why `dr` never takes a lossless path for an incomplete one. |
| `RouteSelectorProofs!NoInstantFlap` | case by case through the two decisions in a row (`SpeedStays`, `DirectStays`): a path left because it, or the public one, loses packets is neither the best nor, in the second decision, the public one. |
| `HostRouteProofs!TypeCorrect` | inductive as it stands; that no count goes below zero is the guard of `Del` and the reset of `Flush`. |
| `HostRouteProofs!KernelAgrees` | with cleanup on exit; needs that the interface routes are deleted on is the one they were added on: the gateway of the start, wherever the default route is now. |
| `HostRouteProofs!Refinement` | each action of `HostRoute` is an action of `HostRouteSpec` on counts and non-pending entries, or a stutter. |
| `HostRouteProofs!MergeIsSmart` | only Apply can touch the route of a user, and it adds nothing where there is a route and deletes only what has no user. |
| `MoleProofs!DevicesInStep` | `InStep`: from the moment `Wireguard.Apply` has returned until the next message begins the kernel has the devices and peers of the cache, and the peer cache has the keys of the WireGuard cache at any time before Close. |
| `MoleProofs!EndpointsStay` | `HostsCounted`: the use count of an endpoint is at least the number of cached peers that have it. It can be more (a peer added again is counted again), never less: `AddPeer` counts and caches, `RemovePeer` uncounts once and forgets the entry, in that order. |
| `MoleProofs!NoBlackHole` | `WInv`, for the services of one group with one peer on each interface (`OwnService`). `WantedAllowed`: an address that is one peer's own on its interface is let through by the kernel as long as the WireGuard cache has that peer. `ServicesOwned`: a path of a service that is not about to be deleted belongs to a peer that cache has, and a list Apply has been through has nothing about to be deleted. The router's loops must visit only what is there (`LoopsInside`), and the peer cache must know the WireGuard cache (`CacheKnows`). |
| `MoleProofs!NoObsoleteRoute` | `GInv`, for addresses that are one peer's own (`OwnGateway`). `Apart`: such an address is in no list but the peers of its group. `Flagged`: the flags of its entry say what the message asked for. `Answered`: an address with a route is in the peer list, or still a peer of the WireGuard device, or among the residues whose routes are to be deleted (no search mistakes another route for it, since none is `Near`); a restart empties the first, and `Wireguard.Apply` moves it from the second to the third. Claimed of messages that were not cut off by a Close. |
| `SaasProofs!TypeCorrect` | The mutex belongs to the one goroutine that is writing. Needs that nothing runs before Open (`Fresh`). One lemma for all steps that leave the mutex alone (`Moves`), one for panics. |
| `SaasProofs!DeliveredInOrder` | `Flow`: numbers grow from what was delivered over `msg` to the queue and to `next`; what was delivered is even below `msg` while sendLoop has not tried to send it (`Holding`), so a failed write that did arrive is no repetition either, as it leaves `Holding`. |
| `SaasProofs!ConnectionsAreWatched` | inductive with the types: whoever stops the timer while the receiver reads is a goroutine that arms it again, or the receiver itself on its way to a new connection; a health check that ends has armed it or closed the connection. |
| `MultiPingProofs!TypeCorrect` | Only the client with the lock is in a round; the goroutines, the packets they hold and the hosts left to visit belong to that round or there are none. |
| `MultiPingProofs!AnswersAreTrue` | What is counted for a host carries the number of the round or none (`StatsShape`, `Round`), so only a reply with that number is counted; a reply that carries it was made by `SendPacket` after that, since of the rounds before only replies with the previous number are left and `NextSeq` gives another (`WireTrue`, `GotTrue`, `Numbers`). |
| `MultiPingProofs!Refinement` | `Call` is a call, `Cleanup` and `RestartFails` are a return, everything else a stutter; needs that a host is sent at most once (`todo`) and that a round touches nobody else's data. |
| `AgentProofs!Invariant` | The conjunction of five invariants, one per component, that meet only in `cmd`. `Elsewhere` says what a step of the others can do to a component: nothing, except that Run starts its goroutine, and no one executes AUTO_PING but `AutoPing`. |
| `AgentProofs!TypeCorrect` | part of the five. |
| `AgentProofs!MessagesInOrder` | `Ordered`: numbers grow from what was executed over the command being executed and the queue to what the receiver is about to hand over, and none is above what it has read (`Newest`), whether it reads files one by one or jumps to the newest commodity. |
| `AgentProofs!ReportsWereAsked` | `Locking`: the lock is Exec's exactly while it is at work, so neither pinger holds it then, and the list it replaces is not one that is being pinged. |
| `AgentProofs!LossWasTrue` | `Counted`: except while a report is written the statistics of an address are the results of its streak of rounds. An address of the map was in the last round, and one that was not has no streak, so that what `Merged` starts from nothing had nothing to count. |
| `AgentProofs!ServicesWereReal` | What is there has been there; a failure of docker needs an environment that fails or an agent that is closing, a list of kubernetes that leaves something out one with such a namespace, and none of these is taken back. |
| `AgentProofs!ReconnectsForAChange` | `Chain`: the address acted upon, the one in the cache, the answer on its way and the host's own form a chain, and there are at least as many changes not acted upon as places where it changes from one to the next. An answer that arrives shortens the chain, and Reconnect is called only when its first link is broken. |

Two of these need induction over data: the sums over a window and the loop over a
map. The library's induction theorems take an operator as parameter; here the
induction is over a set of numbers whose complement would have a least element
(`SetInduction`, from `WFMin`), and a function defined by recursion exists because
each of its beginnings does (`Recursion`, `UptoInduction`).

Every invariant and every safety property of a step that a passing run checks is a theorem.
Model-checked only is liveness (TLAPS does not do fairness or `ENABLED`): `LongTermBest`,
`Recovers`, `DeadConnectionDropped`, `CallsReturn`, `PingReturns`, `ReportsFollow`,
`PeersReported`, `ServicesReported`, `Executed`, `AddressFollowed`.

## 5. Assumptions about code outside `src/`

The kernel has one route per destination in the main table; `RouteAdd` fails when
there is one; deleting an interface deletes its routes. WireGuard lets an address
be allowed for one peer of a device: configuring a peer takes it from the others.
A gorilla websocket reports a broken connection to reader and writer; a write to
one whose peer is gone succeeds until its send buffer is full; a control message that
times out is a failed write, after which the connection writes no more. Replies to pings
may be lost, late and repeated; those of an older round than the last are lost. A
`time.Ticker` holds one tick, and stopping it does not take it back. The kernel
announces a change of the address once it is in place. Docker announces every creation, removal, start and stop of networks and containers,
which are one list in the model, but a container that ends by itself with another
event ("die"), which the watcher ignores; its client returns an error
when the daemon fails. STUN and the web service answer with the host's address or
fail.

## 6. Where the code and its comments disagree, and known limits

Five runs show a disagreement (`findings` of `PROJECT.json`):

* `router_one_owner`: `ServiceMonitor.Add` keeps the `disabled` flag of a list
  that exists and `HasAddress` ignores lists that are being deleted; a CONFIG_INFO
  that names the groups in the other order enables the service in both.
* `mole_residue`: `HasActiveRoute` counts services that are only about to be
  added, so a residual route through an interface whose peer is gone is kept, and
  the router then respects it as somebody else's.
* `mole_blocked`: `Wireguard.Apply` holds the read lock while `CreateInterface`
  asks for the write lock.
* `saas_close_final`: `connect` stores its states without looking at the old one.
* `multiping_overrun`: the wait group counts receivers and sender only; a reply
  that is still being processed meets data that `cleanup` has set to nil.

Modelled as the code does it, without a run of its own:

* `PeerList.HasPeer` (`peerlist.go:47`) is constantly false: `&` and `|` of Go
  have other precedences than the expression assumes. Conflicts with the address
  of a peer are never seen.
* `RouteSearch` compares the address a destination begins with and no prefix
  length (`route.go:133`), so a route to 10.0.0.0/16 is found when 10.0.0.0/24 is
  searched: `setRoute` calls its entry active and adds nothing, and `RouteAdd`
  refuses. The same search keeps a leftover route (`mole`), and a reroute of the
  service that has no route may replace or delete nothing. `router` and `mole` both
  have a service that begins with the address of a peer. `CacheMatchesKernel` is
  claimed for destinations that begin like no other (`Alone`): with one group that
  has two services with one beginning, and without that conjunct, TLC finds it
  violated after 270 states, a service with an active entry and no route.
* A peer added and deleted before an Apply is added.
* Pings: a host of a family there is no socket for makes `batchSendIcmp` stop; the
  hosts after it are not pinged in this round, and the goroutine that prepares
  packets is blocked for ever, once per round. A round that could not be sent has
  no loss in the eyes of the route selectors.
* `pubip.Reset` does not lock: if another caller's lookup began before it, its old
  answer is stored as a fresh one after it, the monitor reads that, and a change is
  not noticed before the next link event. `AddressFollowed` excepts this case
  (`raced`); without the exception TLC finds it. A Reset between the two providers
  lets the lookup store no address at all as fresh, for one period. If the first
  lookup fails, `publicIP` stays 0.0.0.0 until a link event comes.
* AUTO_PING: a tick that waited when the request was withdrawn still causes an
  (empty) run or one more report for the new hosts. Close flushes the hosts
  without the lock, which Go may punish by stopping the program; so may GET_INFO,
  which looks at the docker client before another goroutine drops it.
* Docker: an API error and a cancelled context give an empty list, which is
  reported as such; a container that dies is not noticed; one that is gone between the
  list and its inspection crashes the agent (`helper.go:84` uses the answer that is
  missing); a stream that ended is
  never opened again, and GET_INFO finds no client from then on. What runs before
  the first event is not reported by the watcher.
* Kubernetes: a namespace whose client cannot be made is skipped without an error
  (`client.go:49-55`), so its services are reported as gone; `OnlyRealServices` and
  `ServicesReported` are claimed without such a namespace.
* CONFIG_INFO drops the statistics of peers that stay configured when a tick comes
  while they are missing in the cache: their loss is counted from then on. A peer
  nothing could be sent to in a period is reported as losing everything.
* A blockchain commodity is remembered before it is fetched: if IPFS fails it is
  lost, and of several new ones only the last is read. `Recv` looks at the state
  only when it is called, so a Close during its polling is not noticed. The script
  controller goes on reading its files after Close.
* Reports SaaS discards (full queue, no connection) are not sent again: for
  services `known` then is what the controller never got.
* Two peers of one interface with a service in common: WireGuard takes the address
  from the one that had it, and when the new owner is removed nobody gives it back;
  the router, which goes on with the other, sends the service into a tunnel where
  no peer accepts it. One peer address on two interfaces, or one that is also a
  service: a removal can leave the route of the other. Without the limits
  `OwnService` and `OwnGateway`, TLC finds both; `RoutesLeadToPeers` and
  `ObsoletePeersGone` therefore speak of what is in these sets.
* Firewall rules are not counted: when one of two peers with the same service is
  removed, the rule of both is deleted.
* A group whose last peer is removed is dropped ("Forcing deletion of services",
  `apply.go:61-69`), but only from the cache: services left in it leave their routes
  in the kernel. So `OwnDest`, what `CacheMatchesKernel` and `CloseCleansUp` speak of,
  excepts the services a removal may omit, what several groups have, what is a
  peer and a service at once, what is reached through an interface that comes and
  goes, what another program has routes to, and what another destination begins like. The runs remove a peer with all
  its services.
* Apply stops after three iterations (`apply.go:19`). When four groups contend for
  one address, and three in a row lose the service they were just given, the third
  iteration resolves a conflict that no iteration is left to apply: the service has
  no route until the next message.
* A failed `RouteReplace` still moves the active flag; Close then deletes the
  route of the wrong interface. A route the kernel dropped with its interface is
  not added again. A reroute replaces a route another program has added; a program that is
  faster than the agent's add keeps its route, and the entry is active all the same.
* Write panics if Close closes the queue between its check and its send; methods
  of a nil websocket are called while dialling; a write that is stalled holds the
  mutex, so the health check cannot drop that connection (`DeadConnectionDropped`
  is claimed without stalls).
* `BestRoute` (`best.go:20`) takes the first entry of the map for "first valid
  entry" without asking whether it is valid: a pending, conflicting or unmeasured
  peer has no loss and no latency, so nothing is better. `speed` then selects it
  when the current path has lost a packet, in as many map orders as put it first.
  `BestIsLeast` and `LossIsAMust` are claimed for complete statistics only.
* `StatsIncomplete` counts latencies above zero, and a lost round has none: `dr`
  takes a path with one loss in the window for one "that does not have full
  stats" (`dr.go:138`) and keeps the current path, even one that loses more, until
  some path has lost nothing for a whole window. With the same line a path whose
  peer was removed stays selected, so that the group has no path, although public
  would be usable. A tie of two relays lets the map order decide; with enough
  luck the underdog counter then moves between them (`LongTermBest` asks for one
  best route).
* Half of a ratio below 2 is below 1, so only the difference counts against a
  sudden change (`dr.go:209`).
* Host routes of peers that disappear from the configuration while the agent is
  down stay, as nothing looks for them.

## 7. Not modelled

* Firewall rules (`ipfilter`, `pkg/iptables`) and controller routes (`ctrlmgr`):
  they follow the calls of AddPeer and RemovePeer, and the agent never reads them
  back; the second is a host router of fixed addresses.
* Addresses, MTU and ports of interfaces; tunnel traffic counters; keys.
* The answers sent to the controller and reports of routes (`peeradata`,
  `routestatus`): formatting of what the modelled methods return.
* Sockets, packets and round trip times of pings; how each source lists its services.
* Connections of the blockchain controller to the chain and to IPFS.
* Metrics, settings, configuration parsing, logging.

## 8. Plan

1. Done: `Router`, `RouteSelector`, `HostRoute`, `SaasController`,
   `Wireguard`, `Mole`, `MultiPing`, the agent pipeline with its services, and
   their theorems.
2. Done: a theorem for every invariant and safety action property of the runs.
3. Then: the answers to the controller, with the order of reports of two
   goroutines, and a Reconnect that is shared by `PublicIp` and `SaasController`.
