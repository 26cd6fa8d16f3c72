----------------------------- MODULE PeerWatch ------------------------------
(***************************************************************************)
(* The peer watcher, src/agent/peerwatch.  On every tick it pings the peers *)
(* of all tunnels, tells the router (module Router's ping rounds) and adds  *)
(* the result up; every controlerSendCount rounds it reports what it has    *)
(* added up for each peer configured by then.  Meanwhile messages of the    *)
(* controller change the peers, one by one.                                 *)
(***************************************************************************)
EXTENDS AgentState, Maps

CONSTANT controlerSendCount

ASSUME SendCountAssumption == controlerSendCount \in Nat \ {0}

VARIABLES
  peers,    \* interface -> the addresses of its peers (Wireguard's cache)
  old,      \* the same of the interface objects of an earlier CONFIG_INFO
  watch,    \* where the service's goroutine is
  wgdevs,   \* the interfaces it has not reported yet
  targets,  \* the addresses it pings
  pingData, \* address -> what was added up for it
  counter,
  resp,     \* the entries of the report
  rounds    \* history: the results of the rounds since the last report

peerwatch == <<peers, old, watch, wgdevs, targets, pingData, counter, resp, rounds>>

PS == INSTANCE PingStats

Outcomes == {"unsent", "lost", "answered"}

StatsOf(o) == [tx  |-> IF o = "unsent" THEN 0 ELSE 1,
               rx  |-> IF o = "answered" THEN 1 ELSE 0,
               seq |-> 0]

(***************************************************************************)
(* CONFIG_INFO empties the cache and builds a new one, peer by peer; a tick  *)
(* under way goes on with the interface objects it has.  WG_CONF adds and   *)
(* removes peers.                                                           *)
(***************************************************************************)
Held(d) == IF d \in DOMAIN old THEN old[d] ELSE peers[d]

Flush ==
  /\ Executing("CONFIG_INFO", "start")
  /\ step' = "flushed"
  /\ peers' = [d \in Dev |-> {}]
  /\ old' = [d \in Dev |-> Held(d)]
  /\ UNCHANGED <<env, life, cmd, done, watch, wgdevs, targets, pingData, counter, resp, rounds>>

Changing == Executing("CONFIG_INFO", "flushed") \/ Executing("WG_CONF", "start")

SetPeer(d, h) ==
  /\ Changing
  /\ (h \in peers[d]) # (h \in cmd.peers[d])
  /\ peers' = [peers EXCEPT ![d] = IF h \in @ THEN @ \ {h} ELSE @ \cup {h}]
  /\ UNCHANGED <<base, old, watch, wgdevs, targets, pingData, counter, resp, rounds>>

Configured ==
  /\ Changing
  /\ peers = cmd.peers
  /\ Finish
  /\ UNCHANGED peerwatch

(***************************************************************************)
(* One tick: execute = monitorPeers, then message2controller.               *)
(***************************************************************************)
WatchTick ==
  /\ Up /\ watch = "select" /\ env.watches
  /\ wgdevs' = Dev
  /\ old' = EmptyMap
  /\ targets' = UNION {peers[d] : d \in Dev}
  /\ watch' = "ping"
  /\ UNCHANGED <<base, peers, pingData, counter, resp, rounds>>

\* mutants: removed peers are kept; only known peers are added up
Merged_KeepAll(R) ==
  [h \in DOMAIN R \cup DOMAIN pingData |->
     IF h \notin DOMAIN R THEN pingData[h]
     ELSE IF h \in DOMAIN pingData THEN PS!Merge(pingData[h], StatsOf(R[h])) ELSE StatsOf(R[h])]

Merged_Known(R) ==
  [h \in DOMAIN R \cap DOMAIN pingData |-> PS!Merge(pingData[h], StatsOf(R[h]))]

Merged(R) ==
  [h \in DOMAIN R |-> IF h \in DOMAIN pingData THEN PS!Merge(pingData[h], StatsOf(R[h]))
                                               ELSE StatsOf(R[h])]

\* Ping returns; PingProcess
PingProcess(R) ==
  /\ Up /\ watch = "ping"
  /\ pingData' = Merged(R)
  /\ rounds' = Append(rounds, R)
  /\ counter' = counter + 1
  /\ watch' = IF counter + 1 < controlerSendCount THEN "select" ELSE "report"
  /\ UNCHANGED <<base, peers, old, wgdevs, targets, resp>>

\* peers that appeared since the ping are left out
ReportDevice(d) ==
  /\ Up /\ watch = "report" /\ d \in wgdevs
  /\ resp' = resp \cup {[host |-> h, stats |-> pingData[h]] : h \in Held(d) \cap DOMAIN pingData}
  /\ wgdevs' = wgdevs \ {d}
  /\ UNCHANGED <<base, peers, old, watch, targets, pingData, counter, rounds>>

\* mutant: the statistics go on
ResetPeriod_None == pingData

ResetPeriod == [h \in DOMAIN pingData |-> PS!NoStats]

\* mutant: the counter goes on
Send_KeepsCounter ==
  /\ Up /\ watch = "report" /\ wgdevs = {}
  /\ pingData' = ResetPeriod
  /\ watch' = "write"
  /\ UNCHANGED <<base, peers, old, wgdevs, targets, counter, resp, rounds>>

\* Reset, then Send
Send ==
  /\ Up /\ watch = "report" /\ wgdevs = {}
  /\ pingData' = ResetPeriod
  /\ counter' = 0
  /\ watch' = "write"
  /\ UNCHANGED <<base, peers, old, wgdevs, targets, resp, rounds>>

Sent ==
  /\ Up /\ watch = "write"
  /\ resp' = {} /\ rounds' = <<>>
  /\ watch' = "select"
  /\ UNCHANGED <<base, peers, old, wgdevs, targets, pingData, counter>>

StopWatch ==
  /\ Up /\ watch = "select" /\ Cancelled
  /\ watch' = "done"
  /\ UNCHANGED <<base, peers, old, wgdevs, targets, pingData, counter, resp, rounds>>

PeerWatchInit ==
  /\ peers = [d \in Dev |-> {}]
  /\ old = EmptyMap
  /\ watch = "off"
  /\ wgdevs = {} /\ targets = {}
  /\ pingData = EmptyMap
  /\ counter = 0
  /\ resp = {} /\ rounds = <<>>

Watching == \/ WatchTick \/ Send \/ Sent
            \/ \E R \in [targets -> Outcomes] : PingProcess(R)
            \/ \E d \in Dev : ReportDevice(d)

Configure == Flush \/ Configured \/ \E d \in Dev, h \in Hosts : SetPeer(d, h)

PeerWatchNext == Watching \/ Configure \/ StopWatch

-----------------------------------------------------------------------------
PeerWatchTypeOK ==
  /\ peers \in [Dev -> SUBSET Hosts]
  /\ IsMap(old, Dev) /\ \A d \in DOMAIN old : old[d] \subseteq Hosts
  /\ watch \in {"off", "select", "ping", "report", "write", "done"}
  /\ wgdevs \subseteq Dev /\ targets \subseteq Hosts
  /\ IsMap(pingData, Hosts)
  /\ \A h \in DOMAIN pingData : pingData[h] \in PS!PingStats
  /\ counter \in 0 .. controlerSendCount

\* the rounds since h was pinged without a break
Streak(h) ==
  {i \in DOMAIN rounds : \A j \in i .. Len(rounds) : h \in DOMAIN rounds[j]}

(***************************************************************************)
(* What is reported of a peer are the rounds of this period in which it was *)
(* pinged, counted once each: nothing of an earlier period, nothing of a    *)
(* peer that had the address before, and always the last round.             *)
(***************************************************************************)
LossIsTrue ==
  watch = "write" =>
    \A e \in resp :
      LET n(S) == Cardinality({i \in Streak(e.host) : rounds[i][e.host] \in S})
      IN  /\ Streak(e.host) # {}
          /\ e.stats.tx = n({"lost", "answered"})
          /\ e.stats.rx = n({"answered"})

(***************************************************************************)
(* A peer that stays configured is reported again and again.                *)
(***************************************************************************)
PeersReported ==
  \A h \in Hosts :
    <>[](Up /\ ~Cancelled /\ env.watches /\ \E d \in Dev : h \in peers[d])
      => []<>(watch = "write" /\ \E e \in resp : e.host = h)
=============================================================================
