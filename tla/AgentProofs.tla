---------------------------- MODULE AgentProofs -----------------------------
(***************************************************************************)
(* The agent keeps the order of the controller's messages, and what its     *)
(* services report is true, for any hosts, messages and environments.       *)
(*                                                                         *)
(* Each component has an invariant of its own.  They only meet in the       *)
(* command being executed: a step of another component does not touch the   *)
(* component, nor does it execute or take a lock for AUTO_PING (Elsewhere). *)
(***************************************************************************)
EXTENDS Agent, FiniteSetTheorems, SequenceTheorems, TLAPS

-----------------------------------------------------------------------------
(***************************************************************************)
(* The inductive invariant: the messages.  Every message on its way is one  *)
(* of the controller, and they are on their way in its order.               *)
(***************************************************************************)
Genuine(m) == m \in Message /\ m.id \in 1 .. Len(env.messages) /\ m = Content(m.id)

\* what the receiver has read
Newest == IF Controller("blockchain") THEN last ELSE feed

MessagesType ==
  /\ env \in Environments /\ Len(env.messages) \in Nat
  /\ life \in {"up", "cancelled", "mole closed", "closed", "exited", "crashed"}
  /\ step \in {"start", "locked", "checked", "flushed"}
  /\ done \in Seq(1 .. Len(env.messages))
  /\ running \in BOOLEAN
  /\ feed \in Nat /\ last \in Nat /\ last <= feed /\ feed <= Len(env.messages)
  /\ recv \in {"off", "recv", "poll", "put", "done"}
  /\ got \in Message \cup {NoCmd}
  /\ got # NoCmd <=> recv = "put"
  /\ recv = "poll" => env.controller = "blockchain"
  /\ rxchan \in Seq(Message) /\ Len(rxchan) <= RxCap
  /\ handler \in {"off", "run", "done"}
  /\ cmd \in Message \cup {NoCmd}
  /\ cmd = NoCmd => step = "start"

FromController ==
  /\ cmd # NoCmd => Genuine(cmd)
  /\ got # NoCmd => Genuine(got)
  /\ \A k \in DOMAIN rxchan : Genuine(rxchan[k])

Ordered ==
  /\ \A i, j \in DOMAIN done : i < j => done[i] < done[j]
  /\ \A i \in DOMAIN done :
       /\ done[i] <= Newest
       /\ cmd # NoCmd => done[i] < cmd.id
       /\ got # NoCmd => done[i] < got.id
       /\ \A k \in DOMAIN rxchan : done[i] < rxchan[k].id
  /\ \A k, l \in DOMAIN rxchan : k < l => rxchan[k].id < rxchan[l].id
  /\ \A k \in DOMAIN rxchan :
       /\ rxchan[k].id <= Newest
       /\ cmd # NoCmd => cmd.id < rxchan[k].id
       /\ got # NoCmd => rxchan[k].id < got.id
  /\ cmd # NoCmd => cmd.id <= Newest
  /\ got # NoCmd => got.id <= Newest
  /\ cmd # NoCmd /\ got # NoCmd => cmd.id < got.id

Messages == MessagesType /\ FromController /\ Ordered

-----------------------------------------------------------------------------
(***************************************************************************)
(* Sequences: what Append adds and what Tail leaves.                        *)
(***************************************************************************)
LEMMA Appended ==
  ASSUME NEW S, NEW s \in Seq(S), NEW x \in S
  PROVE  /\ Append(s, x) \in Seq(S)
         /\ Len(Append(s, x)) = Len(s) + 1
         /\ DOMAIN Append(s, x) = DOMAIN s \cup {Len(s) + 1}
         /\ \A i \in DOMAIN s : i \in Nat /\ i <= Len(s) /\ Append(s, x)[i] = s[i] /\ s[i] \in S
         /\ Append(s, x)[Len(s) + 1] = x
         /\ Len(s) \in Nat
BY LenProperties, AppendProperties, ElementOfSeq

LEMMA Shortened ==
  ASSUME NEW S, NEW s \in Seq(S), s # <<>>
  PROVE  /\ Tail(s) \in Seq(S) /\ Len(Tail(s)) = Len(s) - 1
         /\ Len(s) \in Nat
         /\ Head(s) = s[1] /\ 1 \in DOMAIN s /\ s[1] \in S
         /\ \A i \in DOMAIN Tail(s) : i \in Nat /\ 1 < i + 1 /\ i + 1 \in DOMAIN s /\ Tail(s)[i] = s[i + 1]
<1>1. Tail(s) \in Seq(S) /\ Len(Tail(s)) = Len(s) - 1 /\ Len(s) \in Nat /\ Len(s) # 0 /\ Head(s) = s[1]
  BY HeadTailProperties, EmptySeq, LenProperties
<1>2. DOMAIN s = 1 .. Len(s) /\ DOMAIN Tail(s) = 1 .. Len(s) - 1
  BY <1>1, LenProperties
<1>3. \A i \in 1 .. Len(s) - 1 : Tail(s)[i] = s[i + 1]
  BY <1>1, HeadTailProperties
<1> QED BY <1>1, <1>2, <1>3, ElementOfSeq

-----------------------------------------------------------------------------
(***************************************************************************)
(* What a step of a component does to the message being executed: nothing,  *)
(* or it goes on with it, or it finishes it.                                *)
(***************************************************************************)
Continues ==
  /\ cmd' = cmd /\ done' = done
  /\ step' \in {"start", "locked", "checked", "flushed"}
  /\ cmd = NoCmd => step' = step

Finishes ==
  /\ cmd # NoCmd
  /\ cmd' = NoCmd /\ step' = "start" /\ done' = Append(done, cmd.id)

Component ==
  \/ AutoPingNext /\ UNCHANGED <<peerwatch, services, publicip, pipe>>
  \/ PeerWatchNext /\ UNCHANGED <<autoping, services, publicip, pipe>>
  \/ ServiceWatchNext /\ UNCHANGED <<autoping, peerwatch, publicip, pipe>>
  \/ PublicIpNext /\ UNCHANGED <<autoping, peerwatch, services, pipe>>

LEMMA ComponentSteps ==
  ASSUME MessagesType, Component
  PROVE  /\ UNCHANGED <<env, pipe>>
         /\ life' \in {life, "crashed"}
         /\ Continues \/ Finishes
<1> USE DEF MessagesType
<1>1. CASE AutoPingNext /\ UNCHANGED <<peerwatch, services, publicip, pipe>>
  <2>1. CASE Pinging \/ Tick
    BY <1>1, <2>1 DEF Pinging, Tick, TakeTick, Written, pingAction, pingActionEmpty, PingReturns, Continues, base
  <2>2. CASE Commanded
    BY <1>1, <2>2 DEF Commanded, ExecLock, Exec, SupportInfo, Executing, Finish, Continues, Finishes
  <2>3. CASE Stop
    BY <1>1, <2>3 DEF Stop, Continues
  <2> QED BY <1>1, <2>1, <2>2, <2>3 DEF AutoPingNext
<1>2. CASE PeerWatchNext /\ UNCHANGED <<autoping, services, publicip, pipe>>
  BY <1>2 DEF PeerWatchNext, Watching, Configure, StopWatch, WatchTick, Send, Sent, PingProcess,
              ReportDevice, Flush, Configured, SetPeer, Changing, Executing, Finish,
              Continues, Finishes, base
<1>3. CASE ServiceWatchNext /\ UNCHANGED <<autoping, peerwatch, publicip, pipe>>
  <2>1. CASE Discovery \/ StopServices \/ Outside
    BY <1>3, <2>1 DEF Discovery, Wake, Read, ReadFails, ReadCrashes, InspectFails, Reported, StopServices, Outside, Expire,
           Change, Continues, base
  <2>2. CASE Answer
    BY <1>3, <2>2 DEF Answer, GetInfo, AskDocker, InspectFails, Executing, Finish, Continues, Finishes
  <2> QED BY <1>3, <2>1, <2>2 DEF ServiceWatchNext
<1>4. CASE PublicIpNext /\ UNCHANGED <<autoping, peerwatch, services, pipe>>
  BY <1>4 DEF PublicIpNext, Asking, Monitoring, StopMonitor, World, AskStun, AskWeb, Found, Cached, Lookup,
              TakeUpdate, CheckTick, Reconnected, Expires, OtherCalls, LinkUpdate, Continues, base
<1> QED BY <1>1, <1>2, <1>3, <1>4 DEF Component

-----------------------------------------------------------------------------
(***************************************************************************)
(* The messages.                                                            *)
(***************************************************************************)
LEMMA Content_ ==
  ASSUME env \in Environments, NEW i \in 1 .. Len(env.messages)
  PROVE  Content(i) \in Message /\ Content(i).id = i /\ Content(i) # NoCmd
BY EnvAssumption, NoCmdAssumption DEF Content

LEMMA MessagesInit == Init => Messages
<1> SUFFICES ASSUME Init PROVE Messages
  OBVIOUS
<1>1. Len(env.messages) \in Nat
  BY EnvAssumption, LenProperties DEF Init
<1>2. <<>> \in Seq(1 .. Len(env.messages)) /\ <<>> \in Seq(Message) /\ Len(<<>>) = 0 /\ DOMAIN <<>> = {}
  BY EmptySeq
<1>3. 0 <= RxCap
  BY RxAssumption
<1> QED BY <1>1, <1>2, <1>3 DEF Init, Messages, MessagesType, FromController, Ordered

LEMMA MessagesComponent ==
  ASSUME Messages, Component
  PROVE  Messages'
<1>1. /\ UNCHANGED <<env, pipe>>
      /\ life' \in {life, "crashed"}
      /\ Continues \/ Finishes
  BY ComponentSteps DEF Messages
<1>2. UNCHANGED <<env, running, feed, last, recv, got, rxchan, handler>> /\ Newest' = Newest
  BY <1>1 DEF pipe, Newest, Controller
<1>3. CASE Continues
  <2>1. MessagesType'
    BY <1>1, <1>2, <1>3 DEF Continues, Messages, MessagesType
  <2>2. FromController' /\ Ordered'
    BY <1>2, <1>3 DEF Continues, Messages, FromController, Ordered, Genuine, Content
  <2> QED BY <2>1, <2>2 DEF Messages
<1>4. CASE Finishes
  <2>1. cmd \in Message /\ cmd.id \in 1 .. Len(env.messages)
    BY <1>4 DEF Finishes, Messages, FromController, Genuine
  <2>2. done' \in Seq(1 .. Len(env.messages))
    BY <1>2, <1>4, <2>1, Appended DEF Finishes, Messages, MessagesType
  <2>3. MessagesType'
    BY <1>1, <1>2, <1>4, <2>2 DEF Finishes, Messages, MessagesType
  <2>4. FromController'
    BY <1>2, <1>4 DEF Finishes, Messages, FromController, Genuine, Content
  <2>5. /\ DOMAIN done' = DOMAIN done \cup {Len(done) + 1}
        /\ \A i \in DOMAIN done : i \in Nat /\ i <= Len(done) /\ done'[i] = done[i]
        /\ done'[Len(done) + 1] = cmd.id
        /\ Len(done) \in Nat
    <3>1. done \in Seq(1 .. Len(env.messages)) /\ done' = Append(done, cmd.id)
      BY <1>4 DEF Finishes, Messages, MessagesType
    <3> HIDE DEF Messages, Finishes
    <3> QED BY <2>1, <3>1, Appended
  <2>7. \A i, j \in DOMAIN done' : i < j => done'[i] < done'[j]
    BY <1>4, <2>5 DEF Finishes, Messages, Ordered
  <2>8. Ordered'
    BY <1>2, <1>4, <2>1, <2>5, <2>7 DEF Finishes, Messages, Ordered
  <2> QED BY <2>3, <2>4, <2>8 DEF Messages
<1> QED BY <1>1, <1>3, <1>4

\* a step that neither moves a message nor reads one
Rests ==
  /\ UNCHANGED <<env, cmd, done, got, rxchan, feed, last>>
  /\ cmd = NoCmd => step' = step

LEMMA MessagesRest ==
  ASSUME Messages, Rests, MessagesType'
  PROVE  Messages'
BY DEF Rests, Messages, FromController, Ordered, Genuine, Content, Newest, Controller

LEMMA MessagesRecv ==
  ASSUME Messages, ScriptRecv \/ Poll
  PROVE  Messages'
<1>1. feed \in Nat /\ last \in Nat /\ Len(env.messages) \in Nat
  BY EnvAssumption, LenProperties DEF Messages, MessagesType
<1> DEFINE m == IF Controller("blockchain") THEN feed ELSE feed + 1
<1>2. /\ UNCHANGED <<env, life, cmd, step, done, running, rxchan, handler>>
      /\ got = NoCmd
      /\ \/ recv' = recv /\ got' = got
         \/ recv' = "put" /\ got' = Content(m)
  <2>1. CASE ScriptRecv
    BY <2>1 DEF ScriptRecv, Deliver, Controller, Messages, MessagesType, base
  <2>2. CASE Poll
    BY <2>2 DEF Poll, Deliver, Controller, Messages, MessagesType, base
  <2> QED BY <2>1, <2>2
<1>2a. /\ m \in 1 .. Len(env.messages) /\ Newest < m /\ Newest' = m
       /\ feed' \in Nat /\ last' \in Nat /\ last' <= feed' /\ feed' <= Len(env.messages)
  <2>1. CASE ScriptRecv
    <3>1. /\ ~Controller("blockchain") /\ Controller("blockchain")' = Controller("blockchain")
          /\ feed < Len(env.messages) /\ feed' = feed + 1 /\ last' = last /\ last <= feed
      BY <1>2, <2>1 DEF ScriptRecv, Controller, Messages, MessagesType
    <3> QED BY <1>1, <3>1 DEF Newest
  <2>2. CASE Poll
    <3>1. /\ Controller("blockchain") /\ Controller("blockchain")' = Controller("blockchain")
          /\ feed # last /\ last <= feed /\ feed <= Len(env.messages) /\ feed' = feed /\ last' = feed
      BY <1>2, <2>2 DEF Poll, Controller, Messages, MessagesType
    <3> QED BY <1>1, <3>1 DEF Newest
  <2> QED BY <2>1, <2>2
<1>3. Content(m) \in Message /\ Content(m).id = m /\ Content(m) # NoCmd
  BY <1>2a, Content_ DEF Messages, MessagesType
<1> HIDE DEF m
<1>4. MessagesType'
  BY <1>2, <1>2a, <1>3 DEF Messages, MessagesType
<1>5. FromController'
  BY <1>2, <1>2a, <1>3 DEF Messages, FromController, Genuine, Content
<1>6. Ordered'
  <2>1. /\ \A i \in DOMAIN done : done[i] \in Int /\ done[i] < m
        /\ \A k \in DOMAIN rxchan : rxchan[k].id \in Int /\ rxchan[k].id < m
        /\ cmd # NoCmd => cmd.id \in Int /\ cmd.id < m
    <3>1. Newest \in Nat /\ m \in Nat
      BY <1>1, <1>2a DEF Newest
    <3>2. \A i \in DOMAIN done : done[i] \in Nat
      <4>1. done \in Seq(1 .. Len(env.messages))
        BY DEF Messages, MessagesType
      <4> QED BY <1>1, <4>1, LenProperties, ElementOfSeq
    <3> QED BY <1>1, <1>2, <1>2a, <3>1, <3>2 DEF Messages, FromController, Genuine, Ordered
  <2> QED BY <1>1, <1>2, <1>2a, <1>3, <2>1 DEF Messages, Ordered
<1> QED BY <1>4, <1>5, <1>6 DEF Messages

LEMMA MessagesPut ==
  ASSUME Messages, Put_rxchan
  PROVE  Messages'
<1>1. /\ rxchan' = Append(rxchan, got) /\ got # NoCmd /\ got' = NoCmd /\ recv' = "recv"
      /\ Len(rxchan) < RxCap
      /\ UNCHANGED <<env, life, cmd, step, done, running, feed, last, handler>>
  BY DEF Put_rxchan, Messages, MessagesType, base
<1>2. got \in Message /\ rxchan \in Seq(Message)
  BY <1>1 DEF Messages, MessagesType
<1>3. /\ rxchan' \in Seq(Message) /\ Len(rxchan') = Len(rxchan) + 1
      /\ DOMAIN rxchan' = DOMAIN rxchan \cup {Len(rxchan) + 1}
      /\ \A k \in DOMAIN rxchan : k \in Nat /\ k <= Len(rxchan) /\ rxchan'[k] = rxchan[k]
      /\ rxchan'[Len(rxchan) + 1] = got
      /\ Len(rxchan) \in Nat
  BY <1>1, <1>2, Appended
<1>4. MessagesType'
  <2>1. Len(rxchan') <= RxCap
    BY <1>1, <1>3, RxAssumption
  <2> QED BY <1>1, <1>3, <2>1 DEF Messages, MessagesType
<1>5. FromController'
  BY <1>1, <1>3 DEF Messages, FromController, Genuine, Content
<1>6. Newest' = Newest
  BY <1>1 DEF Newest, Controller
<1>7. Ordered'
  BY <1>1, <1>3, <1>6 DEF Messages, Ordered
<1> QED BY <1>4, <1>5, <1>7 DEF Messages

LEMMA MessagesTake ==
  ASSUME Messages, processCommand
  PROVE  Messages'
<1>1. /\ rxchan' = Tail(rxchan) /\ rxchan # <<>> /\ cmd = NoCmd
      /\ cmd' \in {Head(rxchan), NoCmd}
      /\ UNCHANGED <<env, life, step, done, running, feed, last, recv, got, handler>>
  BY DEF processCommand
<1>2. rxchan \in Seq(Message)
  BY DEF Messages, MessagesType
<1>3. /\ rxchan' \in Seq(Message) /\ Len(rxchan') = Len(rxchan) - 1
      /\ Len(rxchan) \in Nat
      /\ Head(rxchan) = rxchan[1] /\ 1 \in DOMAIN rxchan /\ rxchan[1] \in Message
      /\ \A k \in DOMAIN rxchan' :
           k \in Nat /\ 1 < k + 1 /\ k + 1 \in DOMAIN rxchan /\ rxchan'[k] = rxchan[k + 1]
  BY <1>1, <1>2, Shortened
<1>4. MessagesType'
  <2>1. Len(rxchan') <= RxCap
    <3>1. Len(rxchan) <= RxCap
      BY DEF Messages, MessagesType
    <3> QED BY <1>3, <3>1, RxAssumption
  <2>2. cmd' \in Message \cup {NoCmd}
    BY <1>1, <1>3
  <2>3. cmd' = NoCmd => step' = "start"
    BY <1>1 DEF Messages, MessagesType
  <2> QED BY <1>1, <1>3, <2>1, <2>2, <2>3 DEF Messages, MessagesType
<1>5. FromController'
  BY <1>1, <1>3 DEF Messages, FromController, Genuine, Content
<1>6. Newest' = Newest
  BY <1>1 DEF Newest, Controller
<1>7. Ordered'
  <2>1. \A k, l \in DOMAIN rxchan' : k < l => k + 1 < l + 1
    BY <1>3
  <2>2. \A k \in DOMAIN rxchan' : rxchan[1].id < rxchan'[k].id
    BY <1>3 DEF Messages, Ordered
  <2>3. \A k, l \in DOMAIN rxchan' : k < l => rxchan'[k].id < rxchan'[l].id
    BY <1>3, <2>1 DEF Messages, Ordered
  <2>4. \A k \in DOMAIN rxchan' :
          /\ rxchan'[k].id <= Newest
          /\ got # NoCmd => rxchan'[k].id < got.id
          /\ \A i \in DOMAIN done : done[i] < rxchan'[k].id
    BY <1>3 DEF Messages, Ordered
  <2>5. cmd' # NoCmd => cmd' = rxchan[1]
    BY <1>1, <1>3
  <2> QED BY <1>1, <1>3, <1>6, <2>2, <2>3, <2>4, <2>5 DEF Messages, Ordered
<1> QED BY <1>4, <1>5, <1>7 DEF Messages

LEMMA MessagesNext ==
  ASSUME Messages, [Next]_vars
  PROVE  Messages'
<1>1. CASE Component
  BY <1>1, MessagesComponent
<1>2. CASE ScriptRecv \/ Poll
  BY <1>2, MessagesRecv
<1>3. CASE Put_rxchan
  BY <1>3, MessagesPut
<1>4. CASE processCommand
  BY <1>4, MessagesTake
<1>5. CASE Run \/ ScriptEnds \/ BlockchainRecv \/ HandlerEnds \/ Close \/ UNCHANGED vars
  <2>1. Rests
    BY <1>5 DEF Run, ScriptEnds, BlockchainRecv, EndOfFile, HandlerEnds, Close, CloseStep, vars, base, pipe, Rests
  <2>2. MessagesType'
    <3>1. CASE Run \/ HandlerEnds
      BY <3>1 DEF Run, HandlerEnds, base, Messages, MessagesType
    <3>2. CASE ScriptEnds \/ BlockchainRecv
      BY <3>2 DEF ScriptEnds, BlockchainRecv, EndOfFile, Controller, base, Messages, MessagesType
    <3>3. CASE Close
      BY <3>3 DEF Close, CloseStep, Messages, MessagesType
    <3>4. CASE UNCHANGED vars
      BY <3>4 DEF vars, base, pipe, Messages, MessagesType
    <3> QED BY <1>5, <3>1, <3>2, <3>3, <3>4
  <2> QED BY <2>1, <2>2, MessagesRest
<1>6. CASE Publish
  <2>1. /\ feed' = feed + 1 /\ feed < Len(env.messages) /\ Newest' = Newest
        /\ UNCHANGED <<env, life, cmd, step, done, running, last, recv, got, rxchan, handler>>
    BY <1>6 DEF Publish, Newest, Controller, base
  <2>2. feed' \in Nat /\ last' <= feed' /\ feed' <= Len(env'.messages)
    <3>1. feed \in Nat /\ last \in Nat /\ last <= feed /\ Len(env.messages) \in Nat
      BY DEF Messages, MessagesType
    <3> QED BY <2>1, <3>1
  <2>3. MessagesType'
    BY <2>1, <2>2 DEF Messages, MessagesType
  <2> QED BY <2>1, <2>3 DEF Messages, FromController, Ordered, Genuine, Content
<1> QED BY <1>1, <1>2, <1>3, <1>4, <1>5, <1>6 DEF Next, Receiver, Handler, Component

-----------------------------------------------------------------------------
(***************************************************************************)
(* What the other components' steps leave of a component: all of it, except *)
(* that Run starts its goroutine.                                           *)
(***************************************************************************)
AutoPingRests ==
  /\ UNCHANGED <<list, armed, tick, spawned, holder, stage, report, asked>>
  /\ service' = service \/ (recv = "off" /\ service' = "select")
  /\ step' = "locked" <=> step = "locked"
  /\ step = "locked" => cmd' = cmd

ServicesRest ==
  /\ UNCHANGED <<actual, event, client, errorCount, known, real>>
  /\ srv' = srv \/ (recv = "off" /\ srv' \in {"off", "select"})

PublicIpRests ==
  /\ UNCHANGED <<wan, announced, cache, lookup, other, check, publicIP, raced, owed>>
  /\ monitor' = monitor \/ (recv = "off" /\ monitor' \in {"off", "select"})

Interfaces ==
  /\ peers \in [Dev -> SUBSET Hosts]
  /\ IsMap(old, Dev) /\ \A d \in DOMAIN old : old[d] \subseteq Hosts

PeerWatchRests ==
  /\ UNCHANGED <<wgdevs, targets, pingData, counter, resp, rounds>>
  /\ Interfaces'
  /\ watch' = watch \/ (recv = "off" /\ watch' = "select")

LEMMA HeldType ==
  ASSUME Interfaces, NEW d \in Dev
  PROVE  Held(d) \subseteq Hosts
BY DEF Interfaces, Held

LEMMA Elsewhere ==
  ASSUME Messages, Interfaces, [Next]_vars
  PROVE  /\ env' = env /\ (life' = "up" => life = "up")
         /\ \/ AutoPingRests /\ (recv' = "off" => UNCHANGED <<recv, service>>)
            \/ AutoPingNext /\ recv' = recv
         /\ ServicesRest \/ ServiceWatchNext
         /\ \/ PublicIpRests /\ (recv' = "off" => UNCHANGED <<recv, monitor>>)
            \/ PublicIpNext /\ recv' = recv
         /\ \/ PeerWatchRests /\ (recv' = "off" => UNCHANGED <<recv, watch>>)
            \/ (Watching \/ StopWatch) /\ recv' = recv
<1> USE DEF base, pipe, autoping, peerwatch, services, publicip, watcher, Interfaces
<1>1. CASE AutoPingNext /\ UNCHANGED <<peerwatch, services, publicip, pipe>>
  <2>1. env' = env /\ life' \in {life, "crashed"}
    BY <1>1, ComponentSteps DEF Component, Messages
  <2> QED BY <1>1, <2>1 DEF ServicesRest, PublicIpRests, PeerWatchRests
<1>2. CASE PeerWatchNext /\ UNCHANGED <<autoping, services, publicip, pipe>>
  <2>1. env' = env /\ life' \in {life, "crashed"}
    BY <1>2, ComponentSteps DEF Component, Messages
  <2>2. (step' = "locked" <=> step = "locked") /\ (step = "locked" => cmd' = cmd)
    BY <1>2 DEF PeerWatchNext, Watching, Configure, StopWatch, WatchTick, Send, Sent, PingProcess,
                ReportDevice, Flush, Configured, SetPeer, Changing, Executing, Finish
  <2>3. Watching \/ StopWatch \/ (PeerWatchRests /\ UNCHANGED watch)
    <3>1. CASE Flush
      BY <3>1, HeldType DEF Flush, IsMap, PeerWatchRests
    <3>2. CASE Configured \/ \E d \in Dev, h \in Hosts : SetPeer(d, h)
      BY <3>2 DEF Configured, SetPeer, PeerWatchRests
    <3> QED BY <1>2, <3>1, <3>2 DEF PeerWatchNext, Configure
  <2> QED BY <1>2, <2>1, <2>2, <2>3 DEF AutoPingRests, ServicesRest, PublicIpRests
<1>3. CASE ServiceWatchNext /\ UNCHANGED <<autoping, peerwatch, publicip, pipe>>
  <2>1. env' = env /\ life' \in {life, "crashed"}
    BY <1>3, ComponentSteps DEF Component, Messages
  <2>2. (step' = "locked" <=> step = "locked") /\ (step = "locked" => cmd' = cmd)
    BY <1>3 DEF ServiceWatchNext, Discovery, Wake, Read, ReadFails, ReadCrashes, InspectFails, Reported,
                StopServices, Outside, Expire, Change, Answer, GetInfo, AskDocker, Executing, Finish
  <2> QED BY <1>3, <2>1, <2>2 DEF AutoPingRests, PublicIpRests, PeerWatchRests
<1>4. CASE PublicIpNext /\ UNCHANGED <<autoping, peerwatch, services, pipe>>
  <2>1. env' = env /\ life' \in {life, "crashed"}
    BY <1>4, ComponentSteps DEF Component, Messages
  <2>2. UNCHANGED <<step, cmd>>
    BY <1>4 DEF PublicIpNext, Asking, Monitoring, StopMonitor, World, AskStun, AskWeb, Found, Cached, Lookup,
                TakeUpdate, CheckTick, Reconnected, Expires, OtherCalls, LinkUpdate
  <2> QED BY <1>4, <2>1, <2>2 DEF AutoPingRests, ServicesRest, PeerWatchRests
<1>5. CASE Run
  BY <1>5 DEF Run, AutoPingRests, ServicesRest, PublicIpRests, PeerWatchRests
<1>6. CASE Receiver \/ Publish
  BY <1>6 DEF Receiver, ScriptRecv, ScriptEnds, BlockchainRecv, Poll, Put_rxchan, Publish, EndOfFile, Deliver,
              components, AutoPingRests, ServicesRest, PublicIpRests, PeerWatchRests, Messages, MessagesType
<1>7. CASE Handler \/ Close \/ UNCHANGED vars
  BY <1>7 DEF Handler, processCommand, HandlerEnds, Close, CloseStep, components, vars,
              AutoPingRests, ServicesRest, PublicIpRests, PeerWatchRests, Messages, MessagesType
<1> QED BY <1>1, <1>2, <1>3, <1>4, <1>5, <1>6, <1>7 DEF Next

-----------------------------------------------------------------------------
(***************************************************************************)
(* AUTO_PING.  The lock excludes Exec from the two who ping, so the list    *)
(* cannot be another while they ping and write the answer.                  *)
(***************************************************************************)
Locking ==
  /\ AutoPingTypeOK
  /\ recv = "off" => service = "off"
  /\ step = "locked" => cmd # NoCmd /\ cmd.type = "AUTO_PING"
  /\ step = "locked" <=> holder = "exec"
  /\ holder = "service" => service = "tick"
  /\ holder = "spawned" => spawned > 0
  /\ asked.ips \subseteq Hosts /\ list \subseteq asked.ips
  /\ ReportsAsked

LEMMA LockingInit == Init => Locking
<1> SUFFICES ASSUME Init PROVE Locking
  OBVIOUS
<1>1. /\ step = "start" /\ recv = "off"
      /\ list = {} /\ report = {} /\ armed = FALSE /\ tick = FALSE /\ spawned = 0
      /\ service = "off" /\ holder = "nobody" /\ stage = "none" /\ asked.ips = {}
  BY DEF Init, AutoPingInit, NoRequest
<1> QED BY <1>1 DEF Locking, AutoPingTypeOK, ReportsAsked, Runners

LEMMA LockingNext ==
  ASSUME Messages, Locking,
         \/ AutoPingRests /\ (recv' = "off" => UNCHANGED <<recv, service>>)
         \/ AutoPingNext /\ recv' = recv
  PROVE  Locking'
<1> USE DEF Locking, AutoPingTypeOK, ReportsAsked, Runners, base
<1>1. CASE AutoPingRests /\ (recv' = "off" => UNCHANGED <<recv, service>>)
  BY <1>1 DEF AutoPingRests
<1>2. CASE AutoPingNext /\ recv' = recv
  <2>1. CASE ExecLock
    BY <1>2, <2>1 DEF ExecLock, Executing
  <2>2. CASE Exec
    <3>1. cmd.ips \subseteq Hosts
      <4>1. cmd \in Message /\ cmd.type = "AUTO_PING"
        BY <2>2 DEF Exec, Executing, Messages, MessagesType
      <4> QED BY <4>1 DEF Message
    <3>2. /\ step = "locked" /\ step' = "start" /\ holder' = "nobody" /\ stage' = stage
          /\ spawned' \in {spawned, spawned + 1}
          /\ list' = cmd.ips /\ asked'.ips = cmd.ips
          /\ UNCHANGED <<tick, service, report>>
      BY <2>2 DEF Exec, Executing, Finish
    <3>3. armed' \in BOOLEAN
      BY <2>2 DEF Exec, Rearm, Wanted
    <3> QED BY <1>2, <3>1, <3>2, <3>3
  <2>3. CASE Tick \/ TakeTick \/ SupportInfo \/ Stop
    BY <1>2, <2>3 DEF Tick, TakeTick, SupportInfo, Stop, Executing, Finish, autoping
  <2>4. ASSUME NEW r \in Runners, pingAction(r)
        PROVE  Locking'
    BY <1>2, <2>4 DEF pingAction, Waits
  <2>5. ASSUME NEW r \in Runners, pingActionEmpty(r)
        PROVE  Locking'
    BY <1>2, <2>5 DEF pingActionEmpty, Waits, Ends
  <2>6. ASSUME NEW sent \in SUBSET Hosts, PingReturns(sent)
        PROVE  Locking'
    BY <1>2, <2>6 DEF PingReturns
  <2>7. CASE Written
    BY <1>2, <2>7 DEF Written, Ends
  <2> QED BY <1>2, <2>1, <2>2, <2>3, <2>4, <2>5, <2>6, <2>7 DEF AutoPingNext, Pinging, Commanded
<1> QED BY <1>1, <1>2

(***************************************************************************)
(* Services.  Every list read was one there is, or the failure of a call to *)
(* docker, or what kubernetes has clients for.                              *)
(***************************************************************************)
Services ==
  /\ ServiceWatchTypeOK
  /\ actual \in real
  /\ OnlyRealServices

LEMMA ServicesInit == Init => Services
<1> SUFFICES ASSUME Init PROVE Services
  OBVIOUS
<1>1. /\ actual = Svc /\ real = {Svc} /\ client = "first" /\ errorCount = 0
      /\ known = NoData /\ srv = "off"
  BY DEF Init, ServiceWatchInit
<1>2. 0 \in 0 .. CountMod - 1
  BY ErrorAssumption
<1>3. event \in BOOLEAN
  BY DEF Init, ServiceWatchInit
<1>4. errorCount \in 0 .. CountMod - 1
  BY <1>1, <1>2
<1>5. actual \subseteq Svc /\ known \in (SUBSET Svc) \cup {NoData} /\ actual \in real
  BY <1>1
<1> QED BY <1>1, <1>3, <1>4, <1>5 DEF Services, OnlyRealServices, ServiceWatchTypeOK

LEMMA ServicesNext ==
  ASSUME Services, ServicesRest \/ ServiceWatchNext, env' = env, life' = "up" => life = "up"
  PROVE  Services'
<1> USE DEF Services
<1>1. ServiceWatchTypeOK'
  <2> USE DEF ServiceWatchTypeOK
  <2>1. CASE ServicesRest
    BY <2>1 DEF ServicesRest
  <2>2. CASE Wake \/ Reported \/ ReadCrashes
    BY <2>2 DEF Wake, Reported, ReadCrashes, services
  <2>3. CASE Read
    <3>1. 0 \in 0 .. CountMod - 1
      BY ErrorAssumption
    <3> QED BY <2>3, <3>1 DEF Read, Compare
  <2>4. CASE ReadFails
    <3>1. (errorCount + 1) % CountMod \in 0 .. CountMod - 1 /\ 0 \in 0 .. CountMod - 1
      BY ErrorAssumption
    <3> QED BY <2>4, <3>1 DEF ReadFails
  <2>5. CASE StopServices
    BY <2>5 DEF StopServices
  <2>6. CASE Answer
    BY <2>6 DEF Answer, GetInfo, AskDocker, services
  <2>7. CASE Expire
    BY <2>7 DEF Expire
  <2>8. ASSUME NEW S \in SUBSET Svc, NEW announced_ \in BOOLEAN, Change(S, announced_)
        PROVE  ServiceWatchTypeOK'
    <3>1. event' \in BOOLEAN
      BY <2>8 DEF Change
    <3> QED BY <2>8, <3>1 DEF Change
  <2> QED BY <2>1, <2>2, <2>3, <2>4, <2>5, <2>6, <2>7, <2>8 DEF ServiceWatchNext, Discovery, Outside
<1>2. actual' \in real' /\ OnlyRealServices'
  <2> USE DEF OnlyRealServices, Platform, Failing, Cancelled
  <2>1. CASE ServicesRest
    BY <2>1 DEF ServicesRest
  <2>2. CASE Discovery
    BY <2>2 DEF Discovery, Wake, Read, ReadFails, ReadCrashes, InspectFails, Reported, Compare, services
  <2>3. CASE StopServices \/ Outside
    BY <2>3 DEF StopServices, Outside, Expire, Change
  <2>4. CASE Answer
    BY <2>4 DEF Answer, GetInfo, AskDocker, services
  <2> QED BY <2>1, <2>2, <2>3, <2>4 DEF ServiceWatchNext
<1> QED BY <1>1, <1>2

(***************************************************************************)
(* The public address.  The address acted upon, the one in the cache, the   *)
(* answer on its way and the one the host has are the stations of the same  *)
(* chain: each place where it changes from one to the next is a change that *)
(* has not been acted upon yet.                                             *)
(***************************************************************************)
Differ(v, w) == IF v = w THEN 0 ELSE 1

OnItsWay == IF asking = "answered" /\ answer \in Wan THEN answer ELSE wan
InCache  == IF ip \in Wan THEN ip ELSE OnItsWay

Chain ==
  /\ PublicIpTypeOK
  /\ recv = "off" => monitor = "off"
  /\ owed >= Differ(publicIP, InCache) + Differ(InCache, OnItsWay) + Differ(OnItsWay, wan)

LEMMA ChainInit == Init => Chain
<1> SUFFICES ASSUME Init PROVE Chain
  OBVIOUS
<1>1. wan \in Wan /\ publicIP \in {wan, NoIp} /\ ip = publicIP /\ NoIp \notin Wan
  BY WanAssumption DEF Init, PublicIpInit
<1>2. PublicIpTypeOK
  <2>0. fresh \in BOOLEAN
    BY DEF Init, PublicIpInit
  <2>1. announced \in BOOLEAN /\ check \in BOOLEAN /\ other \in BOOLEAN /\ raced \in BOOLEAN
    BY DEF Init, PublicIpInit
  <2>2. /\ provider \in {"stun", "fallback"} /\ looker = "nobody" /\ asking = "no" /\ answer = NoIp
        /\ monitor = "off" /\ owed \in Int
    BY DEF Init, PublicIpInit
  <2> QED BY <1>1, <2>0, <2>1, <2>2 DEF PublicIpTypeOK, Callers, Calls
<1>3. owed = Differ(publicIP, wan) /\ asking = "no" /\ recv = "off" /\ monitor = "off"
  BY <1>1 DEF Init, PublicIpInit, Differ
<1> QED BY <1>1, <1>2, <1>3 DEF Chain, InCache, OnItsWay, Differ

LEMMA ChainNext ==
  ASSUME Chain, \/ PublicIpRests /\ (recv' = "off" => UNCHANGED <<recv, monitor>>)
                \/ PublicIpNext /\ recv' = recv
  PROVE  Chain'
<1> USE WanAssumption DEF Chain, PublicIpTypeOK, Callers, Calls, cache, lookup, watcher
<1>1. CASE PublicIpRests /\ (recv' = "off" => UNCHANGED <<recv, monitor>>)
  BY <1>1 DEF PublicIpRests, InCache, OnItsWay, Differ
<1>2. CASE PublicIpNext /\ recv' = recv
  <2>1. ASSUME NEW w \in Wan, LinkUpdate(w)
        PROVE  Chain'
    <3>1. PublicIpTypeOK' /\ (recv' = "off" => monitor' = "off")
      BY <1>2, <2>1 DEF LinkUpdate
    <3>2. UNCHANGED <<publicIP, asking, answer, ip>> /\ owed' = owed + Differ(wan, wan')
      BY <2>1 DEF LinkUpdate, Differ
    <3> QED BY <3>1, <3>2 DEF InCache, OnItsWay, Differ
  <2>2. ASSUME NEW c \in Callers, Cached(c)
        PROVE  Chain'
    <3>1. PublicIpTypeOK' /\ (recv' = "off" => monitor' = "off")
      <4>1. CASE c = "monitor"
        <5>1. check' \in BOOLEAN
          BY <2>2, <4>1 DEF Cached, Returns, CompareIp
        <5>2. /\ monitor = "lookup" /\ monitor' \in {"select", "reconnect"} /\ looker = "nobody"
              /\ publicIP' \in Wan \cup {NoIp} /\ owed' \in Int
              /\ UNCHANGED <<wan, announced, ip, fresh, provider, looker, asking, answer, other, raced>>
          BY <2>2, <4>1 DEF Cached, Returns, CompareIp
        <5> QED BY <1>2, <5>1, <5>2
      <4>2. CASE c = "other"
        BY <1>2, <2>2, <4>2 DEF Cached, Returns
      <4> QED BY <4>1, <4>2
    <3>2. /\ UNCHANGED <<asking, answer, ip, wan>>
          /\ \/ UNCHANGED <<publicIP, owed>>
             \/ ip \in Wan /\ publicIP # ip /\ publicIP' = ip /\ owed' = owed - 1
      BY <2>2 DEF Cached, Returns, CompareIp
    <3> QED BY <3>1, <3>2 DEF InCache, OnItsWay, Differ
  <2>3. ASSUME NEW c \in Callers, Lookup(c)
        PROVE  Chain'
    BY <1>2, <2>3 DEF Lookup, InCache, OnItsWay, Differ
  <2>4. CASE AskStun \/ AskWeb
    <3>1. PublicIpTypeOK' /\ (recv' = "off" => monitor' = "off")
      BY <1>2, <2>4 DEF AskStun, AskWeb, Answers
    <3>2. UNCHANGED <<publicIP, ip, wan, owed>> /\ OnItsWay' = OnItsWay
      BY <2>4 DEF AskStun, AskWeb, Answers, OnItsWay
    <3> QED BY <3>1, <3>2 DEF InCache, Differ
  <2>5. CASE Found
    <3>1. PublicIpTypeOK' /\ (recv' = "off" => monitor' = "off")
      <4>1. /\ ip' = answer /\ fresh' \in BOOLEAN /\ provider' \in {"stun", "web", "fallback"}
            /\ looker' = "nobody" /\ asking' = "no" /\ answer' = NoIp
            /\ UNCHANGED <<wan, announced, raced>>
        BY <2>5 DEF Found
      <4>2. CASE looker = "monitor"
        <5>1. check' \in BOOLEAN
          BY <2>5, <4>2 DEF Found, Returns, CompareIp
        <5>2. /\ monitor = "lookup" /\ monitor' \in {"select", "reconnect"} /\ UNCHANGED other
              /\ publicIP' \in Wan \cup {NoIp} /\ owed' \in Int
          BY <2>5, <4>2 DEF Found, Returns, CompareIp
        <5> QED BY <1>2, <4>1, <5>1, <5>2
      <4>3. CASE looker = "other"
        BY <1>2, <2>5, <4>1, <4>3 DEF Found, Returns
      <4> QED BY <2>5, <4>2, <4>3 DEF Found
    <3>2. /\ asking = "answered" /\ asking' = "no" /\ ip' = answer /\ UNCHANGED wan
          /\ \/ UNCHANGED <<publicIP, owed>>
             \/ answer \in Wan /\ publicIP # answer /\ publicIP' = answer /\ owed' = owed - 1
      BY <2>5 DEF Found, Returns, CompareIp
    <3> QED BY <3>1, <3>2 DEF InCache, OnItsWay, Differ
  <2>6. CASE Expires \/ OtherCalls
    <3>1. PublicIpTypeOK' /\ (recv' = "off" => monitor' = "off")
      <4>1. CASE Expires
        <5>1. /\ fresh' \in BOOLEAN
              /\ UNCHANGED <<wan, announced, ip, provider, looker, asking, answer, other, monitor, check, publicIP, raced, owed>>
          BY <4>1 DEF Expires
        <5> QED BY <1>2, <5>1
      <4>2. CASE OtherCalls
        <5>1. /\ other' = TRUE
              /\ UNCHANGED <<wan, announced, ip, fresh, provider, looker, asking, answer, monitor, check, publicIP, raced, owed>>
          BY <4>2 DEF OtherCalls
        <5> QED BY <1>2, <5>1
      <4> QED BY <2>6, <4>1, <4>2
    <3>2. UNCHANGED <<publicIP, ip, wan, owed, asking, answer>>
      BY <2>6 DEF Expires, OtherCalls
    <3> QED BY <3>1, <3>2 DEF InCache, OnItsWay, Differ
  <2>7. CASE Monitoring \/ StopMonitor
    <3>1. PublicIpTypeOK' /\ (recv' = "off" => monitor' = "off")
      <4>1. CASE CheckTick
        <5>1. raced' \in BOOLEAN
          BY <4>1 DEF CheckTick
        <5> QED BY <1>2, <4>1, <5>1 DEF CheckTick, Reset
      <4>2. CASE TakeUpdate \/ Reconnected \/ StopMonitor
        BY <1>2, <4>2 DEF TakeUpdate, Reconnected, StopMonitor
      <4> QED BY <2>7, <4>1, <4>2 DEF Monitoring
    <3>2. UNCHANGED <<publicIP, ip, wan, owed, asking, answer>>
      BY <2>7 DEF Monitoring, TakeUpdate, CheckTick, Reset, Reconnected, StopMonitor
    <3> QED BY <3>1, <3>2 DEF InCache, OnItsWay, Differ
  <2> QED BY <1>2, <2>1, <2>2, <2>3, <2>4, <2>5, <2>6, <2>7 DEF PublicIpNext, Asking, World
<1> QED BY <1>1, <1>2

-----------------------------------------------------------------------------
(***************************************************************************)
(* The peer watcher.  The statistics of an address are those of its streak; *)
(* while the report is written they start again, and the report keeps them. *)
(***************************************************************************)
Results == UNION {[D -> Outcomes] : D \in SUBSET Hosts}

Count(h, S) == Cardinality({i \in Streak(h) : rounds[i][h] \in S})

Pinged   == {"lost", "answered"}
Answered == {"answered"}

Counted ==
  /\ PeerWatchTypeOK
  /\ recv = "off" => watch = "off"
  /\ watch # "report" => counter < controlerSendCount
  /\ rounds \in Seq(Results)
  /\ rounds # <<>> => DOMAIN pingData = DOMAIN rounds[Len(rounds)]
  /\ watch # "write" =>
       \A h \in DOMAIN pingData : pingData[h].tx = Count(h, Pinged) /\ pingData[h].rx = Count(h, Answered)
  /\ watch = "write" => \A h \in DOMAIN pingData : pingData[h].tx = 0 /\ pingData[h].rx = 0
  /\ watch \in {"report", "write"} => rounds # <<>>
  /\ watch \notin {"report", "write"} => resp = {}
  /\ \A e \in resp :
       /\ e.host \in DOMAIN pingData
       /\ e.stats.tx = Count(e.host, Pinged) /\ e.stats.rx = Count(e.host, Answered)

LEMMA CountType ==
  ASSUME rounds \in Seq(Results), NEW h, NEW S
  PROVE  /\ IsFiniteSet({i \in Streak(h) : rounds[i][h] \in S}) /\ Count(h, S) \in Nat
         /\ rounds = <<>> \/ h \notin DOMAIN rounds[Len(rounds)] => Count(h, S) = 0
<1>1. DOMAIN rounds = 1 .. Len(rounds) /\ Len(rounds) \in Nat /\ (rounds = <<>> => Len(rounds) = 0)
  BY LenProperties, EmptySeq
<1>2. IsFiniteSet(DOMAIN rounds)
  BY <1>1, FS_Interval
<1>3. {i \in Streak(h) : rounds[i][h] \in S} \subseteq DOMAIN rounds
  BY DEF Streak
<1>4. IsFiniteSet({i \in Streak(h) : rounds[i][h] \in S})
  BY <1>2, <1>3, FS_Subset
<1>5. ASSUME rounds = <<>> \/ h \notin DOMAIN rounds[Len(rounds)]
      PROVE  {i \in Streak(h) : rounds[i][h] \in S} = {}
  <2>1. \A i \in DOMAIN rounds : Len(rounds) \in i .. Len(rounds)
    BY <1>1
  <2>2. Streak(h) = {}
    BY <1>1, <1>5, <2>1 DEF Streak
  <2> QED BY <2>2
<1> QED BY <1>4, <1>5, FS_CardinalityType, FS_EmptySet DEF Count

LEMMA CountRound ==
  ASSUME rounds \in Seq(Results), NEW R \in Results, rounds' = Append(rounds, R),
         NEW h \in DOMAIN R, NEW S
  PROVE  Count(h, S)' = Count(h, S) + (IF R[h] \in S THEN 1 ELSE 0)
<1> DEFINE n == Len(rounds)
           T == {i \in Streak(h) : rounds[i][h] \in S}
<1>1. /\ n \in Nat /\ DOMAIN rounds = 1 .. n /\ DOMAIN rounds' = 1 .. n + 1 /\ Len(rounds') = n + 1
      /\ \A i \in 1 .. n : rounds'[i] = rounds[i]
      /\ rounds'[n + 1] = R
  BY Appended, LenProperties
<1>2. Streak(h)' = Streak(h) \cup {n + 1} /\ n + 1 \notin Streak(h)
  <2> HIDE DEF n
  <2>1. ASSUME NEW i \in 1 .. n
        PROVE  (\A j \in i .. n + 1 : h \in DOMAIN rounds'[j]) <=> (\A j \in i .. n : h \in DOMAIN rounds[j])
    <3>1. i .. n + 1 = (i .. n) \cup {n + 1} /\ i .. n \subseteq 1 .. n
      BY <1>1
    <3> QED BY <1>1, <3>1
  <2>2. \A j \in n + 1 .. n + 1 : j = n + 1
    BY <1>1
  <2>3. Streak(h)' = {i \in 1 .. n + 1 : \A j \in i .. n + 1 : h \in DOMAIN rounds'[j]}
    BY <1>1 DEF Streak
  <2>4. Streak(h) = {i \in 1 .. n : \A j \in i .. n : h \in DOMAIN rounds[j]}
    BY <1>1 DEF Streak, n
  <2>5. 1 .. n + 1 = (1 .. n) \cup {n + 1} /\ n + 1 \notin 1 .. n
    BY <1>1
  <2> QED BY <1>1, <2>1, <2>2, <2>3, <2>4, <2>5
<1>3. {i \in Streak(h) : rounds[i][h] \in S}' = IF R[h] \in S THEN T \cup {n + 1} ELSE T
  <2>1. \A i \in Streak(h) : rounds'[i] = rounds[i]
    BY <1>1 DEF Streak
  <2> QED BY <1>1, <1>2, <2>1
<1>4. IsFiniteSet(T) /\ Cardinality(T) = Count(h, S) /\ n + 1 \notin T /\ Count(h, S) \in Nat
  BY <1>2, CountType DEF Count
<1>6. Count(h, S)' = Cardinality(IF R[h] \in S THEN T \cup {n + 1} ELSE T)
  BY <1>3 DEF Count
<1> HIDE DEF T, n
<1>5. Cardinality(T \cup {n + 1}) = Count(h, S) + 1
  BY <1>4, FS_AddElement
<1> QED BY <1>4, <1>5, <1>6

LEMMA CountedInit == Init => Counted
<1> SUFFICES ASSUME Init PROVE Counted
  OBVIOUS
<1>1. /\ watch = "off" /\ pingData = EmptyMap /\ counter = 0 /\ resp = {} /\ rounds = <<>>
      /\ peers = [d \in Dev |-> {}] /\ old = EmptyMap /\ wgdevs = {} /\ targets = {}
  BY DEF Init, PeerWatchInit
<1>2. DOMAIN pingData = {} /\ IsMap(pingData, Hosts) /\ DOMAIN old = {} /\ IsMap(old, Dev)
  BY <1>1 DEF EmptyMap, IsMap
<1>3. PeerWatchTypeOK
  BY <1>1, <1>2, SendCountAssumption DEF PeerWatchTypeOK
<1>4. rounds \in Seq(Results)
  BY <1>1, EmptySeq
<1> QED BY <1>1, <1>2, <1>3, <1>4, SendCountAssumption DEF Counted

LEMMA CountedRound ==
  ASSUME Counted, NEW R \in [targets -> Outcomes], PingProcess(R), recv' = recv
  PROVE  Counted'
<1>1. /\ watch = "ping" /\ pingData' = Merged(R) /\ rounds' = Append(rounds, R)
      /\ counter' = counter + 1 /\ watch' \in {"select", "report"}
      /\ watch' = "select" <=> counter' < controlerSendCount
      /\ UNCHANGED <<peers, old, wgdevs, targets, resp>>
  BY DEF PingProcess
<1>2. /\ rounds \in Seq(Results) /\ resp = {} /\ PeerWatchTypeOK /\ counter < controlerSendCount
      /\ rounds # <<>> => DOMAIN pingData = DOMAIN rounds[Len(rounds)]
      /\ \A h \in DOMAIN pingData : pingData[h].tx = Count(h, Pinged) /\ pingData[h].rx = Count(h, Answered)
  BY <1>1 DEF Counted
<1>3. R \in Results /\ DOMAIN R = targets /\ targets \subseteq Hosts
  BY <1>2 DEF Results, PeerWatchTypeOK
<1>4. /\ rounds' \in Seq(Results) /\ Len(rounds') = Len(rounds) + 1 /\ Len(rounds) \in Nat
      /\ rounds'[Len(rounds')] = R /\ rounds' # <<>>
  <2>1. rounds' \in Seq(Results) /\ Len(rounds') = Len(rounds) + 1 /\ Len(rounds) \in Nat
        /\ rounds'[Len(rounds) + 1] = R
    BY <1>1, <1>2, <1>3, Appended
  <2> QED BY <2>1, EmptySeq
<1>5. DOMAIN pingData' = DOMAIN R /\ IsMap(pingData', Hosts)
  BY <1>1, <1>3 DEF Merged, IsMap
<1>6. ASSUME NEW h \in DOMAIN R
      PROVE  /\ pingData'[h] \in PS!PingStats
             /\ pingData'[h].tx = Count(h, Pinged)' /\ pingData'[h].rx = Count(h, Answered)'
  <2>1. /\ Count(h, Pinged)' = Count(h, Pinged) + StatsOf(R[h]).tx
        /\ Count(h, Answered)' = Count(h, Answered) + StatsOf(R[h]).rx
    <3>1. R[h] \in Outcomes
      BY <1>3
    <3>2. /\ Count(h, Pinged)' = Count(h, Pinged) + (IF R[h] \in Pinged THEN 1 ELSE 0)
          /\ Count(h, Answered)' = Count(h, Answered) + (IF R[h] \in Answered THEN 1 ELSE 0)
      BY <1>1, <1>2, <1>3, CountRound
    <3>3. /\ StatsOf(R[h]).tx = IF R[h] \in Pinged THEN 1 ELSE 0
          /\ StatsOf(R[h]).rx = IF R[h] \in Answered THEN 1 ELSE 0
      BY <3>1 DEF StatsOf, Outcomes, Pinged, Answered
    <3> QED BY <3>2, <3>3
  <2>2. StatsOf(R[h]) \in PS!PingStats
    BY DEF StatsOf, PS!PingStats
  <2>3. CASE h \in DOMAIN pingData
    <3>1. pingData[h] \in PS!PingStats
      BY <1>2, <2>3 DEF PeerWatchTypeOK
    <3>2. pingData'[h] = PS!Merge(pingData[h], StatsOf(R[h]))
      BY <1>1, <2>3 DEF Merged
    <3> QED BY <1>2, <2>1, <2>2, <2>3, <3>1, <3>2 DEF PS!Merge, PS!PingStats
  <2>4. CASE h \notin DOMAIN pingData
    <3>1. Count(h, Pinged) = 0 /\ Count(h, Answered) = 0
      BY <1>2, <2>4, CountType
    <3>2. pingData'[h] = StatsOf(R[h])
      BY <1>1, <2>4 DEF Merged
    <3> QED BY <2>1, <2>2, <3>1, <3>2 DEF PS!PingStats
  <2> QED BY <2>3, <2>4
<1>7. PeerWatchTypeOK'
  <2>1. counter' \in 0 .. controlerSendCount
    BY <1>1, <1>2, SendCountAssumption DEF PeerWatchTypeOK
  <2> QED BY <1>1, <1>2, <1>5, <1>6, <2>1 DEF PeerWatchTypeOK
<1>8. recv' = "off" => watch' = "off"
  BY <1>1 DEF Counted
<1> QED BY <1>1, <1>2, <1>4, <1>5, <1>6, <1>7, <1>8 DEF Counted

\* the other steps leave the rounds alone, or start a new period
LEMMA CountedNext ==
  ASSUME Counted, \/ PeerWatchRests /\ (recv' = "off" => UNCHANGED <<recv, watch>>)
                  \/ (Watching \/ StopWatch) /\ recv' = recv
  PROVE  Counted'
<1> USE DEF Counted, PeerWatchTypeOK
<1>1. CASE PeerWatchRests /\ (recv' = "off" => UNCHANGED <<recv, watch>>)
  <2>1. /\ UNCHANGED <<wgdevs, targets, pingData, counter, resp, rounds>>
        /\ Interfaces'
        /\ watch' = watch \/ (watch = "off" /\ watch' = "select")
        /\ recv' = "off" => watch' = "off"
    BY <1>1 DEF PeerWatchRests
  <2>2. \A h : Count(h, Pinged)' = Count(h, Pinged) /\ Count(h, Answered)' = Count(h, Answered)
    BY <2>1 DEF Count, Streak
  <2>3. PeerWatchTypeOK'
    BY <2>1 DEF Interfaces
  <2> QED BY <2>1, <2>2, <2>3
<1>2. CASE WatchTick /\ recv' = recv
  <2>1. IsMap(old', Dev) /\ DOMAIN old' = {}
    BY <1>2 DEF WatchTick, EmptyMap, IsMap
  <2> QED BY <1>2, <2>1 DEF WatchTick, Count, Streak
<1>3. CASE StopWatch /\ recv' = recv
  BY <1>3 DEF StopWatch, Count, Streak
<1>4. ASSUME NEW R \in [targets -> Outcomes], PingProcess(R), recv' = recv
      PROVE  Counted'
  BY <1>4, CountedRound
<1>5. ASSUME NEW d \in Dev, ReportDevice(d), recv' = recv
      PROVE  Counted'
  <2>1. /\ watch = "report" /\ wgdevs' = wgdevs \ {d}
        /\ \A e \in resp' : e \in resp \/ \E h \in DOMAIN pingData : e = [host |-> h, stats |-> pingData[h]]
        /\ UNCHANGED <<peers, old, watch, targets, pingData, counter, rounds>>
    BY <1>5 DEF ReportDevice
  <2>2. \A h : Count(h, Pinged)' = Count(h, Pinged) /\ Count(h, Answered)' = Count(h, Answered)
    BY <2>1 DEF Count, Streak
  <2>3. PeerWatchTypeOK'
    BY <2>1
  <2>4. ASSUME NEW e \in resp'
        PROVE  /\ e.host \in DOMAIN pingData
               /\ e.stats.tx = Count(e.host, Pinged) /\ e.stats.rx = Count(e.host, Answered)
    <3>1. CASE e \in resp
      BY <3>1
    <3>2. CASE \E h \in DOMAIN pingData : e = [host |-> h, stats |-> pingData[h]]
      BY <2>1, <3>2
    <3> QED BY <2>1, <3>1, <3>2
  <2> QED BY <1>5, <2>1, <2>2, <2>3, <2>4
<1>6. CASE Send /\ recv' = recv
  <2>1. /\ watch = "report" /\ watch' = "write" /\ pingData' = ResetPeriod /\ counter' = 0
        /\ UNCHANGED <<peers, old, wgdevs, targets, resp, rounds>>
    BY <1>6 DEF Send
  <2>2. /\ DOMAIN pingData' = DOMAIN pingData /\ IsMap(pingData', Hosts)
        /\ \A h \in DOMAIN pingData : pingData'[h] = PS!NoStats
    BY <2>1 DEF ResetPeriod, IsMap
  <2>3. PS!NoStats \in PS!PingStats /\ PS!NoStats.tx = 0 /\ PS!NoStats.rx = 0
    BY DEF PS!NoStats, PS!PingStats
  <2>4. \A h : Count(h, Pinged)' = Count(h, Pinged) /\ Count(h, Answered)' = Count(h, Answered)
    BY <2>1 DEF Count, Streak
  <2>5. PeerWatchTypeOK'
    BY <2>1, <2>2, <2>3, SendCountAssumption
  <2>6. counter' < controlerSendCount
    BY <2>1, SendCountAssumption
  <2>7. \A h \in DOMAIN pingData : pingData'[h].tx = 0 /\ pingData'[h].rx = 0
    BY <2>2, <2>3
  <2> HIDE DEF PeerWatchTypeOK
  <2> QED BY <1>6, <2>1, <2>2, <2>4, <2>5, <2>6, <2>7
<1>7. CASE Sent /\ recv' = recv
  <2>1. /\ watch = "write" /\ watch' = "select" /\ resp' = {} /\ rounds' = <<>>
        /\ UNCHANGED <<peers, old, wgdevs, targets, pingData, counter>>
    BY <1>7 DEF Sent
  <2>2. rounds' \in Seq(Results)
    BY <2>1, EmptySeq
  <2>3. \A h : Count(h, Pinged)' = 0 /\ Count(h, Answered)' = 0
    BY <2>1, FS_EmptySet DEF Count, Streak
  <2>4. PeerWatchTypeOK' /\ counter' < controlerSendCount
    BY <2>1
  <2>5. /\ DOMAIN pingData' = DOMAIN pingData
        /\ \A h \in DOMAIN pingData : pingData'[h].tx = 0 /\ pingData'[h].rx = 0
    BY <2>1
  <2> HIDE DEF PeerWatchTypeOK
  <2> QED BY <1>7, <2>1, <2>2, <2>3, <2>4, <2>5
<1> QED BY <1>1, <1>2, <1>3, <1>4, <1>5, <1>6, <1>7 DEF Watching

LEMMA CountedIsTrue == Counted => LossIsTrue
<1> SUFFICES ASSUME Counted, watch = "write", NEW e \in resp
             PROVE  /\ Streak(e.host) # {}
                    /\ e.stats.tx = Count(e.host, Pinged) /\ e.stats.rx = Count(e.host, Answered)
  BY DEF LossIsTrue, Count, Pinged, Answered
<1>1. /\ rounds \in Seq(Results) /\ rounds # <<>> /\ e.host \in DOMAIN rounds[Len(rounds)]
      /\ e.stats.tx = Count(e.host, Pinged) /\ e.stats.rx = Count(e.host, Answered)
  BY DEF Counted
<1>2. DOMAIN rounds = 1 .. Len(rounds) /\ Len(rounds) \in Nat /\ Len(rounds) # 0
  BY <1>1, LenProperties, EmptySeq
<1>3. Len(rounds) \in Streak(e.host)
  BY <1>1, <1>2 DEF Streak
<1> QED BY <1>1, <1>3

-----------------------------------------------------------------------------
(***************************************************************************)
(* The theorems.                                                            *)
(***************************************************************************)
Inv == Messages /\ Locking /\ Services /\ Chain /\ Counted

THEOREM Invariant == Spec => []Inv
<1>1. Init => Inv
  BY MessagesInit, LockingInit, ServicesInit, ChainInit, CountedInit DEF Inv
<1>2. ASSUME Inv, [Next]_vars
      PROVE  Inv'
  <2>1. Messages'
    BY <1>2, MessagesNext DEF Inv
  <2>2. Interfaces
    BY <1>2 DEF Inv, Counted, PeerWatchTypeOK, Interfaces
  <2>3. /\ env' = env /\ (life' = "up" => life = "up")
        /\ \/ AutoPingRests /\ (recv' = "off" => UNCHANGED <<recv, service>>)
           \/ AutoPingNext /\ recv' = recv
        /\ ServicesRest \/ ServiceWatchNext
        /\ \/ PublicIpRests /\ (recv' = "off" => UNCHANGED <<recv, monitor>>)
           \/ PublicIpNext /\ recv' = recv
        /\ \/ PeerWatchRests /\ (recv' = "off" => UNCHANGED <<recv, watch>>)
           \/ (Watching \/ StopWatch) /\ recv' = recv
    BY <1>2, <2>2, Elsewhere DEF Inv
  <2>4. Locking'
    BY <1>2, <2>3, LockingNext DEF Inv
  <2>5. Services'
    BY <1>2, <2>3, ServicesNext DEF Inv
  <2>6. Chain'
    BY <1>2, <2>3, ChainNext DEF Inv
  <2>7. Counted'
    BY <1>2, <2>3, CountedNext DEF Inv
  <2> QED BY <2>1, <2>4, <2>5, <2>6, <2>7 DEF Inv
<1> QED BY <1>1, <1>2, PTL DEF Spec

\* Agent!TypeOK: what is executed and what waits are messages of the
\* controller, and locks, lookups and counters are in their ranges.
THEOREM TypeCorrect == Spec => []TypeOK
<1>1. Inv => TypeOK
  <2> SUFFICES ASSUME Inv PROVE TypeOK
    OBVIOUS
  <2>1. feed \in 0 .. Len(env.messages) /\ last \in 0 .. feed
    <3>1. feed \in Nat /\ last \in Nat /\ last <= feed /\ feed <= Len(env.messages) /\ Len(env.messages) \in Nat
      BY DEF Inv, Messages, MessagesType
    <3> QED BY <3>1
  <2>2. AutoPingTypeOK /\ PeerWatchTypeOK /\ ServiceWatchTypeOK /\ PublicIpTypeOK
    BY DEF Inv, Locking, Services, Chain, Counted
  <2> QED BY <2>1, <2>2 DEF Inv, Messages, MessagesType, TypeOK
<1> QED BY <1>1, Invariant, PTL

\* Agent!InOrder: the commands are executed in the order of the controller
\* and none of them twice (agent.go, processCommand and messageHandler).
THEOREM MessagesInOrder == Spec => []InOrder
<1>1. Inv => InOrder
  BY DEF Inv, Messages, Ordered, InOrder
<1> QED BY <1>1, Invariant, PTL

\* AutoPing!ReportsAsked: a report names only hosts of the request in force
\* (auto_ping.go: Exec and pingAction exclude each other).
THEOREM ReportsWereAsked == Spec => []ReportsAsked
<1>1. Inv => ReportsAsked
  BY DEF Inv, Locking
<1> QED BY <1>1, Invariant, PTL

\* ServiceWatch!OnlyRealServices: an error is never reported as the absence
\* of services, except by docker, and by kubernetes when it has a namespace
\* without a client (kubernet.go, client.go, hostnetsrv, docker).
THEOREM ServicesWereReal == Spec => []OnlyRealServices
<1>1. Inv => OnlyRealServices
  BY DEF Inv, Services
<1> QED BY <1>1, Invariant, PTL

\* PublicIp!OnlyForAChange: the agent never reconnects more often than its
\* public address has changed (ifacemon.go, pubip.go).
THEOREM ReconnectsForAChange == Spec => []OnlyForAChange
<1>1. Chain => OnlyForAChange
  <2> SUFFICES ASSUME Chain PROVE OnlyForAChange
    OBVIOUS
  <2>1. owed \in Int /\ owed >= Differ(publicIP, InCache) + Differ(InCache, OnItsWay) + Differ(OnItsWay, wan)
    BY DEF Chain, PublicIpTypeOK
  <2> QED BY <2>1 DEF OnlyForAChange, Differ
<1> QED BY <1>1, Invariant, PTL DEF Inv

\* PeerWatch!LossIsTrue: what is reported of a peer counts every round of the
\* period in which it was pinged, once (peerwatch/monitor.go, pingdata).
THEOREM LossWasTrue == Spec => []LossIsTrue
<1>1. Inv => LossIsTrue
  BY CountedIsTrue DEF Inv
<1> QED BY <1>1, Invariant, PTL

=============================================================================
