------------------------------- MODULE Agent --------------------------------
(***************************************************************************)
(* The agent, src/agent: New and Run, the goroutines between the controller *)
(* and the commands, the services, and Close, which does not wait for any   *)
(* of them.  Mole and the SaaS controller have modules of their own, of the *)
(* latter only its order is used here.  The other two controllers:          *)
(*   script      reads a list of files; what cannot be read is skipped, and *)
(*               after the last file it waits for Close                     *)
(*   blockchain  polls for the newest commodity, remembers it, and then     *)
(*               fetches its content; one it cannot fetch is lost           *)
(***************************************************************************)
EXTENDS AutoPing, PeerWatch, ServiceWatch, PublicIp

CONSTANTS RxCap

ASSUME RxAssumption == RxCap \in Nat \ {0}

VARIABLES
  running,  \* the controller has not been closed
  feed,     \* files read, or commodities on the chain
  last,     \* lastCommodity
  recv,     \* where the receiver is
  got,      \* the message it is handing over
  rxchan,   \* messages between the receiver and the handler
  handler   \* where the goroutine that executes commands is

pipe == <<running, feed, last, recv, got, rxchan, handler>>
vars == <<base, autoping, peerwatch, services, publicip, pipe>>

components == <<autoping, peerwatch, services, publicip>>

Controller(c) == env.controller = c

Content(i) == env.messages[i]

Deliver(m) == got' = m /\ recv' = "put"

\* io.EOF or any other error: the channel is closed
EndOfFile == recv' = "done" /\ UNCHANGED got

(***************************************************************************)
(* The script controller.  "skip" stands for comments, delays and files     *)
(* that cannot be read.  The SaaS controller is no different here: it hands *)
(* over one message after the other, until it is closed.                    *)
(***************************************************************************)
ScriptRecv ==
  /\ Up /\ ~Controller("blockchain") /\ recv = "recv"
  /\ feed < Len(env.messages)
  /\ feed' = feed + 1
  /\ IF Content(feed + 1).type = "skip" THEN UNCHANGED <<recv, got>> ELSE Deliver(Content(feed + 1))
  /\ UNCHANGED <<base, components, running, last, rxchan, handler>>

ScriptEnds ==
  /\ Up /\ ~Controller("blockchain") /\ recv = "recv"
  /\ feed = Len(env.messages) /\ ~running
  /\ EndOfFile
  /\ UNCHANGED <<base, components, running, feed, last, rxchan, handler>>

(***************************************************************************)
(* The blockchain controller looks at its state once per message.           *)
(***************************************************************************)
Publish ==
  /\ Up /\ Controller("blockchain")
  /\ feed < Len(env.messages)
  /\ feed' = feed + 1
  /\ UNCHANGED <<base, components, running, last, recv, got, rxchan, handler>>

BlockchainRecv ==
  /\ Up /\ Controller("blockchain") /\ recv = "recv"
  /\ IF running THEN recv' = "poll" /\ UNCHANGED got ELSE EndOfFile
  /\ UNCHANGED <<base, components, running, feed, last, rxchan, handler>>

\* mutants: the commodity is not remembered; the first one is taken
Poll_Forgets ==
  /\ Up /\ recv = "poll" /\ feed # last
  /\ Deliver(Content(feed))
  /\ UNCHANGED <<base, components, running, feed, last, rxchan, handler>>

Poll_First ==
  /\ Up /\ recv = "poll" /\ feed # 0 /\ last # 1
  /\ last' = 1
  /\ Deliver(Content(1))
  /\ UNCHANGED <<base, components, running, feed, rxchan, handler>>

Poll ==
  /\ Up /\ recv = "poll" /\ feed # last
  /\ last' = feed
  /\ \/ Content(feed).type # "skip" /\ Deliver(Content(feed))
     \/ (Content(feed).type = "skip" \/ env.fails) /\ UNCHANGED <<recv, got>>
  /\ UNCHANGED <<base, components, running, feed, rxchan, handler>>

(***************************************************************************)
(* Run: the services, then the two goroutines of the message loop.          *)
(***************************************************************************)
Run ==
  /\ Up /\ recv = "off"
  /\ service' = "select" /\ watch' = "select"
  /\ srv' = IF Platform("none") THEN "off" ELSE "select"
  /\ monitor' = IF env.monitors THEN "select" ELSE "off"
  /\ recv' = "recv" /\ handler' = "run"
  /\ UNCHANGED <<base, list, armed, tick, spawned, holder, stage, report, asked>>
  /\ UNCHANGED <<peers, old, wgdevs, targets, pingData, counter, resp, rounds>>
  /\ UNCHANGED <<actual, event, client, errorCount, known, real>>
  /\ UNCHANGED <<wan, announced, cache, lookup, other, check, publicIP, owed, raced>>
  /\ UNCHANGED <<running, feed, last, got, rxchan>>

Put_rxchan ==
  /\ Up /\ recv = "put" /\ Len(rxchan) < RxCap
  /\ rxchan' = Append(rxchan, got)
  /\ got' = NoCmd /\ recv' = "recv"
  /\ UNCHANGED <<base, components, running, feed, last, handler>>

Known == {"AUTO_PING", "CONFIG_INFO", "WG_CONF", "GET_INFO", "SUPPORT_INFO_CTA"}

processCommand ==
  /\ Up /\ handler = "run" /\ cmd = NoCmd /\ rxchan # <<>>
  /\ rxchan' = Tail(rxchan)
  /\ cmd' = IF Head(rxchan).type \in Known THEN Head(rxchan) ELSE NoCmd
  /\ UNCHANGED <<env, life, step, done, components, running, feed, last, recv, got, handler>>

HandlerEnds ==
  /\ Up /\ handler = "run" /\ cmd = NoCmd
  /\ rxchan = <<>> /\ recv = "done"
  /\ handler' = "done"
  /\ UNCHANGED <<base, components, running, feed, last, recv, got, rxchan>>

(***************************************************************************)
(* Close: stopServices, mole.Close, controller.Close; then main returns.    *)
(***************************************************************************)
CloseStep(before, after) == Up /\ life = before /\ life' = after

Close ==
  /\ \/ env.closes /\ CloseStep("up", "cancelled") /\ UNCHANGED running
     \/ CloseStep("cancelled", "mole closed") /\ UNCHANGED running
     \/ CloseStep("mole closed", "closed") /\ running' = FALSE
     \/ CloseStep("closed", "exited") /\ UNCHANGED running
  /\ UNCHANGED <<env, cmd, step, done, components, feed, last, recv, got, rxchan, handler>>

-----------------------------------------------------------------------------
Init ==
  /\ env \in Environments
  /\ life = "up" /\ cmd = NoCmd /\ step = "start" /\ done = <<>>
  /\ AutoPingInit /\ PeerWatchInit /\ ServiceWatchInit /\ PublicIpInit
  /\ running = TRUE /\ feed = 0 /\ last = 0
  /\ recv = "off" /\ got = NoCmd /\ rxchan = <<>> /\ handler = "off"

Receiver == ScriptRecv \/ ScriptEnds \/ BlockchainRecv \/ Poll \/ Put_rxchan

Handler == processCommand \/ HandlerEnds

Next ==
  \/ Run \/ Receiver \/ Publish \/ Handler \/ Close
  \/ AutoPingNext /\ UNCHANGED <<peerwatch, services, publicip, pipe>>
  \/ PeerWatchNext /\ UNCHANGED <<autoping, services, publicip, pipe>>
  \/ ServiceWatchNext /\ UNCHANGED <<autoping, peerwatch, publicip, pipe>>
  \/ PublicIpNext /\ UNCHANGED <<autoping, peerwatch, services, pipe>>

Spec == Init /\ [][Next]_vars

AP(A) == A /\ UNCHANGED <<peerwatch, services, publicip, pipe>>
PW(A) == A /\ UNCHANGED <<autoping, services, publicip, pipe>>
SW(A) == A /\ UNCHANGED <<autoping, peerwatch, publicip, pipe>>
PI(A) == A /\ UNCHANGED <<autoping, peerwatch, services, pipe>>

(***************************************************************************)
(* Fairness: goroutines that can go on do, tickers tick, a mutex that       *)
(* becomes free again and again is got, Ping returns (MultiPing) and so do  *)
(* Write and Reconnect (SaasController).  Of the monitor's lookups not all  *)
(* fail.  Nobody has to close the agent.                                    *)
(***************************************************************************)
Fairness ==
  /\ WF_vars(Run) /\ WF_vars(Receiver) /\ WF_vars(Handler)
  /\ SF_vars(AP(ExecLock \/ SupportInfo)) /\ WF_vars(AP(Exec))
  /\ \A r \in Runners : SF_vars(AP(pingAction(r) \/ pingActionEmpty(r)))
  /\ WF_vars(AP(TakeTick)) /\ WF_vars(AP(Tick)) /\ WF_vars(AP(Written))
  /\ WF_vars(AP(\E sent \in SUBSET Hosts : PingReturns(sent)))
  /\ WF_vars(PW(Watching)) /\ WF_vars(PW(Configure))
  /\ WF_vars(SW(Discovery)) /\ WF_vars(SW(Answer))
  /\ WF_vars(PI(TakeUpdate)) /\ WF_vars(PI(CheckTick)) /\ WF_vars(PI(Reconnected))
  /\ SF_vars(PI(Cached("monitor") \/ Lookup("monitor")))
  /\ WF_vars(PI(AskStun \/ AskWeb \/ Found))
  /\ SF_vars(PI((AskStun \/ AskWeb) /\ looker = "monitor" /\ answer' = wan))

LiveSpec == Spec /\ Fairness

-----------------------------------------------------------------------------
(***************************************************************************)
(* Type invariant.  What is executed and what waits are messages of env.    *)
(***************************************************************************)
TypeOK ==
  /\ AutoPingTypeOK /\ PeerWatchTypeOK /\ ServiceWatchTypeOK /\ PublicIpTypeOK
  /\ life \in {"up", "cancelled", "mole closed", "closed", "exited", "crashed"}
  /\ cmd \in Message \cup {NoCmd} /\ step \in {"start", "locked", "checked", "flushed"}
  /\ done \in Seq(1 .. Len(env.messages))
  /\ running \in BOOLEAN
  /\ feed \in 0 .. Len(env.messages) /\ last \in 0 .. feed
  /\ recv \in {"off", "recv", "poll", "put", "done"}
  /\ got \in Message \cup {NoCmd} /\ (got # NoCmd <=> recv = "put")
  /\ rxchan \in Seq(Message) /\ Len(rxchan) <= RxCap
  /\ handler \in {"off", "run", "done"}

(***************************************************************************)
(* Commands are executed in the order of the controller and none of them    *)
(* twice, although receiving and executing are decoupled.                   *)
(***************************************************************************)
InOrder == \A i, j \in DOMAIN done : i < j => done[i] < done[j]

(***************************************************************************)
(* What the controller has is executed: every file of the script, and the   *)
(* newest commodity of the chain if IPFS does not fail; also while the      *)
(* services hold locks a command needs.                                     *)
(***************************************************************************)
Executed ==
  \A i \in 1 .. 3 :
    <>[](/\ Up /\ ~Cancelled /\ feed >= i
         /\ Content(i).type \in Known
         /\ Controller("blockchain") => feed = i /\ ~env.fails)
      => <>(\E n \in DOMAIN done : done[n] = i)
=============================================================================
