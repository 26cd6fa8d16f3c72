--------------------------- MODULE SaasController ---------------------------
(***************************************************************************)
(* The connection to the SaaS controller: src/controller/saas.              *)
(*                                                                         *)
(* Six kinds of goroutines share a state machine whose loads and stores are *)
(* atomic, the pointer cc.ws, a message queue and the mutex around the      *)
(* writes to the websocket:                                                 *)
(*   recv    the agent's receiver: Open, then Recv, which reconnects        *)
(*   send    sendLoop                                                       *)
(*   Checks  runs of the health check timer                                 *)
(*   Writers services that report to the controller                         *)
(*   ifmon   the interface monitor, which calls Reconnect                   *)
(*   close   the agent's shutdown, which calls Close once                   *)
(* An action is what a goroutine does between two accesses to shared state. *)
(*                                                                         *)
(* A connection is an identifier that is used again when nobody holds it    *)
(* any more.  Messages are numbered as they enter the queue.                *)
(***************************************************************************)
EXTENDS Naturals, Sequences

CONSTANTS
  Writers, Checks,  \* goroutines, see above
  Conn,             \* connections
  NoConn,           \* a nil cc.ws
  Cap,              \* capacity of messageQueue
  queueLimit,       \* free places below which messages are discarded
  Environments      \* what may happen in a behaviour, see env

ASSUME QueueAssumption  == Cap \in Nat \ {0} /\ queueLimit \in Nat
ASSUME ConnAssumption   == NoConn \notin Conn
ASSUME ThreadAssumption ==
  /\ Writers \cap Checks = {}
  /\ {"recv", "send", "ifmon", "close", "nobody"} \cap (Writers \cup Checks) = {}
ASSUME EnvAssumption ==
  Environments \subseteq
    [msgs : Nat,  \* bound on the messages written
     dialFails : BOOLEAN, stalls : BOOLEAN,       \* what the network does
     closes : BOOLEAN, reconnects : BOOLEAN,      \* what the agent calls
     checks : BOOLEAN]                            \* the health timer fires

VARIABLES
  env,        \* chosen once
  state,      \* the state machine
  pc,         \* where each goroutine is
  lock,       \* the goroutine that holds the mutex, or "nobody"
  wconn,      \* the connection the holder writes to
  ws,         \* the current connection
  open,       \* connections that are neither closed nor broken
  dead,       \* open connections whose other end is gone
  stuck,      \* open connections whose send buffer is full
  alive,      \* connectionIsAlive
  quiet,      \* the last heartbeat is older than heartbeatAcceptable
  timer,      \* healthTimer is armed
  queue,      \* messageQueue
  qopen,      \* messageQueue is not closed
  next,       \* number of messages that entered the queue
  msg,        \* the message sendLoop is working on
  delivered,  \* the messages that reached the controller, in order
  panic       \* what the agent crashed of

net    == <<ws, open, dead, stuck>>
health == <<alive, quiet, timer>>
chan   == <<queue, qopen, next>>
out    == <<msg, delivered>>
mutex  == <<lock, wconn>>
vars   == <<env, state, pc, mutex, net, health, chan, out, panic>>

Threads == {"recv", "send", "ifmon", "close"} \cup Writers \cup Checks

At(t, here)       == panic = "none" /\ pc[t] = here
Goto(t, there)    == pc' = [pc EXCEPT ![t] = there]
Go(t, here, there) == At(t, here) /\ Goto(t, there)

\* a method of a nil connection was called, or a closed channel was used
Crash(why) ==
  /\ panic' = why
  /\ open' = {} /\ dead' = {} /\ stuck' = {}
  /\ UNCHANGED <<env, state, pc, mutex, ws, health, chan, out>>

CloseConn(c) ==
  /\ open' = open \ {c}
  /\ dead' = dead \ {c}
  /\ stuck' = stuck \ {c}
  /\ UNCHANGED ws

(***************************************************************************)
(* Open and connect.  connect is also how Recv reconnects; it returns only  *)
(* when a connection is up, and looks at no state on the way.               *)
(***************************************************************************)
Open ==
  /\ At("recv", "new")
  /\ state = "initialised"
  /\ pc' = [pc EXCEPT !["recv"] = "connect", !["send"] = "take"]
  /\ UNCHANGED <<env, state, mutex, net, health, chan, out, panic>>

Connecting ==
  /\ Go("recv", "connect", "stop")
  /\ state' = "connecting"
  /\ UNCHANGED <<env, mutex, net, health, chan, out, panic>>

StopTimer ==
  /\ Go("recv", "stop", "dial")
  /\ timer' = FALSE
  /\ UNCHANGED <<env, state, mutex, net, alive, quiet, chan, out, panic>>

DialFails ==
  /\ env.dialFails
  /\ At("recv", "dial")
  /\ ws # NoConn
  /\ ws' = NoConn
  /\ UNCHANGED <<env, state, pc, mutex, open, dead, stuck, health, chan, out, panic>>

\* connections nobody refers to are forgotten
DialOk(c) ==
  /\ Go("recv", "dial", "beat")
  /\ c \in Conn \ {ws, wconn}
  /\ ws' = c
  /\ open' = (open \cap {wconn}) \cup {c}
  /\ dead' = dead \cap {wconn}
  /\ stuck' = stuck \cap {wconn}
  /\ UNCHANGED <<env, state, mutex, health, chan, out, panic>>

heartbeat == alive' = TRUE /\ quiet' = FALSE

Connected ==
  /\ Go("recv", "beat", "up")
  /\ heartbeat
  /\ timer' = TRUE
  /\ UNCHANGED <<env, state, mutex, net, chan, out, panic>>

\* when Open has returned, the agent starts everything else
Running ==
  /\ At("recv", "up")
  /\ pc' = [t \in Threads |-> IF t = "recv" THEN "recv"
                             ELSE IF pc[t] = "off" THEN "idle" ELSE pc[t]]
  /\ state' = "running"
  /\ UNCHANGED <<env, mutex, net, health, chan, out, panic>>

(***************************************************************************)
(* Recv.  Ping and pong frames are handled inside ReadMessage.              *)
(***************************************************************************)
Recv ==
  /\ At("recv", "recv")
  /\ Goto("recv", IF state = "stopped" THEN "done" ELSE "read")
  /\ UNCHANGED <<env, state, mutex, net, health, chan, out, panic>>

Answering == ws \in open \ dead

ReadMessage ==
  /\ Answering
  /\ Go("recv", "read", "recv")
  /\ UNCHANGED <<env, state, mutex, net, health, chan, out, panic>>

pongHandler ==
  /\ Answering
  /\ At("recv", "read")
  /\ heartbeat
  /\ UNCHANGED <<env, state, pc, mutex, net, timer, chan, out, panic>>

pingHandler ==
  /\ Answering
  /\ Go("recv", "read", "pong")
  /\ heartbeat
  /\ UNCHANGED <<env, state, mutex, net, timer, chan, out, panic>>

\* WriteControl waits a second at most.  Its timeout is no temporary error, so
\* ReadMessage returns it; and after a failed write a connection writes no more
WritePong ==
  /\ At("recv", "pong")
  /\ lock = "nobody"
  /\ IF ws \in open \ stuck
     THEN Goto("recv", "read") /\ UNCHANGED net
     ELSE Goto("recv", "check") /\ CloseConn(ws)
  /\ UNCHANGED <<env, state, mutex, health, chan, out, panic>>

ReadError ==
  /\ ws \notin open
  /\ Go("recv", "read", "check")
  /\ UNCHANGED <<env, state, mutex, net, health, chan, out, panic>>

CheckStopped ==
  /\ At("recv", "check")
  /\ Goto("recv", IF state = "stopped" THEN "done" ELSE "connect")
  /\ UNCHANGED <<env, state, mutex, net, health, chan, out, panic>>

(***************************************************************************)
(* Write: the state is checked first, the queue may block.                  *)
(***************************************************************************)
Write(w) ==
  /\ Go(w, "idle", "put")
  /\ state # "stopped"
  /\ next < env.msgs
  /\ UNCHANGED <<env, state, mutex, net, health, chan, out, panic>>

Enqueue(w) ==
  /\ At(w, "put")
  /\ qopen
  /\ Len(queue) < Cap
  /\ Goto(w, "idle")
  /\ queue' = Append(queue, next + 1)
  /\ next' = next + 1
  /\ UNCHANGED <<env, state, mutex, net, health, qopen, out, panic>>

EnqueueClosed(w) ==
  /\ At(w, "put")
  /\ ~qopen
  /\ Crash("closed")

(***************************************************************************)
(* sendLoop: until the queue is closed and empty, take a message and act on *)
(* the state; offline, keep trying while the queue has room.                *)
(***************************************************************************)
Take ==
  /\ At("send", "take")
  /\ queue # <<>>
  /\ Goto("send", "look")
  /\ msg' = Head(queue)
  /\ queue' = Tail(queue)
  /\ UNCHANGED <<env, state, mutex, net, health, qopen, next, delivered, panic>>

SendLoopEnds ==
  /\ Go("send", "take", "done")
  /\ queue = <<>> /\ ~qopen
  /\ UNCHANGED <<env, state, mutex, net, health, chan, out, panic>>

Offline == state \in {"connecting", "disconnected"}

\* mutant: off by one
AlmostFull_OffByOne == Cap - Len(queue) + 1 < queueLimit

AlmostFull == Cap - Len(queue) < queueLimit

Discard ==
  /\ Go("send", "look", "take")
  /\ state \in {"stopped", "initialised"} \/ (Offline /\ AlmostFull)
  /\ UNCHANGED <<env, state, mutex, net, health, chan, out, panic>>

LookRunning ==
  /\ Go("send", "look", "lock")
  /\ state = "running"
  /\ UNCHANGED <<env, state, mutex, net, health, chan, out, panic>>

\* lock the mutex to write a message to the current connection
Acquire(t) ==
  /\ At(t, "lock")
  /\ lock = "nobody"
  /\ IF ws = NoConn THEN Crash("nil")
     ELSE /\ lock' = t /\ wconn' = ws
          /\ Goto(t, "write")
          /\ UNCHANGED <<env, state, net, health, chan, out, panic>>

Release == lock' = "nobody" /\ wconn' = NoConn

WriteDone ==
  /\ Go("send", "write", "take")
  /\ wconn \in open \ stuck
  /\ delivered' = Append(delivered, msg)
  /\ Release
  /\ UNCHANGED <<env, state, net, health, chan, msg, panic>>

\* mutants: the mutex stays locked; the message is tried again
WriteFails_KeepsLock ==
  /\ Go("send", "write", "down")
  /\ wconn \notin open
  /\ UNCHANGED <<env, state, mutex, net, health, chan, out, panic>>

WriteFails_Retry ==
  /\ Go("send", "write", "look")
  /\ wconn \notin open
  /\ delivered' \in {delivered, Append(delivered, msg)}
  /\ Release
  /\ UNCHANGED <<env, state, net, health, chan, msg, panic>>

\* the message is given up, although an error does not tell what arrived
WriteFails ==
  /\ Go("send", "write", "down")
  /\ wconn \notin open
  /\ delivered' \in {delivered, Append(delivered, msg)}
  /\ Release
  /\ UNCHANGED <<env, state, net, health, chan, msg, panic>>

(***************************************************************************)
(* A goroutine that gives the connection up: sendLoop after an error, the   *)
(* health check when it is not answered.                                    *)
(***************************************************************************)
Disconnected(t, here, there) ==
  /\ Go(t, here, there)
  /\ state' = "disconnected"
  /\ UNCHANGED <<env, mutex, net, health, chan, out, panic>>

\* mutant: only the state is changed
Terminate_KeepsConn(t, here, there) ==
  /\ Go(t, here, there)
  /\ UNCHANGED <<env, state, mutex, net, health, chan, out, panic>>

Terminate(t, here, there) ==
  /\ At(t, here)
  /\ IF ws = NoConn THEN Crash("nil")
     ELSE /\ CloseConn(ws)
          /\ Goto(t, there)
          /\ UNCHANGED <<env, state, mutex, health, chan, out, panic>>

(***************************************************************************)
(* healthcheck, started by the timer.                                       *)
(***************************************************************************)
Fire(h) ==
  /\ env.checks
  /\ timer
  /\ Go(h, "idle", "look")
  /\ timer' = FALSE
  /\ UNCHANGED <<env, state, mutex, net, alive, quiet, chan, out, panic>>

\* mutants: the connection stays alive; the timer is left stopped
healthcheck_Alive(h) ==
  /\ At(h, "look")
  /\ Goto(h, IF ~alive THEN "down" ELSE IF quiet THEN "ping" ELSE "again")
  /\ UNCHANGED <<env, state, mutex, net, health, chan, out, panic>>

healthcheck_Once(h) ==
  /\ At(h, "look")
  /\ Goto(h, IF ~alive THEN "down" ELSE IF quiet THEN "ping" ELSE "idle")
  /\ alive' = (alive /\ ~quiet)
  /\ UNCHANGED <<env, state, mutex, net, quiet, timer, chan, out, panic>>

healthcheck(h) ==
  /\ At(h, "look")
  /\ Goto(h, IF ~alive THEN "down" ELSE IF quiet THEN "ping" ELSE "again")
  /\ alive' = (alive /\ ~quiet)
  /\ UNCHANGED <<env, state, mutex, net, quiet, timer, chan, out, panic>>

\* WriteControl waits a second at most
SendPing(h) ==
  /\ At(h, "ping")
  /\ lock = "nobody"
  /\ IF ws = NoConn THEN Crash("nil")
     ELSE /\ Goto(h, IF ws \in open \ stuck THEN "again" ELSE "pingdown")
          /\ UNCHANGED <<env, state, mutex, net, health, chan, out, panic>>

Reschedule(h) ==
  /\ Go(h, "again", "idle")
  /\ timer' = TRUE
  /\ UNCHANGED <<env, state, mutex, net, alive, quiet, chan, out, panic>>

(***************************************************************************)
(* close: Close terminates, Reconnect only drops the connection.            *)
(***************************************************************************)
CloseTimer ==
  /\ env.closes
  /\ Go("close", "idle", "start")
  /\ timer' = FALSE
  /\ UNCHANGED <<env, state, mutex, net, alive, quiet, chan, out, panic>>

\* the state is checked, and found not to be stopped
CloseStart ==
  /\ Go("close", "start", "stopping")
  /\ state # "stopped"
  /\ UNCHANGED <<env, state, mutex, net, health, chan, out, panic>>

CloseStop ==
  /\ Go("close", "stopping", "queue")
  /\ state' = "stopped"
  /\ UNCHANGED <<env, mutex, net, health, chan, out, panic>>

CloseQueue ==
  /\ Go("close", "queue", "lock")
  /\ qopen' = FALSE
  /\ UNCHANGED <<env, state, mutex, net, health, queue, next, out, panic>>

ReconnectStart ==
  /\ env.reconnects
  /\ Go("ifmon", "idle", "stopping")
  /\ state # "stopped"
  /\ UNCHANGED <<env, state, mutex, net, health, chan, out, panic>>

Reconnect == Disconnected("ifmon", "stopping", "lock")

\* the close message, sent or not, then the connection is closed: cc.ws is
\* read again for that
CloseMessage(t) ==
  /\ Go(t, "write", "shut")
  /\ wconn \notin stuck
  /\ UNCHANGED <<env, state, mutex, net, health, chan, out, panic>>

CloseEnds(t) ==
  /\ At(t, "shut")
  /\ IF ws = NoConn THEN Crash("nil")
     ELSE /\ CloseConn(ws)
          /\ Release
          /\ Goto(t, IF t = "close" THEN "done" ELSE "idle")
          /\ UNCHANGED <<env, state, health, chan, out, panic>>

(***************************************************************************)
(* The network: a connection breaks, its other end disappears without a     *)
(* word, it takes no more data; and time passes.                            *)
(***************************************************************************)
Break ==
  /\ ws \in open
  /\ CloseConn(ws)
  /\ UNCHANGED <<env, state, pc, mutex, health, chan, out, panic>>

Vanish ==
  /\ ws \in open
  /\ dead' = dead \cup {ws}
  /\ UNCHANGED <<env, state, pc, mutex, ws, open, stuck, health, chan, out, panic>>

Stall ==
  /\ env.stalls
  /\ ws \in dead
  /\ stuck' = stuck \cup {ws}
  /\ UNCHANGED <<env, state, pc, mutex, ws, open, dead, health, chan, out, panic>>

Silence ==
  /\ ~quiet
  /\ quiet' = TRUE
  /\ UNCHANGED <<env, state, pc, mutex, net, alive, timer, chan, out, panic>>

-----------------------------------------------------------------------------
Init ==
  /\ env \in Environments
  /\ state = "initialised"
  /\ pc = [t \in Threads |-> IF t = "recv" THEN "new" ELSE "off"]
  /\ lock = "nobody" /\ wconn = NoConn
  /\ ws = NoConn /\ open = {} /\ dead = {} /\ stuck = {}
  /\ alive = FALSE /\ quiet = FALSE /\ timer = FALSE
  /\ queue = <<>> /\ qopen = TRUE /\ next = 0
  /\ msg = 0 /\ delivered = <<>>
  /\ panic = "none"

Connect == \/ Connecting \/ StopTimer \/ DialFails \/ Connected \/ Running
           \/ \E c \in Conn : DialOk(c)

Receiver == \/ Open \/ Connect \/ Recv \/ ReadMessage \/ pongHandler \/ pingHandler
            \/ WritePong \/ ReadError \/ CheckStopped

Sender == \/ Take \/ SendLoopEnds \/ Discard \/ LookRunning
          \/ Acquire("send") \/ WriteDone \/ WriteFails
          \/ Disconnected("send", "down", "kill") \/ Terminate("send", "kill", "take")

Writer(w) == Write(w) \/ Enqueue(w) \/ EnqueueClosed(w)

Check(h) == \/ Fire(h) \/ healthcheck(h) \/ SendPing(h) \/ Reschedule(h)
            \/ Disconnected(h, "down", "kill") \/ Terminate(h, "kill", "idle")
            \/ Disconnected(h, "pingdown", "pingkill")
            \/ Terminate(h, "pingkill", "again")

Closing(t) == Acquire(t) \/ CloseMessage(t) \/ CloseEnds(t)

Close == CloseStart \/ CloseStop \/ CloseQueue \/ Closing("close")

IfMonitor == Reconnect \/ Closing("ifmon")

Network == Break \/ Vanish \/ Stall \/ Silence

Next ==
  \/ Receiver \/ Sender \/ CloseTimer \/ Close \/ ReconnectStart \/ IfMonitor
  \/ \E w \in Writers : Writer(w)
  \/ \E h \in Checks : Check(h)
  \/ panic = "none" /\ Network

Spec == Init /\ [][Next]_vars

(***************************************************************************)
(* Fairness: a goroutine that can go on does, the timer fires, silence is   *)
(* noticed, dialling succeeds some time; and the receiver gets a mutex that *)
(* becomes free again and again (Go's mutexes do not starve).  The network  *)
(* owes nothing else, and nobody has to call Close or Reconnect.            *)
(***************************************************************************)
Fairness ==
  /\ WF_vars(Connect \/ Recv \/ ReadError \/ CheckStopped)
  /\ SF_vars(WritePong)
  /\ WF_vars(Sender)
  /\ WF_vars(Close) /\ WF_vars(IfMonitor)
  /\ \A w \in Writers : WF_vars(Enqueue(w) \/ EnqueueClosed(w))
  /\ \A h \in Checks : WF_vars(Check(h))
  /\ WF_vars(ws \in dead /\ Silence)

LiveSpec == Spec /\ Fairness

-----------------------------------------------------------------------------
(***************************************************************************)
(* Type invariant.  The goroutine that holds the mutex is writing.          *)
(***************************************************************************)
Labels == {"new", "off", "idle", "connect", "stop", "dial", "beat", "up", "recv", "read",
           "pong", "check", "take", "look", "lock", "write", "down", "kill", "put",
           "ping", "pingdown", "pingkill", "again", "start", "stopping", "queue",
           "shut", "done"}

TypeOK ==
  /\ state \in {"stopped", "initialised", "connecting", "running", "disconnected"}
  /\ pc \in [Threads -> Labels]
  /\ lock \in {"nobody", "send", "ifmon", "close"}
  /\ wconn \in Conn \cup {NoConn} /\ ws \in Conn \cup {NoConn}
  /\ open \subseteq Conn /\ dead \subseteq open /\ stuck \subseteq open
  /\ alive \in BOOLEAN /\ quiet \in BOOLEAN /\ timer \in BOOLEAN
  /\ queue \in Seq(Nat) /\ Len(queue) <= Cap
  /\ qopen \in BOOLEAN
  /\ next \in Nat /\ msg \in Nat
  /\ delivered \in Seq(Nat)
  /\ panic \in {"none", "nil", "closed"}
  /\ \A t \in {"send", "ifmon", "close"} : lock = t <=> pc[t] \in {"write", "shut"}

(***************************************************************************)
(* Over all connections together, messages reach the controller in the      *)
(* order they entered the queue, and none twice: discarding, losing one to  *)
(* a broken connection and reconnecting never reorders or repeats.          *)
(***************************************************************************)
InOrder ==
  \A i, j \in DOMAIN delivered : i < j => delivered[i] < delivered[j]

(***************************************************************************)
(* As long as the agent is not closing, a connection that Recv reads from   *)
(* is watched: the health timer is armed or a health check is under way,    *)
(* whichever of the goroutines stopped and armed it last.                   *)
(***************************************************************************)
Watched ==
  /\ panic = "none"
  /\ ws \in open
  /\ pc["recv"] \in {"up", "recv", "read", "pong"}
  /\ pc["close"] \in {"off", "idle"}
  => timer \/ \E h \in Checks : pc[h] \notin {"off", "idle"}

(***************************************************************************)
(* A connection that was given up is replaced: no interleaving of the       *)
(* goroutines that set the state leaves the agent disconnected while Recv   *)
(* waits on an open connection, unless Recv has seen the Close and ended.   *)
(***************************************************************************)
Recovers ==
  state \in {"connecting", "disconnected"}
    ~> \/ state \in {"running", "stopped"}
       \/ pc["recv"] = "done" \/ panic # "none"

(***************************************************************************)
(* A connection whose other end has disappeared is terminated ("if server   *)
(* is not sending ping neither responding to my pings - the connection is   *)
(* lost. In that case terminate the connection", saas.go).                  *)
(***************************************************************************)
DeadConnectionDropped ==
  ws \in dead /\ env.checks /\ ~env.stalls ~> ws \notin dead

(***************************************************************************)
(* Callers are not held for ever: Write gets room in the queue ("Write will *)
(* exit and allow services to continue working", saas.go), and Close gets   *)
(* the mutex of a writer.                                                   *)
(***************************************************************************)
WritesReturn ==
  \A w \in Writers :
    pc[w] = "put" /\ ~env.stalls ~> (pc[w] = "idle" \/ panic # "none")

CloseReturns ==
  pc["close"] = "start" /\ ~env.stalls ~> (pc["close"] = "done" \/ panic # "none")

CallsReturn == WritesReturn /\ CloseReturns

(***************************************************************************)
(* "After Close controller will not reconnect" (controller.go).             *)
(***************************************************************************)
CloseIsFinal == [][pc["close"] = "done" => \A c \in Conn : ~DialOk(c)]_vars
=============================================================================
