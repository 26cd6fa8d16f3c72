----------------------------- MODULE SaasProofs -----------------------------
(***************************************************************************)
(* The goroutines of the SaaS connection exclude each other when they write,*)
(* and messages reach the controller in the order they entered the queue,   *)
(* for any number of writers, health checks and connections and any size of *)
(* the queue.                                                               *)
(***************************************************************************)
EXTENDS SaasController, TLAPS

\* before Open there is nothing but the receiver
Fresh == pc["recv"] = "new" => \A t \in Threads \ {"recv"} : pc[t] = "off"

\* where sendLoop has a message it has not tried to send
Holding == {"look", "lock", "write"}

\* numbers grow from what was delivered over msg and the queue to next
Flow ==
  /\ msg <= next
  /\ \A i \in DOMAIN queue : msg < queue[i] /\ queue[i] <= next
  /\ \A i, j \in DOMAIN queue : i < j => queue[i] < queue[j]
  /\ \A i \in DOMAIN delivered : delivered[i] <= msg
  /\ pc["send"] \in Holding => \A i \in DOMAIN delivered : delivered[i] < msg
  /\ InOrder

-----------------------------------------------------------------------------
\* the goroutines and the mutex
Control ==
  /\ pc \in [Threads -> Labels]
  /\ lock \in {"nobody", "send", "ifmon", "close"}
  /\ \A t \in {"send", "ifmon", "close"} : lock = t <=> pc[t] \in {"write", "shut"}
  /\ Fresh

\* everything else
Data ==
  /\ state \in {"stopped", "initialised", "connecting", "running", "disconnected"}
  /\ wconn \in Conn \cup {NoConn} /\ ws \in Conn \cup {NoConn}
  /\ open \subseteq Conn /\ dead \subseteq open /\ stuck \subseteq open
  /\ alive \in BOOLEAN /\ quiet \in BOOLEAN /\ timer \in BOOLEAN
  /\ queue \in Seq(Nat) /\ Len(queue) <= Cap
  /\ qopen \in BOOLEAN
  /\ next \in Nat /\ msg \in Nat
  /\ delivered \in Seq(Nat)
  /\ panic \in {"none", "nil", "closed"}

Base == Control /\ Data

LEMMA BaseTypes == Base => TypeOK
BY DEF Base, Control, Data, TypeOK

LEMMA BaseInit == Init => Base
<1> SUFFICES ASSUME Init PROVE Base
  OBVIOUS
<1>1. Control
  BY ThreadAssumption DEF Init, Control, Fresh, Threads, Labels
<1>2. queue \in Seq(Nat) /\ Len(queue) <= Cap /\ delivered \in Seq(Nat)
  BY QueueAssumption DEF Init
<1> QED
  BY <1>1, <1>2 DEF Init, Base, Data

\* a goroutine that started goes on without touching the mutex
LEMMA Moves ==
  ASSUME Control, lock' = lock,
         NEW t \in Threads, pc[t] \notin {"off", "write", "shut"},
         NEW there \in Labels \ {"new", "write", "shut"}, Goto(t, there)
  PROVE  Control'
<1>1. Fresh'
  BY ThreadAssumption DEF Control, Fresh, Goto, Threads
<1> QED
  BY <1>1, ThreadAssumption DEF Control, Goto, Threads

LEMMA Stays ==
  ASSUME Control, lock' = lock, pc' = pc
  PROVE  Control'
BY DEF Control, Fresh

LEMMA CrashKeeps ==
  ASSUME Base, NEW why \in {"nil", "closed"}, Crash(why)
  PROVE  Base'
BY Stays DEF Base, Data, Crash, mutex, health, chan, out

LEMMA TerminateKeeps ==
  ASSUME Base, NEW t \in Threads, NEW here \in {"kill", "pingkill"},
         NEW there \in {"take", "idle", "again"}, Terminate(t, here, there)
  PROVE  Base'
<1>1. CASE ws = NoConn
  BY <1>1, CrashKeeps DEF Terminate
<1>2. CASE ws # NoConn
  BY <1>2, Moves DEF Terminate, At, Labels, CloseConn, Base, Data, mutex, health, chan, out
<1> QED
  BY <1>1, <1>2

LEMMA DisconnectedKeeps ==
  ASSUME Base, NEW t \in Threads, NEW here \in {"down", "pingdown", "stopping"},
         NEW there \in {"kill", "pingkill", "lock"}, Disconnected(t, here, there)
  PROVE  Base'
BY Moves DEF Disconnected, At, Go, Labels, Base, Data, mutex, net, health, chan, out

LEMMA AcquireKeeps ==
  ASSUME Base, NEW t \in {"send", "ifmon", "close"}, Acquire(t)
  PROVE  Base'
<1>1. CASE ws = NoConn
  BY <1>1, CrashKeeps DEF Acquire
<1>2. CASE ws # NoConn
  <2>1. /\ lock = "nobody" /\ lock' = t /\ pc[t] = "lock"
        /\ pc' = [pc EXCEPT ![t] = "write"]
    BY <1>2 DEF Acquire, At, Goto
  <2>2. Fresh'
    BY <2>1, ThreadAssumption DEF Base, Control, Fresh, Threads
  <2>3. Control'
    BY <2>1, <2>2, ThreadAssumption DEF Base, Control, Threads, Labels
  <2> QED
    BY <1>2, <2>3 DEF Acquire, Base, Data, net, health, chan, out
<1> QED
  BY <1>1, <1>2

\* the writer gives the mutex back
LEMMA Releases ==
  ASSUME Control, NEW t \in {"send", "ifmon", "close"}, pc[t] \in {"write", "shut"}, Release,
         NEW there \in {"take", "down", "done", "idle"}, Goto(t, there)
  PROVE  Control'
<1>1. Fresh'
  BY ThreadAssumption DEF Control, Fresh, Goto, Threads
<1> QED
  BY <1>1, ThreadAssumption DEF Control, Goto, Threads, Labels, Release

-----------------------------------------------------------------------------
LEMMA BaseReceiver ==
  ASSUME Base, Receiver PROVE Base'
<1>1. CASE Open
  <2>1. Control'
    BY <1>1 DEF Open, At, Base, Control, Fresh, Threads, Labels, mutex
  <2> QED
    BY <1>1, <2>1 DEF Open, Base, Data, mutex, net, health, chan, out
<1>2. CASE Running
  <2>1. Control'
    BY <1>2 DEF Running, At, Base, Control, Fresh, Threads, Labels, mutex
  <2> QED
    BY <1>2, <2>1 DEF Running, Base, Data, mutex, net, health, chan, out
<1>3. CASE DialFails
  BY <1>3, Stays DEF DialFails, Base, Data, mutex, health, chan, out
<1>4. CASE pongHandler
  BY <1>4, Stays DEF pongHandler, heartbeat, Base, Data, mutex, net, chan, out
<1>5. CASE Connecting
  BY <1>5, Moves DEF Connecting, At, Go, Threads, Labels, Base, Data, mutex, net, health, chan, out
<1>6. CASE StopTimer
  BY <1>6, Moves DEF StopTimer, At, Go, Threads, Labels, Base, Data, mutex, net, health, chan, out
<1>7. CASE Connected
  BY <1>7, Moves DEF Connected, heartbeat, At, Go, Threads, Labels, Base, Data, mutex, net, health, chan, out
<1>8. CASE Recv
  BY <1>8, Moves DEF Recv, At, Go, Threads, Labels, Base, Data, mutex, net, health, chan, out
<1>9. CASE ReadMessage
  BY <1>9, Moves DEF ReadMessage, At, Go, Threads, Labels, Base, Data, mutex, net, health, chan, out
<1>10. CASE pingHandler
  BY <1>10, Moves DEF pingHandler, heartbeat, At, Go, Threads, Labels, Base, Data, mutex, net, health, chan, out
<1>11. CASE WritePong
  BY <1>11, Moves
  DEF WritePong, CloseConn, At, Threads, Labels, Base, Data, mutex, net, health, chan, out
<1>12. CASE ReadError
  BY <1>12, Moves DEF ReadError, At, Go, Threads, Labels, Base, Data, mutex, net, health, chan, out
<1>13. CASE CheckStopped
  BY <1>13, Moves DEF CheckStopped, At, Go, Threads, Labels, Base, Data, mutex, net, health, chan, out
<1>14. ASSUME NEW c \in Conn, DialOk(c) PROVE Base'
  BY <1>14, Moves DEF DialOk, At, Go, Threads, Labels, Base, Data, mutex, health, chan, out
<1> QED
  BY <1>1, <1>2, <1>3, <1>4, <1>5, <1>6, <1>7, <1>8, <1>9, <1>10, <1>11, <1>12, <1>13, <1>14
  DEF Receiver, Connect

LEMMA BaseSender ==
  ASSUME Base, Sender PROVE Base'
<1>1. CASE Take
  <2>1. msg' \in Nat /\ queue' \in Seq(Nat) /\ Len(queue') <= Cap
    BY <1>1, QueueAssumption DEF Take, Base, Data
  <2>2. Control'
    BY <1>1, Moves DEF Take, At, Threads, Labels, Base, mutex
  <2> QED
    BY <1>1, <2>1, <2>2 DEF Take, Base, Data, mutex, net, health
<1>2. CASE SendLoopEnds
  BY <1>2, Moves DEF SendLoopEnds, At, Go, Threads, Labels, Base, Data, mutex, net, health, chan, out
<1>3. CASE Discard
  BY <1>3, Moves DEF Discard, At, Go, Threads, Labels, Base, Data, mutex, net, health, chan, out
<1>4. CASE LookRunning
  BY <1>4, Moves DEF LookRunning, At, Go, Threads, Labels, Base, Data, mutex, net, health, chan, out
<1>5. CASE Acquire("send")
  BY <1>5, AcquireKeeps
<1>6. CASE WriteDone \/ WriteFails
  <2>1. delivered \in Seq(Nat) /\ Append(delivered, msg) \in Seq(Nat)
    BY DEF Base, Data
  <2>2. /\ delivered' \in {delivered, Append(delivered, msg)}
        /\ Release /\ pc["send"] = "write"
        /\ Goto("send", "take") \/ Goto("send", "down")
        /\ UNCHANGED <<state, net, health, chan, msg, panic>>
    BY <1>6 DEF WriteDone, WriteFails, Go, At
  <2>3. Control'
    BY <2>2, Releases DEF Base
  <2>4. delivered' \in Seq(Nat)
    BY <2>1, <2>2
  <2> QED
    BY <2>2, <2>3, <2>4 DEF Release, Base, Data, net, health, chan
<1>7. CASE Disconnected("send", "down", "kill")
  BY <1>7, DisconnectedKeeps DEF Threads
<1>8. CASE Terminate("send", "kill", "take")
  BY <1>8, TerminateKeeps DEF Threads
<1> QED
  BY <1>1, <1>2, <1>3, <1>4, <1>5, <1>6, <1>7, <1>8 DEF Sender

LEMMA BaseWriter ==
  ASSUME Base, NEW w \in Writers, Writer(w) PROVE Base'
<1>1. CASE Write(w)
  BY <1>1, Moves DEF Write, At, Go, Threads, Labels, Base, Data, mutex, net, health, chan, out
<1>2. CASE Enqueue(w)
  <2>1. queue \in Seq(Nat) /\ next \in Nat
    BY DEF Base, Data
  <2>2. queue' = Append(queue, next + 1) /\ Len(queue) < Cap /\ next' = next + 1
    BY <1>2 DEF Enqueue
  <2>3. next' \in Nat /\ queue' \in Seq(Nat) /\ Len(queue') <= Cap
    BY <2>1, <2>2, QueueAssumption
  <2>4. Control'
    BY <1>2, Moves DEF Enqueue, At, Threads, Labels, Base, mutex
  <2> QED
    BY <1>2, <2>3, <2>4 DEF Enqueue, Base, Data, mutex, net, health, out
<1>3. CASE EnqueueClosed(w)
  BY <1>3, CrashKeeps DEF EnqueueClosed
<1> QED
  BY <1>1, <1>2, <1>3 DEF Writer

LEMMA BaseCheck ==
  ASSUME Base, NEW h \in Checks, Check(h) PROVE Base'
<1>1. CASE Fire(h)
  BY <1>1, Moves DEF Fire, At, Go, Threads, Labels, Base, Data, mutex, net, health, chan, out
<1>2. CASE healthcheck(h)
  BY <1>2, Moves DEF healthcheck, At, Go, Threads, Labels, Base, Data, mutex, net, health, chan, out
<1>3. CASE Reschedule(h)
  BY <1>3, Moves DEF Reschedule, At, Go, Threads, Labels, Base, Data, mutex, net, health, chan, out
<1>4. CASE SendPing(h)
  <2>1. CASE ws = NoConn
    BY <1>4, <2>1, CrashKeeps DEF SendPing
  <2>2. CASE ws # NoConn
    BY <1>4, <2>2, Moves
    DEF SendPing, At, Threads, Labels, Base, Data, mutex, net, health, chan, out
  <2> QED
    BY <2>1, <2>2
<1>5. CASE Disconnected(h, "down", "kill") \/ Disconnected(h, "pingdown", "pingkill")
  BY <1>5, DisconnectedKeeps DEF Threads
<1>6. CASE Terminate(h, "kill", "idle") \/ Terminate(h, "pingkill", "again")
  BY <1>6, TerminateKeeps DEF Threads
<1> QED
  BY <1>1, <1>2, <1>3, <1>4, <1>5, <1>6 DEF Check

LEMMA BaseClosing ==
  ASSUME Base, NEW t \in {"close", "ifmon"}, Closing(t) PROVE Base'
<1>1. CASE Acquire(t)
  BY <1>1, AcquireKeeps
<1>2. CASE CloseMessage(t)
  <2>1. Fresh'
    BY <1>2, ThreadAssumption
    DEF CloseMessage, Go, At, Goto, Base, Control, Fresh, Threads
  <2>2. Control'
    BY <1>2, <2>1, ThreadAssumption
    DEF CloseMessage, Go, At, Goto, Base, Control, Threads, Labels, mutex
  <2> QED
    BY <1>2, <2>2 DEF CloseMessage, Base, Data, mutex, net, health, chan, out
<1>3. CASE CloseEnds(t)
  <2>1. CASE ws = NoConn
    BY <1>3, <2>1, CrashKeeps DEF CloseEnds
  <2>2. CASE ws # NoConn
    <3>1. Control'
      BY <1>3, <2>2, Releases DEF CloseEnds, At, Base
    <3> QED
      BY <1>3, <2>2, <3>1 DEF CloseEnds, Release, CloseConn, Base, Data, health, chan, out
  <2> QED
    BY <2>1, <2>2
<1> QED
  BY <1>1, <1>2, <1>3 DEF Closing

LEMMA BaseClose ==
  ASSUME Base, CloseTimer \/ Close \/ ReconnectStart \/ IfMonitor PROVE Base'
<1>1. CASE Closing("close") \/ Closing("ifmon")
  BY <1>1, BaseClosing
<1>2. CASE CloseTimer
  BY <1>2, Moves DEF CloseTimer, At, Go, Threads, Labels, Base, Data, mutex, net, health, chan, out
<1>3. CASE CloseStart
  BY <1>3, Moves DEF CloseStart, At, Go, Threads, Labels, Base, Data, mutex, net, health, chan, out
<1>4. CASE CloseStop
  BY <1>4, Moves DEF CloseStop, At, Go, Threads, Labels, Base, Data, mutex, net, health, chan, out
<1>5. CASE CloseQueue
  BY <1>5, Moves DEF CloseQueue, At, Go, Threads, Labels, Base, Data, mutex, net, health, chan, out
<1>6. CASE ReconnectStart
  BY <1>6, Moves DEF ReconnectStart, At, Go, Threads, Labels, Base, Data, mutex, net, health, chan, out
<1>7. CASE Reconnect
  BY <1>7, DisconnectedKeeps DEF Reconnect, Threads
<1> QED
  BY <1>1, <1>2, <1>3, <1>4, <1>5, <1>6, <1>7 DEF Close, IfMonitor

LEMMA BaseNetwork ==
  ASSUME Base, Network PROVE Base'
<1>1. CASE Break
  BY <1>1, Stays DEF Break, CloseConn, Base, Data, mutex, health, chan, out
<1>2. CASE Vanish
  BY <1>2, Stays DEF Vanish, Base, Data, mutex, health, chan, out
<1>3. CASE Stall
  BY <1>3, Stays DEF Stall, Base, Data, mutex, health, chan, out
<1>4. CASE Silence
  BY <1>4, Stays DEF Silence, Base, Data, mutex, net, chan, out
<1> QED
  BY <1>1, <1>2, <1>3, <1>4 DEF Network

LEMMA BaseNext ==
  ASSUME Base, [Next]_vars PROVE Base'
<1>1. CASE UNCHANGED vars
  BY <1>1, Stays DEF Base, Data, vars, mutex, net, health, chan, out
<1>2. CASE Next
  BY <1>2, BaseReceiver, BaseSender, BaseWriter, BaseCheck, BaseClose, BaseNetwork DEF Next
<1> QED
  BY <1>1, <1>2

(***************************************************************************)
(* Every state has the types of TypeOK; in particular sendLoop, Close and   *)
(* Reconnect are never writing to a connection at the same time: one holds  *)
(* the mutex.                                                               *)
(***************************************************************************)
THEOREM TypeCorrect == Spec => []TypeOK
BY BaseTypes, BaseInit, BaseNext, PTL DEF Spec

-----------------------------------------------------------------------------
\* a step that neither moves a message nor gives sendLoop a new one
LEMMA FlowKept ==
  ASSUME Flow, UNCHANGED <<queue, next, msg, delivered>>,
         pc'["send"] \in Holding => pc["send"] \in Holding
  PROVE  Flow'
BY DEF Flow, InOrder

LEMMA FlowEnqueue ==
  ASSUME Base, Flow, NEW w \in Writers, Enqueue(w)
  PROVE  Flow'
<1>1. /\ queue \in Seq(Nat) /\ next \in Nat /\ msg \in Nat
      /\ queue' = Append(queue, next + 1) /\ next' = next + 1
      /\ msg' = msg /\ delivered' = delivered
  BY DEF Enqueue, Base, Control, Data, out
<1>2. pc'["send"] = pc["send"]
  BY ThreadAssumption DEF Enqueue, At, Goto, Base, Control, Data, Threads
<1>3. /\ Len(queue') = Len(queue) + 1
      /\ \A i \in DOMAIN queue' : i \in DOMAIN queue \/ i = Len(queue) + 1
      /\ \A i \in DOMAIN queue : queue'[i] = queue[i]
      /\ queue'[Len(queue) + 1] = next + 1
  BY <1>1
<1>4. msg <= next /\ \A i \in DOMAIN queue : msg < queue[i] /\ queue[i] <= next
  BY DEF Flow
<1>5. \A i \in DOMAIN queue' : msg' < queue'[i] /\ queue'[i] <= next'
  BY <1>1, <1>3, <1>4
<1>6. \A i, j \in DOMAIN queue' : i < j => queue'[i] < queue'[j]
  BY <1>1, <1>3, <1>4 DEF Flow
<1> QED
  BY <1>1, <1>2, <1>4, <1>5, <1>6 DEF Flow, InOrder

LEMMA FlowTake ==
  ASSUME Base, Flow, Take
  PROVE  Flow'
<1>1. /\ queue \in Seq(Nat) /\ queue # <<>> /\ next \in Nat /\ msg \in Nat
      /\ delivered \in Seq(Nat)
      /\ queue' = Tail(queue) /\ msg' = Head(queue)
      /\ next' = next /\ delivered' = delivered
  BY DEF Take, Base, Control, Data
<1>2. /\ 1 \in DOMAIN queue /\ msg' = queue[1]
      /\ \A i \in DOMAIN queue' : i + 1 \in DOMAIN queue /\ queue'[i] = queue[i + 1]
      /\ DOMAIN queue' \subseteq Nat \ {0}
  BY <1>1
<1>3. \A i \in DOMAIN queue' : msg' < queue'[i] /\ queue'[i] <= next'
  BY <1>1, <1>2 DEF Flow
<1>4. \A i, j \in DOMAIN queue' : i < j => queue'[i] < queue'[j]
  BY <1>1, <1>2 DEF Flow
<1>5. \A i \in DOMAIN delivered' : delivered'[i] < msg'
  BY <1>1, <1>2 DEF Flow
<1>6. \A i \in DOMAIN delivered' : delivered'[i] <= msg'
  BY <1>1, <1>5
<1>7. msg' <= next'
  BY <1>1, <1>2 DEF Flow
<1> QED
  BY <1>1, <1>3, <1>4, <1>5, <1>6, <1>7 DEF Flow, InOrder

LEMMA FlowWrite ==
  ASSUME Base, Flow, WriteDone \/ WriteFails
  PROVE  Flow'
<1>1. /\ delivered \in Seq(Nat) /\ msg \in Nat /\ pc["send"] = "write"
      /\ delivered' \in {delivered, Append(delivered, msg)}
      /\ queue' = queue /\ next' = next /\ msg' = msg
      /\ pc'["send"] \in {"take", "down"}
  BY DEF WriteDone, WriteFails, Go, At, Goto, Base, Control, Data, Threads, chan
<1>2. \A i \in DOMAIN delivered : delivered[i] < msg
  BY <1>1 DEF Flow, Holding
<1>3. CASE delivered' = delivered
  BY <1>1, <1>3 DEF Flow, InOrder, Holding
<1>4. CASE delivered' = Append(delivered, msg)
  <2>1. /\ \A i \in DOMAIN delivered' : i \in DOMAIN delivered \/ i = Len(delivered) + 1
        /\ \A i \in DOMAIN delivered : delivered'[i] = delivered[i]
        /\ delivered'[Len(delivered) + 1] = msg
    BY <1>1, <1>4
  <2>2. \A i \in DOMAIN delivered' : delivered'[i] <= msg'
    BY <1>1, <1>2, <2>1
  <2>3. InOrder'
    BY <1>1, <1>2, <2>1 DEF Flow, InOrder
  <2> QED
    BY <1>1, <2>2, <2>3 DEF Flow, Holding
<1> QED
  BY <1>1, <1>3, <1>4

(***************************************************************************)
(* All other steps leave the messages where they are.                       *)
(***************************************************************************)
LEMMA FlowReceiver ==
  ASSUME Base, Flow, Receiver PROVE Flow'
<1> SUFFICES /\ UNCHANGED <<queue, next, msg, delivered>>
             /\ pc'["send"] \in Holding => pc["send"] \in Holding
  BY FlowKept
<1> USE DEF Base, Control, Data, Threads, Holding, At, Go, Goto, chan, out
<1> QED
  BY DEF Receiver, Connect, Open, Connecting, StopTimer, DialFails, DialOk, Connected,
     Running, Recv, ReadMessage, pongHandler, pingHandler, WritePong, ReadError, CheckStopped

LEMMA FlowSender ==
  ASSUME Base, Flow, Sender PROVE Flow'
<1>1. CASE Take
  BY <1>1, FlowTake
<1>2. CASE WriteDone \/ WriteFails
  BY <1>2, FlowWrite
<1>3. CASE ~Take /\ ~WriteDone /\ ~WriteFails
  <2>1. /\ UNCHANGED <<queue, next, msg, delivered>>
        /\ pc'["send"] \in Holding => pc["send"] \in Holding
    BY <1>3 DEF Sender, SendLoopEnds, Discard, LookRunning, Acquire, Crash, Disconnected,
       Terminate, Base, Control, Data, Threads, Holding, At, Go, Goto, chan, out
  <2> QED
    BY <2>1, FlowKept
<1> QED
  BY <1>1, <1>2, <1>3

LEMMA FlowWriter ==
  ASSUME Base, Flow, NEW w \in Writers, Writer(w) PROVE Flow'
<1>1. CASE Enqueue(w)
  BY <1>1, FlowEnqueue
<1>2. CASE Write(w) \/ EnqueueClosed(w)
  <2>1. UNCHANGED <<queue, next, msg, delivered>> /\ pc'["send"] = pc["send"]
    BY <1>2, ThreadAssumption
    DEF Write, EnqueueClosed, Crash, Base, Control, Data, Threads, At, Go, Goto, chan, out
  <2> QED
    BY <2>1, FlowKept
<1> QED
  BY <1>1, <1>2 DEF Writer

LEMMA FlowCheck ==
  ASSUME Base, Flow, NEW h \in Checks, Check(h) PROVE Flow'
<1>1. UNCHANGED <<queue, next, msg, delivered>> /\ pc'["send"] = pc["send"]
  BY ThreadAssumption
  DEF Check, Fire, healthcheck, SendPing, Reschedule, Disconnected, Terminate, Crash,
      Base, Control, Data, Threads, At, Go, Goto, chan, out
<1> QED
  BY <1>1, FlowKept

LEMMA FlowClose ==
  ASSUME Base, Flow, CloseTimer \/ Close \/ ReconnectStart \/ IfMonitor PROVE Flow'
<1>1. UNCHANGED <<queue, next, msg, delivered>> /\ pc'["send"] = pc["send"]
  BY DEF CloseTimer, Close, CloseStart, CloseStop, CloseQueue, ReconnectStart, IfMonitor,
     Reconnect, Disconnected, Closing, Acquire, CloseMessage, CloseEnds, Crash,
     Base, Control, Data, Threads, At, Go, Goto, chan, out
<1> QED
  BY <1>1, FlowKept

LEMMA FlowNetwork ==
  ASSUME Base, Flow, Network PROVE Flow'
BY FlowKept DEF Network, Break, Vanish, Stall, Silence, chan, out

LEMMA FlowNext ==
  ASSUME Base, Flow, [Next]_vars PROVE Flow'
<1>1. CASE UNCHANGED vars
  BY <1>1, FlowKept DEF vars, chan, out
<1>2. CASE Next
  BY <1>2, FlowReceiver, FlowSender, FlowWriter, FlowCheck, FlowClose, FlowNetwork DEF Next
<1> QED
  BY <1>1, <1>2

(***************************************************************************)
(* Messages reach the controller in the order they entered the queue, and   *)
(* none twice, however often the connection breaks or is given up.          *)
(***************************************************************************)
THEOREM DeliveredInOrder == Spec => []InOrder
<1>1. Init => Flow
  BY DEF Init, Flow, InOrder, Holding, Threads
<1>2. Flow => InOrder
  BY DEF Flow
<1>3. Spec => []Base
  BY BaseInit, BaseNext, PTL DEF Spec
<1> QED
  BY <1>1, <1>2, <1>3, FlowNext, PTL DEF Spec
-----------------------------------------------------------------------------
(***************************************************************************)
(* Watched is inductive beside the types.  The timer is stopped in three    *)
(* places: by connect, which arms it again before Recv reads; by Close; and *)
(* by firing, which starts a health check.  A check ends by arming it, or   *)
(* by closing the connection.                                               *)
(***************************************************************************)
Reading == {"up", "recv", "read", "pong"}

Resting == {"off", "idle"}

LEMMA WatchedKept ==
  ASSUME Watched,
         panic' = "none" => panic = "none",
         ws' \in open' => ws \in open,
         pc'["recv"] \in Reading => pc["recv"] \in Reading,
         pc'["close"] \in Resting => pc["close"] \in Resting,
         timer => timer',
         \A h \in Checks : pc[h] \notin Resting => pc'[h] \notin Resting
  PROVE  Watched'
BY DEF Watched, Reading, Resting

LEMMA WatchedReceiver ==
  ASSUME Base, Watched, Receiver PROVE Watched'
<1> USE DEF Base, Control, Data, Threads, At, Go, Goto, Reading, Resting
<1>1. CASE pc'["recv"] \notin Reading
  BY <1>1 DEF Watched
<1>2. CASE Connected
  BY <1>2 DEF Connected, Watched
<1>3. CASE Running
  BY <1>3, WatchedKept, ThreadAssumption DEF Running, net, health
<1>4. CASE Recv \/ ReadMessage \/ ReadError \/ CheckStopped
  BY <1>4, WatchedKept, ThreadAssumption
  DEF Recv, ReadMessage, ReadError, CheckStopped, net, health
<1>5. CASE pongHandler \/ pingHandler \/ WritePong
  BY <1>5, WatchedKept, ThreadAssumption
  DEF pongHandler, pingHandler, WritePong, CloseConn, net, health
<1>6. CASE Open \/ Connecting \/ StopTimer \/ DialFails \/ \E c \in Conn : DialOk(c)
  BY <1>1, <1>6 DEF Open, Connecting, StopTimer, DialFails, DialOk
<1> QED
  BY <1>2, <1>3, <1>4, <1>5, <1>6 DEF Receiver, Connect

LEMMA WatchedSender ==
  ASSUME Base, Watched, Sender PROVE Watched'
<1> USE DEF Base, Control, Data, Threads, At, Go, Goto, Reading, Resting
<1>1. CASE Take \/ SendLoopEnds \/ Discard \/ LookRunning \/ WriteDone \/ WriteFails
  BY <1>1, WatchedKept, ThreadAssumption
  DEF Take, SendLoopEnds, Discard, LookRunning, WriteDone, WriteFails, net, health
<1>2. CASE Acquire("send") \/ Disconnected("send", "down", "kill")
  BY <1>2, WatchedKept, ThreadAssumption DEF Acquire, Disconnected, Crash, net, health
<1>3. CASE Terminate("send", "kill", "take")
  BY <1>3, WatchedKept, ThreadAssumption DEF Terminate, Crash, CloseConn, health
<1> QED
  BY <1>1, <1>2, <1>3 DEF Sender

LEMMA WatchedWriter ==
  ASSUME Base, Watched, NEW w \in Writers, Writer(w) PROVE Watched'
BY WatchedKept, ThreadAssumption
DEF Writer, Write, Enqueue, EnqueueClosed, Crash, Base, Control, Data, Threads,
    At, Go, Goto, Reading, Resting, net, health

\* a check goes on until it has armed the timer or closed the connection
LEMMA WatchedCheck ==
  ASSUME Base, Watched, NEW h \in Checks, Check(h) PROVE Watched'
<1> USE DEF Base, Control, Data, Threads, At, Go, Goto, Reading, Resting
<1>1. CASE Fire(h)
  BY <1>1, ThreadAssumption DEF Fire, Watched
<1>2. CASE Reschedule(h)
  BY <1>2 DEF Reschedule, Watched
<1>3. CASE Terminate(h, "kill", "idle")
  BY <1>3 DEF Terminate, Crash, CloseConn, Watched
<1>4. CASE healthcheck(h) \/ SendPing(h)
  BY <1>4, WatchedKept, ThreadAssumption DEF healthcheck, SendPing, Crash, net, health
<1>5. CASE Disconnected(h, "down", "kill") \/ Disconnected(h, "pingdown", "pingkill")
           \/ Terminate(h, "pingkill", "again")
  BY <1>5, WatchedKept, ThreadAssumption
  DEF Disconnected, Terminate, Crash, CloseConn, net, health
<1> QED
  BY <1>1, <1>2, <1>3, <1>4, <1>5 DEF Check

LEMMA WatchedClose ==
  ASSUME Base, Watched, CloseTimer \/ Close \/ ReconnectStart \/ IfMonitor PROVE Watched'
<1> USE DEF Base, Control, Data, Threads, At, Go, Goto, Reading, Resting
<1>1. CASE CloseTimer
  BY <1>1 DEF CloseTimer, Watched
<1>2. CASE CloseStart \/ CloseStop \/ CloseQueue \/ ReconnectStart \/ Reconnect
  BY <1>2, WatchedKept, ThreadAssumption
  DEF CloseStart, CloseStop, CloseQueue, ReconnectStart, Reconnect, Disconnected, net, health
<1>3. ASSUME NEW t \in {"close", "ifmon"}, Closing(t) PROVE Watched'
  <2>1. CASE Acquire(t)
    <3>1. CASE Crash("nil")
      BY <3>1 DEF Crash, Watched
    <3>2. CASE Goto(t, "write") /\ UNCHANGED <<net, health, panic>>
      BY <1>3, <2>1, <3>2, WatchedKept, ThreadAssumption DEF Acquire, net, health
    <3> QED
      BY <2>1, <3>1, <3>2 DEF Acquire
  <2>2. CASE CloseMessage(t)
    BY <1>3, <2>2, WatchedKept, ThreadAssumption DEF CloseMessage, net, health
  <2>3. CASE CloseEnds(t)
    BY <2>3 DEF CloseEnds, Crash, CloseConn, Watched
  <2> QED
    BY <1>3, <2>1, <2>2, <2>3 DEF Closing
<1> QED
  BY <1>1, <1>2, <1>3 DEF Close, IfMonitor

LEMMA WatchedNetwork ==
  ASSUME Base, Watched, Network PROVE Watched'
BY WatchedKept DEF Network, Break, Vanish, Stall, Silence, CloseConn, net, health

LEMMA WatchedNext ==
  ASSUME Base, Watched, [Next]_vars PROVE Watched'
<1>1. CASE UNCHANGED vars
  BY <1>1, WatchedKept DEF vars, net, health
<1>2. CASE Next
  BY <1>2, WatchedReceiver, WatchedSender, WatchedWriter, WatchedCheck, WatchedClose,
     WatchedNetwork DEF Next
<1> QED
  BY <1>1, <1>2

(***************************************************************************)
(* While the agent is not closing, a connection that Recv reads from is     *)
(* watched: whichever goroutines stop, arm and answer the health timer, and *)
(* however many health checks overlap, none leaves it disarmed.             *)
(***************************************************************************)
THEOREM ConnectionsAreWatched == Spec => []Watched
<1>1. Init => Watched
  BY DEF Init, Watched, Threads
<1>2. Spec => []Base
  BY BaseInit, BaseNext, PTL DEF Spec
<1> QED
  BY <1>1, <1>2, WatchedNext, PTL DEF Spec
=============================================================================
