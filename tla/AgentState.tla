----------------------------- MODULE AgentState -----------------------------
(***************************************************************************)
(* What the goroutines of the agent share (src/agent): the context that     *)
(* stops them, and the command that the message handler executes.  Each     *)
(* goroutine is a module of its own, and Agent puts them together.          *)
(*                                                                         *)
(* The services and commands of a behaviour, and what may go wrong in it,   *)
(* are chosen once, in env.                                                 *)
(***************************************************************************)
EXTENDS Naturals, Sequences, FiniteSets

CONSTANTS
  Hosts,         \* addresses that may be pinged
  Dev,           \* WireGuard interfaces
  Svc,           \* what may be reported as a service of this host
  Environments,  \* see env
  NoCmd

Message ==
  [id : Nat, type : {"AUTO_PING"}, ips : SUBSET Hosts, interval : Nat]
    \cup [id : Nat, type : {"CONFIG_INFO", "WG_CONF"}, peers : [Dev -> SUBSET Hosts]]
    \cup [id : Nat, type : {"GET_INFO", "SUPPORT_INFO_CTA", "unknown", "skip"}]

ASSUME EnvAssumption ==
  \A e \in Environments :
    /\ e.controller \in {"script", "blockchain", "saas"}
    /\ e.messages \in Seq(Message)
    /\ \A i \in DOMAIN e.messages : e.messages[i].id = i
    /\ e.platform \in {"docker", "kubernetes", "host", "none"}
    /\ e.watches \in BOOLEAN  \* there is a tunnel to watch
    /\ e.fails \in BOOLEAN    \* external services fail
    /\ e.skips \in BOOLEAN    \* kubernetes has a namespace without a client
    /\ e.monitors \in BOOLEAN \* the interface monitor runs: only with the SaaS controller
    /\ e.monitors => e.controller = "saas"
    /\ e.moves \in BOOLEAN    \* the public address is not fixed
    /\ e.closes \in BOOLEAN

ASSUME NoCmdAssumption == NoCmd \notin Message

VARIABLES
  env,
  life,  \* "up", then the stages of Close; "exited" and "crashed" are final
  cmd,   \* the message being executed
  step,  \* how far
  done   \* history: the messages executed

base == <<env, life, cmd, step, done>>

Up        == life \notin {"exited", "crashed"}
Cancelled == life # "up"  \* agent.ctx is done

Executing(type, s) == Up /\ cmd # NoCmd /\ cmd.type = type /\ step = s

Finish ==
  /\ cmd' = NoCmd /\ step' = "start"
  /\ done' = Append(done, cmd.id)
  /\ UNCHANGED <<env, life>>
=============================================================================
