------------------------------ MODULE AutoPing ------------------------------
(***************************************************************************)
(* The AUTO_PING command and service, src/agent/autoping.  A request names  *)
(* hosts and an interval; they are pinged at once, by a goroutine of its    *)
(* own, and then on every tick, by the service's goroutine.  Everybody      *)
(* takes the lock, except the service when it stops.                        *)
(*                                                                         *)
(* Ping is PingSpec's: it takes any time, and leaves each host unsent, lost *)
(* or answered.                                                             *)
(***************************************************************************)
EXTENDS AgentState

VARIABLES
  list,     \* hosts in pingData
  armed,    \* the ticker runs
  tick,     \* a tick is waiting in the ticker's channel
  spawned,  \* pingAction goroutines started by Exec, not finished
  service,  \* where the service's goroutine is
  holder,   \* who holds the lock
  stage,    \* of the pingAction that holds it
  report,   \* the hosts in its answer
  asked     \* history: the last request executed

autoping == <<list, armed, tick, spawned, service, holder, stage, report, asked>>

NoRequest == [ips |-> {}, interval |-> 0]

\* mutant: Exec does not lock
ExecLock_Never ==
  /\ Executing("AUTO_PING", "start")
  /\ step' = "locked"
  /\ UNCHANGED <<env, life, cmd, done, autoping>>

ExecLock ==
  /\ Executing("AUTO_PING", "start")
  /\ holder = "nobody"
  /\ holder' = "exec" /\ step' = "locked"
  /\ UNCHANGED <<env, life, cmd, done, list, armed, tick, spawned, service, stage, report, asked>>

Wanted(req) == req.ips # {} /\ req.interval > 0

\* mutants: the ticker is not started; it is not stopped
Rearm_Once(req)  == FALSE
Rearm_Keep(req)  == armed \/ Wanted(req)

Rearm(req) == Wanted(req)

\* stopping a ticker leaves its last tick in the channel
Exec ==
  /\ Executing("AUTO_PING", "locked")
  /\ asked' = [ips |-> cmd.ips, interval |-> cmd.interval]
  /\ list' = cmd.ips
  /\ armed' = Rearm(cmd)
  /\ spawned' = IF Wanted(cmd) THEN spawned + 1 ELSE spawned
  /\ holder' = IF holder = "exec" THEN "nobody" ELSE holder
  /\ Finish
  /\ UNCHANGED <<tick, service, stage, report>>

Tick ==
  /\ Up /\ armed /\ ~tick
  /\ tick' = TRUE
  /\ UNCHANGED <<base, list, armed, spawned, service, holder, stage, report, asked>>

\* select, when there is a tick
TakeTick ==
  /\ Up /\ service = "select" /\ tick
  /\ tick' = FALSE /\ service' = "tick"
  /\ UNCHANGED <<base, list, armed, spawned, holder, stage, report, asked>>

Runners == {"service", "spawned"}

Waits(r) == IF r = "service" THEN service = "tick"
            ELSE spawned > (IF holder = "spawned" THEN 1 ELSE 0)

Ends(r) == /\ service' = IF r = "service" THEN "select" ELSE service
           /\ spawned' = IF r = "spawned" THEN spawned - 1 ELSE spawned

pingAction(r) ==
  /\ Up /\ Waits(r) /\ holder = "nobody"
  /\ list # {}
  /\ holder' = r /\ stage' = "ping"
  /\ UNCHANGED <<base, list, armed, tick, spawned, service, report, asked>>

\* the list was emptied
pingActionEmpty(r) ==
  /\ Up /\ Waits(r) /\ holder = "nobody"
  /\ list = {}
  /\ Ends(r)
  /\ UNCHANGED <<base, list, armed, tick, holder, stage, report, asked>>

\* PingProcess reports what could be sent; Reset
PingReturns(sent) ==
  /\ Up /\ stage = "ping"
  /\ report' = list \cap sent
  /\ stage' = "write"
  /\ UNCHANGED <<base, list, armed, tick, spawned, service, holder, asked>>

Written ==
  /\ Up /\ stage = "write"
  /\ stage' = "none"
  /\ Ends(holder)
  /\ holder' = "nobody" /\ report' = {}
  /\ UNCHANGED <<base, list, armed, tick, asked>>

\* The hosts are flushed without the lock: a map that another goroutine
\* iterates over or writes to, and Go may stop the program for it.
Stop ==
  /\ Up /\ service = "select" /\ Cancelled
  /\ service' = "done"
  /\ armed' = FALSE /\ list' = {}
  /\ life' \in {life} \cup (IF holder = "exec" \/ stage = "ping" THEN {"crashed"} ELSE {})
  /\ UNCHANGED <<env, cmd, step, done, tick, spawned, holder, stage, report, asked>>

\* SUPPORT_INFO_CTA: the answer contains the last report
SupportInfo ==
  /\ Executing("SUPPORT_INFO_CTA", "start")
  /\ holder = "nobody"
  /\ Finish
  /\ UNCHANGED autoping

AutoPingInit ==
  /\ list = {} /\ armed = FALSE /\ tick = FALSE
  /\ spawned = 0 /\ service = "off"
  /\ holder = "nobody" /\ stage = "none" /\ report = {}
  /\ asked = NoRequest

Pinging == \/ TakeTick \/ Written
           \/ \E r \in Runners : pingAction(r) \/ pingActionEmpty(r)
           \/ \E sent \in SUBSET Hosts : PingReturns(sent)

Commanded == ExecLock \/ Exec \/ SupportInfo

AutoPingNext == Pinging \/ Commanded \/ Tick \/ Stop

-----------------------------------------------------------------------------
AutoPingTypeOK ==
  /\ list \subseteq Hosts /\ report \subseteq Hosts
  /\ armed \in BOOLEAN /\ tick \in BOOLEAN
  /\ spawned \in Nat
  /\ service \in {"off", "select", "tick", "done"}
  /\ holder \in {"nobody", "exec"} \cup Runners
  /\ stage \in {"none", "ping", "write"}
  /\ stage # "none" <=> holder \in Runners

(***************************************************************************)
(* What is reported was asked for: by the request that is in force when the *)
(* report is written, however long Ping and Write take.                     *)
(***************************************************************************)
ReportsAsked == stage = "write" => report \subseteq asked.ips

(***************************************************************************)
(* A request is answered for as long as it is in force, by one report after *)
(* the other; without hosts or interval the reports end.                    *)
(***************************************************************************)
ReportsFollow ==
  /\ <>[](Up /\ ~Cancelled /\ Wanted(asked)) => []<>(stage = "write")
  /\ <>[](~Wanted(asked)) => <>[](stage # "write")
=============================================================================
