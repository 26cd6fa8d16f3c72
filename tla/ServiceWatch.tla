---------------------------- MODULE ServiceWatch ----------------------------
(***************************************************************************)
(* Where services of this host are found: agent/docker, agent/kubernetes or *)
(* agent/hostnetsrv, by configuration.  Each compares what it reads with    *)
(* what it sent last.  Docker announces changes, except of a container that *)
(* ends by itself; the others are read on every tick.  GET_INFO asks docker *)
(* from the goroutine of the message handler.                               *)
(***************************************************************************)
EXTENDS AgentState

CONSTANTS reconnectErrors, CountMod, NoSvc

ASSUME ErrorAssumption == reconnectErrors \in Nat /\ CountMod \in Nat /\ reconnectErrors < CountMod
ASSUME DataAssumption  == NoSvc \notin Svc

NoData == {NoSvc}

VARIABLES
  actual,      \* the services there are
  event,       \* events are waiting: each makes the watcher read all
  client,      \* the connection to docker or kubernetes; it expires once
  errorCount,
  known,       \* the data sent last
  srv,         \* where the service's goroutine is
  real         \* history: what there has been

services == <<actual, event, client, errorCount, known, srv, real>>

Platform(p) == env.platform = p

Change(S, announced) ==
  /\ Up /\ env.platform \in {"docker", "kubernetes"}
  /\ S # actual
  /\ announced \/ (Platform("docker") /\ env.fails /\ S \subseteq actual)
  /\ actual' = S /\ real' = real \cup {S}
  /\ event' = (event \/ (Platform("docker") /\ announced))
  /\ UNCHANGED <<base, client, errorCount, known, srv>>

Expire ==
  /\ Up /\ Platform("kubernetes") /\ client = "first"
  /\ client' = "expired"
  /\ UNCHANGED <<base, actual, event, errorCount, known, srv, real>>

\* an event of the docker stream, or a tick
Wake ==
  /\ Up /\ srv = "select"
  /\ Platform("docker") => event
  /\ event' = FALSE /\ srv' = "read"
  /\ UNCHANGED <<base, actual, client, errorCount, known, real>>

Compare(data) ==
  /\ known' = data
  /\ srv' = IF data = known THEN "select" ELSE "write"

\* also the calls that the closing agent gives up
Failing == env.fails \/ Cancelled

\* docker returns an empty list when its API fails; kubernetes leaves out the
\* namespaces it has no client for
Read ==
  /\ Up /\ srv = "read" /\ client # "expired"
  /\ \/ Compare(actual)
     \/ Platform("docker") /\ Failing /\ Compare({})
     \/ Platform("kubernetes") /\ env.skips /\ \E S \in SUBSET actual : Compare(S)
  /\ errorCount' = 0
  /\ UNCHANGED <<base, actual, event, client, real>>

\* mutants: an error is an empty list; the connection is kept
ReadFails_Empty ==
  /\ Up /\ srv = "read" /\ Platform("kubernetes")
  /\ client = "expired" \/ Failing
  /\ Compare({})
  /\ UNCHANGED <<base, actual, event, client, errorCount, real>>

ReadFails_Stays ==
  /\ Up /\ srv = "read" /\ Platform("kubernetes")
  /\ client = "expired" \/ Failing
  /\ errorCount' = (errorCount + 1) % CountMod
  /\ srv' = "select"
  /\ UNCHANGED <<base, actual, event, client, known, real>>

\* initClient after some errors in a row; it may fail like everything else
ReadFails ==
  /\ Up /\ srv = "read" /\ Platform("kubernetes")
  /\ client = "expired" \/ Failing
  /\ LET n == (errorCount + 1) % CountMod
     IN  \/ n >= reconnectErrors /\ client' = "renewed" /\ errorCount' = 0
         \/ (n < reconnectErrors \/ env.fails) /\ errorCount' = n /\ UNCHANGED client
  /\ srv' = "select"
  /\ UNCHANGED <<base, actual, event, known, real>>

(***************************************************************************)
(* ContainerInfo inspects the containers of the list.  One may be gone by   *)
(* then, and docker may fail: the error is only logged, and the answer that *)
(* is missing is used.                                                      *)
(***************************************************************************)
InspectFails ==
  /\ Platform("docker") /\ actual # {}
  /\ life' = "crashed" /\ UNCHANGED <<env, cmd, step, done>>

ReadCrashes == Up /\ srv = "read" /\ InspectFails /\ UNCHANGED services

Reported ==
  /\ Up /\ srv = "write"
  /\ srv' = "select"
  /\ UNCHANGED <<base, actual, event, client, errorCount, known, real>>

\* the context is done, or docker ended the stream: nobody opens it again
StopServices ==
  /\ Up /\ srv = "select"
  /\ Cancelled \/ (Platform("docker") /\ env.fails)
  /\ srv' = "done"
  /\ client' = IF Platform("docker") THEN "none" ELSE client
  /\ UNCHANGED <<base, actual, event, errorCount, known, real>>

(***************************************************************************)
(* GET_INFO looks whether there is a docker client and then uses it, for    *)
(* networks and containers.                                                 *)
(***************************************************************************)
HasDocker == Platform("docker") /\ client # "none"

GetInfo ==
  /\ Executing("GET_INFO", "start")
  /\ IF HasDocker THEN step' = "checked" /\ UNCHANGED <<env, life, cmd, done>> ELSE Finish
  /\ UNCHANGED services

AskDocker ==
  /\ Executing("GET_INFO", "checked")
  /\ \/ HasDocker /\ (Finish \/ InspectFails)
     \/ ~HasDocker /\ life' = "crashed" /\ UNCHANGED <<env, cmd, step, done>>
  /\ UNCHANGED services

ServiceWatchInit ==
  /\ actual = Svc /\ real = {Svc}
  /\ event = FALSE /\ client = "first" /\ errorCount = 0
  /\ known = NoData /\ srv = "off"

Discovery == Wake \/ Read \/ ReadFails \/ ReadCrashes \/ Reported

Answer == GetInfo \/ AskDocker

Outside == Expire \/ \E S \in SUBSET Svc, announced \in BOOLEAN : Change(S, announced)

ServiceWatchNext == Discovery \/ StopServices \/ Answer \/ Outside

-----------------------------------------------------------------------------
ServiceWatchTypeOK ==
  /\ actual \subseteq Svc /\ event \in BOOLEAN
  /\ client \in {"none", "first", "expired", "renewed"}
  /\ errorCount \in 0 .. CountMod - 1
  /\ known \in (SUBSET Svc) \cup {NoData}
  /\ srv \in {"off", "select", "read", "write", "done"}

(***************************************************************************)
(* What is reported was there: an error is not reported as an empty list    *)
(* ("agent should not send empty services list", kubernet.go).  The docker  *)
(* watcher does report one, and kubernetes leaves the services of a         *)
(* namespace out when it cannot make a client for it.                       *)
(***************************************************************************)
OnlyRealServices ==
  \/ known \in real \cup {NoData}
  \/ Platform("docker") /\ Failing
  \/ Platform("kubernetes") /\ env.skips

(***************************************************************************)
(* When the services no longer change, the last report has them, although   *)
(* the connection to kubernetes has expired in between.  What docker had    *)
(* before its first event is left to GET_INFO.                              *)
(***************************************************************************)
ServicesReported ==
  \A S \in SUBSET Svc :
    <>[](/\ Up /\ ~Cancelled /\ ~env.fails /\ ~env.skips
         /\ srv \notin {"off", "done"} /\ actual = S)
      => <>[](known = S \/ (Platform("docker") /\ S = Svc /\ known = NoData))
=============================================================================
