------------------------------ MODULE PingSpec ------------------------------
(***************************************************************************)
(* What Ping promises its callers (src/pkg/multiping/ping.go): between call *)
(* and return every host was pinged once, with or without an answer, or not *)
(* at all; nothing else changes the caller's data.                          *)
(***************************************************************************)
CONSTANTS Clients, Hosts

VARIABLES
  busy,    \* the callers that wait for Ping to return
  hosts,   \* the hosts in a caller's data
  result   \* what is known of them when nobody is pinging

Init ==
  /\ busy = {}
  /\ hosts = [c \in Clients |-> {}]
  /\ result = [c \in Clients |-> [h \in Hosts |-> "unsent"]]

Call(c, H) ==
  /\ c \notin busy
  /\ busy' = busy \cup (IF H = {} THEN {} ELSE {c})
  /\ hosts' = [hosts EXCEPT ![c] = H]
  /\ result' = [result EXCEPT ![c] = [h \in Hosts |-> "unsent"]]

Return(c) ==
  /\ c \in busy
  /\ busy' = busy \ {c}
  /\ \E R \in [Hosts -> {"unsent", "lost", "answered"}] :
       /\ \A h \in Hosts \ hosts[c] : R[h] = "unsent"
       /\ result' = [result EXCEPT ![c] = R]
  /\ UNCHANGED hosts

Next == \E c \in Clients : Return(c) \/ \E H \in SUBSET Hosts : Call(c, H)

Spec == Init /\ [][Next]_<<busy, hosts, result>>
=============================================================================
