------------------------------- MODULE MCSaas -------------------------------
(* Small instances of SaasController for TLC. *)
EXTENDS SaasController

CONSTANTS w1, h1, c1, c2, c3

OneWriter  == {w1}
MCChecks   == {h1}
MCConn     == {c1, c2, c3}
TwoConn    == {c1, c2}

Environment(n, happens) ==
  [msgs |-> n, dialFails |-> "dial fails" \in happens, stalls |-> "stall" \in happens,
   closes |-> "close" \in happens, reconnects |-> "reconnect" \in happens,
   checks |-> "check" \in happens]

\* together the runs have what each scenario leaves out of the others
MCEnvironments ==
  { Environment(0, {"dial fails", "reconnect", "check"}),
    Environment(1, {"dial fails", "reconnect"}),
    Environment(1, {"dial fails", "check"}),
    Environment(1, {"dial fails", "stall", "check"}),
    Environment(1, {"close"}),
    Environment(3, {}) }

CloseOnly      == {Environment(1, {"close", "check"})}
=============================================================================
