------------------------------ MODULE MCAgent -------------------------------
(* Small instances of Agent for TLC. *)
EXTENDS Agent

CONSTANTS a, b, wg0, wg1, web, x, y

Ping(i, S, n)  == [id |-> i, type |-> "AUTO_PING", ips |-> S, interval |-> n]
Config(i, S, T) ==
  [id |-> i, type |-> "CONFIG_INFO", peers |-> [d \in Dev |-> IF d = wg0 THEN S ELSE T]]
Changed(i, S, T) == [Config(i, S, T) EXCEPT !.type = "WG_CONF"]
Other(i, type) == [id |-> i, type |-> type]

Environment(controller, messages, platform, happens) ==
  [controller |-> controller, messages |-> messages, platform |-> platform,
   watches |-> "watch" \in happens, fails |-> "fail" \in happens, skips |-> "skip" \in happens,
   monitors |-> "monitor" \in happens, moves |-> "move" \in happens, closes |-> "close" \in happens]

\* what one scenario leaves out is in another
MCEnvironments ==
  { Environment("script", <<Ping(1, {a}, 1), Ping(2, {b}, 1), Ping(3, {a, b}, 0)>>, "host", {}),
    Environment("saas", <<Ping(1, {a}, 1), Other(2, "SUPPORT_INFO_CTA")>>, "none", {"monitor", "close"}),
    Environment("blockchain", <<Ping(1, {a}, 1), Other(2, "skip"), Ping(3, {b}, 1)>>, "none", {}),
    Environment("blockchain", <<Ping(1, {a}, 0), Other(2, "unknown")>>, "none", {"fail", "close"}),
    Environment("script", <<Config(1, {a}, {}), Config(2, {b}, {a})>>, "none", {"watch"}),
    Environment("script", <<Config(1, {a}, {}), Changed(2, {b}, {a})>>, "none", {"watch"}),
    Environment("script", <<Other(1, "skip"), Config(2, {a}, {})>>, "none", {"watch", "close"}),
    Environment("script", <<Other(1, "GET_INFO")>>, "docker", {}),
    Environment("script", <<Other(1, "GET_INFO")>>, "docker", {"fail", "close"}),
    Environment("script", <<>>, "kubernetes", {}),
    Environment("script", <<>>, "kubernetes", {"skip"}),
    Environment("script", <<>>, "kubernetes", {"fail", "close"}),
    Environment("saas", <<>>, "none", {"monitor", "move", "fail"}) }
=============================================================================
