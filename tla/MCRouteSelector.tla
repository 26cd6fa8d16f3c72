--------------------------- MODULE MCRouteSelector ---------------------------
(* A small instance of RouteSelector for TLC. *)
EXTENDS RouteSelector

CONSTANTS pub, r1, r2

Reply(l) == [lat |-> l, loss |-> 0]
Lost     == [lat |-> 0, loss |-> 1]

MCPeer        == {pub, r1, r2}
MCConflicting == {r2}
\* direct, almost as fast or clearly slower; one relay fast, one a bit slower
MCSample == pub :> {Reply(5), Reply(8), Lost} @@ r1 :> {Reply(4), Lost} @@ r2 :> {Reply(5)}
=============================================================================
