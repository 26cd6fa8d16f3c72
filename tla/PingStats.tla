----------------------------- MODULE PingStats ------------------------------
(***************************************************************************)
(* What is counted of the pings of a host: src/pkg/multiping/pingdata.      *)
(* Round trip times and the count of duplicates are left out: they decide   *)
(* nothing here (averages are RouteSelector's input).                       *)
(***************************************************************************)
EXTENDS Naturals

\* seq is the sequence number an answer is still expected for, or 0
PingStats == [tx : Nat, rx : Nat, seq : Nat]

NoStats == [tx |-> 0, rx |-> 0, seq |-> 0]

Send(s, q) == [tx |-> s.tx + 1, rx |-> s.rx, seq |-> q]

\* mutant: a duplicate counts again
Recv_Again(s, q) ==
  IF s.seq = q THEN [tx |-> s.tx, rx |-> s.rx + 1, seq |-> s.seq] ELSE s

Recv(s, q) ==
  IF s.seq = q THEN [tx |-> s.tx, rx |-> s.rx + 1, seq |-> 0] ELSE s

\* Append for a host both have: the sequence number of the older one stays
Merge(s, t) == [tx |-> s.tx + t.tx, rx |-> s.rx + t.rx, seq |-> s.seq]
=============================================================================
