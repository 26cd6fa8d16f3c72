----------------------------- MODULE MCHostRoute -----------------------------
(* A small instance of HostRoute for TLC. *)
EXTENDS HostRoute

CONSTANTS a, b, eth, wlan

MCIp  == {a, b}
MCWan == {eth, wlan}
=============================================================================
