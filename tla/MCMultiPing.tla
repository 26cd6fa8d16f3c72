---------------------------- MODULE MCMultiPing -----------------------------
(* Small instances of MultiPing for TLC. *)
EXTENDS MultiPing

CONSTANTS a4, a6, watch, auto

OneClient  == {watch}
TwoClients == {watch, auto}

BothFamilies == [c \in OneClient |-> {{}, {a4, a6}}]
OneHost      == [c \in TwoClients |-> {{a4}}]
=============================================================================
