-------------------------------- MODULE Maps --------------------------------
(***************************************************************************)
(* Go maps.  A map is a function whose domain is the set of its keys.      *)
(***************************************************************************)

EmptyMap == [x \in {} |-> x]

Put(f, k, v) == [x \in DOMAIN f \cup {k} |-> IF x = k THEN v ELSE f[x]]

Without(f, S) == [x \in DOMAIN f \ S |-> f[x]]

IsMap(f, S) == f = [x \in DOMAIN f |-> f[x]] /\ DOMAIN f \subseteq S
=============================================================================
