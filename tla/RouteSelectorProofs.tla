------------------------ MODULE RouteSelectorProofs ------------------------
(***************************************************************************)
(* The route selectors, for any peers, window, thresholds and samples.      *)
(*                                                                         *)
(* The sums over a window and the loop over the Go map are recursive        *)
(* functions.  The library's induction theorems take an operator; here the  *)
(* induction is over a set of numbers, which WFMin gives (SetInduction).    *)
(***************************************************************************)
EXTENDS RouteSelector, FiniteSetTheorems, WellFoundedInduction, TLAPS

(***************************************************************************)
(* Induction, and the existence of a function that is defined by recursion. *)
(***************************************************************************)
LEMMA SetInduction ==
  ASSUME NEW S, 0 \in S, \A m \in Nat : m \in S => m + 1 \in S
  PROVE  Nat \subseteq S
<1>1. SUFFICES ASSUME Nat \ S # {}
               PROVE  FALSE
  OBVIOUS
<1> DEFINE R == OpToRel(<, Nat)
<1>2. \A a, b \in Nat : a < b => <<a, b>> \in R
  BY DEF OpToRel
<1>3. IsWellFoundedOn(R, Nat)
  BY NatLessThanWellFounded
<1> HIDE DEF R
<1>4. PICK x \in Nat \ S : \A y \in Nat \ S : <<y, x>> \notin R
  BY <1>1, <1>3, WFMin
<1>5. PICK w \in Nat : w + 1 = x /\ w < x
  <2>1. x # 0 /\ x - 1 \in Nat /\ (x - 1) + 1 = x /\ x - 1 < x
    OBVIOUS
  <2> QED BY <2>1
<1>6. w \in S
  BY <1>2, <1>4, <1>5
<1> QED BY <1>4, <1>5, <1>6

\* g starts with b; F gives the value at n from the one at n - 1 and n
Computes(g, N, b, F) == \A n \in 1..N : g[n] = IF n = 1 THEN b ELSE F[<<g[n - 1], n>>]

LEMMA Recursion ==
  ASSUME NEW N \in Nat \ {0}, NEW V, NEW b \in V, NEW F \in [V \X Nat -> V]
  PROVE  \E g \in [1..N -> V] : Computes(g, N, b, F)
<1> DEFINE Upto(m) == \E g \in [1..(m + 1) -> V] :
                        /\ g[1] = b
                        /\ \A n \in 2..(m + 1) : g[n] = F[<<g[n - 1], n>>]
           S == {m \in Nat : Upto(m)}
<1>1. 0 \in S
  <2> DEFINE g == [n \in 1..(0 + 1) |-> b]
  <2>1. g \in [1..(0 + 1) -> V] /\ g[1] = b
    OBVIOUS
  <2>2. \A n \in 2..(0 + 1) : FALSE
    OBVIOUS
  <2> HIDE DEF g
  <2>3. Upto(0)
    BY <2>1, <2>2
  <2> QED BY <2>3
<1>2. ASSUME NEW m \in Nat, m \in S
      PROVE  m + 1 \in S
  <2>1. PICK g \in [1..(m + 1) -> V] :
          g[1] = b /\ \A n \in 2..(m + 1) : g[n] = F[<<g[n - 1], n>>]
    BY <1>2
  <2> DEFINE v == F[<<g[m + 1], m + 2>>]
             h == [n \in 1..(m + 2) |-> IF n = m + 2 THEN v ELSE g[n]]
  <2>2. v \in V
    BY <2>1
  <2>3. h \in [1..(m + 2) -> V] /\ h[1] = b
    BY <2>1, <2>2
  <2>4. \A n \in 2..(m + 2) : h[n] = F[<<h[n - 1], n>>]
    <3> TAKE n \in 2..(m + 2)
    <3>1. CASE n = m + 2
      <4>1. n - 1 = m + 1 /\ h[n - 1] = g[m + 1] /\ h[n] = v
        BY <3>1
      <4> QED BY <3>1, <4>1
    <3>2. CASE n # m + 2
      <4>1. n \in 2..(m + 1) /\ h[n - 1] = g[n - 1] /\ h[n] = g[n]
        BY <3>2
      <4> QED BY <2>1, <4>1
    <3> QED BY <3>1, <3>2
  <2> HIDE DEF h
  <2>5. (m + 1) + 1 = m + 2
    OBVIOUS
  <2>6. Upto(m + 1)
    BY <2>3, <2>4, <2>5
  <2> QED BY <2>6
<1>3. Nat \subseteq S
  <2> HIDE DEF S
  <2> QED BY <1>1, <1>2, SetInduction
<1>4. N - 1 \in Nat /\ (N - 1) + 1 = N
  OBVIOUS
<1>5. Upto(N - 1)
  BY <1>3, <1>4
<1>6. PICK g \in [1..N -> V] : g[1] = b /\ \A n \in 2..N : g[n] = F[<<g[n - 1], n>>]
  BY <1>4, <1>5
<1>7. \A n \in 1..N : n # 1 => n \in 2..N
  OBVIOUS
<1>8. Computes(g, N, b, F)
  BY <1>6, <1>7 DEF Computes
<1> QED BY <1>8

LEMMA UptoInduction ==
  ASSUME NEW N \in Nat \ {0}, NEW S, 1 \in S, \A n \in 1..N : n < N /\ n \in S => n + 1 \in S
  PROVE  1..N \subseteq S
<1> DEFINE T == {m \in Nat : m < N => m + 1 \in S}
<1>1. 0 \in T
  OBVIOUS
<1>2. \A m \in Nat : m \in T => m + 1 \in T
  OBVIOUS
<1>3. Nat \subseteq T
  <2> HIDE DEF T
  <2> QED BY <1>1, <1>2, SetInduction
<1>4. \A n \in 1..N : n - 1 \in Nat /\ n - 1 < N /\ (n - 1) + 1 = n
  OBVIOUS
<1> QED BY <1>3, <1>4

(***************************************************************************)
(* Sums over a window.                                                      *)
(***************************************************************************)
LEMMA SumDef ==
  ASSUME NEW f \in [1..Window -> Nat]
  PROVE  \E g \in [1..Window -> Nat] :
           /\ \A n \in 1..Window : g[n] = IF n = 1 THEN f[1] ELSE g[n - 1] + f[n]
           /\ Sum(f) = g[Window]
<1> DEFINE G == [x \in Nat \X Nat |-> x[1] + (IF x[2] \in 1..Window THEN f[x[2]] ELSE 0)]
           Is(g) == g = [n \in 1..Window |-> IF n = 1 THEN f[1] ELSE g[n - 1] + f[n]]
<1>1. f[1] \in Nat /\ Window \in 1..Window /\ Window \in Nat \ {0}
  BY WindowAssumption
<1>2. G \in [Nat \X Nat -> Nat]
  OBVIOUS
<1>3. \A m \in Nat, n \in 1..Window : G[<<m, n>>] = m + f[n]
  OBVIOUS
<1> HIDE DEF G
<1>4. PICK g \in [1..Window -> Nat] : Computes(g, Window, f[1], G)
  BY <1>1, <1>2, Recursion
<1>5. \A n \in 1..Window : n # 1 => n - 1 \in 1..Window /\ g[n - 1] \in Nat
  BY WindowAssumption
<1>6. Is(g)
  <2>1. \A n \in 1..Window : g[n] = IF n = 1 THEN f[1] ELSE g[n - 1] + f[n]
    BY <1>3, <1>4, <1>5 DEF Computes
  <2> QED BY <2>1
<1> DEFINE c == CHOOSE x : Is(x)
<1>7. Is(c)
  BY <1>6
<1>8. Sum(f) = c[Window]
  BY DEF Sum
<1> HIDE DEF c
<1>9. /\ c[1] = f[1]
      /\ \A n \in 1..Window : n # 1 => c[n] = c[n - 1] + f[n]
  BY <1>1, <1>7, WindowAssumption
<1>10. \A n \in 1..Window : c[n] \in Nat
  <2> DEFINE S == {n \in 1..Window : c[n] \in Nat}
  <2>1. 1 \in S
    BY <1>1, <1>9, WindowAssumption
  <2>2. \A n \in 1..Window : n < Window /\ n \in S => n + 1 \in S
    <3> TAKE n \in 1..Window
    <3> HAVE n < Window /\ n \in S
    <3>1. n + 1 \in 1..Window /\ n + 1 # 1 /\ (n + 1) - 1 = n
      BY WindowAssumption
    <3>2. c[n + 1] = c[n] + f[n + 1]
      BY <1>9, <3>1
    <3> QED BY <3>1, <3>2
  <2> HIDE DEF S
  <2>3. 1..Window \subseteq S
    BY <1>1, <2>1, <2>2, UptoInduction
  <2> QED BY <2>3 DEF S
<1>11. c \in [1..Window -> Nat]
  <2>1. c = [n \in 1..Window |-> c[n]]
    BY <1>7
  <2> QED BY <1>10, <2>1
<1> QED BY <1>1, <1>8, <1>9, <1>11

LEMMA SumType ==
  ASSUME NEW f \in [1..Window -> Nat]
  PROVE  Sum(f) \in Nat
<1> QED BY SumDef, WindowAssumption

\* a sum of naturals is zero if and only if all of them are
LEMMA SumZero ==
  ASSUME NEW f \in [1..Window -> Nat]
  PROVE  Sum(f) = 0 <=> \A n \in 1..Window : f[n] = 0
<1>1. PICK g \in [1..Window -> Nat] :
        /\ \A n \in 1..Window : g[n] = IF n = 1 THEN f[1] ELSE g[n - 1] + f[n]
        /\ Sum(f) = g[Window]
  BY SumDef
<1>2. \A n \in 1..Window : n < Window => n + 1 \in 1..Window /\ n + 1 # 1 /\ (n + 1) - 1 = n
  BY WindowAssumption
<1>3. \A n \in 1..Window : n < Window => g[n + 1] = g[n] + f[n + 1]
  BY <1>1, <1>2
<1>4. ASSUME \A n \in 1..Window : f[n] = 0
      PROVE  Sum(f) = 0
  <2> DEFINE S == {n \in 1..Window : g[n] = 0}
  <2>1. 1 \in S
    BY <1>1, <1>4, WindowAssumption
  <2>2. \A n \in 1..Window : n < Window /\ n \in S => n + 1 \in S
    BY <1>2, <1>3, <1>4
  <2> HIDE DEF S
  <2>3. 1..Window \subseteq S
    BY <2>1, <2>2, UptoInduction, WindowAssumption
  <2> QED BY <1>1, <2>3, WindowAssumption DEF S
<1>5. ASSUME NEW k \in 1..Window, f[k] # 0
      PROVE  Sum(f) # 0
  <2> DEFINE S == {n \in 1..Window : n >= k => g[n] # 0}
  <2>1. g[k] # 0
    <3>1. CASE k = 1
      BY <1>1, <1>5, <3>1
    <3>2. CASE k # 1
      <4>1. k - 1 \in 1..Window /\ g[k] = g[k - 1] + f[k]
        BY <1>1, <3>2, WindowAssumption
      <4> QED BY <1>5, <4>1
    <3> QED BY <3>1, <3>2
  <2>2. 1 \in S
    BY <2>1, WindowAssumption
  <2>3. \A n \in 1..Window : n < Window /\ n \in S => n + 1 \in S
    <3> TAKE n \in 1..Window
    <3> HAVE n < Window /\ n \in S
    <3>1. n + 1 \in 1..Window /\ g[n + 1] = g[n] + f[n + 1]
      BY <1>2, <1>3
    <3>2. g[n] \in Nat /\ f[n + 1] \in Nat
      BY <3>1
    <3>3. CASE n >= k
      BY <3>1, <3>2, <3>3
    <3>4. CASE n + 1 = k
      BY <2>1, <3>1, <3>4
    <3>5. CASE n + 1 < k
      BY <3>1, <3>5
    <3> QED BY <3>3, <3>4, <3>5
  <2> HIDE DEF S
  <2>4. 1..Window \subseteq S
    BY <2>2, <2>3, UptoInduction, WindowAssumption
  <2> QED BY <1>1, <2>4, WindowAssumption DEF S
<1> QED BY <1>4, <1>5

(***************************************************************************)
(* Peers and what was measured.                                             *)
(***************************************************************************)
Result == {s \in [lat : Nat, loss : 0..1] : s.loss = 1 => s.lat = 0}
Info   == [flags : SUBSET Flags, window : [1..Window -> Result]]

LEMMA UnmeasuredResult == Unmeasured \in Result
  BY DEF Unmeasured, Result

LEMMA InfoResult ==
  ASSUME NEW info \in Info, NEW n \in 1..Window
  PROVE  /\ info.window[n].lat \in Nat /\ info.window[n].loss \in {0, 1}
         /\ info.window[n].lat > 0 => info.window[n].loss = 0
         /\ info.window[n] # Unmeasured => info.window[n].lat > 0 \/ info.window[n].loss = 1
<1>1. info.window[n] \in Result
  BY DEF Info
<1> QED BY <1>1 DEF Result, Unmeasured

LEMMA LossType ==
  ASSUME NEW info \in Info
  PROVE  /\ Loss(info) \in Nat
         /\ Loss(info) = 0 <=> \A n \in 1..Window : info.window[n].loss = 0
<1> DEFINE f == [n \in 1..Window |-> info.window[n].loss]
<1>1. f \in [1..Window -> Nat]
  BY InfoResult
<1>2. Loss(info) = Sum(f)
  BY DEF Loss
<1>3. \A n \in 1..Window : f[n] = info.window[n].loss
  OBVIOUS
<1> HIDE DEF f
<1> QED BY <1>1, <1>2, <1>3, SumType, SumZero

LEMMA LatencyType ==
  ASSUME NEW info \in Info
  PROVE  Latency(info).sum \in Nat /\ Latency(info).count \in Nat \ {0}
<1> DEFINE f == [n \in 1..Window |-> info.window[n].lat]
<1>1. f \in [1..Window -> Nat]
  BY InfoResult
<1>2. Latency(info).sum = Sum(f)
  BY DEF Latency
<1>3. Latency(info).sum \in Nat
  <2> HIDE DEF f
  <2> QED BY <1>1, <1>2, SumType
<1>4. Latency(info).count = IF Answers(info) = {} THEN 1 ELSE Cardinality(Answers(info))
  BY DEF Latency
<1>5. IsFiniteSet(Answers(info)) /\ Cardinality(Answers(info)) \in Nat
  <2>1. Answers(info) \subseteq 1..Window /\ IsFiniteSet(1..Window)
    BY WindowAssumption, FS_Interval DEF Answers
  <2> QED BY <2>1, FS_Subset, FS_CardinalityType
<1>6. Answers(info) # {} => Cardinality(Answers(info)) # 0
  BY <1>5, FS_EmptySet
<1> QED BY <1>3, <1>4, <1>5, <1>6

\* a window in which every round was answered has no loss, and the other way
\* round if every round was measured
LEMMA CompleteWindow ==
  ASSUME NEW info \in Info
  PROVE  /\ ~StatsIncomplete(info) => Loss(info) = 0
         /\ (\A n \in 1..Window : info.window[n] # Unmeasured) =>
              /\ Loss(info) = 0 => ~StatsIncomplete(info)
              /\ info.flags = {} => Valid(info)
<1>1. ASSUME ~StatsIncomplete(info)
      PROVE  Loss(info) = 0
  <2>1. \A n \in 1..Window : info.window[n].lat > 0
    BY <1>1 DEF StatsIncomplete, Answers
  <2> QED BY <2>1, InfoResult, LossType
<1>2. ASSUME \A n \in 1..Window : info.window[n] # Unmeasured
      PROVE  /\ Loss(info) = 0 => ~StatsIncomplete(info)
             /\ info.flags = {} => Valid(info)
  <2>1. ASSUME Loss(info) = 0
        PROVE  Answers(info) = 1..Window
    <3>1. \A n \in 1..Window : info.window[n].lat > 0
      BY <1>2, <2>1, InfoResult, LossType
    <3> QED BY <3>1 DEF Answers
  <2>2. 1..Window # {}
    BY WindowAssumption
  <2>3. Loss(info) # 0 => Loss(info) > 0
    BY LossType
  <2> QED BY <2>1, <2>2, <2>3 DEF StatsIncomplete, Valid
<1> QED BY <1>1, <1>2

(***************************************************************************)
(* The comparisons.  Products of fractions are compared step by step.       *)
(***************************************************************************)
LEMMA TimesLess ==
  ASSUME NEW x \in Nat, NEW y \in Nat, NEW k \in Nat \ {0}
  PROVE  x < y <=> x * k < y * k
  OBVIOUS

LEMMA FractionsTransitive ==
  ASSUME NEW a \in Nat, NEW b \in Nat, NEW c \in Nat,
         NEW x \in Nat \ {0}, NEW y \in Nat \ {0}, NEW z \in Nat \ {0},
         a * y < b * x, b * z < c * y
  PROVE  a * z < c * x
<1>1. (a * y) * z < (b * x) * z
  BY TimesLess
<1>2. (b * z) * x < (c * y) * x
  BY TimesLess
<1>3. (b * x) * z = (b * z) * x /\ (a * y) * z = (a * z) * y /\ (c * y) * x = (c * x) * y
  OBVIOUS
<1>4. (a * z) * y < (c * x) * y
  BY <1>1, <1>2, <1>3
<1> QED BY <1>4, TimesLess

LEMMA FasterOrder ==
  ASSUME NEW a \in Info, NEW b \in Info, NEW c \in Info
  PROVE  /\ ~Faster(a, a)
         /\ Faster(a, b) /\ Faster(b, c) => Faster(a, c)
<1>1. /\ Latency(a).sum \in Nat /\ Latency(a).count \in Nat \ {0}
      /\ Latency(b).sum \in Nat /\ Latency(b).count \in Nat \ {0}
      /\ Latency(c).sum \in Nat /\ Latency(c).count \in Nat \ {0}
  BY LatencyType
<1>2. ~Faster(a, a)
  BY <1>1 DEF Faster
<1>3. ASSUME Faster(a, b), Faster(b, c)
      PROVE  Faster(a, c)
  BY <1>1, <1>3, FractionsTransitive DEF Faster
<1> QED BY <1>2, <1>3

\* an unanswered peer has the latency zero: nobody is faster
LEMMA BetterOrder ==
  ASSUME NEW a \in Info, NEW b \in Info, NEW c \in Info
  PROVE  /\ ~Better(a, a)
         /\ Better(a, b) /\ Better(b, c) => Better(a, c)
<1>1. Loss(a) \in Nat /\ Loss(b) \in Nat /\ Loss(c) \in Nat
  BY LossType
<1> QED BY <1>1, FasterOrder DEF Better

(***************************************************************************)
(* BestRoute: a loop over the peers in any order.                           *)
(***************************************************************************)
Infos(pl) == DOMAIN pl # {} /\ IsFiniteSet(DOMAIN pl) /\ \A p \in DOMAIN pl : pl[p] \in Info

\* an order of a map visits every key
LEMMA OrderVisitsAll ==
  ASSUME NEW D, IsFiniteSet(D), D # {}, NEW order \in SetToSeqs(D)
  PROVE  /\ Cardinality(D) \in Nat \ {0}
         /\ order \in [1..Cardinality(D) -> D]
         /\ \A p \in D : \E n \in 1..Cardinality(D) : order[n] = p
<1> DEFINE N == Cardinality(D)
<1>1. N \in Nat /\ N # 0
  BY FS_CardinalityType, FS_EmptySet
<1>2. /\ order \in [1..N -> D]
      /\ \A i, j \in 1..N : i # j => order[i] # order[j]
  BY DEF SetToSeqs
<1>3. Cardinality(1..N) = N
  BY <1>1, FS_Interval
<1>4. order \in Injection(1..N, D)
  BY <1>2 DEF Injection, IsInjective
<1>5. order \in Surjection(1..N, D)
  BY <1>3, <1>4, FS_Injection
<1>6. \A p \in D : \E n \in 1..N : order[n] = p
  BY <1>5 DEF Surjection
<1> QED BY <1>1, <1>2, <1>6

LEMMA BestInDef ==
  ASSUME NEW pl, Infos(pl), NEW order \in SetToSeqs(DOMAIN pl)
  PROVE  LET N == Cardinality(DOMAIN pl)
         IN  \E g \in [1..N -> DOMAIN pl] :
               /\ \A n \in 1..N : g[n] = IF n = 1 THEN order[1]
                                         ELSE IF Better(pl[order[n]], pl[g[n - 1]]) THEN order[n] ELSE g[n - 1]
               /\ BestIn(pl, order) = g[N]
<1> DEFINE D == DOMAIN pl
           N == Cardinality(D)
           F == [x \in D \X Nat |-> IF x[2] \in 1..N /\ Better(pl[order[x[2]]], pl[x[1]]) THEN order[x[2]] ELSE x[1]]
           Is(g) == g = [n \in 1..N |->
                           IF n = 1 THEN order[1]
                           ELSE IF Better(pl[order[n]], pl[g[n - 1]]) THEN order[n] ELSE g[n - 1]]
<1>1. N \in Nat \ {0} /\ order \in [1..N -> D] /\ order[1] \in D
  BY OrderVisitsAll DEF Infos
<1>2. F \in [D \X Nat -> D]
  BY <1>1
<1>3. \A d \in D, n \in 1..N : F[<<d, n>>] = IF Better(pl[order[n]], pl[d]) THEN order[n] ELSE d
  OBVIOUS
<1>4. BestIn(pl, order) = (CHOOSE g : Is(g))[N]
  BY DEF BestIn
<1> HIDE DEF F, N
<1>5. PICK g \in [1..N -> D] : Computes(g, N, order[1], F)
  BY <1>1, <1>2, Recursion
<1>6. \A n \in 1..N : n # 1 => n - 1 \in 1..N /\ g[n - 1] \in D
  BY <1>1
<1>7. Is(g)
  <2>1. \A n \in 1..N : g[n] = IF n = 1 THEN order[1]
                               ELSE IF Better(pl[order[n]], pl[g[n - 1]]) THEN order[n] ELSE g[n - 1]
    BY <1>3, <1>5, <1>6 DEF Computes
  <2> QED BY <2>1
<1> DEFINE c == CHOOSE x : Is(x)
<1>8. Is(c)
  BY <1>7
<1> HIDE DEF c
<1>9. \A n \in 1..N : c[n] = IF n = 1 THEN order[1]
                             ELSE IF Better(pl[order[n]], pl[c[n - 1]]) THEN order[n] ELSE c[n - 1]
  BY <1>8
<1>10. 1..N \subseteq {n \in 1..N : c[n] \in D}
  <2> DEFINE S == {n \in 1..N : c[n] \in D}
  <2>1. 1 \in S
    BY <1>1, <1>9
  <2>2. \A n \in 1..N : n < N /\ n \in S => n + 1 \in S
    <3> TAKE n \in 1..N
    <3> HAVE n < N /\ n \in S
    <3>1. n + 1 \in 1..N /\ n + 1 # 1 /\ (n + 1) - 1 = n
      BY <1>1
    <3>2. c[n + 1] = IF Better(pl[order[n + 1]], pl[c[n]]) THEN order[n + 1] ELSE c[n]
      BY <1>9, <3>1
    <3> QED BY <1>1, <3>1, <3>2
  <2> HIDE DEF S
  <2>3. 1..N \subseteq S
    BY <1>1, <2>1, <2>2, UptoInduction
  <2> QED BY <2>3 DEF S
<1>11. c \in [1..N -> D]
  <2>1. c = [n \in 1..N |-> c[n]]
    BY <1>8
  <2> QED BY <1>10, <2>1
<1> QED BY <1>4, <1>9, <1>11 DEF c, N

LEMMA BestInIsLeast ==
  ASSUME NEW pl, Infos(pl), NEW order \in SetToSeqs(DOMAIN pl)
  PROVE  /\ BestIn(pl, order) \in DOMAIN pl
         /\ \A p \in DOMAIN pl : ~Better(pl[p], pl[BestIn(pl, order)])
<1> DEFINE D == DOMAIN pl
           N == Cardinality(D)
<1>1. /\ N \in Nat \ {0} /\ order \in [1..N -> D]
      /\ \A p \in D : \E n \in 1..N : order[n] = p
  BY OrderVisitsAll DEF Infos
<1>2. PICK g \in [1..N -> D] :
        /\ \A n \in 1..N : g[n] = IF n = 1 THEN order[1]
                                  ELSE IF Better(pl[order[n]], pl[g[n - 1]]) THEN order[n] ELSE g[n - 1]
        /\ BestIn(pl, order) = g[N]
  BY BestInDef
<1> HIDE DEF N
<1> DEFINE Least(n) == \A j \in 1..n : ~Better(pl[order[j]], pl[g[n]])
           S == {n \in 1..N : Least(n)}
<1>3. \A p \in D : pl[p] \in Info
  BY DEF Infos
<1>4. 1 \in S
  <2>1. 1 \in 1..N /\ g[1] = order[1] /\ order[1] \in D
    BY <1>1, <1>2
  <2>2. ~Better(pl[order[1]], pl[g[1]])
    BY <1>3, <2>1, BetterOrder
  <2> QED BY <2>1, <2>2
<1>5. \A n \in 1..N : n < N /\ n \in S => n + 1 \in S
  <2> TAKE n \in 1..N
  <2> HAVE n < N /\ n \in S
  <2> DEFINE x == order[n + 1]
             o == g[n]
  <2>1. n + 1 \in 1..N /\ n + 1 # 1 /\ (n + 1) - 1 = n
    BY <1>1
  <2>2. g[n + 1] = IF Better(pl[x], pl[o]) THEN x ELSE o
    BY <1>2, <2>1
  <2>3. x \in D /\ o \in D /\ \A j \in 1..n : order[j] \in D /\ ~Better(pl[order[j]], pl[o])
    <3>1. x \in D /\ o \in D
      BY <1>1, <2>1
    <3>2. \A j \in 1..n : j \in 1..N
      BY <1>1
    <3>3. \A j \in 1..n : order[j] \in D
      <4> HIDE DEF D, S
      <4> QED BY <1>1, <3>2
    <3>4. \A j \in 1..n : ~Better(pl[order[j]], pl[o])
      OBVIOUS
    <3> QED BY <3>1, <3>3, <3>4
  <2> HIDE DEF x, o
  <2>4. ASSUME NEW j \in 1..(n + 1)
        PROVE  ~Better(pl[order[j]], pl[g[n + 1]])
    <3>1. CASE j = n + 1
      <4>1. order[j] = x
        BY <3>1 DEF x
      <4> QED BY <1>3, <2>2, <2>3, <4>1, BetterOrder
    <3>2. CASE j # n + 1
      <4>1. j \in 1..n
        BY <3>2
      <4>2. order[j] \in D /\ ~Better(pl[order[j]], pl[o])
        BY <2>3, <4>1
      <4> QED BY <1>3, <2>2, <2>3, <4>2, BetterOrder
    <3> QED BY <3>1, <3>2
  <2> QED BY <2>1, <2>4
<1>6. 1..N \subseteq S
  <2> HIDE DEF S
  <2> QED BY <1>1, <1>4, <1>5, UptoInduction
<1>7. N \in 1..N /\ g[N] \in D /\ Least(N)
  BY <1>1, <1>2, <1>6
<1> QED BY <1>1, <1>2, <1>7

LEMMA BestRoutesType ==
  ASSUME NEW pl, Infos(pl), NEW b \in BestRoutes(pl)
  PROVE  /\ b \in DOMAIN pl
         /\ \A p \in DOMAIN pl : ~Better(pl[p], pl[b])
<1>1. DOMAIN pl # {}
  BY DEF Infos
<1>2. PICK order \in SetToSeqs(DOMAIN pl) : b = BestIn(pl, order)
  BY <1>1 DEF BestRoutes
<1> QED BY <1>2, BestInIsLeast

(***************************************************************************)
(* The inductive invariant.  While nobody is pending, the selection and the *)
(* path are what BestPath made, from some earlier selection, of the         *)
(* statistics as they are now: whoever changes peers calls it or leaves a   *)
(* peer pending.  For that a disabled peer must have its AddPending flag.   *)
(***************************************************************************)
Tidy ==
  /\ IsFiniteSet(DOMAIN peers)
  /\ \A p \in DOMAIN peers : "Disabled" \in peers[p].flags => "AddPending" \in peers[p].flags

PathOf(pl, c) == IF Live(pl, c) /\ ~TooLossy(pl[c.best]) THEN c.best ELSE NoPeer

Decided ==
  Complete => /\ \E s \in Selection : sel \in Calculate(peers, s)
              /\ path = PathOf(peers, sel)

IndInv == TypeOK /\ Tidy /\ Decided

LEMMA AppendTail ==
  ASSUME NEW S, NEW w \in [1..Window -> S], NEW s \in S
  PROVE  Append(Tail(w), s) \in [1..Window -> S]
<1>1. w \in Seq(S) /\ Len(w) = Window
  BY WindowAssumption
<1>2. /\ Tail(w) \in Seq(S)
      /\ Len(Tail(w)) = Window - 1
  BY <1>1, WindowAssumption
<1>3. /\ Append(Tail(w), s) \in Seq(S)
      /\ Len(Append(Tail(w), s)) = Window
  <2> DEFINE t == Tail(w)
  <2> HIDE DEF t
  <2>1. t \in Seq(S) /\ Len(t) = Window - 1
    BY <1>2 DEF t
  <2>2. Append(t, s) \in Seq(S) /\ Len(Append(t, s)) = Window
    BY <2>1, WindowAssumption
  <2> QED BY <2>2 DEF t
<1> DEFINE u == Append(Tail(w), s)
<1> HIDE DEF u
<1>4. u \in Seq(S) /\ Len(u) = Window
  BY <1>3 DEF u
<1>5. u \in [1..Window -> S]
  BY <1>4
<1> QED BY <1>5 DEF u

LEMMA CalculateType ==
  ASSUME NEW pl, Infos(pl), DOMAIN pl \subseteq Peer, NEW s \in Selection, NEW c \in Calculate(pl, s)
  PROVE  c \in Selection
<1>1. PICK new \in BestRoutes(pl) : c = IF strategy = "speed" THEN Speed(pl, s, new) ELSE Direct(pl, s, new)
  BY DEF Calculate
<1>2. new \in Peer
  BY BestRoutesType
<1>3. Public \in Peer /\ Window \in Nat
  BY PeerAssumption, WindowAssumption
<1>4. \A p \in Peer \cup {NoPeer} : Keep(p) \in Selection
  BY <1>3 DEF Keep, Selection
<1>5. Watch(s, new) \in Selection /\ Watch(s, Public) \in Selection
  BY <1>2, <1>3 DEF Watch, Selection
<1>6. s.best \in Peer \cup {NoPeer}
  BY DEF Selection
<1>7. Speed(pl, s, new) \in Selection
  BY <1>2 DEF Speed, Selection
<1>8. Direct(pl, s, new) \in Selection
  <2>1. DirectIncomplete(pl, s) \in Selection
    BY <1>3, <1>4, <1>6 DEF DirectIncomplete
  <2>2. DirectByLoss(pl, s, new) \in Selection
    BY <1>2, <1>3, <1>4, <1>6 DEF DirectByLoss
  <2>3. DirectToRelay(pl, s, new) \in Selection /\ DirectToPublic(pl, s) \in Selection
    BY <1>2, <1>3, <1>4, <1>5 DEF DirectToRelay, DirectToPublic
  <2> QED BY <1>2, <1>3, <1>4, <2>1, <2>2, <2>3 DEF Direct
<1> QED BY <1>1, <1>7, <1>8

LEMMA BestPathType ==
  ASSUME NEW pl, DOMAIN pl # {} => Infos(pl), DOMAIN pl \subseteq Peer, NEW s \in Selection, BestPath(pl, s)
  PROVE  /\ sel' \in Selection
         /\ path' \in {sel'.best, NoPeer}
         /\ DOMAIN pl # {} => sel' \in Calculate(pl, s) /\ path' = PathOf(pl, sel')
<1>1. CASE DOMAIN pl = {} /\ sel' = [s EXCEPT !.best = NoPeer] /\ path' = NoPeer
  BY <1>1 DEF Selection
<1>2. ASSUME NEW c \in Calculate(pl, s),
             sel' = c,
             path' = IF Live(pl, c) /\ ~TooLossy(pl[c.best]) THEN c.best ELSE NoPeer
      PROVE  /\ sel' \in Selection
             /\ path' \in {sel'.best, NoPeer}
             /\ sel' \in Calculate(pl, s) /\ path' = PathOf(pl, sel')
  <2>1. DOMAIN pl # {}
    BY <1>2 DEF Calculate, BestRoutes
  <2>2. c \in Selection
    BY <2>1, CalculateType
  <2> QED BY <1>2, <2>2 DEF PathOf
<1> QED BY <1>1, <1>2 DEF BestPath

(***************************************************************************)
(* The invariant is inductive.                                              *)
(***************************************************************************)
InfoOf(p) == [flags  : SUBSET IF p \in Conflicting THEN Flags ELSE Flags \ {"Disabled"},
              window : [1..Window -> Sample[p] \cup {Unmeasured}]]

\* the peers of a group: what TypeOK and Tidy say of peers, said of any map
Group(pl) ==
  /\ IsMap(pl, Peer)
  /\ IsFiniteSet(DOMAIN pl)
  /\ \A p \in DOMAIN pl : pl[p] \in InfoOf(p)
  /\ \A p \in DOMAIN pl : "Disabled" \in pl[p].flags => "AddPending" \in pl[p].flags

LEMMA GroupOfPeers ==
  TypeOK /\ Tidy <=> /\ Group(peers)
                     /\ strategy \in {"speed", "dr"}
                     /\ sel \in Selection
                     /\ path \in {sel.best, NoPeer}
                     /\ steady \in BOOLEAN
  BY DEF TypeOK, Tidy, Group, InfoOf

LEMMA InfoOfPeer ==
  ASSUME NEW p \in Peer, NEW info \in InfoOf(p)
  PROVE  info \in Info
<1>1. Sample[p] \subseteq Result /\ Unmeasured \in Result
  BY SampleAssumption, UnmeasuredResult DEF Result
<1>2. [1..Window -> Sample[p] \cup {Unmeasured}] \subseteq [1..Window -> Result]
  BY <1>1
<1>3. /\ info = [flags |-> info.flags, window |-> info.window]
      /\ info.flags \subseteq Flags
      /\ info.window \in [1..Window -> Sample[p] \cup {Unmeasured}]
  BY DEF InfoOf
<1> QED BY <1>2, <1>3 DEF Info

LEMMA GroupInfos ==
  ASSUME NEW pl, Group(pl)
  PROVE  /\ DOMAIN pl \subseteq Peer
         /\ DOMAIN pl # {} => Infos(pl)
<1>1. DOMAIN pl \subseteq Peer
  BY DEF Group, IsMap
<1>2. \A p \in DOMAIN pl : pl[p] \in Info
  BY <1>1, InfoOfPeer DEF Group
<1> QED BY <1>1, <1>2 DEF Infos, Group

LEMMA PutGroup ==
  ASSUME NEW pl, Group(pl), NEW p \in Peer, NEW info \in InfoOf(p),
         "Disabled" \in info.flags => "AddPending" \in info.flags
  PROVE  /\ Group(Put(pl, p, info))
         /\ DOMAIN Put(pl, p, info) = DOMAIN pl \cup {p}
<1> DEFINE new == Put(pl, p, info)
<1>1. /\ DOMAIN new = DOMAIN pl \cup {p}
      /\ new = [x \in DOMAIN new |-> new[x]]
      /\ \A x \in DOMAIN new : new[x] = IF x = p THEN info ELSE pl[x]
  BY DEF Put
<1> HIDE DEF new
<1>2. DOMAIN new \subseteq Peer /\ IsFiniteSet(DOMAIN new)
  BY <1>1, FS_AddElement DEF Group, IsMap
<1>3. Group(new)
  BY <1>1, <1>2 DEF Group, IsMap
<1> QED BY <1>1, <1>3 DEF new

\* a message only changes flags, and one that may make all of them empty
\* does not exist
LEMMA FlagsGroup ==
  ASSUME NEW pl, Group(pl), NEW p \in DOMAIN pl,
         NEW F \in SUBSET IF p \in Conflicting THEN Flags ELSE Flags \ {"Disabled"},
         "Disabled" \in F => "AddPending" \in F
  PROVE  /\ Group(WithFlags(pl, p, F))
         /\ DOMAIN WithFlags(pl, p, F) = DOMAIN pl
         /\ WithFlags(pl, p, F)[p].flags = F
<1> DEFINE info == [pl[p] EXCEPT !.flags = F]
<1>1. p \in Peer /\ pl[p] \in InfoOf(p)
  BY DEF Group, IsMap
<1>2. info \in InfoOf(p) /\ info.flags = F
  BY <1>1 DEF InfoOf
<1>3. WithFlags(pl, p, F) = Put(pl, p, info)
  BY DEF WithFlags
<1> HIDE DEF info
<1>4. DOMAIN pl \cup {p} = DOMAIN pl
  OBVIOUS
<1>5. "Disabled" \in info.flags => "AddPending" \in info.flags
  BY <1>2
<1>6. /\ Group(Put(pl, p, info))
      /\ DOMAIN Put(pl, p, info) = DOMAIN pl \cup {p}
      /\ Put(pl, p, info)[p] = info
  <2>1. Group(Put(pl, p, info))
    BY <1>1, <1>2, <1>5, PutGroup
  <2>2. DOMAIN Put(pl, p, info) = DOMAIN pl \cup {p}
    BY <1>1, <1>2, <1>5, PutGroup
  <2>3. Put(pl, p, info)[p] = info
    BY DEF Put
  <2> QED BY <2>1, <2>2, <2>3
<1> QED BY <1>2, <1>3, <1>4, <1>6

LEMMA NewPeerGroup ==
  ASSUME NEW p \in Peer
  PROVE  NewPeerInfo \in InfoOf(p) /\ NewPeerInfo.flags = {}
<1> QED BY WindowAssumption DEF NewPeerInfo, InfoOf

LEMMA AppliedGroup ==
  ASSUME Group(peers)
  PROVE  Group(Applied)
<1> DEFINE D == {q \in DOMAIN peers : ~Dropped(peers[q])}
<1>1. /\ DOMAIN Applied = D
      /\ Applied = [x \in D |-> Applied[x]]
      /\ \A p \in D : Applied[p] = IF "Disabled" \in peers[p].flags THEN peers[p] ELSE [peers[p] EXCEPT !.flags = {}]
  BY DEF Applied
<1>2. D \subseteq DOMAIN peers /\ D \subseteq Peer /\ IsFiniteSet(D)
  BY FS_Subset DEF Group, IsMap
<1>3. ASSUME NEW p \in D
      PROVE  /\ Applied[p] \in InfoOf(p)
             /\ "Disabled" \in Applied[p].flags => "AddPending" \in Applied[p].flags
  <2>1. peers[p] \in InfoOf(p) /\ ("Disabled" \in peers[p].flags => "AddPending" \in peers[p].flags)
    BY <1>2 DEF Group
  <2>2. [peers[p] EXCEPT !.flags = {}] \in InfoOf(p) /\ [peers[p] EXCEPT !.flags = {}].flags = {}
    BY <2>1 DEF InfoOf
  <2> QED BY <1>1, <2>1, <2>2
<1> HIDE DEF D
<1> QED BY <1>1, <1>2, <1>3 DEF Group, IsMap

LEMMA MeasuredGroup ==
  ASSUME Group(peers), NEW S, NEW result,
         \A p \in S \cap DOMAIN peers : result[p] \in Sample[p] \cup {Unmeasured}
  PROVE  Group(Measured(S, result))
<1> DEFINE pl == Measured(S, result)
<1>1. /\ DOMAIN pl = DOMAIN peers
      /\ pl = [x \in DOMAIN pl |-> pl[x]]
      /\ \A p \in DOMAIN pl : pl[p] = IF p \in S /\ peers[p].flags = {} THEN Add(peers[p], result[p]) ELSE peers[p]
  BY DEF Measured
<1>2. ASSUME NEW p \in DOMAIN peers, p \in S, peers[p].flags = {}
      PROVE  Add(peers[p], result[p]) \in InfoOf(p) /\ Add(peers[p], result[p]).flags = {}
  <2> DEFINE T == Sample[p] \cup {Unmeasured}
             w == Append(Tail(peers[p].window), result[p])
  <2>1. peers[p] \in InfoOf(p) /\ peers[p].window \in [1..Window -> T]
    BY DEF Group, InfoOf
  <2>2. w \in [1..Window -> T]
    BY <1>2, <2>1, AppendTail
  <2>3. Add(peers[p], result[p]) = [peers[p] EXCEPT !.window = w]
    BY DEF Add
  <2> HIDE DEF w
  <2> QED BY <1>2, <2>1, <2>2, <2>3 DEF InfoOf
<1> HIDE DEF pl
<1>3. \A p \in DOMAIN pl :
        pl[p] \in InfoOf(p) /\ ("Disabled" \in pl[p].flags => "AddPending" \in pl[p].flags)
  BY <1>1, <1>2 DEF Group
<1>4. Group(pl)
  BY <1>1, <1>3 DEF Group, IsMap
<1> QED BY <1>4 DEF pl

\* a message leaves somebody pending, everything else ends in BestPath
LEMMA PendingStep ==
  ASSUME IndInv, UNCHANGED <<strategy, sel, path, steady>>,
         Group(peers'), NEW p \in DOMAIN peers', peers'[p].flags # {}
  PROVE  IndInv'
<1>1. TypeOK' /\ Tidy'
  <2>1. /\ strategy' \in {"speed", "dr"} /\ sel' \in Selection
        /\ path' \in {sel'.best, NoPeer} /\ steady' \in BOOLEAN
    BY DEF IndInv, TypeOK
  <2> QED BY <2>1 DEF TypeOK, Tidy, Group, InfoOf
<1>2. ~Complete'
  BY DEF Complete
<1> QED BY <1>1, <1>2 DEF IndInv, Decided

LEMMA BestPathStep ==
  ASSUME IndInv, UNCHANGED <<strategy, steady>>,
         NEW s \in Selection, Group(peers'), BestPath(peers', s)
  PROVE  IndInv'
<1>1. DOMAIN peers' \subseteq Peer /\ (DOMAIN peers' # {} => Infos(peers'))
  BY GroupInfos
<1>2. /\ sel' \in Selection
      /\ path' \in {sel'.best, NoPeer}
      /\ DOMAIN peers' # {} => sel' \in Calculate(peers', s) /\ path' = PathOf(peers', sel')
  BY <1>1, BestPathType
<1>3. TypeOK' /\ Tidy'
  <2>1. strategy' \in {"speed", "dr"} /\ steady' \in BOOLEAN
    BY DEF IndInv, TypeOK
  <2> QED BY <1>2, <2>1 DEF TypeOK, Tidy, Group, InfoOf
<1>4. Decided'
  <2> SUFFICES ASSUME Complete'
               PROVE  (\E t \in Selection : sel \in Calculate(peers, t))' /\ (path = PathOf(peers, sel))'
    BY DEF Decided
  <2>1. DOMAIN peers' # {}
    BY DEF Complete
  <2>2. (sel \in Calculate(peers, s))'
    BY <1>2, <2>1 DEF Calculate, Speed, Direct, Live, DirectIncomplete, DirectByLoss, DirectToRelay, DirectToPublic, LosesPackets
  <2>3. (path = PathOf(peers, sel))'
    BY <1>2, <2>1 DEF PathOf
  <2> QED BY <2>2, <2>3
<1> QED BY <1>3, <1>4 DEF IndInv

LEMMA Initially == Init => IndInv
<1> SUFFICES ASSUME Init
             PROVE  IndInv
  OBVIOUS
<1>1. DOMAIN peers = {} /\ peers = [x \in DOMAIN peers |-> peers[x]]
  BY DEF Init, EmptyMap
<1>2. sel \in Selection /\ path = NoPeer
  BY WindowAssumption DEF Init, Nothing, Selection
<1>3. TypeOK /\ Tidy
  BY <1>1, <1>2, FS_EmptySet DEF Init, TypeOK, Tidy, IsMap
<1> QED BY <1>1, <1>3 DEF IndInv, Decided, Complete

LEMMA AddPeerStep ==
  ASSUME IndInv, NEW p \in Peer, NEW disabled \in BOOLEAN, disabled => p \in Conflicting, AddPeer(p, disabled)
  PROVE  IndInv'
<1> DEFINE pl == IF p \in DOMAIN peers THEN peers ELSE Put(peers, p, NewPeerInfo)
           F  == (pl[p].flags \ {"DelPending"}) \cup {"AddPending"} \cup (IF disabled THEN {"Disabled"} ELSE {})
<1>1. Group(peers)
  BY GroupOfPeers DEF IndInv
<1>2. Group(pl) /\ p \in DOMAIN pl
  <2>1. CASE p \in DOMAIN peers
    BY <1>1, <2>1
  <2>2. CASE p \notin DOMAIN peers
    <3>1. "Disabled" \in NewPeerInfo.flags => "AddPending" \in NewPeerInfo.flags
      BY NewPeerGroup
    <3>2. /\ Group(Put(peers, p, NewPeerInfo))
          /\ DOMAIN Put(peers, p, NewPeerInfo) = DOMAIN peers \cup {p}
      BY <1>1, <3>1, NewPeerGroup, PutGroup
    <3> QED BY <2>2, <3>2
  <2> QED BY <2>1, <2>2
<1>3. peers' = WithFlags(pl, p, F) /\ UNCHANGED <<strategy, sel, path, steady>>
  BY DEF AddPeer
<1> HIDE DEF pl
<1>4. pl[p].flags \in SUBSET IF p \in Conflicting THEN Flags ELSE Flags \ {"Disabled"}
  BY <1>2 DEF Group, InfoOf
<1>5. F \in SUBSET IF p \in Conflicting THEN Flags ELSE Flags \ {"Disabled"}
  BY <1>4 DEF Flags
<1>6. "AddPending" \in F
  OBVIOUS
<1> HIDE DEF F
<1>7. Group(peers') /\ p \in DOMAIN peers' /\ peers'[p].flags # {}
  BY <1>2, <1>3, <1>5, <1>6, FlagsGroup
<1> QED BY <1>3, <1>7, PendingStep

LEMMA DelPeerStep ==
  ASSUME IndInv, NEW p \in Peer, DelPeer(p)
  PROVE  IndInv'
<1> DEFINE F == peers[p].flags \cup {"DelPending"}
<1>1. Group(peers) /\ p \in DOMAIN peers
  BY GroupOfPeers DEF IndInv, DelPeer
<1>2. F \in SUBSET IF p \in Conflicting THEN Flags ELSE Flags \ {"Disabled"}
  BY <1>1 DEF Group, InfoOf, Flags
<1>3. ("Disabled" \in F => "AddPending" \in F) /\ F # {}
  BY <1>1 DEF Group
<1>4. peers' = WithFlags(peers, p, F) /\ UNCHANGED <<strategy, sel, path, steady>>
  BY DEF DelPeer
<1> HIDE DEF F
<1>5. Group(peers') /\ p \in DOMAIN peers' /\ peers'[p].flags # {}
  BY <1>1, <1>2, <1>3, <1>4, FlagsGroup
<1> QED BY <1>4, <1>5, PendingStep

LEMMA ResolveStep ==
  ASSUME IndInv, NEW p \in Peer, ResolveIpConflict(p)
  PROVE  IndInv'
<1> DEFINE F == peers[p].flags \ {"Disabled"}
<1>1. Group(peers) /\ p \in DOMAIN peers /\ "Disabled" \in peers[p].flags
  BY GroupOfPeers DEF IndInv, ResolveIpConflict
<1>2. F \in SUBSET IF p \in Conflicting THEN Flags ELSE Flags \ {"Disabled"}
  BY <1>1 DEF Group, InfoOf, Flags
<1>3. "Disabled" \notin F /\ "AddPending" \in F
  BY <1>1 DEF Group
<1>4. peers' = WithFlags(peers, p, F) /\ UNCHANGED <<strategy, sel, path, steady>>
  BY DEF ResolveIpConflict
<1> HIDE DEF F
<1>5. Group(peers') /\ p \in DOMAIN peers' /\ peers'[p].flags # {}
  BY <1>1, <1>2, <1>3, <1>4, FlagsGroup
<1> QED BY <1>4, <1>5, PendingStep

LEMMA ApplyStep ==
  ASSUME IndInv, Apply
  PROVE  IndInv'
<1> DEFINE s == IF DOMAIN Applied = {} THEN Nothing ELSE sel
<1>1. Group(Applied)
  BY GroupOfPeers, AppliedGroup DEF IndInv
<1>2. s \in Selection
  BY WindowAssumption DEF IndInv, TypeOK, Nothing, Selection
<1>3. peers' = Applied /\ BestPath(Applied, s) /\ UNCHANGED <<strategy, steady>>
  BY DEF Apply
<1> HIDE DEF s
<1> QED BY <1>1, <1>2, <1>3, BestPathStep

LEMMA PingStep ==
  ASSUME IndInv, NEW S, NEW result, PingProcess(S, result),
         \A p \in S \cap DOMAIN peers : result[p] \in Sample[p] \cup {Unmeasured}
  PROVE  IndInv'
<1>1. Group(Measured(S, result))
  BY GroupOfPeers, MeasuredGroup DEF IndInv
<1>2. /\ peers' = Measured(S, result)
      /\ BestPath(Measured(S, result), sel)
      /\ UNCHANGED <<strategy, steady>>
  BY DEF PingProcess
<1>3. sel \in Selection
  BY DEF IndInv, TypeOK
<1> QED BY <1>1, <1>2, <1>3, BestPathStep

LEMMA Inductive ==
  ASSUME IndInv, [Next]_vars
  PROVE  IndInv'
<1>1. ASSUME NEW p \in Peer, AddPeer(p, FALSE)
      PROVE  IndInv'
  BY <1>1, AddPeerStep
<1>2. ASSUME NEW p \in Peer, DelPeer(p)
      PROVE  IndInv'
  BY <1>2, DelPeerStep
<1>3. ASSUME NEW p \in Conflicting, AddPeer(p, TRUE)
      PROVE  IndInv'
  BY <1>3, AddPeerStep, PeerAssumption
<1>4. ASSUME NEW p \in Conflicting, ResolveIpConflict(p)
      PROVE  IndInv'
  BY <1>4, ResolveStep, PeerAssumption
<1>5. CASE Apply
  BY <1>5, ApplyStep
<1>6. CASE Round
  <2>1. PICK S \in SUBSET DOMAIN peers : \E result \in [S -> UNION {Sample[p] : p \in S}] :
          (\A p \in S : result[p] \in Sample[p]) /\ PingProcess(S, result)
    BY <1>6 DEF Round
  <2>2. PICK result : (\A p \in S : result[p] \in Sample[p]) /\ PingProcess(S, result)
    BY <2>1
  <2> QED BY <2>2, PingStep
<1>7. CASE LinksSettle
  <2>1. UNCHANGED <<strategy, peers, sel, path>> /\ steady' = TRUE
    BY <1>7 DEF LinksSettle
  <2> QED BY <2>1 DEF IndInv, TypeOK, Tidy, Decided, Complete, Calculate, Speed, Direct, Live, DirectIncomplete,
                      DirectByLoss, DirectToRelay, DirectToPublic, LosesPackets, PathOf
<1>8. CASE SteadyRound
  <2> DEFINE result == [p \in DOMAIN peers |-> peers[p].window[Window]]
  <2>1. ASSUME NEW p \in DOMAIN peers
        PROVE  result[p] \in Sample[p] \cup {Unmeasured}
    <3>1. peers[p].window \in [1..Window -> Sample[p] \cup {Unmeasured}]
      BY DEF IndInv, TypeOK
    <3> QED BY <3>1, WindowAssumption
  <2>2. PingProcess(DOMAIN peers, result)
    BY <1>8 DEF SteadyRound
  <2> HIDE DEF result
  <2> QED BY <2>1, <2>2, PingStep
<1>9. CASE UNCHANGED vars
  BY <1>9 DEF vars, IndInv, TypeOK, Tidy, Decided, Complete, Calculate, Speed, Direct, Live, DirectIncomplete,
                      DirectByLoss, DirectToRelay, DirectToPublic, LosesPackets, PathOf
<1> QED BY <1>1, <1>2, <1>3, <1>4, <1>5, <1>6, <1>7, <1>8, <1>9 DEF Next

\* The types of the selector and its peers (TypeOK), for any peers, window,
\* thresholds and samples; with them, that whoever has changed the statistics
\* or the peers has decided again (router.go PingProcess, Apply).
THEOREM Invariance == Spec => []IndInv
<1>1. Init => IndInv
  BY Initially
<1>2. IndInv /\ [Next]_vars => IndInv'
  BY Inductive
<1> QED BY <1>1, <1>2, PTL DEF Spec

(***************************************************************************)
(* The best route and the selected one.                                     *)
(***************************************************************************)
LEMMA CompletePeer ==
  ASSUME IndInv, Complete, NEW p \in DOMAIN peers
  PROVE  /\ peers[p] \in Info
         /\ Valid(peers[p])
         /\ Loss(peers[p]) \in Nat
         /\ Loss(peers[p]) = 0 <=> ~StatsIncomplete(peers[p])
<1>1. peers[p] \in Info
  BY GroupOfPeers, GroupInfos DEF IndInv, Infos, Complete
<1> QED BY <1>1, CompleteWindow, LossType DEF Complete

LEMMA CompleteBest ==
  ASSUME IndInv, Complete, NEW b \in BestRoutes(peers), NEW p \in DOMAIN peers
  PROVE  /\ b \in DOMAIN peers
         /\ Loss(peers[b]) <= Loss(peers[p])
         /\ Loss(peers[b]) = Loss(peers[p]) => ~(Answers(peers[p]) # {} /\ Faster(peers[p], peers[b]))
<1>1. Infos(peers)
  BY GroupOfPeers, GroupInfos DEF IndInv, Complete
<1>2. b \in DOMAIN peers /\ ~Better(peers[p], peers[b])
  BY <1>1, BestRoutesType
<1>3. Valid(peers[p]) /\ Loss(peers[p]) \in Nat /\ Loss(peers[b]) \in Nat
  BY <1>2, CompletePeer
<1> QED BY <1>2, <1>3 DEF Better

\* Whatever the order in which Go iterates over the map, BestRoute
\* (peerlist/best.go) finds a peer with the least loss, and none of equal loss
\* is faster.
THEOREM BestRouteIsLeast == Spec => []BestIsLeast
<1>1. IndInv => BestIsLeast
  <2> SUFFICES ASSUME IndInv, Complete, NEW b \in BestRoutes(peers), NEW p \in DOMAIN peers
               PROVE  \/ Loss(peers[b]) < Loss(peers[p])
                      \/ Loss(peers[b]) = Loss(peers[p]) /\ ~(Answers(peers[p]) # {} /\ Faster(peers[p], peers[b]))
    BY DEF BestIsLeast, IndInv
  <2>1. Loss(peers[b]) \in Nat /\ Loss(peers[p]) \in Nat
    BY CompleteBest, CompletePeer
  <2> QED BY <2>1, CompleteBest
<1> QED BY <1>1, Invariance, PTL

\* the direct strategy, when the best route loses nothing
LEMMA DirectLosesNothing ==
  ASSUME IndInv, Complete, NEW s \in Selection, NEW new \in BestRoutes(peers), ~StatsIncomplete(peers[new])
  PROVE  LET c == Direct(peers, s, new) IN c.best \in DOMAIN peers /\ Loss(peers[c.best]) = 0
<1> DEFINE Good(p) == p \in DOMAIN peers /\ Loss(peers[p]) = 0
<1>1. /\ Good(new)
      /\ Live(peers, s) => Loss(peers[s.best]) \in Nat
      /\ Public \in DOMAIN peers => Loss(peers[Public]) \in Nat
  <2>1. new \in DOMAIN peers
    BY CompleteBest DEF Complete
  <2> QED BY <2>1, CompletePeer DEF Live
<1>2. \A p : Good(p) => Good(Keep(p).best)
  BY DEF Keep
<1>3. \A p : Watch(s, p).best = s.best
  BY DEF Watch
<1>4. CASE Public \notin DOMAIN peers
  BY <1>1, <1>2, <1>4 DEF Direct
<1>5. CASE Public \in DOMAIN peers /\ new = Public
  <2>1. Direct(peers, s, new) = IF s.best = Public THEN s ELSE Keep(Public)
    BY <1>5 DEF Direct
  <2> QED BY <1>1, <1>2, <1>5, <2>1
<1>6. CASE Public \in DOMAIN peers /\ new # Public /\ LosesPackets(peers, s)
  <2>1. Direct(peers, s, new) = DirectByLoss(peers, s, new)
    BY <1>6 DEF Direct
  <2>2. DirectByLoss(peers, s, new) = Keep(new)
    BY <1>1, <1>6 DEF DirectByLoss
  <2> QED BY <1>1, <1>2, <2>1, <2>2
<1>7. CASE Public \in DOMAIN peers /\ new # Public /\ ~LosesPackets(peers, s)
  <2>1. Good(Public) /\ (Live(peers, s) => Good(s.best))
    BY <1>1, <1>7 DEF LosesPackets, Live
  <2>2. Good(DirectToRelay(peers, s, new).best)
    BY <1>1, <1>2, <1>3, <2>1 DEF DirectToRelay
  <2>3. Good(DirectToPublic(peers, s).best)
    BY <1>2, <1>3, <2>1 DEF DirectToPublic
  <2>4. Direct(peers, s, new) \in {DirectToRelay(peers, s, new), DirectToPublic(peers, s)}
    BY <1>7 DEF Direct
  <2> QED BY <2>2, <2>3, <2>4
<1> QED BY <1>4, <1>5, <1>6, <1>7

LEMMA SpeedLosesLeast ==
  ASSUME IndInv, Complete, NEW s \in Selection, NEW new \in BestRoutes(peers)
  PROVE  LET c == Speed(peers, s, new)
         IN  c.best \in DOMAIN peers /\ Loss(peers[c.best]) <= Loss(peers[new])
<1>1. new \in DOMAIN peers /\ Loss(peers[new]) \in Nat
  BY CompleteBest, CompletePeer DEF Complete
<1>2. [s EXCEPT !.best = new].best = new
  BY DEF Selection
<1>3. CASE Speed(peers, s, new) = [s EXCEPT !.best = new]
  BY <1>1, <1>2, <1>3
<1>4. CASE Speed(peers, s, new) = s /\ Live(peers, s) /\ ~(Loss(peers[new]) < Loss(peers[s.best]))
  <2>1. s.best \in DOMAIN peers /\ Loss(peers[s.best]) \in Nat
    BY <1>4, CompletePeer DEF Live
  <2> QED BY <1>1, <1>4, <2>1
<1> QED BY <1>3, <1>4 DEF Speed

\* "Lower loss is a must" (speed.go, dr.go): when everything is measured no
\* peer loses less than the selected one, for dr none that has answered every
\* round; and a path that loses nothing is not withheld by DeleteLoss.
THEOREM LossComesFirst == Spec => []LossIsAMust
<1>1. IndInv => LossIsAMust
  <2> SUFFICES ASSUME IndInv, Complete, NEW p \in DOMAIN peers,
                      strategy = "speed" \/ ~StatsIncomplete(peers[p])
               PROVE  /\ Loss(peers[sel.best]) <= Loss(peers[p])
                      /\ Loss(peers[p]) = 0 => path = sel.best
    BY DEF LossIsAMust
  <2>1. PICK s \in Selection : sel \in Calculate(peers, s)
    BY DEF IndInv, Decided
  <2>2. PICK new \in BestRoutes(peers) :
          sel = IF strategy = "speed" THEN Speed(peers, s, new) ELSE Direct(peers, s, new)
    BY <2>1 DEF Calculate
  <2>3. new \in DOMAIN peers /\ Loss(peers[new]) <= Loss(peers[p])
    BY CompleteBest
  <2>4. Loss(peers[new]) \in Nat /\ Loss(peers[p]) \in Nat
    BY <2>3, CompletePeer
  <2>5. sel.best \in DOMAIN peers /\ Loss(peers[sel.best]) <= Loss(peers[p])
    <3>1. CASE strategy = "speed"
      <4>1. sel.best \in DOMAIN peers /\ Loss(peers[sel.best]) <= Loss(peers[new])
        BY <2>2, <3>1, SpeedLosesLeast
      <4>2. Loss(peers[sel.best]) \in Nat
        BY <4>1, CompletePeer
      <4> QED BY <2>3, <2>4, <4>1, <4>2
    <3>2. CASE strategy # "speed"
      <4>1. Loss(peers[p]) = 0 /\ Loss(peers[new]) = 0
        BY <2>3, <2>4, <3>2, CompletePeer
      <4>2. ~StatsIncomplete(peers[new])
        BY <2>3, <4>1, CompletePeer
      <4>3. sel.best \in DOMAIN peers /\ Loss(peers[sel.best]) = 0
        BY <2>2, <3>2, <4>2, DirectLosesNothing
      <4> QED BY <4>1, <4>3
    <3> QED BY <3>1, <3>2
  <2>6. ASSUME Loss(peers[p]) = 0
        PROVE  path = sel.best
    <3>1. Loss(peers[sel.best]) = 0
      BY <2>5, <2>6, CompletePeer
    <3>2. ~TooLossy(peers[sel.best])
      <4>1. DeleteLoss > 0 => DeleteLoss * Window > 0
        BY WindowAssumption, ThresholdAssumption
      <4> QED BY <3>1, <4>1, WindowAssumption, ThresholdAssumption DEF TooLossy
    <3>3. path = PathOf(peers, sel)
      BY DEF IndInv, Decided
    <3> QED BY <2>5, <3>2, <3>3 DEF PathOf, Live
  <2> QED BY <2>5, <2>6
<1> QED BY <1>1, Invariance, PTL

\* What the two strategies decide twice in a row about one best route.
LEMMA SpeedStays ==
  ASSUME NEW new, NEW s \in Selection
  PROVE  LET c == Speed(peers, s, new) IN c.best # s.best => c.best = new /\ Speed(peers, c, new).best = new
<1> DEFINE c == Speed(peers, s, new)
<1>1. \A t \in Selection : Speed(peers, t, new) \in {t, [t EXCEPT !.best = new]} /\ [t EXCEPT !.best = new].best = new
  BY DEF Speed, Selection
<1>2. ASSUME c.best # s.best
      PROVE  c = [s EXCEPT !.best = new] /\ c.best = new
  BY <1>1, <1>2
<1>3. ASSUME c = [s EXCEPT !.best = new]
      PROVE  Speed(peers, c, new).best = new
  <2>1. c = [best |-> new, underdog |-> s.underdog, count |-> s.count]
    BY <1>3 DEF Selection
  <2>2. [c EXCEPT !.best = new].best = new /\ c.best = new
    BY <2>1
  <2>3. Speed(peers, c, new) \in {c, [c EXCEPT !.best = new]}
    BY DEF Speed
  <2> QED BY <2>2, <2>3
<1> QED BY <1>2, <1>3

\* a lossy path that was left stays left: neither the best route nor, if
\* it is the public one that lost, the public one is it
LEMMA DirectStays ==
  ASSUME IndInv, NEW new \in BestRoutes(peers), DOMAIN peers # {}
  PROVE  LET c == Direct(peers, sel, new)
         IN  c.best # sel.best => Direct(peers, c, new).best # sel.best
<1> DEFINE c == Direct(peers, sel, new)
           d == Direct(peers, c, new)
<1>1. \A p \in DOMAIN peers : peers[p] \in Info /\ Loss(peers[p]) \in Nat
  BY GroupOfPeers, GroupInfos, LossType DEF IndInv, Infos
<1>2. new \in DOMAIN peers
  BY GroupOfPeers, GroupInfos, BestRoutesType DEF IndInv
<1>3. /\ \A p : Keep(p).best = p
      /\ \A s, p : Watch(s, p).best = s.best
  BY DEF Keep, Watch
<1>4. SUFFICES ASSUME c.best # sel.best
               PROVE  d.best # sel.best
  OBVIOUS
<1>5. CASE Public \notin DOMAIN peers
  <2>1. c = Keep(new) /\ d = Keep(new)
    BY <1>5 DEF Direct
  <2> QED BY <1>4, <2>1
<1>6. CASE Public \in DOMAIN peers /\ StatsIncomplete(peers[new])
  <2>1. c = DirectIncomplete(peers, sel) /\ d = DirectIncomplete(peers, c)
    BY <1>6 DEF Direct
  <2>2. sel.best = NoPeer /\ c.best # NoPeer
    BY <1>3, <1>4, <2>1 DEF DirectIncomplete
  <2>3. d = Keep(c.best)
    BY <2>1, <2>2 DEF DirectIncomplete
  <2> QED BY <1>3, <1>4, <2>3
<1>7. CASE Public \in DOMAIN peers /\ ~StatsIncomplete(peers[new]) /\ new = Public
  <2>1. \A s : Direct(peers, s, new).best = Public
    BY <1>3, <1>7 DEF Direct
  <2> QED BY <1>4, <2>1
<1>8. CASE Public \in DOMAIN peers /\ ~StatsIncomplete(peers[new]) /\ new # Public
  <2>1. Loss(peers[new]) = 0
    BY <1>1, <1>2, <1>8, CompleteWindow
  <2>2. \A s : Direct(peers, s, new) =
                 IF LosesPackets(peers, s) THEN DirectByLoss(peers, s, new)
                 ELSE IF Exceeds(peers[Public], peers[new], 1) THEN DirectToRelay(peers, s, new)
                 ELSE DirectToPublic(peers, s)
    BY <1>8 DEF Direct
  <2>3. \A s : DirectByLoss(peers, s, new) = Keep(new)
    BY <1>1, <1>8, <2>1 DEF DirectByLoss, Live
  <2>4. \A s : s.best = new => DirectToRelay(peers, s, new) = Keep(new)
    BY DEF DirectToRelay
  <2>5. \A s : DirectToPublic(peers, s).best \in {Public, s.best}
    BY <1>3 DEF DirectToPublic
  <2>6. \A s : DirectToRelay(peers, s, new).best \in {new, s.best}
    BY <1>3 DEF DirectToRelay
  <2>7. CASE LosesPackets(peers, sel)
    <3>1. c.best = new
      BY <1>3, <2>2, <2>3, <2>7
    <3>2. d.best \in {new, Public}
      BY <1>3, <2>2, <2>3, <2>4, <2>5, <3>1
    <3>3. CASE LosesPackets(peers, c)
      <4>1. d.best = new
        BY <1>3, <2>2, <2>3, <3>3
      <4> QED BY <1>4, <3>1, <4>1
    <3>4. CASE ~LosesPackets(peers, c)
      <4>1. Loss(peers[Public]) = 0
        BY <1>1, <1>8, <3>4 DEF LosesPackets
      <4>2. sel.best # Public
        BY <2>7, <4>1 DEF LosesPackets
      <4> QED BY <1>4, <3>1, <3>2, <4>2
    <3> QED BY <3>3, <3>4
  <2>8. CASE ~LosesPackets(peers, sel) /\ Exceeds(peers[Public], peers[new], 1)
    <3>1. c.best = new
      BY <1>4, <2>2, <2>6, <2>8
    <3>2. d = Keep(new)
      BY <2>2, <2>3, <2>4, <2>8, <3>1
    <3> QED BY <1>3, <1>4, <3>1, <3>2
  <2>9. CASE ~LosesPackets(peers, sel) /\ ~Exceeds(peers[Public], peers[new], 1)
    <3>1. c.best = Public
      BY <1>4, <2>2, <2>5, <2>9
    <3>2. ~LosesPackets(peers, c)
      BY <2>9, <3>1 DEF LosesPackets
    <3>3. d = DirectToPublic(peers, c)
      BY <2>2, <2>9, <3>2
    <3> QED BY <1>4, <2>5, <3>1, <3>3
  <2> QED BY <2>7, <2>8, <2>9
<1> QED BY <1>5, <1>6, <1>7, <1>8

\* "try prevent instant route flopping" (dr.go:211): Apply may decide again on
\* the same statistics, and with one best route a path just left is not taken
\* again, for any thresholds and whatever is lost or not yet measured.
THEOREM NoInstantFlap == Spec => []NoFlap
<1>1. IndInv => NoFlap
  <2> SUFFICES ASSUME IndInv, Cardinality(BestRoutes(peers)) = 1,
                      NEW c \in Calculate(peers, sel), NEW d \in Calculate(peers, c),
                      c.best # sel.best
               PROVE  d.best # sel.best
    BY DEF NoFlap
  <2>1. PICK new : BestRoutes(peers) = {new}
    <3>1. BestRoutes(peers) \subseteq DOMAIN peers
      <4>1. CASE DOMAIN peers = {}
        BY <4>1 DEF BestRoutes
      <4>2. CASE DOMAIN peers # {}
        BY <4>2, GroupOfPeers, GroupInfos, BestRoutesType DEF IndInv
      <4> QED BY <4>1, <4>2
    <3>2. IsFiniteSet(BestRoutes(peers))
      BY <3>1, FS_Subset DEF IndInv, Tidy
    <3> QED BY <3>2, FS_Singleton
  <2>2. DOMAIN peers # {}
    BY <2>1 DEF BestRoutes
  <2>3. /\ c = IF strategy = "speed" THEN Speed(peers, sel, new) ELSE Direct(peers, sel, new)
        /\ d = IF strategy = "speed" THEN Speed(peers, c, new) ELSE Direct(peers, c, new)
    BY <2>1 DEF Calculate
  <2>4. sel \in Selection
    BY DEF IndInv, TypeOK
  <2>5. CASE strategy = "speed"
    <3>1. d.best = new /\ c.best = new
      BY <2>3, <2>4, <2>5, SpeedStays
    <3> QED BY <3>1
  <2>6. CASE strategy # "speed"
    BY <2>1, <2>2, <2>3, <2>6, DirectStays
  <2> QED BY <2>5, <2>6
<1> QED BY <1>1, Invariance, PTL
=============================================================================
