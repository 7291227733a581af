--------------------------- MODULE SequenceLemmas ---------------------------
(***************************************************************************)
(* Induction, recursion and what it gives for sequences, stated with sets  *)
(* and functions only, so that the provers can use it.                     *)
(***************************************************************************)
EXTENDS Queues, WellFoundedInduction, TLAPS

(* A set that contains 0 and the successor of each of its numbers contains   *)
(* them all.                                                                 *)
LEMMA Induction ==
    ASSUME NEW S, 0 \in S, \A n \in Nat : n \in S => n + 1 \in S
    PROVE  \A n \in Nat : n \in S
<1> DEFINE R == OpToRel(<, Nat)
           T == Nat \ S
<1>1. IsWellFoundedOn(R, Nat)
  BY NatLessThanWellFounded
<1>2. ASSUME T # {} PROVE FALSE
  <2>1. PICK x \in T : \A y \in T : <<y, x>> \notin R
    <3> HIDE DEF R
    <3> QED
      BY <1>1, <1>2, WFMin
  <2>2. x \in Nat /\ x # 0 /\ x - 1 \in Nat
    OBVIOUS
  <2>3. <<x - 1, x>> \in R
    BY <2>2 DEF OpToRel
  <2>4. x - 1 \in S
    BY <2>1, <2>2, <2>3
  <2> QED
    BY <2>2, <2>4
<1> QED
  BY <1>2

(* The same of the numbers up to N.                                          *)
LEMMA InductionUpTo ==
    ASSUME NEW N \in Nat, NEW S, 0 \in S, \A n \in 1 .. N : n - 1 \in S => n \in S
    PROVE  \A n \in 0 .. N : n \in S
<1> DEFINE T == {n \in Nat : n <= N => n \in S}
<1>1. 0 \in T
  OBVIOUS
<1>2. ASSUME NEW n \in Nat, n \in T PROVE n + 1 \in T
  <2> SUFFICES ASSUME n + 1 <= N PROVE n + 1 \in S
    OBVIOUS
  <2>1. n + 1 \in 1 .. N /\ (n + 1) - 1 = n /\ n \in S
    BY <1>2
  <2> QED
    BY <2>1
<1>3. \A n \in Nat : n \in T
  <2> HIDE DEF T
  <2> QED
    BY <1>1, <1>2, Induction
<1> QED
  BY <1>3

(* g starts with base and goes on step by step.                              *)
StepsFrom(g, base, step, N) == g[0] = base /\ \A i \in 1 .. N : g[i] = step[i][g[i - 1]]

(* A sequence of values, each a step from the one before it, exists.         *)
LEMMA Recursion ==
    ASSUME NEW X, NEW base \in X, NEW N \in Nat, NEW step \in [1 .. N -> [X -> X]]
    PROVE  \E g \in [0 .. N -> X] : StepsFrom(g, base, step, N)
<1> DEFINE Good(g, n) == g[0] = base /\ \A i \in 1 .. n : g[i] = step[i][g[i - 1]]
           S == {n \in 0 .. N : \E g \in [0 .. n -> X] : Good(g, n)}
<1>1. 0 \in S
  <2> DEFINE g == [i \in 0 .. 0 |-> base]
  <2>1. g \in [0 .. 0 -> X] /\ Good(g, 0)
    OBVIOUS
  <2> HIDE DEF g
  <2> QED
    BY <2>1
<1>2. ASSUME NEW n \in 1 .. N, n - 1 \in S PROVE n \in S
  <2>1. PICK g \in [0 .. n - 1 -> X] : Good(g, n - 1)
    BY <1>2
  <2>2. g[n - 1] \in X
    OBVIOUS
  <2>3. PICK y \in X : y = step[n][g[n - 1]]
    BY <2>2
  <2> DEFINE h == [i \in 0 .. n |-> IF i = n THEN y ELSE g[i]]
  <2>4. h \in [0 .. n -> X] /\ h[n] = y /\ \A i \in 0 .. n - 1 : h[i] = g[i]
    OBVIOUS
  <2> HIDE DEF h
  <2>5. ASSUME NEW i \in 1 .. n PROVE h[i] = step[i][h[i - 1]]
    <3>1. i - 1 \in 0 .. n - 1 /\ h[i - 1] = g[i - 1]
      BY <2>4
    <3>2. CASE i = n
      BY <2>3, <2>4, <3>1, <3>2
    <3>3. CASE i # n
      BY <2>1, <2>4, <3>1, <3>3
    <3> QED
      BY <3>2, <3>3
  <2>6. h[0] = base
    BY <2>1, <2>4
  <2> QED
    BY <2>4, <2>5, <2>6
<1>3. \A n \in 0 .. N : n \in S
  <2> HIDE DEF S
  <2> QED
    BY <1>1, <1>2, InductionUpTo
<1>4. \E g \in [0 .. N -> X] : Good(g, N)
  BY <1>3
<1> QED
  BY <1>4 DEF StepsFrom

(* A recursion that builds a sequence step by step has a solution.           *)
LEMMA SequenceRecursion ==
    ASSUME NEW S, NEW N \in Nat, NEW step \in [1 .. N -> [Seq(S) -> Seq(S)]]
    PROVE  \E g \in [0 .. N -> Seq(S)] : StepsFrom(g, <<>>, step, N)
<1> DEFINE X == Seq(S)
           empty == <<>>
<1>1. empty \in X /\ step \in [1 .. N -> [X -> X]]
  OBVIOUS
<1> HIDE DEF X, empty
<1>2. \E g \in [0 .. N -> X] : StepsFrom(g, empty, step, N)
  BY <1>1, Recursion
<1> QED
  BY <1>2, Zenon DEF X, empty

-------------------------------------------------------------------------------
(* kept of the definition of Kept.                                           *)
KeptUpTo(s, keep, kept) ==
    kept = [n \in 0 .. Len(s) |->
               IF n = 0 THEN <<>>
               ELSE IF n \in keep THEN Append(kept[n - 1], s[n]) ELSE kept[n - 1]]

(* The recursion of Kept has a solution.                                     *)
LEMMA KeptExists ==
    ASSUME NEW S, NEW s \in Seq(S), NEW keep
    PROVE  \E g : KeptUpTo(s, keep, g)
<1> DEFINE N == Len(s)
           Next(n, x) == IF n \in keep THEN Append(x, s[n]) ELSE x
           step == [n \in 1 .. N |-> [x \in Seq(S) |-> Next(n, x)]]
<1>1. N \in Nat /\ <<>> \in Seq(S)
  OBVIOUS
<1>2. \A n \in 1 .. N, x \in Seq(S) : Next(n, x) \in Seq(S)
  OBVIOUS
<1> HIDE DEF N, Next
<1>3. step \in [1 .. N -> [Seq(S) -> Seq(S)]]
  BY <1>2
<1>a. \A n \in 1 .. N, x \in Seq(S) : step[n][x] = Next(n, x)
  OBVIOUS
<1> HIDE DEF step
<1>4. PICK g \in [0 .. N -> Seq(S)] : g[0] = <<>> /\ \A i \in 1 .. N : g[i] = step[i][g[i - 1]]
  <2>1. N \in Nat
    BY <1>1
  <2>2. PICK g \in [0 .. N -> Seq(S)] : StepsFrom(g, <<>>, step, N)
    BY <1>3, <2>1, SequenceRecursion
  <2> QED
    BY <2>2, Zenon DEF StepsFrom
<1>5. ASSUME NEW n \in 0 .. N PROVE g[n] = IF n = 0 THEN <<>> ELSE Next(n, g[n - 1])
  <2>1. CASE n = 0
    BY <1>4, <2>1
  <2>2. CASE n # 0
    <3>1. n \in 1 .. N /\ n - 1 \in 0 .. N
      BY <1>1, <2>2
    <3> QED
      BY <1>a, <1>4, <2>2, <3>1
  <2> QED
    BY <2>1, <2>2
<1>6. g = [n \in 0 .. N |-> IF n = 0 THEN <<>> ELSE Next(n, g[n - 1])]
  BY <1>5
<1> QED
  BY <1>6 DEF KeptUpTo, N, Next

(* Its values are sequences over the set of the filtered one.                *)
LEMMA KeptTyped ==
    ASSUME NEW S, NEW s \in Seq(S), NEW keep, NEW kept, KeptUpTo(s, keep, kept)
    PROVE  /\ kept \in [0 .. Len(s) -> Seq(S)]
           /\ kept[0] = <<>>
           /\ \A n \in 1 .. Len(s) :
                 kept[n] = IF n \in keep THEN Append(kept[n - 1], s[n]) ELSE kept[n - 1]
<1>0. Len(s) \in Nat /\ <<>> \in Seq(S)
  OBVIOUS
<1>1. kept[0] = <<>>
  BY <1>0 DEF KeptUpTo
<1>2. ASSUME NEW n \in 1 .. Len(s)
      PROVE  kept[n] = IF n \in keep THEN Append(kept[n - 1], s[n]) ELSE kept[n - 1]
  <2>1. n \in 0 .. Len(s) /\ n # 0
    BY <1>0
  <2> QED
    BY <2>1 DEF KeptUpTo
<1> DEFINE T == {n \in 0 .. Len(s) : kept[n] \in Seq(S)}
<1>3. 0 \in T
  <2>1. 0 \in 0 .. Len(s)
    BY <1>0
  <2> QED
    BY <1>0, <1>1, <2>1, Zenon
<1>4. ASSUME NEW n \in 1 .. Len(s), n - 1 \in T PROVE n \in T
  <2>1. n \in 0 .. Len(s) /\ s[n] \in S /\ kept[n - 1] \in Seq(S)
    BY <1>0, <1>4
  <2>2. Append(kept[n - 1], s[n]) \in Seq(S)
    BY <2>1
  <2>3. kept[n] \in Seq(S)
    BY <1>2, <2>1, <2>2, Zenon
  <2> QED
    BY <2>1, <2>3
<1>5. \A n \in 0 .. Len(s) : n \in T
  <2> HIDE DEF T
  <2> QED
    BY <1>0, <1>3, <1>4, InductionUpTo
<1>6. kept = [n \in 0 .. Len(s) |-> kept[n]]
  BY DEF KeptUpTo
<1> QED
  BY <1>1, <1>2, <1>5, <1>6

(* So Kept is the last value of its recursion.                               *)
LEMMA KeptRecursion ==
    ASSUME NEW S, NEW s \in Seq(S), NEW keep
    PROVE  \E kept : KeptUpTo(s, keep, kept) /\ Kept(s, keep) = kept[Len(s)]
<1> DEFINE kept == CHOOSE g : KeptUpTo(s, keep, g)
<1>1. KeptUpTo(s, keep, kept)
  BY KeptExists
<1>2. Kept(s, keep) = kept[Len(s)]
  BY DEF Kept, KeptUpTo
<1> QED
  BY <1>1, <1>2

(* Every element of k is the one of s at a position in keep, in the order of *)
(* the positions, and none of these is left out.                             *)
Selects(at, k, s, keep) ==
    /\ \A i \in 1 .. Len(k) : at[i] \in keep /\ k[i] = s[at[i]]
    /\ \A i, j \in 1 .. Len(k) : i < j => at[i] < at[j]
    /\ \A m \in keep \cap (1 .. Len(s)) : \E i \in 1 .. Len(k) : at[i] = m

(* What is left of a sequence: each position of it in the sequence, the      *)
(* positions in their order, and all that were to be kept.                   *)
LEMMA KeptPositions ==
    ASSUME NEW S, NEW s \in Seq(S), NEW keep
    PROVE  /\ Kept(s, keep) \in Seq(S)
           /\ \E at \in [1 .. Len(Kept(s, keep)) -> 1 .. Len(s)] : Selects(at, Kept(s, keep), s, keep)
<1>1. PICK kept : KeptUpTo(s, keep, kept) /\ Kept(s, keep) = kept[Len(s)]
  BY KeptRecursion
<1>2. /\ kept \in [0 .. Len(s) -> Seq(S)]
      /\ kept[0] = <<>>
      /\ \A n \in 1 .. Len(s) :
            kept[n] = IF n \in keep THEN Append(kept[n - 1], s[n]) ELSE kept[n - 1]
  BY <1>1, KeptTyped
<1> DEFINE Fits(n, k, at) ==
              /\ \A i \in 1 .. Len(k) : at[i] \in keep /\ k[i] = s[at[i]]
              /\ \A i, j \in 1 .. Len(k) : i < j => at[i] < at[j]
              /\ \A m \in keep \cap (1 .. n) : \E i \in 1 .. Len(k) : at[i] = m
           T == {n \in 0 .. Len(s) : \E at \in [1 .. Len(kept[n]) -> 1 .. n] : Fits(n, kept[n], at)}
<1>3. Len(s) \in Nat
  OBVIOUS
<1>4. 0 \in T
  <2> DEFINE at == [i \in {} |-> 0]
  <2>1. Len(kept[0]) = 0 /\ 1 .. 0 = {} /\ 0 \in 0 .. Len(s)
    BY <1>2, <1>3
  <2>2. at \in [{} -> {}]
    OBVIOUS
  <2>3. Fits(0, kept[0], at)
    BY <2>1
  <2> HIDE DEF at, Fits
  <2>4. \E a \in [1 .. Len(kept[0]) -> 1 .. 0] : Fits(0, kept[0], a)
    BY <2>1, <2>2, <2>3
  <2> QED
    BY <2>1, <2>4
<1>5. ASSUME NEW n \in 1 .. Len(s), n - 1 \in T PROVE n \in T
  <2>0. n \in 0 .. Len(s) /\ n - 1 \in 0 .. Len(s) /\ n \in Nat
    BY <1>3
  <2> DEFINE k == kept[n - 1]
             l == kept[n]
  <2>1. PICK at \in [1 .. Len(k) -> 1 .. n - 1] : Fits(n - 1, k, at)
    BY <1>5
  <2>2. k \in Seq(S) /\ Len(k) \in Nat /\ s[n] \in S
    BY <1>2, <2>0
  <2>3. l = IF n \in keep THEN Append(k, s[n]) ELSE k
    BY <1>2
  <2> HIDE DEF k, l
  <2> SUFFICES \E a \in [1 .. Len(l) -> 1 .. n] : Fits(n, l, a)
    BY <2>0 DEF l
  <2>4. CASE n \notin keep
    <3>1. l = k
      BY <2>3, <2>4
    <3>2. at \in [1 .. Len(k) -> 1 .. n]
      BY <2>0, <2>1
    <3>3. Fits(n, k, at)
      BY <2>0, <2>1, <2>4
    <3> HIDE DEF Fits
    <3> QED
      BY <3>1, <3>2, <3>3
  <2>5. CASE n \in keep
    <3>1. /\ Len(l) = Len(k) + 1
          /\ l[Len(k) + 1] = s[n]
          /\ \A i \in 1 .. Len(k) : l[i] = k[i]
      BY <2>2, <2>3, <2>5
    <3> DEFINE b == [i \in 1 .. Len(k) + 1 |-> IF i = Len(k) + 1 THEN n ELSE at[i]]
    <3>6. \A i \in 1 .. Len(k) : at[i] \in 1 .. n - 1 /\ at[i] \in 1 .. n
      BY <2>0, <2>1
    <3>7. n \in 1 .. n
      BY <2>0
    <3>8. \A i \in 1 .. Len(k) + 1 : i # Len(k) + 1 => i \in 1 .. Len(k)
      BY <2>2
    <3>9. b \in [1 .. Len(k) + 1 -> 1 .. n]
      BY <3>6, <3>7, <3>8
    <3>2. /\ b[Len(k) + 1] = n
          /\ \A i \in 1 .. Len(k) : b[i] = at[i] /\ at[i] \in 1 .. n - 1
      BY <2>2, <3>6
    <3> HIDE DEF b
    <3>3. \A i \in 1 .. Len(l) : b[i] \in keep /\ l[i] = s[b[i]]
      BY <2>1, <2>2, <2>5, <3>1, <3>2
    <3>4. ASSUME NEW i \in 1 .. Len(l), NEW j \in 1 .. Len(l), i < j PROVE b[i] < b[j]
      <4>1. i \in 1 .. Len(k) /\ (j \in 1 .. Len(k) \/ j = Len(k) + 1)
        <5>1. PICK x \in Nat : x = Len(k) /\ Len(l) = x + 1
          BY <2>2, <3>1
        <5> QED
          BY <3>4, <5>1
      <4>2. b[i] \in 1 .. n - 1
        BY <3>2, <4>1
      <4>3. CASE j = Len(k) + 1
        BY <2>0, <3>2, <4>2, <4>3
      <4>4. CASE j \in 1 .. Len(k)
        BY <2>1, <3>2, <3>4, <4>1, <4>4
      <4> QED
        BY <4>1, <4>3, <4>4
    <3>5. ASSUME NEW m \in keep \cap (1 .. n) PROVE \E i \in 1 .. Len(l) : b[i] = m
      <4>1. CASE m = n
        BY <2>2, <3>1, <3>2, <4>1
      <4>2. CASE m # n
        <5>1. m \in keep \cap (1 .. n - 1)
          BY <2>0, <4>2
        <5>2. PICK i \in 1 .. Len(k) : at[i] = m
          BY <2>1, <5>1
        <5> QED
          BY <2>2, <3>1, <3>2, <5>2
      <4> QED
        BY <4>1, <4>2
    <3> QED
      BY <3>1, <3>9, <3>3, <3>4, <3>5
  <2> QED
    BY <2>4, <2>5
<1>6. Len(s) \in T
  <2>1. \A n \in 0 .. Len(s) : n \in T
    <3> HIDE DEF T
    <3> QED
      BY <1>3, <1>4, <1>5, InductionUpTo
  <2> QED
    BY <1>3, <2>1
<1>7. kept[Len(s)] \in Seq(S)
  BY <1>2, <1>3
<1>8. \E at \in [1 .. Len(kept[Len(s)]) -> 1 .. Len(s)] : Selects(at, kept[Len(s)], s, keep)
  BY <1>6, Zenon DEF Selects
<1> QED
  BY <1>1, <1>7, <1>8, Zenon

(* What is left of a sequence, as a set of elements.                         *)
LEMMA KeptElements ==
    ASSUME NEW S, NEW s \in Seq(S), NEW keep
    PROVE  /\ Kept(s, keep) \in Seq(S)
           /\ \A i \in DOMAIN Kept(s, keep) :
                 \E k \in keep \cap DOMAIN s : Kept(s, keep)[i] = s[k]
           /\ \A k \in keep \cap DOMAIN s :
                 \E i \in DOMAIN Kept(s, keep) : Kept(s, keep)[i] = s[k]
<1> DEFINE k == Kept(s, keep)
<1>1. PICK at \in [1 .. Len(k) -> 1 .. Len(s)] :
         /\ \A i \in 1 .. Len(k) : at[i] \in keep /\ k[i] = s[at[i]]
         /\ \A i, j \in 1 .. Len(k) : i < j => at[i] < at[j]
         /\ \A m \in keep \cap (1 .. Len(s)) : \E i \in 1 .. Len(k) : at[i] = m
  BY KeptPositions DEF Selects
<1>2. k \in Seq(S)
  BY KeptPositions DEF Selects
<1> HIDE DEF k
<1>3. DOMAIN k = 1 .. Len(k) /\ DOMAIN s = 1 .. Len(s)
  BY <1>2
<1>4. \A i \in 1 .. Len(k) : \E m \in keep \cap (1 .. Len(s)) : k[i] = s[m]
  BY <1>1
<1>5. \A m \in keep \cap (1 .. Len(s)) : \E i \in 1 .. Len(k) : k[i] = s[m]
  BY <1>1
<1> QED
  BY <1>2, <1>3, <1>4, <1>5 DEF k

(* A value behind a sequence is kept or not, whatever becomes of the others. *)
LEMMA KeptAppend ==
    ASSUME NEW S, NEW s \in Seq(S), NEW x \in S, NEW keep, NEW later,
           later \cap DOMAIN s = keep \cap DOMAIN s
    PROVE  Kept(Append(s, x), later) =
              IF Len(s) + 1 \in later THEN Append(Kept(s, keep), x) ELSE Kept(s, keep)
<1>0. PICK t : t \in Seq(S) /\ t = Append(s, x)
  <2>1. Append(s, x) \in Seq(S)
    OBVIOUS
  <2> QED
    BY <2>1, Zenon
<1>1. t \in Seq(S) /\ Len(t) = Len(s) + 1 /\ Len(s) \in Nat
      /\ t[Len(s) + 1] = x /\ \A i \in 1 .. Len(s) : t[i] = s[i]
  BY <1>0
<1>2. PICK f : KeptUpTo(s, keep, f) /\ Kept(s, keep) = f[Len(s)]
  BY KeptRecursion
<1>3. PICK g : KeptUpTo(t, later, g) /\ Kept(t, later) = g[Len(t)]
  BY <1>1, KeptRecursion
<1>4. /\ f \in [0 .. Len(s) -> Seq(S)] /\ f[0] = <<>>
      /\ \A n \in 1 .. Len(s) : f[n] = IF n \in keep THEN Append(f[n - 1], s[n]) ELSE f[n - 1]
  BY <1>2, KeptTyped
<1>5. /\ g \in [0 .. Len(t) -> Seq(S)] /\ g[0] = <<>>
      /\ \A n \in 1 .. Len(t) : g[n] = IF n \in later THEN Append(g[n - 1], t[n]) ELSE g[n - 1]
  <2>1. t \in Seq(S)
    BY <1>1
  <2> QED
    BY <1>3, <2>1, KeptTyped
<1> DEFINE T == {n \in 0 .. Len(s) : g[n] = f[n]}
<1>6. 0 \in T
  <2>1. 0 \in 0 .. Len(s) /\ g[0] = f[0]
    BY <1>1, <1>4, <1>5
  <2> QED
    BY <2>1
<1>7. ASSUME NEW n \in 1 .. Len(s), n - 1 \in T PROVE n \in T
  <2>1. n \in 0 .. Len(s) /\ n \in 1 .. Len(t) /\ t[n] = s[n] /\ g[n - 1] = f[n - 1]
    BY <1>1, <1>7
  <2>2. n \in later <=> n \in keep
    BY <1>1
  <2>3. g[n] = f[n]
    BY <1>4, <1>5, <2>1, <2>2, Zenon
  <2> QED
    BY <2>1, <2>3
<1>8. g[Len(s)] = f[Len(s)]
  <2>1. \A n \in 0 .. Len(s) : n \in T
    <3> HIDE DEF T
    <3> QED
      BY <1>1, <1>6, <1>7, InductionUpTo
  <2>2. Len(s) \in 0 .. Len(s)
    BY <1>1
  <2> QED
    BY <2>1, <2>2
<1>9. g[Len(t)] = IF Len(s) + 1 \in later THEN Append(f[Len(s)], x) ELSE f[Len(s)]
  <2>1. Len(s) + 1 \in 1 .. Len(t) /\ (Len(s) + 1) - 1 = Len(s)
    BY <1>1
  <2> QED
    BY <1>1, <1>5, <1>8, <2>1, Zenon
<1> QED
  BY <1>0, <1>2, <1>3, <1>9, Zenon

(* Its length counts the positions kept.                                     *)
LEMMA KeptLength ==
    ASSUME NEW S, NEW s \in Seq(S), NEW keep
    PROVE  \E l \in [0 .. Len(s) -> Nat] :
              /\ l[0] = 0
              /\ \A n \in 1 .. Len(s) : l[n] = IF n \in keep THEN l[n - 1] + 1 ELSE l[n - 1]
              /\ Len(Kept(s, keep)) = l[Len(s)]
<1>1. PICK f : KeptUpTo(s, keep, f) /\ Kept(s, keep) = f[Len(s)]
  BY KeptRecursion
<1>2. /\ f \in [0 .. Len(s) -> Seq(S)] /\ f[0] = <<>>
      /\ \A n \in 1 .. Len(s) : f[n] = IF n \in keep THEN Append(f[n - 1], s[n]) ELSE f[n - 1]
  BY <1>1, KeptTyped
<1>3. Len(s) \in Nat /\ \A n \in 1 .. Len(s) : s[n] \in S /\ n \in 0 .. Len(s) /\ n - 1 \in 0 .. Len(s)
  OBVIOUS
<1>4. \A u \in Seq(S), x \in S : Len(u) \in Nat /\ Len(Append(u, x)) = Len(u) + 1
  OBVIOUS
<1> DEFINE l == [n \in 0 .. Len(s) |-> Len(f[n])]
<1>5. l \in [0 .. Len(s) -> Nat]
  BY <1>2, <1>4
<1>6. l[0] = 0 /\ l[Len(s)] = Len(Kept(s, keep))
  BY <1>1, <1>2, <1>3
<1>7. ASSUME NEW n \in 1 .. Len(s)
      PROVE  l[n] = IF n \in keep THEN l[n - 1] + 1 ELSE l[n - 1]
  <2>1. f[n - 1] \in Seq(S) /\ l[n] = Len(f[n]) /\ l[n - 1] = Len(f[n - 1])
    BY <1>2, <1>3
  <2> HIDE DEF l
  <2>2. CASE n \in keep
    <3>1. f[n] = Append(f[n - 1], s[n])
      BY <1>2, <2>2
    <3>2. Len(Append(f[n - 1], s[n])) = Len(f[n - 1]) + 1
      BY <1>3, <1>4, <2>1
    <3> QED
      BY <2>1, <2>2, <3>1, <3>2, Zenon
  <2>3. CASE n \notin keep
    BY <1>2, <2>1, <2>3, Zenon
  <2> QED
    BY <2>2, <2>3
<1> QED
  <2> HIDE DEF l
  <2> QED
    BY <1>5, <1>6, <1>7

(* Two ways to select that exclude each other add up.                        *)
LEMMA KeptSplit ==
    ASSUME NEW S, NEW s \in Seq(S), NEW keep, NEW one, NEW other,
           \A n \in DOMAIN s : /\ n \in keep <=> n \in one \/ n \in other
                               /\ ~(n \in one /\ n \in other)
    PROVE  Len(Kept(s, keep)) = Len(Kept(s, one)) + Len(Kept(s, other))
<1>1. Len(s) \in Nat /\ DOMAIN s = 1 .. Len(s)
  OBVIOUS
<1>2. PICK f \in [0 .. Len(s) -> Nat] :
         /\ f[0] = 0
         /\ \A n \in 1 .. Len(s) : f[n] = IF n \in keep THEN f[n - 1] + 1 ELSE f[n - 1]
         /\ Len(Kept(s, keep)) = f[Len(s)]
  BY KeptLength
<1>3. PICK g \in [0 .. Len(s) -> Nat] :
         /\ g[0] = 0
         /\ \A n \in 1 .. Len(s) : g[n] = IF n \in one THEN g[n - 1] + 1 ELSE g[n - 1]
         /\ Len(Kept(s, one)) = g[Len(s)]
  BY KeptLength
<1>4. PICK h \in [0 .. Len(s) -> Nat] :
         /\ h[0] = 0
         /\ \A n \in 1 .. Len(s) : h[n] = IF n \in other THEN h[n - 1] + 1 ELSE h[n - 1]
         /\ Len(Kept(s, other)) = h[Len(s)]
  BY KeptLength
<1> DEFINE N == Len(s)
           T == {n \in 0 .. N : f[n] = g[n] + h[n]}
<1>5. 0 \in T
  BY <1>1, <1>2, <1>3, <1>4
<1>6. ASSUME NEW n \in 1 .. N, n - 1 \in T PROVE n \in T
  <2>1. n \in 0 .. N /\ n - 1 \in 0 .. N /\ n \in DOMAIN s
    BY <1>1
  <2>3. f[n - 1] = g[n - 1] + h[n - 1] /\ f[n - 1] \in Nat /\ g[n - 1] \in Nat /\ h[n - 1] \in Nat
    BY <1>6, <2>1
  <2>4. /\ f[n] = IF n \in keep THEN f[n - 1] + 1 ELSE f[n - 1]
        /\ g[n] = IF n \in one THEN g[n - 1] + 1 ELSE g[n - 1]
        /\ h[n] = IF n \in other THEN h[n - 1] + 1 ELSE h[n - 1]
    BY <1>2, <1>3, <1>4
  <2>2. f[n] = g[n] + h[n]
    BY <2>1, <2>3, <2>4
  <2> QED
    BY <2>1, <2>2
<1>7. \A n \in 0 .. N : n \in T
  <2> HIDE DEF T
  <2> QED
    BY <1>1, <1>5, <1>6, InductionUpTo
<1>8. f[N] = g[N] + h[N]
  BY <1>1, <1>7
<1> QED
  BY <1>2, <1>3, <1>4, <1>8

-------------------------------------------------------------------------------
(* A sequence of texts, put together one after the other.                    *)
LEMMA Flattened ==
    ASSUME NEW S, NEW seqs \in Seq(Seq(S))
    PROVE  \E f \in [0 .. Len(seqs) -> Seq(S)] :
              /\ f[0] = <<>>
              /\ \A n \in 1 .. Len(seqs) : f[n] = f[n - 1] \o seqs[n]
              /\ FlattenSeq(seqs) = f[Len(seqs)]
<1> DEFINE N == Len(seqs)
           Next(n, x) == x \o seqs[n]
           step == [n \in 1 .. N |-> [x \in Seq(S) |-> Next(n, x)]]
<1>1. N \in Nat /\ <<>> \in Seq(S)
  OBVIOUS
<1>2. \A n \in 1 .. N, x \in Seq(S) : Next(n, x) \in Seq(S)
  OBVIOUS
<1>3. \A x \in Seq(S) : <<>> \o x = x
  OBVIOUS
<1>4. \A n \in 1 .. N : seqs[n] \in Seq(S)
  OBVIOUS
<1> HIDE DEF Next
<1>5. step \in [1 .. N -> [Seq(S) -> Seq(S)]]
  <2> HIDE DEF N
  <2> QED
    BY <1>2
<1>6. \A n \in 1 .. N, x \in Seq(S) : step[n][x] = Next(n, x)
  OBVIOUS
<1> HIDE DEF N, step
<1>7. PICK f \in [0 .. N -> Seq(S)] : f[0] = <<>> /\ \A n \in 1 .. N : f[n] = step[n][f[n - 1]]
  <2>1. N \in Nat
    BY <1>1
  <2>2. PICK f \in [0 .. N -> Seq(S)] : StepsFrom(f, <<>>, step, N)
    BY <1>5, <2>1, SequenceRecursion
  <2> QED
    BY <2>2, Zenon DEF StepsFrom
<1>8. ASSUME NEW n \in 1 .. N PROVE f[n] = f[n - 1] \o seqs[n]
  <2>1. n - 1 \in 0 .. N
    BY <1>1
  <2> QED
    BY <1>6, <1>7, <2>1 DEF Next
(* The same function from 1 on is the one FlattenSeq chooses.                *)
<1> DEFINE Is(g) == g = [i \in 1 .. N |-> IF i = 1 THEN seqs[i] ELSE g[i - 1] \o seqs[i]]
           h == [i \in 1 .. N |-> f[i]]
           flatten == CHOOSE g : Is(g)
<1>9. Is(h)
  <2>1. ASSUME NEW i \in 1 .. N PROVE f[i] = IF i = 1 THEN seqs[i] ELSE h[i - 1] \o seqs[i]
    <3>1. CASE i = 1
      <4>1. f[1] = f[0] \o seqs[1] /\ f[0] = <<>> /\ seqs[1] \in Seq(S)
        <5>1. 1 \in 1 .. N /\ 1 - 1 = 0
          BY <3>1
        <5>2. f[1] = f[1 - 1] \o seqs[1]
          BY <1>8, <5>1
        <5> QED
          BY <1>4, <1>7, <5>1, <5>2, Zenon
      <4> QED
        BY <1>3, <3>1, <4>1, Zenon
    <3>2. CASE i # 1
      <4>1. i - 1 \in 1 .. N
        BY <1>1, <3>2
      <4> QED
        BY <1>8, <3>2, <4>1
    <3> QED
      BY <3>1, <3>2
  <2> QED
    BY <2>1
<1>a. Is(flatten)
  <2> HIDE DEF Is
  <2> QED
    BY <1>9
<1>b. FlattenSeq(seqs) = IF N = 0 THEN seqs ELSE flatten[N]
  BY DEF FlattenSeq, N
<1> HIDE DEF flatten
<1> DEFINE T == {n \in 0 .. N : n = 0 \/ flatten[n] = f[n]}
<1>c. 0 \in T
  BY <1>1
<1>d. ASSUME NEW n \in 1 .. N, n - 1 \in T PROVE n \in T
  <2>1. flatten[n] = IF n = 1 THEN seqs[n] ELSE flatten[n - 1] \o seqs[n]
    BY <1>a
  <2>2. f[n] = IF n = 1 THEN seqs[n] ELSE h[n - 1] \o seqs[n]
    <3>1. h[n] = IF n = 1 THEN seqs[n] ELSE h[n - 1] \o seqs[n]
      BY <1>9, Zenon
    <3>2. h[n] = f[n]
      OBVIOUS
    <3> QED
      BY <3>1, <3>2, Zenon
  <2>3. n # 1 => n - 1 \in 1 .. N /\ h[n - 1] = f[n - 1] /\ flatten[n - 1] = f[n - 1]
    BY <1>1, <1>d
  <2>4. flatten[n] = f[n]
    <3> HIDE DEF h
    <3> QED
      BY <2>1, <2>2, <2>3, Zenon
  <2>5. n \in 0 .. N
    BY <1>1
  <2> QED
    BY <2>4, <2>5
<1>e. N \in T
  <2>1. \A n \in 0 .. N : n \in T
    <3> HIDE DEF T
    <3> QED
      BY <1>1, <1>c, <1>d, InductionUpTo
  <2> QED
    BY <1>1, <2>1
<1>f. FlattenSeq(seqs) = f[N]
  <2>1. CASE N = 0
    <3>1. seqs = <<>>
      BY <2>1 DEF N
    <3> QED
      BY <1>7, <1>b, <2>1, <3>1, Zenon
  <2>2. CASE N # 0
    BY <1>b, <1>e, <2>2
  <2> QED
    BY <2>1, <2>2
<1> QED
  BY <1>7, <1>8, <1>f DEF N

FlatUpTo(seqs, f, S) ==
    /\ f \in [0 .. Len(seqs) -> Seq(S)]
    /\ f[0] = <<>>
    /\ \A n \in 1 .. Len(seqs) : f[n] = f[n - 1] \o seqs[n]

(* Flattening is the last value of its recursion, and typed.                 *)
LEMMA Flat ==
    ASSUME NEW S, NEW seqs \in Seq(Seq(S))
    PROVE  /\ FlattenSeq(seqs) \in Seq(S)
           /\ \E f : FlatUpTo(seqs, f, S) /\ FlattenSeq(seqs) = f[Len(seqs)]
<1>1. PICK f : FlatUpTo(seqs, f, S) /\ FlattenSeq(seqs) = f[Len(seqs)]
  BY Flattened DEF FlatUpTo
<1>2. f[Len(seqs)] \in Seq(S)
  BY <1>1 DEF FlatUpTo
<1> QED
  BY <1>1, <1>2

(* A sequence appended is appended to the flat one.                          *)
LEMMA FlattenAppend ==
    ASSUME NEW S, NEW seqs \in Seq(Seq(S)), NEW x \in Seq(S)
    PROVE  FlattenSeq(Append(seqs, x)) = FlattenSeq(seqs) \o x
<1>0. PICK more : more \in Seq(Seq(S)) /\ more = Append(seqs, x)
  <2>1. Append(seqs, x) \in Seq(Seq(S))
    OBVIOUS
  <2> QED
    BY <2>1, Zenon
<1>1. /\ Len(more) = Len(seqs) + 1 /\ Len(seqs) \in Nat
      /\ more[Len(seqs) + 1] = x /\ \A i \in 1 .. Len(seqs) : more[i] = seqs[i]
  BY <1>0
<1>2. PICK f : FlatUpTo(seqs, f, S) /\ FlattenSeq(seqs) = f[Len(seqs)]
  BY Flat
<1>3. PICK g : FlatUpTo(more, g, S) /\ FlattenSeq(more) = g[Len(more)]
  BY <1>0, Flat
<1> DEFINE N == Len(seqs)
           T == {n \in 0 .. N : g[n] = f[n]}
<1>4. 0 \in T
  <2>1. 0 \in 0 .. N
    BY <1>1
  <2>2. g[0] = f[0]
    BY <1>2, <1>3, Zenon DEF FlatUpTo
  <2> QED
    BY <2>1, <2>2
<1>5. ASSUME NEW n \in 1 .. N, n - 1 \in T PROVE n \in T
  <2>1. n \in 0 .. N /\ n \in 1 .. Len(more) /\ more[n] = seqs[n] /\ g[n - 1] = f[n - 1]
    BY <1>1, <1>5
  <2>2. g[n] = g[n - 1] \o more[n] /\ f[n] = f[n - 1] \o seqs[n]
    BY <1>2, <1>3, <2>1 DEF FlatUpTo
  <2> QED
    BY <2>1, <2>2
<1>6. \A n \in 0 .. N : n \in T
  <2> HIDE DEF T
  <2> QED
    BY <1>1, <1>4, <1>5, InductionUpTo
<1>7. g[N] = f[N]
  BY <1>1, <1>6
<1>8. g[Len(more)] = g[N] \o x
  <2>1. N + 1 \in 1 .. Len(more) /\ (N + 1) - 1 = N
    BY <1>1
  <2>2. g[N + 1] = g[(N + 1) - 1] \o more[N + 1]
    BY <1>3, <2>1 DEF FlatUpTo
  <2> QED
    BY <1>1, <2>1, <2>2
<1> QED
  BY <1>0, <1>2, <1>3, <1>7, <1>8, Zenon

(* The first sequence comes first in the flat one.                           *)
LEMMA FlattenHead ==
    ASSUME NEW S, NEW seqs \in Seq(Seq(S)), seqs # <<>>
    PROVE  FlattenSeq(seqs) = Head(seqs) \o FlattenSeq(Tail(seqs))
<1>0. PICK rest : rest \in Seq(Seq(S)) /\ rest = Tail(seqs)
  <2>1. Tail(seqs) \in Seq(Seq(S))
    OBVIOUS
  <2> QED
    BY <2>1, Zenon
<1>1. /\ Len(seqs) = Len(rest) + 1 /\ Len(rest) \in Nat
      /\ seqs[1] = Head(seqs) /\ Head(seqs) \in Seq(S)
      /\ \A i \in 1 .. Len(rest) : rest[i] = seqs[i + 1] /\ rest[i] \in Seq(S)
  BY <1>0
<1>2. PICK f : FlatUpTo(seqs, f, S) /\ FlattenSeq(seqs) = f[Len(seqs)]
  BY Flat
<1>3. PICK g : FlatUpTo(rest, g, S) /\ FlattenSeq(rest) = g[Len(rest)]
  BY <1>0, Flat
<1> DEFINE N == Len(rest)
           h == Head(seqs)
           T == {n \in 0 .. N : f[n + 1] = h \o g[n]}
<1>4. 0 \in T
  <2>1. 0 \in 0 .. N /\ 1 \in 1 .. Len(seqs) /\ 1 - 1 = 0 /\ 0 + 1 = 1
    BY <1>1
  <2>2. f[1] = f[1 - 1] \o seqs[1]
    BY <1>2, <2>1 DEF FlatUpTo
  <2>3. f[0] = <<>> /\ g[0] = <<>>
    BY <1>2, <1>3 DEF FlatUpTo
  <2>4. <<>> \o h = h /\ h \o <<>> = h
    BY <1>1
  <2>5. f[1] = h \o g[0]
    BY <1>1, <2>1, <2>2, <2>3, <2>4, Zenon
  <2> QED
    BY <2>1, <2>5
<1>5. ASSUME NEW n \in 1 .. N, n - 1 \in T PROVE n \in T
  <2>1. /\ n \in 0 .. N /\ n - 1 \in 0 .. N /\ n + 1 \in 1 .. Len(seqs)
        /\ (n - 1) + 1 = n /\ (n + 1) - 1 = n /\ rest[n] = seqs[n + 1] /\ rest[n] \in Seq(S)
    BY <1>1
  <2>2. f[n + 1] = f[(n + 1) - 1] \o seqs[n + 1]
    BY <1>2, <2>1 DEF FlatUpTo
  <2>3. f[(n - 1) + 1] = h \o g[n - 1]
    BY <1>5
  <2>4. g[n] = g[n - 1] \o rest[n] /\ g[n - 1] \in Seq(S)
    BY <1>3, <2>1 DEF FlatUpTo
  <2> HIDE DEF h
  <2>5. \A u, v, w \in Seq(S) : (u \o v) \o w = u \o (v \o w)
    OBVIOUS
  <2>6. h \in Seq(S)
    BY <1>1 DEF h
  <2>7. (h \o g[n - 1]) \o rest[n] = h \o (g[n - 1] \o rest[n])
    BY <2>1, <2>4, <2>5, <2>6
  <2>8. f[n + 1] = h \o g[n]
    BY <2>1, <2>2, <2>3, <2>4, <2>7, Zenon
  <2> QED
    BY <2>1, <2>8
<1>6. \A n \in 0 .. N : n \in T
  <2> HIDE DEF T
  <2> QED
    BY <1>1, <1>4, <1>5, InductionUpTo
<1>7. f[N + 1] = h \o g[N]
  <2>1. N \in 0 .. N
    BY <1>1
  <2>2. N \in T
    BY <1>6, <2>1, Zenon
  <2> QED
    BY <2>2, Zenon
<1>8. f[Len(seqs)] = h \o g[N]
  BY <1>1, <1>7
<1> QED
  BY <1>0, <1>2, <1>3, <1>8, Zenon

===============================================================================
