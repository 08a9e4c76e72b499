---------------------------- MODULE ProofBasics ----------------------------
(***************************************************************************)
(* Induction over the natural numbers, stated for sets, and the recursive  *)
(* functions that it gives: f[i \in 0 .. n] defined from f[i - 1] exists,  *)
(* so that the proofs of the other modules may unfold it; and what is in   *)
(* sequences that are put together.                                        *)
(*                                                                         *)
(* The intervals 0 .. k are finite sets, and the strict subsets of a       *)
(* finite set are well founded: a set of numbers has a least one.          *)
(***************************************************************************)
EXTENDS Integers, Sequences, FiniteSetTheorems, WellFoundedInduction, TLAPS

\* Every set of natural numbers that is not empty has a least element.
LEMMA LeastNumber ==
  ASSUME NEW T \in SUBSET Nat, T # {}
  PROVE  \E n \in T : \A m \in T : n <= m
  <1> DEFINE intervals == {0 .. k : k \in T}
             smaller == StrictSubsetOrdering(Nat)
  <1>1. IsWellFoundedOn(smaller, FiniteSubsetsOf(Nat))
    BY FS_StrictSubsetOrderingWellFounded
  <1>2. intervals \subseteq FiniteSubsetsOf(Nat)
    <2> SUFFICES ASSUME NEW k \in T PROVE 0 .. k \in FiniteSubsetsOf(Nat)
      OBVIOUS
    <2>1. IsFiniteSet(0 .. k)
      BY FS_Interval
    <2>2. 0 .. k \in SUBSET Nat
      OBVIOUS
    <2> QED BY <2>1, <2>2 DEF FiniteSubsetsOf
  <1>3. intervals # {}
    OBVIOUS
  <1>4. PICK x \in intervals : \A y \in intervals : <<y, x>> \notin smaller
    <2> HIDE DEF intervals, smaller
    <2> QED BY <1>1, <1>2, <1>3, WFMin
  <1>5. PICK n \in T : x = 0 .. n
    OBVIOUS
  <1>6. ASSUME NEW m \in T, m < n
        PROVE  FALSE
    <2>1. n \in 0 .. n /\ n \notin 0 .. m
      BY <1>6
    <2>2. 0 .. m \subseteq 0 .. n /\ 0 .. m # 0 .. n
      BY <1>6, <2>1
    <2>3. 0 .. m \in SUBSET Nat /\ 0 .. n \in SUBSET Nat
      OBVIOUS
    <2>4. <<0 .. m, 0 .. n>> \in smaller
      BY <2>2, <2>3 DEF StrictSubsetOrdering
    <2> QED BY <1>4, <1>5, <2>4
  <1> QED BY <1>6

\* Induction: a set that has 0, and with every number up to n the next one, has all numbers
\* up to n.
LEMMA UpTo ==
  ASSUME NEW n \in Nat, NEW S, 0 \in S, \A i \in 0 .. n - 1 : i \in S => i + 1 \in S
  PROVE  0 .. n \subseteq S
  <1> SUFFICES ASSUME (0 .. n) \ S # {} PROVE FALSE
    OBVIOUS
  <1>1. PICK k \in (0 .. n) \ S : \A m \in (0 .. n) \ S : k <= m
    <2>1. (0 .. n) \ S \in SUBSET Nat
      OBVIOUS
    <2> QED BY <2>1, LeastNumber
  <1>2. k # 0 /\ k - 1 \in 0 .. n - 1
    BY <1>1
  <1>3. k - 1 \in S
    BY <1>1, <1>2
  <1> QED BY <1>1, <1>2, <1>3

\* f is defined by its value at 0 and by what each value makes of the one before.
Unfolds(f, n, first, next) == f[0] = first /\ \A i \in 1 .. n : f[i] = next[i][f[i - 1]]

\* A function that is defined from its own value at the number before exists, and has the
\* values that its definition gives.
LEMMA Unfold ==
  ASSUME NEW n \in Nat, NEW V, NEW first \in V, NEW next \in [1 .. n -> [V -> V]]
  PROVE  \E f \in [0 .. n -> V] : Unfolds(f, n, first, next)
  <1> DEFINE Good(k, f) == Unfolds(f, k, first, next)
             S == {k \in 0 .. n : \E f \in [0 .. k -> V] : Good(k, f)}
  <1>1. 0 \in S
    <2> DEFINE g == [i \in 0 .. 0 |-> first]
    <2>1. g \in [0 .. 0 -> V] /\ Good(0, g)
      BY DEF Unfolds
    <2>2. 0 \in 0 .. n
      OBVIOUS
    <2> HIDE DEF g, Good
    <2> QED BY <2>1, <2>2
  <1>2. ASSUME NEW k \in 0 .. n - 1, k \in S PROVE k + 1 \in S
    <2>1. PICK f \in [0 .. k -> V] : Good(k, f)
      BY <1>2
    <2> DEFINE g == [i \in 0 .. k + 1 |-> IF i = k + 1 THEN next[k + 1][f[k]] ELSE f[i]]
    <2>2. next[k + 1][f[k]] \in V
      <3>1. k + 1 \in 1 .. n /\ f[k] \in V
        BY <1>2
      <3> QED BY <3>1
    <2>3. g \in [0 .. k + 1 -> V]
      BY <1>2, <2>2
    <2>4. Good(k + 1, g)
      <3>1. g[0] = first
        BY <1>2, <2>1 DEF Unfolds
      <3>2. ASSUME NEW i \in 1 .. k + 1 PROVE g[i] = next[i][g[i - 1]]
        <4>1. i - 1 \in 0 .. k /\ i - 1 # k + 1 /\ i \in 0 .. k + 1 /\ i - 1 \in 0 .. k + 1
          BY <1>2
        <4>2. g[i - 1] = f[i - 1]
          BY <4>1
        <4>3. CASE i = k + 1
          BY <4>1, <4>2, <4>3
        <4>4. CASE i # k + 1
          <5>1. i \in 1 .. k
            BY <1>2, <4>4
          <5> QED BY <2>1, <4>1, <4>2, <4>4, <5>1 DEF Unfolds
        <4> QED BY <4>3, <4>4
      <3> QED BY <3>1, <3>2 DEF Unfolds
    <2>5. k + 1 \in 0 .. n
      BY <1>2
    <2> HIDE DEF g, Good
    <2> QED BY <2>3, <2>4, <2>5
  <1>3. n \in S
    <2> HIDE DEF S
    <2>1. 0 .. n \subseteq S
      BY <1>1, <1>2, UpTo
    <2> QED BY <2>1
  <1>4. PICK f \in [0 .. n -> V] : Good(n, f)
    BY <1>3
  <1> QED BY <1>4

-----------------------------------------------------------------------------

Items(s) == {s[i] : i \in DOMAIN s}

\* What is in two sequences, one after the other.
LEMMA ItemsOfBoth ==
  ASSUME NEW X, NEW s \in Seq(X), NEW t \in Seq(X)
  PROVE  /\ s \o t \in Seq(X) /\ Len(s \o t) = Len(s) + Len(t)
         /\ \A i \in 1 .. Len(s) : (s \o t)[i] = s[i]
         /\ \A i \in 1 .. Len(t) : (s \o t)[Len(s) + i] = t[i]
         /\ Items(s \o t) = Items(s) \cup Items(t)
  <1>1. PICK u : u = s \o t
    OBVIOUS
  <1>2. /\ u \in Seq(X) /\ Len(u) = Len(s) + Len(t) /\ Len(s) \in Nat /\ Len(t) \in Nat
        /\ DOMAIN u = 1 .. Len(u) /\ DOMAIN s = 1 .. Len(s) /\ DOMAIN t = 1 .. Len(t)
        /\ \A i \in 1 .. Len(s) : u[i] = s[i]
        /\ \A i \in 1 .. Len(t) : u[Len(s) + i] = t[i]
    BY <1>1
  <1>3. ASSUME NEW i \in DOMAIN u PROVE u[i] \in Items(s) \cup Items(t)
    <2>1. CASE i <= Len(s)
      BY <1>2, <2>1 DEF Items
    <2>2. CASE i > Len(s)
      <3>1. PICK j \in 1 .. Len(t) : i = Len(s) + j
        <4>1. i - Len(s) \in 1 .. Len(t) /\ i = Len(s) + (i - Len(s))
          BY <1>2, <2>2
        <4> QED BY <4>1
      <3> QED BY <1>2, <3>1 DEF Items
    <2> QED BY <1>2, <2>1, <2>2
  <1>4. ASSUME NEW i \in DOMAIN s PROVE s[i] \in Items(u)
    <2>1. i \in DOMAIN u /\ u[i] = s[i]
      BY <1>2
    <2> QED BY <2>1 DEF Items
  <1>5. ASSUME NEW i \in DOMAIN t PROVE t[i] \in Items(u)
    <2>1. PICK j : j = Len(s) + i
      OBVIOUS
    <2>2. j \in DOMAIN u /\ u[j] = t[i]
      BY <1>2, <2>1
    <2> QED BY <2>2 DEF Items
  <1>6. Items(u) = Items(s) \cup Items(t)
    BY <1>3, <1>4, <1>5 DEF Items
  <1> QED BY <1>1, <1>2, <1>6

\* What is in a sequence: its first item, and what is in the rest.
LEMMA ItemsOfRest ==
  ASSUME NEW X, NEW s \in Seq(X), s # <<>>
  PROVE  /\ Tail(s) \in Seq(X) /\ Len(Tail(s)) = Len(s) - 1 /\ Len(s) \in Nat \ {0}
         /\ \A i \in 1 .. Len(s) - 1 : Tail(s)[i] = s[i + 1]
         /\ s[1] \in X /\ Items(s) = {s[1]} \cup Items(Tail(s))
  <1>1. PICK u : u = Tail(s)
    OBVIOUS
  <1>2. /\ u \in Seq(X) /\ Len(u) = Len(s) - 1 /\ Len(s) \in Nat \ {0} /\ s[1] \in X
        /\ DOMAIN u = 1 .. Len(u) /\ DOMAIN s = 1 .. Len(s)
        /\ \A i \in 1 .. Len(s) - 1 : u[i] = s[i + 1]
    BY <1>1
  <1>3. ASSUME NEW i \in DOMAIN s PROVE s[i] \in {s[1]} \cup Items(u)
    <2>1. CASE i # 1
      <3>1. PICK j \in DOMAIN u : i = j + 1
        <4>1. i - 1 \in DOMAIN u /\ i = (i - 1) + 1
          BY <1>2, <2>1
        <4> QED BY <4>1
      <3> QED BY <1>2, <3>1 DEF Items
    <2> QED BY <2>1
  <1>4. ASSUME NEW i \in DOMAIN u PROVE u[i] \in Items(s)
    <2>1. i + 1 \in DOMAIN s /\ u[i] = s[i + 1]
      BY <1>2
    <2> QED BY <2>1 DEF Items
  <1>5. s[1] \in Items(s)
    BY <1>2 DEF Items
  <1>6. Items(s) = {s[1]} \cup Items(u)
    BY <1>3, <1>4, <1>5 DEF Items
  <1> QED BY <1>1, <1>2, <1>6

\* What is in a sequence that has become longer by one.
LEMMA ItemsOfMore ==
  ASSUME NEW X, NEW s \in Seq(X), NEW x \in X
  PROVE  /\ Append(s, x) \in Seq(X) /\ Len(Append(s, x)) = Len(s) + 1
         /\ \A i \in 1 .. Len(s) : Append(s, x)[i] = s[i]
         /\ Append(s, x)[Len(s) + 1] = x
         /\ Items(Append(s, x)) = Items(s) \cup {x}
  <1>1. PICK u : u = Append(s, x)
    OBVIOUS
  <1>2. /\ u \in Seq(X) /\ Len(u) = Len(s) + 1 /\ Len(s) \in Nat
        /\ DOMAIN u = 1 .. Len(s) + 1 /\ DOMAIN s = 1 .. Len(s)
        /\ \A i \in 1 .. Len(s) : u[i] = s[i]
        /\ u[Len(s) + 1] = x
    BY <1>1
  <1>3. Items(u) = Items(s) \cup {x}
    <2>1. \A i \in DOMAIN u : u[i] \in Items(s) \cup {x}
      BY <1>2 DEF Items
    <2>2. \A i \in DOMAIN s : s[i] \in Items(u)
      BY <1>2 DEF Items
    <2>3. x \in Items(u)
      BY <1>2 DEF Items
    <2> QED BY <2>1, <2>2, <2>3 DEF Items
  <1> QED BY <1>1, <1>2, <1>3

\* A sequence put behind another repeats nothing if neither does, and they share nothing.
LEMMA NothingTwice ==
  ASSUME NEW X, NEW s \in Seq(X), NEW t \in Seq(X),
         \A i, j \in DOMAIN s : s[i] = s[j] => i = j,
         \A i, j \in DOMAIN t : t[i] = t[j] => i = j,
         \A i \in DOMAIN s : \A j \in DOMAIN t : s[i] # t[j]
  PROVE  \A i, j \in DOMAIN (s \o t) : (s \o t)[i] = (s \o t)[j] => i = j
  <1>1. PICK u, m : u = s \o t /\ m = Len(s)
    OBVIOUS
  <1>2. /\ m \in Nat /\ Len(t) \in Nat /\ DOMAIN u = 1 .. m + Len(t)
        /\ DOMAIN s = 1 .. m /\ DOMAIN t = 1 .. Len(t)
        /\ \A i \in 1 .. m : u[i] = s[i]
        /\ \A i \in 1 .. Len(t) : u[m + i] = t[i]
    BY <1>1
  <1>3. ASSUME NEW i \in DOMAIN u
        PROVE  (i \in DOMAIN s /\ u[i] = s[i]) \/ (\E k \in DOMAIN t : i = m + k /\ u[i] = t[k])
    <2>1. i \in 1 .. m \/ (i - m \in 1 .. Len(t) /\ i = m + (i - m))
      BY <1>2
    <2> QED BY <1>2, <2>1
  <1>4. ASSUME NEW i \in DOMAIN u, NEW j \in DOMAIN u, u[i] = u[j] PROVE i = j
    BY <1>3, <1>4
  <1> QED BY <1>1, <1>4

=============================================================================
