----------------------------- MODULE Induction ------------------------------
(***************************************************************************)
(* Induction and definition by recursion over the first numbers, in terms  *)
(* of sets and functions.                                                  *)
(***************************************************************************)
EXTENDS Integers, FiniteSetTheorems, TLAPS

(* A set that has 0 and the successor of each of its elements below N has  *)
(* all numbers up to N.                                                    *)
LEMMA UpTo ==
  ASSUME NEW N \in Nat, NEW S, 0 \in S, \A n \in 0 .. N - 1 : n \in S => n + 1 \in S
  PROVE  \A n \in 0 .. N : n \in S
<1> SUFFICES ASSUME (0 .. N) \ S # {} PROVE FALSE
  OBVIOUS
<1> DEFINE T == {1 .. n : n \in (0 .. N) \ S}
<1>1. IsWellFoundedOn(StrictSubsetOrdering(Nat), FiniteSubsetsOf(Nat))
  BY FS_StrictSubsetOrderingWellFounded
<1>2. T \subseteq FiniteSubsetsOf(Nat) /\ T # {}
  <2>1. \A n \in 0 .. N : n \in Int /\ 1 .. n \in SUBSET Nat
    OBVIOUS
  <2>2. \A n \in 0 .. N : IsFiniteSet(1 .. n)
    BY <2>1, FS_Interval, 1 \in Int, Zenon
  <2> QED BY <2>1, <2>2 DEF FiniteSubsetsOf
<1>3. PICK x \in T : \A y \in T : ~ (<<y, x>> \in StrictSubsetOrdering(Nat))
  <2> HIDE DEF T
  <2> QED BY <1>1, <1>2, WFMin
<1>4. PICK n \in (0 .. N) \ S : x = 1 .. n
  BY <1>3
<1>5. n # 0 /\ n - 1 \in 0 .. N - 1 /\ (n - 1) + 1 = n
  OBVIOUS
<1>6. n - 1 \in (0 .. N) \ S
  BY <1>5
<1>7. <<1 .. n - 1, x>> \in StrictSubsetOrdering(Nat)
  <2>1. 1 .. n - 1 \subseteq 1 .. n /\ 1 .. n - 1 \in SUBSET Nat /\ 1 .. n \in SUBSET Nat
    OBVIOUS
  <2>2. n \in 1 .. n /\ n \notin 1 .. n - 1
    BY <1>5
  <2> QED BY <1>4, <2>1, <2>2 DEF StrictSubsetOrdering
<1> QED BY <1>3, <1>6, <1>7

(* f goes on from base with the step F.                                    *)
Iterates(f, N, base, F) == f[0] = base /\ \A i \in 1 .. N : f[i] = F[<<f[i - 1], i>>]

(* A base and a step F on the values T define a function up to N.          *)
LEMMA Iteration ==
  ASSUME NEW N \in Nat, NEW T, NEW base \in T, NEW F \in [T \X (1 .. N) -> T]
  PROVE  \E f \in [0 .. N -> T] : Iterates(f, N, base, F)
<1> DEFINE P(n) == \E f \in [0 .. n -> T] :
                     f[0] = base /\ \A i \in 1 .. n : f[i] = F[<<f[i - 1], i>>]
           S == {n \in 0 .. N : P(n)}
<1>1. P(0)
  <2> DEFINE f == [i \in 0 .. 0 |-> base]
  <2>1. f \in [0 .. 0 -> T] /\ f[0] = base /\ 1 .. 0 = {}
    OBVIOUS
  <2> QED BY <2>1
<1>2. ASSUME NEW n \in 0 .. N - 1, P(n)
      PROVE  P(n + 1)
  <2>1. PICK f \in [0 .. n -> T] : f[0] = base /\ \A i \in 1 .. n : f[i] = F[<<f[i - 1], i>>]
    BY <1>2
  <2>2. n \in 0 .. n /\ n + 1 \in 1 .. N /\ f[n] \in T
    OBVIOUS
  <2>3. F[<<f[n], n + 1>>] \in T
    BY <2>2
  <2> DEFINE g == [i \in 0 .. n + 1 |-> IF i = n + 1 THEN F[<<f[n], n + 1>>] ELSE f[i]]
  <2>4. g \in [0 .. n + 1 -> T]
    BY <2>3
  <2>5. \A i \in 0 .. n : g[i] = f[i]
    OBVIOUS
  <2>6. g[n + 1] = F[<<g[n], n + 1>>]
    <3>1. g[n + 1] = F[<<f[n], n + 1>>] /\ g[n] = f[n]
      BY <2>2, <2>5
    <3> QED BY <3>1, Zenon
  <2>7. ASSUME NEW i \in 1 .. n + 1
        PROVE  g[i] = F[<<g[i - 1], i>>]
    <3>1. CASE i = n + 1
      <4>1. i - 1 = n
        BY <3>1
      <4> QED BY <2>6, <3>1, <4>1
    <3>2. CASE i # n + 1
      <4>1. i \in 1 .. n /\ i - 1 \in 0 .. n /\ i \in 0 .. n
        BY <3>2
      <4> HIDE DEF g
      <4> QED BY <2>1, <2>5, <4>1
    <3> QED BY <3>1, <3>2
  <2>8. g[0] = base
    BY <2>1
  <2> QED BY <2>4, <2>7, <2>8
<1> HIDE DEF P
<1>3. 0 \in S /\ \A n \in 0 .. N - 1 : n \in S => n + 1 \in S
  BY <1>1, <1>2
<1>4. N \in S
  <2> HIDE DEF S
  <2>1. \A n \in 0 .. N : n \in S
    BY <1>3, UpTo
  <2> QED BY <2>1
<1> QED BY <1>4, Zenon DEF P, Iterates
=============================================================================
