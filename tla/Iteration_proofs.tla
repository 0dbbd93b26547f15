-------------------------- MODULE Iteration_proofs --------------------------
(***************************************************************************)
(* What a proof needs to know about Iterate: that the run of the loop       *)
(* exists, and that what holds initially and is preserved by the body holds *)
(* at the end.  The induction is by least counterexample, which needs no    *)
(* induction schema.                                                        *)
(***************************************************************************)
EXTENDS Iteration, WellFoundedInduction, SequenceTheorems, TLAPS

\* A non-empty set of natural numbers has a least element (used for every
\* induction below, and for the shortest route).
LEMMA LeastNatural ==
  ASSUME NEW T \in SUBSET Nat, T # {}
  PROVE  \E m \in T : \A k \in T : m <= k
<1>1. IsWellFoundedOn(OpToRel(<, Nat), Nat)
  BY NatLessThanWellFounded
<1>2. PICK m \in T : \A k \in T : ~ (<<k, m>> \in OpToRel(<, Nat))
  BY <1>1, WFMin
<1>3. \A k \in T : ~ (k < m)
  BY <1>2 DEF OpToRel
<1> QED
  BY <1>3

\* The loop invariant rule: if S holds of the accumulator before the loop and
\* each round preserves it, S holds after every round.
LEMMA LoopInvariant ==
  ASSUME NEW n \in Nat, NEW S, NEW acc,
         acc[0] \in S,
         \A i \in 1..n : acc[i-1] \in S => acc[i] \in S
  PROVE  \A i \in 0..n : acc[i] \in S
<1> DEFINE Out == {i \in 0..n : acc[i] \notin S}
<1>1. SUFFICES ASSUME Out # {} PROVE FALSE
  OBVIOUS
<1>2. Out \in SUBSET Nat
  OBVIOUS
<1>3. PICK m \in Out : \A k \in Out : m <= k
  <2> HIDE DEF Out
  <2> QED BY <1>1, <1>2, LeastNatural
<1>4. m \in 1..n
  BY <1>3
<1>5. m - 1 \in 0..n /\ m - 1 \notin Out
  BY <1>3, <1>4
<1>6. acc[m-1] \in S
  BY <1>5
<1> QED
  BY <1>3, <1>4, <1>6

\* h is the accumulator of n rounds of the body F over q, starting from init.
IsRun(h, F, init, q, n) ==
  h = [i \in 0..n |-> IF i = 0 THEN init ELSE F[<<h[i-1], q[i]>>]]

\* A run can be prolonged by a round.
LEMMA RunStep ==
  ASSUME NEW F, NEW init, NEW q, NEW m \in Nat, m # 0,
         NEW h, IsRun(h, F, init, q, m-1)
  PROVE  \E g : IsRun(g, F, init, q, m)
<1> DEFINE g == [i \in 0..m |-> IF i = m THEN F[<<h[m-1], q[m]>>] ELSE h[i]]
<1>1. \A i \in 0..m-1 : h[i] = IF i = 0 THEN init ELSE F[<<h[i-1], q[i]>>]
  BY DEF IsRun
<1>2. ASSUME NEW i \in 0..m
      PROVE  g[i] = IF i = 0 THEN init ELSE F[<<g[i-1], q[i]>>]
  <2>1. CASE i = m
    <3>1. g[i-1] = h[m-1]
      BY <2>1
    <3> QED BY <2>1, <3>1
  <2>2. CASE i # m
    <3>1. i \in 0..m-1
      BY <2>2
    <3>2. g[i] = h[i]
      BY <2>2
    <3>3. CASE i = 0
      BY <3>1, <3>2, <3>3, <1>1
    <3>4. CASE i # 0
      <4>1. g[i-1] = h[i-1]
        BY <3>1, <3>4
      <4> QED BY <3>1, <3>2, <3>4, <4>1, <1>1
    <3> QED BY <3>3, <3>4
  <2> QED BY <2>1, <2>2
<1>3. g = [i \in 0..m |-> IF i = 0 THEN init ELSE F[<<g[i-1], q[i]>>]]
  BY <1>2
<1>4. IsRun(g, F, init, q, m)
  BY <1>3 DEF IsRun
<1> QED
  BY <1>4

\* A loop of any length has a run.
LEMMA RunExists ==
  ASSUME NEW F, NEW init, NEW q, NEW n \in Nat
  PROVE  \E g : IsRun(g, F, init, q, n)
<1> DEFINE Bad == {k \in Nat : ~ \E g : IsRun(g, F, init, q, k)}
<1>1. SUFFICES ASSUME Bad # {} PROVE FALSE
  OBVIOUS
<1>2. Bad \in SUBSET Nat
  OBVIOUS
<1>3. PICK m \in Bad : \A k \in Bad : m <= k
  <2> HIDE DEF Bad
  <2> QED BY <1>1, <1>2, LeastNatural
<1>4. m # 0
  <2> DEFINE g == [i \in 0..0 |-> init]
  <2>1. g = [i \in 0..0 |-> IF i = 0 THEN init ELSE F[<<g[i-1], q[i]>>]]
    OBVIOUS
  <2>2. IsRun(g, F, init, q, 0)
    BY <2>1 DEF IsRun
  <2> QED BY <1>3, <2>2
<1>5. m - 1 \in Nat /\ m - 1 \notin Bad
  BY <1>3, <1>4
<1>6. PICK h : IsRun(h, F, init, q, m-1)
  BY <1>5
<1>7. \E g : IsRun(g, F, init, q, m)
  BY <1>3, <1>4, <1>6, RunStep
<1> QED
  BY <1>3, <1>7

\* h is the run of the body F over q from init, and all its values are in S.
IsTypedRun(h, S, F, init, q) ==
  /\ h \in [0..Len(q) -> S]
  /\ h[0] = init
  /\ \A i \in 1..Len(q) : h[i] = F[<<h[i-1], q[i]>>]

\* A run whose body F maps S to S stays in S.
LEMMA TypedRun ==
  ASSUME NEW S, NEW Q, NEW F, NEW init, NEW q,
         init \in S,
         q \in Seq(Q),
         \A s \in S, x \in Q : F[<<s, x>>] \in S
  PROVE  \E h : IsTypedRun(h, S, F, init, q)
<1> DEFINE n == Len(q)
<1>1. n \in Nat /\ \A i \in 1..n : q[i] \in Q
  BY LenProperties, ElementOfSeq
<1>2. PICK h : IsRun(h, F, init, q, n)
  BY <1>1, RunExists
<1> HIDE DEF n
<1>3. \A i \in 0..n : h[i] = IF i = 0 THEN init ELSE F[<<h[i-1], q[i]>>]
  BY <1>2 DEF IsRun
<1>4. h[0] = init /\ \A i \in 1..n : h[i] = F[<<h[i-1], q[i]>>]
  <2>1. h[0] = init
    <3>1. 0 \in 0..n
      BY <1>1
    <3>2. h[0] = IF 0 = 0 THEN init ELSE F[<<h[0-1], q[0]>>]
      BY <3>1, <1>3, Zenon
    <3> QED BY <3>2, Zenon
  <2>2. ASSUME NEW i \in 1..n PROVE h[i] = F[<<h[i-1], q[i]>>]
    <3>1. i \in 0..n /\ i # 0
      BY <1>1
    <3> QED BY <3>1, <1>3
  <2> QED BY <2>1, <2>2
<1>5. \A i \in 0..n : h[i] \in S
  <2>1. h[0] \in S
    BY <1>4
  <2>2. \A i \in 1..n : h[i-1] \in S => h[i] \in S
    BY <1>1, <1>4
  <2> QED BY <1>1, <2>1, <2>2, LoopInvariant
<1>6. h = [i \in 0..n |-> h[i]]
  BY <1>2 DEF IsRun
<1>7. h \in [0..n -> S]
  BY <1>5, <1>6
<1>8. IsTypedRun(h, S, F, init, q)
  BY <1>4, <1>7 DEF n, IsTypedRun
<1> QED
  BY <1>8

=============================================================================
