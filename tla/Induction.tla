----------------------------- MODULE Induction -----------------------------
(***************************************************************************)
(* Facts about numbers, sets and sequences that several proofs need:       *)
(* induction over the natural numbers, for a set instead of a predicate,   *)
(* and what it gives for operators that are defined by recursion.          *)
(***************************************************************************)
EXTENDS Integers, Sequences, FiniteSets, SequencesExt, FiniteSetTheorems,
        SequenceTheorems, WellFoundedInduction, TLAPS

\* Smaller, as a relation on the natural numbers, is well-founded.
LEMMA BelowWellFounded == IsWellFoundedOn({z \in Nat \X Nat : z[1] < z[2]}, Nat)
  BY NatLessThanWellFounded, Zenon DEF OpToRel

\* A set of natural numbers with an element has a least one.
LEMMA LeastNumber ==
    ASSUME NEW S \in SUBSET Nat, S # {}
    PROVE  \E x \in S : \A y \in S : x <= y
<1>1. PICK R : R = {z \in Nat \X Nat : z[1] < z[2]}
  OBVIOUS
<1>2. PICK x \in S : \A y \in S : ~(<<y, x>> \in R)
  BY <1>1, BelowWellFounded, WFMin
<1>3. ASSUME NEW y \in S PROVE x <= y
  <2>1. x \in Nat /\ y \in Nat /\ ~(<<y, x>> \in R)
    BY <1>2
  <2>2. y < x => <<y, x>> \in R
    BY <1>1, <2>1
  <2> QED BY <2>1, <2>2
<1> QED BY <1>3

\* Min of the community modules is that one.
LEMMA MinIsLeast ==
    ASSUME NEW S \in SUBSET Nat, S # {}
    PROVE  Min(S) \in S /\ \A y \in S : Min(S) <= y
  BY LeastNumber DEF Min

\* A set of numbers with 0 and the successor of each element has them all.
LEMMA SetInduction ==
    ASSUME NEW S, 0 \in S, \A n \in Nat : n \in S => n + 1 \in S
    PROVE  \A n \in Nat : n \in S
<1> SUFFICES ASSUME NEW n \in Nat, n \notin S PROVE FALSE
  OBVIOUS
<1>1. PICK T : T = {k \in Nat : k \notin S}
  OBVIOUS
<1>2. PICK m \in T : \A k \in T : m <= k
  BY <1>1, LeastNumber
<1>3. m \in Nat /\ m # 0 /\ m - 1 \in Nat
  BY <1>1, <1>2
<1>4. m - 1 \in S
  BY <1>1, <1>2, <1>3
<1>5. (m - 1) + 1 = m
  BY <1>3
<1> QED BY <1>1, <1>2, <1>3, <1>4, <1>5

-----------------------------------------------------------------------------
\* SetToSeq lists the elements of a finite set, each once.
LEMMA SetToSeqIs ==
    ASSUME NEW S, IsFiniteSet(S)
    PROVE  /\ Cardinality(S) \in Nat
           /\ SetToSeq(S) \in [1..Cardinality(S) -> S]
           /\ \A i, j \in 1..Cardinality(S) : SetToSeq(S)[i] = SetToSeq(S)[j] => i = j
<1>1. PICK n \in Nat : n = Cardinality(S) /\ ExistsBijection(1..n, S)
  BY FS_CardinalityType
<1>2. PICK f \in [1..n -> S] : \A i, j \in 1..n : f[i] = f[j] => i = j
  BY <1>1 DEF ExistsBijection, Bijection, Injection, IsInjective
<1>3. IsInjective(f)
  BY <1>2 DEF IsInjective
<1>4. PICK g : g = SetToSeq(S)
  OBVIOUS
<1>5. g \in [1..n -> S] /\ IsInjective(g)
  BY <1>1, <1>2, <1>3, <1>4 DEF SetToSeq
<1> QED BY <1>1, <1>4, <1>5 DEF IsInjective

\* FlattenSeq makes one sequence of sequences of S, of elements of S.
LEMMA FlattenSeqIs ==
    ASSUME NEW S, NEW seqs \in Seq(Seq(S))
    PROVE  FlattenSeq(seqs) \in Seq(S)
<1>0. PICK n \in Nat : n = Len(seqs)
  OBVIOUS
<1>1. CASE n = 0
  <2>1. seqs = <<>> /\ FlattenSeq(seqs) = seqs
    BY <1>0, <1>1, EmptySeq DEF FlattenSeq
  <2> QED BY <2>1, EmptySeq
<1>2. CASE n # 0
  <2> DEFINE Join(a, b) == a \o b
             Filled(f, k) == f = [i \in 1..k |-> IF i = 1 THEN seqs[i] ELSE Join(f[i - 1], seqs[i])]
  <2> HIDE DEF Join
  <2>1. PICK T : T = {k \in Nat : \E f : Filled(f, k + 1)}
    OBVIOUS
  <2>2. 0 \in T
    <3>1. PICK f : f = [i \in 1..1 |-> seqs[1]]
      OBVIOUS
    <3>2. Filled(f, 0 + 1)
      BY <3>1
    <3> QED BY <2>1, <3>2
  <2>3. ASSUME NEW k \in Nat, k \in T PROVE k + 1 \in T
    <3>1. PICK f : Filled(f, k + 1)
      BY <2>1, <2>3
    <3>2. PICK g : g = [i \in 1..((k + 1) + 1) |->
                          IF i = (k + 1) + 1 THEN Join(f[k + 1], seqs[i]) ELSE f[i]]
      OBVIOUS
    <3>3. Filled(g, (k + 1) + 1)
      <4>1. \A i \in 1..(k + 1) : g[i] = f[i]
        BY <3>2
      <4>2. \A i \in 1..(k + 1) : g[i] = IF i = 1 THEN seqs[i] ELSE Join(g[i - 1], seqs[i])
        BY <3>1, <4>1
      <4>3. g[(k + 1) + 1] = Join(g[k + 1], seqs[(k + 1) + 1])
        BY <3>2, <4>1
      <4>4. \A i \in 1..((k + 1) + 1) : g[i] = IF i = 1 THEN seqs[i] ELSE Join(g[i - 1], seqs[i])
        BY <4>2, <4>3
      <4> QED BY <3>2, <4>4
    <3> HIDE DEF Filled
    <3> QED BY <2>1, <3>3
  <2>4. n - 1 \in T
    <3> HIDE DEF Filled
    <3>1. n - 1 \in Nat
      BY <1>2
    <3> QED BY <2>2, <2>3, <3>1, SetInduction
  <2>5. \E f : Filled(f, n)
    <3>1. (n - 1) + 1 = n
      OBVIOUS
    <3> HIDE DEF Filled
    <3> QED BY <2>1, <2>4, <3>1
  <2>6. PICK flatten : flatten = CHOOSE f : Filled(f, n)
    OBVIOUS
  <2>7. Filled(flatten, n)
    <3> HIDE DEF Filled
    <3> QED BY <2>5, <2>6
  <2>8. FlattenSeq(seqs) = flatten[n]
    BY <1>0, <1>2, <2>6 DEF FlattenSeq, Join
  <2>9. \A i \in 1..n : flatten[i] = IF i = 1 THEN seqs[i] ELSE Join(flatten[i - 1], seqs[i])
    BY <2>7
  <2>10. \A i \in 1..n : seqs[i] \in Seq(S)
    BY <1>0
  <2>11. PICK U : U = {k \in Nat : k + 1 <= n => flatten[k + 1] \in Seq(S)}
    OBVIOUS
  <2>12. 0 \in U
    BY <1>2, <2>9, <2>10, <2>11
  <2>13. ASSUME NEW k \in Nat, k \in U PROVE k + 1 \in U
    <3> SUFFICES ASSUME (k + 1) + 1 <= n PROVE flatten[(k + 1) + 1] \in Seq(S)
      BY <2>11
    <3>1. (k + 1) + 1 \in 1..n /\ (k + 1) + 1 # 1 /\ ((k + 1) + 1) - 1 = k + 1 /\ k + 1 <= n
      OBVIOUS
    <3>2. flatten[k + 1] \in Seq(S) /\ seqs[(k + 1) + 1] \in Seq(S)
      BY <2>10, <2>11, <2>13, <3>1
    <3>3. flatten[(k + 1) + 1] = flatten[k + 1] \o seqs[(k + 1) + 1]
      BY <2>9, <3>1 DEF Join
    <3> QED BY <3>2, <3>3, ConcatProperties
  <2>14. n - 1 \in U
    BY <1>2, <2>12, <2>13, SetInduction
  <2> QED BY <1>2, <2>8, <2>11, <2>14
<1> QED BY <1>1, <1>2

=============================================================================
