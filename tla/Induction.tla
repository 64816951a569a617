----------------------------- MODULE Induction -----------------------------
(***************************************************************************)
(* Induction over natural numbers in the form of sets instead of           *)
(* predicates, which the provers can instantiate, and what it gives for    *)
(* recursive functions: that a definition by recursion has a solution.     *)
(***************************************************************************)
EXTENDS Integers, SequencesExt, WellFoundedInduction, TLAPS

(* The order of the natural numbers, as a relation, is well founded.       *)
LEMMA NatOrder == IsWellFoundedOn({p \in Nat \X Nat : p[1] < p[2]}, Nat)
<1>1. IsWellFoundedOn(OpToRel(<, Nat), Nat)
  BY NatLessThanWellFounded
<1>2. OpToRel(<, Nat) = {p \in Nat \X Nat : p[1] < p[2]}
  BY DEF OpToRel
<1> QED
  BY <1>1, <1>2

(* A set with 0 that is closed under successors has every natural number.  *)
LEMMA NatSet ==
    ASSUME NEW S, 0 \in S, \A n \in Nat : n \in S => n + 1 \in S
    PROVE  Nat \subseteq S
<1> DEFINE T == {n \in Nat : n \notin S}
           R == {p \in Nat \X Nat : p[1] < p[2]}
<1>1. CASE T = {}
  BY <1>1
<1>2. CASE T # {}
  <2>1. T \subseteq Nat
    OBVIOUS
  <2>2. IsWellFoundedOn(R, Nat)
    BY NatOrder
  <2> HIDE DEF T, R
  <2>3. PICK x \in T : \A y \in T : <<y, x>> \notin R
    BY <1>2, <2>1, <2>2, WFMin
  <2> USE DEF T, R
  <2>4. x \in Nat /\ x # 0
    OBVIOUS
  <2>5. x - 1 \in Nat /\ <<x - 1, x>> \in R
    BY <2>4
  <2>6. x - 1 \in S
    BY <2>3, <2>5
  <2>7. x - 1 + 1 \in S
    BY <2>5, <2>6
  <2> QED
    BY <2>4, <2>7
<1> QED
  BY <1>1, <1>2

(* The lower part of an interval is an interval.                           *)
LEMMA LowerPart ==
    ASSUME NEW k \in Nat, NEW last \in Nat, k <= last,
           NEW X, NEW Y, X \cup Y = (k + 1)..last, \A x \in X, y \in Y : x < y
    PROVE  \E l \in k..last : X = (k + 1)..l
<1> DEFINE Found == \E l \in k..last : X = (k + 1)..l
           S == {n \in Nat : (k + 1)..(k + n) \subseteq X \/ Found}
<1>1. \A x \in X : x \in (k + 1)..last
  OBVIOUS
<1>2. 0 \in S
  OBVIOUS
<1>3. ASSUME NEW n \in Nat, n \in S PROVE n + 1 \in S
  <2>0. (k + 1)..(k + n) \subseteq X \/ Found
    BY <1>3
  <2>1. Found => n + 1 \in S
    <3> HIDE DEF Found
    <3> QED
      OBVIOUS
  <2>2. CASE (k + 1)..(k + n) \subseteq X /\ k + n + 1 \in X
    <3>1. (k + 1)..(k + (n + 1)) \subseteq X
      BY <2>2
    <3> HIDE DEF Found
    <3> QED
      BY <3>1
  <2>3. CASE (k + 1)..(k + n) \subseteq X /\ k + n + 1 \notin X /\ k + n <= last
    <3>1. \A x \in X : x < k + n + 1
      <4>1. CASE k + n + 1 \in Y
        BY <1>1, <4>1
      <4>2. CASE k + n + 1 \notin Y
        <5>1. k + n + 1 \notin (k + 1)..last
          BY <2>3, <4>2
        <5> QED
          BY <1>1, <5>1
      <4> QED
        BY <4>1, <4>2
    <3>2. \A x \in X : x \in (k + 1)..(k + n)
      BY <1>1, <3>1
    <3>3. X = (k + 1)..(k + n)
      BY <2>3, <3>2, Zenon
    <3>4. k + n \in k..last
      BY <2>3
    <3>5. Found
      BY <3>3, <3>4, Zenon
    <3> QED
      BY <2>1, <3>5
  <2>4. CASE (k + 1)..(k + n) \subseteq X /\ k + n > last
    <3>1. k + n \in (k + 1)..(k + n)
      BY <2>4
    <3>2. k + n \in X
      BY <2>4, <3>1, Zenon
    <3> QED
      BY <1>1, <2>4, <3>2
  <2> QED
    <3> HIDE DEF Found
    <3> QED
      BY <2>0, <2>1, <2>2, <2>3, <2>4
<1>4. last - k + 1 \in S
  <2>1. \A n \in Nat : n \in S => n + 1 \in S
    BY <1>3
  <2>2. last - k + 1 \in Nat
    OBVIOUS
  <2> HIDE DEF S
  <2> QED
    BY <1>2, <2>1, <2>2, NatSet
<1>5. ~ ((k + 1)..(k + (last - k + 1)) \subseteq X)
  <2>1. last + 1 \in (k + 1)..(k + (last - k + 1))
    OBVIOUS
  <2> QED
    BY <1>1, <2>1
<1> QED
  BY <1>4, <1>5

(* The recursion in FlattenSeq has a solution.                             *)
LEMMA FlattenSolves ==
    ASSUME NEW seqs, Len(seqs) \in Nat, Len(seqs) # 0
    PROVE  \E f : /\ f = [i \in 1..Len(seqs) |-> IF i = 1 THEN seqs[i] ELSE f[i-1] \o seqs[i]]
                  /\ FlattenSeq(seqs) = f[Len(seqs)]
<1> DEFINE Def(g, n) == g = [i \in 1..n |-> IF i = 1 THEN seqs[i] ELSE g[i-1] \o seqs[i]]
           S == {n \in Nat : \E g : Def(g, n)}
<1>1. 0 \in S
  <2>1. Def([i \in 1..0 |-> 0], 0)
    BY SMT
  <2> QED
    BY <2>1
<1>2. ASSUME NEW n \in Nat, n \in S PROVE n + 1 \in S
  <2>1. PICK g : Def(g, n)
    BY <1>2
  <2> DEFINE h == [i \in 1..(n+1) |-> IF i = 1 THEN seqs[i] ELSE g[i-1] \o seqs[i]]
  <2>2. ASSUME NEW i \in 1..n PROVE h[i] = g[i]
    <3>1. g[i] = IF i = 1 THEN seqs[i] ELSE g[i-1] \o seqs[i]
      BY <2>1
    <3>2. i \in 1..(n+1)
      OBVIOUS
    <3> QED
      BY <3>1, <3>2
  <2>3. \A i \in 1..(n+1) : i # 1 => i - 1 \in 1..n
    OBVIOUS
  <2>4. \A i \in 1..(n+1) : h[i] = IF i = 1 THEN seqs[i] ELSE h[i-1] \o seqs[i]
    BY <2>2, <2>3
  <2>5. Def(h, n + 1)
    BY <2>4
  <2> QED
    BY <2>5, n + 1 \in Nat
<1>3. Len(seqs) \in S
  <2>1. \A n \in Nat : n \in S => n + 1 \in S
    BY <1>2
  <2> HIDE DEF S
  <2> QED
    BY <1>1, <2>1, NatSet
<1>4. \E g : Def(g, Len(seqs))
  BY <1>3
<1> DEFINE f == CHOOSE g : Def(g, Len(seqs))
<1>5. Def(f, Len(seqs))
  BY <1>4
<1>6. FlattenSeq(seqs) = f[Len(seqs)]
  BY DEF FlattenSeq
<1> QED
  BY <1>5, <1>6
=============================================================================
