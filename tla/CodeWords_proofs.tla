-------------------------- MODULE CodeWords_proofs --------------------------
(***************************************************************************)
(* A code typed as shown leads to its slot and pass, and slips are         *)
(* refused, for every slot and pass of any length: theorems about          *)
(* CodeWords.                                                              *)
(***************************************************************************)
EXTENDS CodeWords, Induction

Base == {8, 10, 128}

(* Division makes a number smaller.                                        *)
LEMMA Division ==
    ASSUME NEW base \in Base, NEW k \in Nat
    PROVE  /\ k \div base \in Nat /\ k % base \in 0..base - 1
           /\ (k \div base) * base + (k % base) = k
           /\ k >= base => k \div base < k
  <1>1. CASE base = 8
    BY <1>1
  <1>2. CASE base = 10
    BY <1>2
  <1>3. CASE base = 128
    BY <1>3
  <1> QED
    BY <1>1, <1>2, <1>3 DEF Base

(* Induction from all smaller numbers.                                     *)
LEMMA FromSmaller ==
    ASSUME NEW S, \A n \in Nat : (\A m \in Nat : m < n => m \in S) => n \in S
    PROVE  Nat \subseteq S
  <1> DEFINE T == {n \in Nat : \A m \in Nat : m < n => m \in S}
  <1>1. 0 \in T
    OBVIOUS
  <1>2. ASSUME NEW n \in Nat, n \in T PROVE n + 1 \in T
    <2>1. \A m \in Nat : m < n + 1 => m < n \/ m = n
      OBVIOUS
    <2> QED
      BY <1>2, <2>1
  <1>3. Nat \subseteq T
    <2> HIDE DEF T
    <2> QED
      BY <1>1, <1>2, NatSet
  <1> QED
    BY <1>3

LEMMA Wider ==
    ASSUME NEW U, NEW T, T \subseteq U, NEW q \in Seq(T)
    PROVE  q \in Seq(U)
  <1>1. Len(q) \in Nat /\ \A i \in 1..Len(q) : q[i] \in U
    OBVIOUS
  <1>2. q = [i \in 1..Len(q) |-> q[i]]
    OBVIOUS
  <1>3. PICK n, p : n = Len(q) /\ p = [i \in 1..n |-> q[i]]
    OBVIOUS
  <1>4. p \in Seq(U)
    BY <1>1, <1>3
  <1> QED
    BY <1>2, <1>3, <1>4

-----------------------------------------------------------------------------
(* The recursion in Digits has a solution.                                 *)
Step(base, g, k) == IF k < base THEN <<k>> ELSE Append(g[k \div base], k % base)
UpTo(base, g, n) ==
    /\ g \in [0..n -> Seq(Nat)]
    /\ \A k \in 0..n : g[k] = Step(base, g, k)

LEMMA UpToOne ==
    ASSUME NEW base \in Base, NEW n \in Nat, NEW m \in Nat, NEW g, NEW h,
           UpTo(base, g, n), UpTo(base, h, m)
    PROVE  \A k \in 0..n : k <= m => g[k] = h[k]
  <1> DEFINE S == {k \in Nat : k <= n /\ k <= m => g[k] = h[k]}
  <1>1. ASSUME NEW k \in Nat, \A j \in Nat : j < k => j \in S PROVE k \in S
    <2>1. CASE k <= n /\ k <= m
      <3>1. g[k] = Step(base, g, k) /\ h[k] = Step(base, h, k)
        BY <2>1 DEF UpTo
      <3>2. k >= base => g[k \div base] = h[k \div base]
        <4>1. HAVE k >= base
        <4>2. k \div base \in Nat /\ k \div base < k
          BY <4>1, Division
        <4>3. k \div base \in S
          BY <1>1, <4>2
        <4> QED
          BY <2>1, <4>2, <4>3
      <3>3. base \in Nat
        BY DEF Base
      <3>4. g[k] = h[k]
        BY <3>1, <3>2, <3>3 DEF Step
      <3> QED
        BY <3>4
    <2> QED
      BY <2>1
  <1>2. Nat \subseteq S
    <2> HIDE DEF S
    <2> QED
      BY <1>1, FromSmaller
  <1> QED
    BY <1>2

LEMMA UpToSome ==
    ASSUME NEW base \in Base, NEW n \in Nat
    PROVE  \E g : UpTo(base, g, n)
  <1> DEFINE S == {k \in Nat : \E g : UpTo(base, g, k)}
  <1>0. base \in Nat /\ base > 0
    BY DEF Base
  <1>1. 0 \in S
    <2> DEFINE g == [k \in 0..0 |-> <<0>>]
    <2>1. g \in [0..0 -> Seq(Nat)]
      OBVIOUS
    <2>2. \A k \in 0..0 : k = 0 /\ g[k] = <<k>>
      OBVIOUS
    <2>3. UpTo(base, g, 0)
      BY <1>0, <2>1, <2>2 DEF UpTo, Step
    <2> QED
      BY <2>3
  <1>2. ASSUME NEW k \in Nat, k \in S PROVE k + 1 \in S
    <2>1. PICK g : UpTo(base, g, k)
      BY <1>2
    <2> DEFINE h == [j \in 0..(k + 1) |-> IF j <= k THEN g[j] ELSE Step(base, g, j)]
    <2>2. \A j \in 0..k : h[j] = g[j]
      OBVIOUS
    <2>3. \A j \in 0..(k + 1) : h[j] = Step(base, g, j)
      BY <2>1 DEF UpTo
    <2>4. ASSUME NEW j \in 0..(k + 1) PROVE h[j] = Step(base, h, j) /\ h[j] \in Seq(Nat)
      <3>1. j \div base \in Nat /\ j % base \in Nat /\ (j >= base => j \div base < j)
        BY Division
      <3>2. j >= base => j \div base \in 0..k
        BY <3>1
      <3>3. j >= base => h[j \div base] = g[j \div base]
        BY <2>2, <3>2
      <3>4. j >= base => g[j \div base] \in Seq(Nat)
        BY <2>1, <3>2 DEF UpTo
      <3>5. h[j] = IF j < base THEN <<j>> ELSE Append(g[j \div base], j % base)
        BY <2>3 DEF Step
      <3>6. h[j] \in Seq(Nat)
        <4> HIDE DEF h
        <4>1. j \in Nat /\ base \in Nat
          BY <1>0
        <4> QED
          BY <3>1, <3>4, <3>5, <4>1
      <3> HIDE DEF h
      <3>7. h[j] = Step(base, h, j)
        BY <1>0, <3>3, <3>5 DEF Step
      <3> QED
        BY <3>6, <3>7
    <2>5. h \in [0..(k + 1) -> Seq(Nat)]
      BY <2>4
    <2> HIDE DEF h
    <2>6. UpTo(base, h, k + 1)
      BY <2>4, <2>5 DEF UpTo
    <2> QED
      BY <2>6
  <1>3. n \in S
    <2> HIDE DEF S
    <2> QED
      BY <1>1, <1>2, NatSet
  <1> QED
    BY <1>3

LEMMA DigitsStep ==
    ASSUME NEW base \in Base, NEW n \in Nat
    PROVE  Digits(base, n) = IF n < base THEN <<n>> ELSE Append(Digits(base, n \div base), n % base)
  <1> DEFINE Some(k) == CHOOSE g : UpTo(base, g, k)
             F == [k \in Nat |-> Some(k)[k]]
             Def(f) == f = [k \in Nat |-> IF k < base THEN <<k>> ELSE Append(f[k \div base], k % base)]
             digits == CHOOSE f : Def(f)
  <1>1. \A k \in Nat : UpTo(base, Some(k), k)
    BY UpToSome
  <1>2. ASSUME NEW k \in Nat PROVE F[k] = Step(base, F, k)
    <2>1. Some(k)[k] = Step(base, Some(k), k)
      BY <1>1 DEF UpTo
    <2>2. base \in Nat
      BY DEF Base
    <2>3. ASSUME k >= base PROVE Some(k)[k \div base] = F[k \div base]
      <3>1. k \div base \in Nat /\ k \div base < k
        BY <2>3, Division
      <3>2. PICK g, h : g = Some(k) /\ h = Some(k \div base)
        OBVIOUS
      <3>3. UpTo(base, g, k) /\ UpTo(base, h, k \div base)
        BY <1>1, <3>1, <3>2
      <3>4. \A j \in 0..(k \div base) : j <= k => h[j] = g[j]
        BY <3>1, <3>3, UpToOne
      <3>5. k \div base \in 0..(k \div base) /\ k \div base <= k
        BY <3>1
      <3>6. h[k \div base] = g[k \div base]
        BY <3>4, <3>5
      <3>7. F[k \div base] = h[k \div base]
        BY <3>1, <3>2
      <3> QED
        BY <3>2, <3>6, <3>7
    <2>4. F[k] = Some(k)[k]
      OBVIOUS
    <2> HIDE DEF Some, F
    <2> QED
      BY <2>1, <2>2, <2>3, <2>4 DEF Step
  <1>3. Def(F)
    <2>1. F = [k \in Nat |-> F[k]]
      OBVIOUS
    <2> HIDE DEF F
    <2>2. \A k \in Nat : F[k] = IF k < base THEN <<k>> ELSE Append(F[k \div base], k % base)
      BY <1>2 DEF Step
    <2> QED
      BY <2>1, <2>2
  <1>4. Def(digits)
    <2> HIDE DEF Def, F
    <2> QED
      BY <1>3
  <1>5. \A k \in Nat : Digits(base, k) = digits[k]
    BY DEF Digits
  <1> HIDE DEF digits
  <1>6. \A k \in Nat : digits[k] = IF k < base THEN <<k>> ELSE Append(digits[k \div base], k % base)
    BY <1>4
  <1>7. n \div base \in Nat
    BY Division
  <1> QED
    BY <1>5, <1>6, <1>7
LEMMA DigitsType ==
    ASSUME NEW base \in Base, NEW n \in Nat
    PROVE  Digits(base, n) \in Seq(0..base - 1) /\ Len(Digits(base, n)) \in Nat \ {0}
  <1> DEFINE S == {k \in Nat : Digits(base, k) \in Seq(0..base - 1) /\ Len(Digits(base, k)) \in Nat \ {0}}
  <1>1. ASSUME NEW k \in Nat, \A j \in Nat : j < k => j \in S PROVE k \in S
    <2>0. base \in Nat
      BY DEF Base
    <2>1. CASE k < base
      <3>1. Digits(base, k) = <<k>>
        BY <2>1, DigitsStep
      <3>2. PICK T : T = 0..base - 1 /\ k \in T
        BY <2>0, <2>1
      <3>3. <<k>> \in Seq(T) /\ Len(<<k>>) = 1
        BY <3>2
      <3>4. Digits(base, k) \in Seq(0..base - 1) /\ Len(Digits(base, k)) = 1
        BY <3>1, <3>2, <3>3, Zenon
      <3>5. Len(Digits(base, k)) \in Nat \ {0}
        BY <3>4
      <3> QED
        BY <3>4, <3>5, Zenon
    <2>2. CASE ~ (k < base)
      <3>1. PICK q, d : q = Digits(base, k \div base) /\ d = k % base
        OBVIOUS
      <3>2. Digits(base, k) = Append(q, d)
        BY <2>2, <3>1, DigitsStep
      <3>3. k \div base \in Nat /\ k \div base < k /\ d \in 0..base - 1
        BY <2>0, <2>2, <3>1, Division
      <3>4. k \div base \in S
        BY <1>1, <3>3
      <3>5. q \in Seq(0..base - 1)
        BY <3>1, <3>4
      <3>6. Append(q, d) \in Seq(0..base - 1) /\ Len(Append(q, d)) \in Nat \ {0}
        BY <3>3, <3>5
      <3> QED
        BY <3>2, <3>6
    <2> QED
      BY <2>1, <2>2
  <1>2. Nat \subseteq S
    <2> HIDE DEF S
    <2> QED
      BY <1>1, FromSmaller
  <1> QED
    BY <1>2

-----------------------------------------------------------------------------
(* The value of a number is computed from its digits, the last one last.   *)
Values(base, q, f, n) ==
    /\ f \in [0..n -> Nat] /\ f[0] = 0
    /\ \A k \in 1..n : f[k] = f[k - 1] * base + q[k]

LEMMA ValuesOne ==
    ASSUME NEW base, NEW n \in Nat, NEW m \in Nat, m <= n, NEW p, NEW q, NEW f, NEW g,
           Values(base, p, f, n), Values(base, q, g, m), \A k \in 1..m : p[k] = q[k]
    PROVE  \A k \in 0..m : f[k] = g[k]
  <1> DEFINE S == {k \in Nat : k <= m => f[k] = g[k]}
  <1>1. 0 \in S
    BY DEF Values
  <1>2. ASSUME NEW k \in Nat, k \in S PROVE k + 1 \in S
    <2>1. CASE k + 1 <= m
      <3>1. f[k] = g[k] /\ p[k + 1] = q[k + 1]
        BY <1>2, <2>1
      <3>2. PICK j \in 1..m : j = k + 1
        BY <2>1
      <3>3. j \in 1..n /\ j - 1 = k
        BY <3>2
      <3>4. f[j] = f[j - 1] * base + p[j] /\ g[j] = g[j - 1] * base + q[j]
        BY <3>3 DEF Values
      <3> QED
        BY <3>1, <3>2, <3>3, <3>4
    <2> QED
      BY <2>1
  <1>3. Nat \subseteq S
    <2> HIDE DEF S
    <2> QED
      BY <1>1, <1>2, NatSet
  <1> QED
    BY <1>3

LEMMA ValuesSome ==
    ASSUME NEW base \in Base, NEW q \in Seq(Nat)
    PROVE  \E f : Values(base, q, f, Len(q))
  <1> DEFINE S == {n \in Nat : n <= Len(q) => \E f : Values(base, q, f, n)}
  <1>0. base \in Nat
    BY DEF Base
  <1>1. 0 \in S
    <2> DEFINE f == [k \in 0..0 |-> 0]
    <2>1. f \in [0..0 -> Nat] /\ f[0] = 0
      OBVIOUS
    <2> HIDE DEF f
    <2>2. Values(base, q, f, 0)
      BY <2>1 DEF Values
    <2> QED
      BY <2>2
  <1>2. ASSUME NEW n \in Nat, n \in S PROVE n + 1 \in S
    <2>1. CASE n + 1 <= Len(q)
      <3>1. PICK f : Values(base, q, f, n)
        BY <1>2, <2>1
      <3>2. PICK d \in Nat : d = f[n] * base + q[n + 1]
        <4>1. q[n + 1] \in Nat /\ f[n] \in Nat
          BY <2>1, <3>1 DEF Values
        <4>2. f[n] * base \in Nat
          BY <4>1 DEF Base
        <4> QED
          BY <4>1, <4>2
      <3> DEFINE g == [k \in 0..(n + 1) |-> IF k <= n THEN f[k] ELSE d]
      <3>3. g \in [0..(n + 1) -> Nat]
        BY <3>1 DEF Values
      <3>4. g[n + 1] = d /\ \A k \in 0..n : g[k] = f[k]
        OBVIOUS
      <3> HIDE DEF g
      <3>5. \A k \in 1..(n + 1) : g[k] = g[k - 1] * base + q[k]
        <4>1. ASSUME NEW k \in 1..n PROVE g[k] = g[k - 1] * base + q[k]
          <5>1. k \in 0..n /\ k - 1 \in 0..n
            OBVIOUS
          <5>2. f[k] = f[k - 1] * base + q[k]
            BY <3>1 DEF Values
          <5> QED
            BY <3>4, <5>1, <5>2
        <4>2. g[n + 1] = g[n + 1 - 1] * base + q[n + 1]
          <5>1. n + 1 - 1 = n /\ n \in 0..n
            OBVIOUS
          <5> QED
            BY <3>2, <3>4, <5>1
        <4> TAKE k \in 1..(n + 1)
        <4>3. k \in 1..n \/ k = n + 1
          OBVIOUS
        <4>4. CASE k \in 1..n
          BY <4>1, <4>4
        <4>5. CASE k = n + 1
          BY <4>2, <4>5
        <4> QED
          BY <4>3, <4>4, <4>5
      <3>6. g[0] = 0
        BY <3>1, <3>4 DEF Values
      <3>7. Values(base, q, g, n + 1)
        BY <3>3, <3>5, <3>6 DEF Values
      <3> QED
        BY <3>7
    <2> QED
      BY <2>1
  <1>3. Nat \subseteq S
    <2> HIDE DEF S
    <2> QED
      BY <1>1, <1>2, NatSet
  <1> QED
    BY <1>3

LEMMA ValueIs ==
    ASSUME NEW base \in Base, NEW q \in Seq(Nat)
    PROVE  \E f : Values(base, q, f, Len(q)) /\ ValueOf(base, q) = f[Len(q)]
  <1> DEFINE Def(f) == f = [k \in 0..Len(q) |-> IF k = 0 THEN 0 ELSE f[k - 1] * base + q[k]]
             value == CHOOSE f : Def(f)
  <1>1. PICK f : Values(base, q, f, Len(q))
    BY ValuesSome
  <1>2. Def(f)
    <2>1. f = [k \in 0..Len(q) |-> f[k]]
      BY <1>1 DEF Values
    <2>2. \A k \in 0..Len(q) : f[k] = IF k = 0 THEN 0 ELSE f[k - 1] * base + q[k]
      <3>1. \A k \in 0..Len(q) : k = 0 \/ k \in 1..Len(q)
        OBVIOUS
      <3> QED
        BY <1>1, <3>1 DEF Values
    <2> QED
      BY <2>1, <2>2
  <1>3. Def(value)
    <2> HIDE DEF Def
    <2> QED
      BY <1>2
  <1>4. ValueOf(base, q) = value[Len(q)]
    BY DEF ValueOf
  <1> HIDE DEF value
  <1>5. \A k \in 0..Len(q) : value[k] = f[k]
    <2> DEFINE S == {k \in Nat : k <= Len(q) => value[k] = f[k]}
    <2>0. \A k \in 0..Len(q) : value[k] = IF k = 0 THEN 0 ELSE value[k - 1] * base + q[k]
      BY <1>3
    <2>1. 0 \in S
      BY <1>1, <2>0 DEF Values
    <2>2. ASSUME NEW k \in Nat, k \in S PROVE k + 1 \in S
      <3>1. CASE k + 1 <= Len(q)
        <4>1. PICK j \in 1..Len(q) : j = k + 1
          BY <3>1
        <4>2. j - 1 = k /\ j # 0 /\ j \in 0..Len(q) /\ k <= Len(q)
          BY <4>1
        <4>3. value[j] = value[j - 1] * base + q[j] /\ f[j] = f[j - 1] * base + q[j]
          BY <1>1, <2>0, <4>2 DEF Values
        <4>4. value[k] = f[k]
          BY <2>2, <4>2
        <4> QED
          BY <4>1, <4>2, <4>3, <4>4
      <3> QED
        BY <3>1
    <2>3. Nat \subseteq S
      <3> HIDE DEF S
      <3> QED
        BY <2>1, <2>2, NatSet
    <2> QED
      BY <2>3
  <1> QED
    BY <1>1, <1>4, <1>5

LEMMA ValueFacts ==
    ASSUME NEW base \in Base
    PROVE  /\ \A q \in Seq(Nat) : ValueOf(base, q) \in Nat
           /\ ValueOf(base, <<>>) = 0
           /\ \A q \in Seq(Nat), d \in Nat : ValueOf(base, Append(q, d)) = ValueOf(base, q) * base + d
  <1>1. ASSUME NEW q \in Seq(Nat) PROVE ValueOf(base, q) \in Nat
    <2>1. PICK f : Values(base, q, f, Len(q)) /\ ValueOf(base, q) = f[Len(q)]
      BY ValueIs
    <2>2. Len(q) \in 0..Len(q)
      OBVIOUS
    <2> QED
      BY <2>1, <2>2 DEF Values
  <1>2. ValueOf(base, <<>>) = 0
    <2>1. PICK q : q = <<>>
      OBVIOUS
    <2>2. q \in Seq(Nat) /\ Len(q) = 0
      BY <2>1
    <2> QED
      BY <2>1, <2>2, ValueIs DEF Values
  <1>3. ASSUME NEW q \in Seq(Nat), NEW d \in Nat
        PROVE  ValueOf(base, Append(q, d)) = ValueOf(base, q) * base + d
    <2>1. PICK p, n : p = Append(q, d) /\ n = Len(q)
      OBVIOUS
    <2>2. p \in Seq(Nat) /\ n \in Nat /\ Len(p) = n + 1 /\ p[n + 1] = d /\ \A k \in 1..n : p[k] = q[k]
      BY <2>1
    <2>3. PICK f : Values(base, p, f, n + 1) /\ ValueOf(base, p) = f[n + 1]
      BY <2>2, ValueIs
    <2>4. PICK g : Values(base, q, g, n) /\ ValueOf(base, q) = g[n]
      BY <2>1, ValueIs
    <2>5. f[n] = g[n]
      <3>1. n + 1 \in Nat /\ n <= n + 1 /\ n \in 0..n
        BY <2>2
      <3>2. \A k \in 0..n : f[k] = g[k]
        BY <2>2, <2>3, <2>4, <3>1, ValuesOne
      <3> QED
        BY <3>1, <3>2
    <2>6. f[n + 1] = f[n] * base + d
      <3>1. n + 1 \in 1..(n + 1) /\ n + 1 - 1 = n
        BY <2>2
      <3> QED
        BY <2>2, <2>3, <3>1 DEF Values
    <2> QED
      BY <2>1, <2>3, <2>4, <2>5, <2>6
  <1> QED
    BY <1>1, <1>2, <1>3

(* Reading a number that was written gives the number.                     *)
LEMMA NumbersBack ==
    ASSUME NEW base \in Base, NEW n \in Nat
    PROVE  ValueOf(base, Digits(base, n)) = n
  <1> DEFINE S == {k \in Nat : ValueOf(base, Digits(base, k)) = k}
  <1>1. ASSUME NEW k \in Nat, \A j \in Nat : j < k => j \in S PROVE k \in S
    <2>0. base \in Nat
      BY DEF Base
    <2>1. CASE k < base
      <3>1. Digits(base, k) = Append(<<>>, k)
        BY <2>1, DigitsStep
      <3>2. ValueOf(base, Append(<<>>, k)) = ValueOf(base, <<>>) * base + k
        <4>1. <<>> \in Seq(Nat)
          OBVIOUS
        <4> QED
          BY <4>1, ValueFacts
      <3>3. ValueOf(base, <<>>) = 0
        BY ValueFacts
      <3> QED
        BY <2>0, <3>1, <3>2, <3>3
    <2>2. CASE ~ (k < base)
      <3>1. PICK j, d, q : j = k \div base /\ d = k % base /\ q = Digits(base, j)
        OBVIOUS
      <3>2. Digits(base, k) = Append(q, d)
        BY <2>2, <3>1, DigitsStep
      <3>3. j \in Nat /\ j < k /\ d \in Nat /\ j * base + d = k
        BY <2>0, <2>2, <3>1, Division
      <3>4. ValueOf(base, q) = j
        BY <1>1, <3>1, <3>3
      <3>5. q \in Seq(Nat)
        <4>1. PICK T : T = 0..base - 1
          OBVIOUS
        <4>2. q \in Seq(T)
          BY <3>1, <3>3, <4>1, DigitsType
        <4>3. T \subseteq Nat
          BY <2>0, <4>1
        <4> QED
          BY <4>2, <4>3, Wider
      <3>6. ValueOf(base, Append(q, d)) = ValueOf(base, q) * base + d
        BY <3>3, <3>5, ValueFacts
      <3> QED
        BY <3>2, <3>3, <3>4, <3>6
    <2> QED
      BY <2>1, <2>2
  <1>2. Nat \subseteq S
    <2> HIDE DEF S
    <2> QED
      BY <1>1, FromSmaller
  <1> QED
    BY <1>2

-----------------------------------------------------------------------------
(* A slot has three bytes at most.                                         *)
Slot == {s \in Nat : s < 2097152}

Byte == 0..255
LEMMA Bytewise == \A x : x \in Byte <=> x \in Nat /\ x < 256
  BY DEF Byte

LEMMA SlotDigits ==
    ASSUME NEW s \in Slot, NEW d, d = Digits(128, s), NEW n, n = Len(d)
    PROVE  /\ d \in Seq(Nat) /\ n \in Nat /\ 0 < n /\ n <= 3
           /\ \A i \in 1..n : d[i] < 128
  <1>0. PICK base : base = 128
    OBVIOUS
  <1>1. base \in Base /\ base \in Nat /\ s \in Nat
    BY <1>0 DEF Base, Slot
  <1>2. ASSUME NEW k \in Nat
        PROVE  /\ Digits(base, k) \in Seq(0..base - 1) /\ Len(Digits(base, k)) \in Nat \ {0}
               /\ k < base => Len(Digits(base, k)) = 1
               /\ k >= base => Len(Digits(base, k)) = Len(Digits(base, k \div base)) + 1
    <2>1. Digits(base, k) \in Seq(0..base - 1) /\ Len(Digits(base, k)) \in Nat \ {0}
      BY <1>1, DigitsType
    <2>2. ASSUME k < base PROVE Len(Digits(base, k)) = 1
      <3>1. Digits(base, k) = <<k>>
        BY <1>1, <2>2, DigitsStep
      <3> QED
        BY <3>1
    <2>3. ASSUME k >= base PROVE Len(Digits(base, k)) = Len(Digits(base, k \div base)) + 1
      <3>1. PICK q, x : q = Digits(base, k \div base) /\ x = k % base
        OBVIOUS
      <3>2. q \in Seq(0..base - 1)
        BY <1>1, <3>1, Division, DigitsType
      <3>3. Digits(base, k) = Append(q, x)
        <4>1. ~ (k < base)
          BY <1>1, <2>3
        <4> QED
          BY <1>1, <3>1, <4>1, DigitsStep
      <3> QED
        BY <3>1, <3>2, <3>3
    <2> QED
      BY <2>1, <2>2, <2>3
  <1>3. PICK t, u : t = s \div base /\ u = t \div base
    OBVIOUS
  <1>4. t \in Nat /\ u \in Nat /\ u < base
    BY <1>0, <1>3, SMT DEF Slot
  <1>5. PICK x, y : x = Len(Digits(base, u)) /\ y = Len(Digits(base, t))
    OBVIOUS
  <1>6. x = 1 /\ (t < base => y = 1) /\ (t >= base => y = x + 1) /\ y \in Nat
    BY <1>2, <1>3, <1>4, <1>5
  <1>7. (s < base => n = 1) /\ (s >= base => n = y + 1) /\ n \in Nat /\ d \in Seq(0..base - 1)
    BY <1>0, <1>1, <1>2, <1>3, <1>5, ZenonT(30)
  <1>8. n \in Nat /\ 0 < n /\ n <= 3
    <2>1. y = 1 \/ y = 2
      BY <1>1, <1>4, <1>6
    <2>2. n = 1 \/ n = y + 1
      BY <1>1, <1>7
    <2>3. n \in Nat
      BY <1>7
    <2>4. \A i \in Nat, j \in {1, 2} : i = 1 \/ i = j + 1 => 0 < i /\ i <= 3
      OBVIOUS
    <2>5. y \in {1, 2}
      BY <2>1
    <2> QED
      BY <2>2, <2>3, <2>4, <2>5, Zenon
  <1>9. d \in Seq(Nat)
    <2>1. PICK T : T = 0..base - 1
      OBVIOUS
    <2>2. T \subseteq Nat /\ d \in Seq(T)
      BY <1>1, <1>7, <2>1
    <2> QED
      BY <2>2, Wider
  <1>10. \A i \in 1..n : d[i] < base
    BY <1>1, <1>7
  <1> QED
    BY <1>0, <1>8, <1>9, <1>10

LEMMA PutFacts ==
    ASSUME NEW s \in Slot, NEW d, d = Digits(128, s), NEW n, n = Len(d), NEW p, p = PutUvarint(s)
    PROVE  /\ p \in Seq(Byte) /\ Len(p) = n /\ n \in Nat /\ 0 < n /\ n <= 3 /\ p[n] < 128
           /\ \A i \in 1..n : p[i] \in Nat /\ p[i] % 128 = d[n + 1 - i] /\ (i < n => p[i] >= 128)
  <1>1. d \in Seq(Nat) /\ n \in Nat /\ 0 < n /\ n <= 3 /\ \A i \in 1..n : d[i] \in Nat /\ d[i] < 128
    BY SlotDigits
  <1>2. p = [i \in 1..n |-> d[n + 1 - i] + (IF i < n THEN 128 ELSE 0)]
    BY DEF PutUvarint
  <1>3. ASSUME NEW i \in 1..n
        PROVE  /\ p[i] \in Nat /\ p[i] < 256 /\ p[i] % 128 = d[n + 1 - i]
               /\ i < n => p[i] >= 128
               /\ i = n => p[i] < 128
    <2>1. n + 1 - i \in 1..n
      BY <1>1
    <2>2. PICK x : x = d[n + 1 - i] /\ x \in Nat /\ x < 128
      BY <1>1, <2>1
    <2>3. p[i] = x + (IF i < n THEN 128 ELSE 0)
      BY <1>2, <2>2
    <2>4. CASE i < n
      <3>1. p[i] = x + 128
        BY <2>3, <2>4
      <3> QED
        BY <1>1, <2>2, <2>4, <3>1, SMTT(30)
    <2>5. CASE ~ (i < n)
      <3>1. p[i] = x
        BY <2>2, <2>3, <2>5
      <3> QED
        BY <1>1, <2>2, <2>5, <3>1, SMTT(30)
    <2> QED
      BY <2>4, <2>5
  <1>4. p \in Seq(Byte) /\ Len(p) = n
    <2>1. \A i \in 1..n : p[i] \in Byte
      BY <1>3, Bytewise
    <2>2. p = [i \in 1..n |-> p[i]]
      BY <1>2
    <2> QED
      BY <1>1, <2>1, <2>2
  <1>5. n \in 1..n
    BY <1>1
  <1> QED
    BY <1>1, <1>3, <1>4, <1>5, SMTT(30)

LEMMA PutType ==
    ASSUME NEW s \in Slot
    PROVE  PutUvarint(s) \in Seq(Byte)
  <1>1. PICK d, n, p : d = Digits(128, s) /\ n = Len(d) /\ p = PutUvarint(s)
    OBVIOUS
  <1> QED
    BY <1>1, PutFacts

(* Uvarint finds the slot at the front of any bytes, and where it ends.    *)
LEMMA VarintBack ==
    ASSUME NEW s \in Slot, NEW p, p = PutUvarint(s), NEW q \in Seq(Byte), NEW buf, buf = p \o q
    PROVE  Uvarint(buf) = [slot |-> s, n |-> Len(p)]
  <1>1. PICK d, n : d = Digits(128, s) /\ n = Len(d)
    OBVIOUS
  <1>2. /\ p \in Seq(Byte) /\ Len(p) = n /\ n \in Nat /\ 0 < n /\ n <= 3 /\ p[n] < 128
        /\ \A i \in 1..n : p[i] \in Nat /\ p[i] % 128 = d[n + 1 - i] /\ (i < n => p[i] >= 128)
    BY <1>1, PutFacts
  <1>3. Len(buf) \in Nat /\ n <= Len(buf) /\ \A i \in 1..n : buf[i] = p[i]
    BY <1>2
  <1>4. SelectInSeq(buf, LAMBDA b : b < 128) = n
    <2>1. PICK I : I = {i \in 1..Len(buf) : buf[i] < 128}
      OBVIOUS
    <2>2. n \in I
      BY <1>2, <1>3, <2>1
    <2>3. ASSUME NEW i \in I PROVE i \in Nat /\ n <= i
      <3>1. i \in 1..Len(buf) /\ buf[i] < 128
        BY <2>1
      <3>2. ASSUME i < n PROVE FALSE
        <4>1. i \in 1..n
          BY <1>2, <3>1, <3>2
        <4>2. buf[i] = p[i] /\ p[i] \in Nat /\ p[i] >= 128
          BY <1>2, <1>3, <3>2, <4>1
        <4> QED
          BY <3>1, <4>2
      <3> QED
        BY <1>2, <3>1, <3>2
    <2>4. Min(I) = n
      <3>1. PICK m : m = Min(I)
        OBVIOUS
      <3>2. \E x \in I : \A y \in I : x <= y
        BY <2>2, <2>3
      <3>3. m \in I /\ \A y \in I : m <= y
        BY <3>1, <3>2 DEF Min
      <3>4. m <= n /\ n <= m /\ m \in Nat
        BY <2>2, <2>3, <3>3
      <3> QED
        BY <1>2, <3>1, <3>4
    <2> QED
      BY <2>1, <2>2, <2>4 DEF SelectInSeq
  <1>5. [i \in 1..n |-> buf[n + 1 - i] % 128] = d
    <2>1. d \in Seq(Nat)
      BY <1>1, SlotDigits
    <2>2. ASSUME NEW i \in 1..n PROVE buf[n + 1 - i] % 128 = d[i]
      <3>1. n + 1 - i \in 1..n /\ n + 1 - (n + 1 - i) = i
        BY <1>2
      <3> QED
        BY <1>2, <1>3, <3>1
    <2>3. d = [i \in 1..n |-> d[i]]
      BY <1>1, <2>1
    <2> QED
      BY <2>2, <2>3
  <1>6. ValueOf(128, d) = s
    <2>1. PICK base : base = 128
      OBVIOUS
    <2>2. base \in Base /\ s \in Nat
      BY <2>1 DEF Base, Slot
    <2> QED
      BY <1>1, <2>1, <2>2, NumbersBack
  <1>7. ~ (n > 10) /\ n # 10
    BY <1>2
  <1> QED
    BY <1>2, <1>4, <1>5, <1>6, <1>7, ZenonT(30) DEF Uvarint
-----------------------------------------------------------------------------
(* What is known of a word: its place in its list, whose parity is that of *)
(* the position it is for.                                                 *)
List == {"en", "pgp"}
Index == -1..511
Part == [en: Index, pgp: Index, digits: Seq(0..9)]

LEMMA Indices == \A x : x \in Index <=> x \in Int /\ -1 <= x /\ x <= 511
  BY DEF Index

LEMMA SharedWords ==
    /\ \A p \in Shared : p[1] \in Index /\ p[2] \in Index
    /\ \A p \in Shared : p[2] % 2 = 1 => p[1] % 2 = 0
  <1>1. \A p \in Shared : /\ p[1] \in Int /\ -1 <= p[1] /\ p[1] <= 511
                          /\ p[2] \in Int /\ -1 <= p[2] /\ p[2] <= 511
    BY SMT DEF Shared
  <1>2. \A p \in Shared : p[2] % 2 = 1 => p[1] % 2 = 0
    BY SMT DEF Shared
  <1> QED
    BY <1>1, <1>2, Indices

LEMMA ListWords ==
    ASSUME NEW list \in List, NEW i \in Nat, i <= 511, NEW w, w = WordAt(list, i)
    PROVE  /\ w \in Part /\ w[list] = i /\ w.digits = <<>>
           /\ list = "pgp" /\ i % 2 = 1 => w.en < 0 \/ w.en % 2 = 0
  <1>1. i \in Index /\ -1 \in Index /\ <<>> \in Seq(0..9)
    BY Indices
  <1>2. CASE list = "en"
    <2>1. PICK x : x = IF \E p \in Shared : p[1] = i THEN (CHOOSE p \in Shared : p[1] = i)[2] ELSE -1
      OBVIOUS
    <2>2. x \in Index
      BY <1>1, <2>1, SharedWords
    <2>3. w = [en |-> i, pgp |-> x, digits |-> <<>>]
      BY <1>2, <2>1 DEF WordAt, enWords
    <2>4. w \in Part
      BY <1>1, <2>2, <2>3 DEF Part
    <2>5. w["en"] = i /\ w.digits = <<>>
      BY <2>3
    <2> QED
      BY <1>2, <2>4, <2>5
  <1>3. CASE list = "pgp"
    <2>1. PICK x : x = IF \E p \in Shared : p[2] = i THEN (CHOOSE p \in Shared : p[2] = i)[1] ELSE -1
      OBVIOUS
    <2>2. x \in Index /\ (i % 2 = 1 => x < 0 \/ x % 2 = 0)
      <3>1. CASE \E p \in Shared : p[2] = i
        <4>1. PICK p \in Shared : p[2] = i /\ x = p[1]
          BY <2>1, <3>1
        <4> QED
          BY <4>1, SharedWords
      <3>2. CASE ~ \E p \in Shared : p[2] = i
        <4>1. x = -1
          BY <2>1, <3>2
        <4> QED
          BY <1>1, <4>1
      <3> QED
        BY <3>1, <3>2
    <2>3. w = [en |-> x, pgp |-> i, digits |-> <<>>]
      BY <1>3, <2>1 DEF WordAt, pgpWords
    <2>4. w \in Part
      BY <1>1, <2>2, <2>3 DEF Part
    <2>5. w["pgp"] = i /\ w.digits = <<>> /\ w.en = x
      BY <2>3
    <2> QED
      BY <1>3, <2>2, <2>4, <2>5
  <1> QED
    BY <1>2, <1>3 DEF List

LEMMA WordFacts ==
    ASSUME NEW list \in List, NEW b \in Byte, NEW i \in Nat, NEW w, w = Word(list, b, i)
    PROVE  /\ w \in Part /\ w.digits = <<>>
           /\ w[list] \in Nat /\ w[list] % 2 = i % 2 /\ w[list] \div 2 = b
           /\ list = "pgp" /\ i % 2 = 1 => w.en < 0 \/ w.en % 2 = 0
  <1>1. PICK j : j = 2 * b + (i % 2)
    OBVIOUS
  <1>2. b \in Nat /\ b < 256
    BY Bytewise
  <1>3. j \in Nat /\ j <= 511 /\ j % 2 = i % 2 /\ j \div 2 = b
    BY <1>1, <1>2
  <1>4. w = WordAt(list, j)
    BY <1>1 DEF Word
  <1> QED
    BY <1>3, <1>4, ListWords

(* Reading words that stand for bytes gives the bytes.                     *)
LEMMA WordsBack ==
    ASSUME NEW list \in List, NEW q \in Seq(Byte),
           NEW ws, ws = [i \in DOMAIN q |-> Word(list, q[i], i - 1)]
    PROVE  /\ WordBytes(list, ws) = {q} /\ ws \in Seq(Part) /\ Len(ws) = Len(q)
           /\ \A i \in 1..Len(q) : ws[i] = Word(list, q[i], i - 1)
           /\ \A i \in 1..Len(q) : ws[i].digits = <<>> /\ ws[i][list] \in Nat /\ ws[i][list] % 2 = (i - 1) % 2
  <1>1. Len(q) \in Nat /\ DOMAIN q = 1..Len(q)
    OBVIOUS
  <1>2. ws = [i \in 1..Len(q) |-> Word(list, q[i], i - 1)]
    BY <1>1
  <1>3. ASSUME NEW i \in 1..Len(q)
        PROVE  /\ ws[i] \in Part /\ ws[i].digits = <<>> /\ ws[i] = Word(list, q[i], i - 1)
               /\ ws[i][list] \in Nat /\ ws[i][list] % 2 = (i - 1) % 2 /\ ws[i][list] \div 2 = q[i]
    <2>1. q[i] \in Byte /\ i - 1 \in Nat
      OBVIOUS
    <2>2. ws[i] = Word(list, q[i], i - 1)
      BY <1>2
    <2> QED
      BY <2>1, <2>2, WordFacts
  <1>4. ws \in Seq(Part) /\ Len(ws) = Len(q)
    BY <1>1, <1>2, <1>3
  <1>5. WordBytes(list, ws) = {q}
    <2>1. DOMAIN ws = 1..Len(q)
      BY <1>2
    <2>2. \A i \in 1..Len(q) : ws[i][list] >= 0 /\ ws[i][list] % 2 = (i - 1) % 2
      <3>1. \A x \in Nat : x >= 0
        OBVIOUS
      <3> QED
        BY <1>3, <3>1, Zenon
    <2>3. [i \in 1..Len(q) |-> ws[i][list] \div 2] = [i \in 1..Len(q) |-> q[i]]
      BY <1>3
    <2>4. q = [i \in 1..Len(q) |-> q[i]]
      OBVIOUS
    <2>5. WordBytes(list, ws) = {[i \in 1..Len(q) |-> ws[i][list] \div 2]}
      BY <2>1, <2>2 DEF WordBytes, indexOf
    <2> QED
      BY <2>3, <2>4, <2>5
  <1> QED
    BY <1>3, <1>4, <1>5

LEMMA WordBytesType ==
    ASSUME NEW list \in List, NEW parts \in Seq(Part)
    PROVE  WordBytes(list, parts) \subseteq Seq(Byte)
  <1> SUFFICES ASSUME NEW q \in WordBytes(list, parts) PROVE q \in Seq(Byte)
    OBVIOUS
  <1>1. DOMAIN parts = 1..Len(parts) /\ Len(parts) \in Nat
    OBVIOUS
  <1>2. /\ \A i \in 1..Len(parts) : parts[i][list] >= 0
        /\ q = [i \in 1..Len(parts) |-> parts[i][list] \div 2]
    BY <1>1 DEF WordBytes, indexOf
  <1>3. ASSUME NEW i \in 1..Len(parts) PROVE parts[i][list] \div 2 \in Byte
    <2>1. parts[i] \in Part
      OBVIOUS
    <2>2. PICK x : x = parts[i][list] /\ x \in Index
      BY <2>1 DEF Part, List
    <2>3. x \in Int /\ 0 <= x /\ x <= 511
      BY <1>2, <2>2, Indices
    <2>4. x \div 2 \in Nat /\ x \div 2 < 256
      BY <2>3
    <2> QED
      BY <2>2, <2>4, Bytewise
  <1> QED
    BY <1>1, <1>2, <1>3

-----------------------------------------------------------------------------
(* Decode is the first decoder that accepts.                               *)
LEMMA LeastIs ==
    ASSUME NEW I, I \subseteq Nat, NEW k \in I, \A i \in I : k <= i
    PROVE  Min(I) = k
  <1>1. PICK m : m = Min(I)
    OBVIOUS
  <1>2. m \in I /\ \A y \in I : m <= y
    BY <1>1 DEF Min
  <1>3. m <= k /\ k <= m /\ m \in Nat /\ k \in Nat
    BY <1>2
  <1> QED
    BY <1>1, <1>3

LEMMA FirstAccepts ==
    ASSUME NEW parts, NEW a, NEW b, NEW c, NEW d,
           a = DecodeVarint(parts), b = DecodeMagic("en", parts), c = DecodeMagic("pgp", parts),
           d = DecodeOctal(parts)
    PROVE  /\ a # {} => Decode(parts) = a
           /\ a = {} /\ b # {} => Decode(parts) = b
           /\ a = {} /\ b = {} /\ c # {} => Decode(parts) = c
           /\ a = {} /\ b = {} /\ c = {} => Decode(parts) = d
  <1>1. PICK tried : tried = <<a, b, c, d>>
    OBVIOUS
  <1>2. Len(tried) = 4 /\ tried[1] = a /\ tried[2] = b /\ tried[3] = c /\ tried[4] = d
    BY <1>1
  <1>3. PICK I : I = {i \in 1..4 : tried[i] # {}}
    OBVIOUS
  <1>4. I \subseteq Nat
    BY <1>3
  <1>5. PICK first : first = IF I # {} THEN Min(I) ELSE 0
    OBVIOUS
  <1>6. first = SelectInSeq(tried, LAMBDA x : x # {})
    BY <1>2, <1>3, <1>5 DEF SelectInSeq
  <1>7. Decode(parts) = IF first = 0 THEN {} ELSE tried[first]
    BY <1>1, <1>6 DEF Decode
  <1>8. ASSUME NEW k \in 1..4, tried[k] # {}, \A i \in 1..4 : i < k => tried[i] = {}
        PROVE  Decode(parts) = tried[k]
    <2>1. k \in I /\ \A i \in I : k <= i
      BY <1>3, <1>8
    <2>2. Min(I) = k
      BY <1>4, <2>1, LeastIs
    <2>3. first = k /\ k # 0
      BY <1>5, <2>1, <2>2
    <2> QED
      BY <1>7, <2>3
  <1>9. ASSUME a = {}, b = {}, c = {}, d = {} PROVE Decode(parts) = {}
    <2>1. \A i \in 1..4 : tried[i] = {}
      BY <1>2, <1>9
    <2>2. first = 0
      BY <1>3, <1>5, <2>1
    <2> QED
      BY <1>7, <2>2
  <1>10. ASSUME a # {} PROVE Decode(parts) = a
    BY <1>2, <1>8, <1>10
  <1>11. ASSUME a = {}, b # {} PROVE Decode(parts) = b
    <2>1. \A i \in 1..4 : i < 2 => tried[i] = {}
      BY <1>2, <1>11
    <2> QED
      BY <1>2, <1>8, <1>11, <2>1
  <1>12. ASSUME a = {}, b = {}, c # {} PROVE Decode(parts) = c
    <2>1. \A i \in 1..4 : i < 3 => tried[i] = {}
      BY <1>2, <1>12
    <2> QED
      BY <1>2, <1>8, <1>12, <2>1
  <1>13. ASSUME a = {}, b = {}, c = {}, d # {} PROVE Decode(parts) = d
    <2>1. \A i \in 1..4 : i < 4 => tried[i] = {}
      BY <1>2, <1>13
    <2> QED
      BY <1>2, <1>8, <1>13, <2>1
  <1> QED
    BY <1>9, <1>10, <1>11, <1>12, <1>13

-----------------------------------------------------------------------------
(* Each encoding and its own decoder.                                      *)
LEMMA VarintExact ==
    ASSUME NEW s \in Slot, NEW q \in Seq(Byte)
    PROVE  DecodeVarint(EncodeVarint(s, q)) = {[slot |-> s, pass |-> q]}
  <1>1. PICK p, buf, ws : /\ p = PutUvarint(s) /\ buf = p \o q
                          /\ ws = [i \in DOMAIN buf |-> Word("en", buf[i], i - 1)]
    OBVIOUS
  <1>2. PICK n : n = Len(p) /\ n \in Nat /\ 0 < n /\ p \in Seq(Byte)
    <2>1. PICK d, n : d = Digits(128, s) /\ n = Len(d)
      OBVIOUS
    <2>2. p \in Seq(Byte) /\ Len(p) = n /\ n \in Nat /\ 0 < n
      BY <1>1, <2>1, PutFacts
    <2> QED
      BY <2>2
  <1>3. buf \in Seq(Byte)
    BY <1>1, <1>2
  <1>4. EncodeVarint(s, q) = ws
    BY <1>1 DEF EncodeVarint
  <1>5. WordBytes("en", ws) = {buf}
    BY <1>1, <1>3, WordsBack DEF List
  <1>6. Uvarint(buf) = [slot |-> s, n |-> n]
    BY <1>1, <1>2, VarintBack
  <1>7. SubSeq(buf, n + 1, Len(buf)) = q
    BY <1>1, <1>2
  <1>8. Uvarint(buf).n = n /\ Uvarint(buf).slot = s
    BY <1>6
  <1>9. {b \in WordBytes("en", ws) : Uvarint(b).n > 0} = {buf}
    BY <1>2, <1>5, <1>8
  <1> QED
    BY <1>4, <1>7, <1>8, <1>9 DEF DecodeVarint

(* A number is read back from its digits, which are no word of any list.   *)
LEMMA NumberBack ==
    ASSUME NEW base \in {8, 10}, NEW s \in Nat
    PROVE  /\ ParseInt(base, Number(base, s)) = {s} /\ Number(base, s) \in Part
           /\ \A list \in List : ~ (Number(base, s)[list] >= 0)
  <1>1. base \in Base /\ base \in Nat /\ base <= 10
    BY DEF Base
  <1>2. PICK d : d = Digits(base, s)
    OBVIOUS
  <1>3. d \in Seq(0..base - 1) /\ Len(d) \in Nat \ {0}
    BY <1>1, <1>2, DigitsType
  <1>4. ValueOf(base, d) = s
    BY <1>1, <1>2, NumbersBack
  <1>5. PICK w : w = Number(base, s)
    OBVIOUS
  <1>6. w = [en |-> -1, pgp |-> -1, digits |-> d]
    BY <1>2, <1>5 DEF Number
  <1>7. w.digits = d /\ w["en"] = -1 /\ w["pgp"] = -1
    BY <1>6
  <1>8. d # <<>> /\ \A i \in DOMAIN d : d[i] < base
    <2>1. d # <<>> /\ DOMAIN d = 1..Len(d) /\ \A i \in 1..Len(d) : d[i] \in 0..base - 1
      BY <1>3
    <2> QED
      BY <1>1, <2>1
  <1>9. ParseInt(base, w) = {s}
    BY <1>4, <1>7, <1>8 DEF ParseInt
  <1>10. w \in Part
    <2>1. 0..base - 1 \subseteq 0..9
      BY <1>1
    <2>2. d \in Seq(0..9)
      BY <1>3, <2>1, Wider
    <2>3. -1 \in Index
      BY Indices
    <2> QED
      BY <1>6, <2>2, <2>3 DEF Part
  <1>11. \A list \in List : ~ (w[list] >= 0)
    BY <1>7 DEF List
  <1> QED
    BY <1>5, <1>9, <1>10, <1>11

(* A code that starts with no word, or that has a part that is none, is no *)
(* sequence of bytes.                                                      *)
LEMMA NotWords ==
    ASSUME NEW list \in List, NEW parts \in Seq(Part), NEW i \in 1..Len(parts),
           \/ ~ (parts[i][list] >= 0)
           \/ parts[i][list] % 2 # (i - 1) % 2
    PROVE  WordBytes(list, parts) = {}
  <1>1. i \in DOMAIN parts
    OBVIOUS
  <1> QED
    BY <1>1 DEF WordBytes, indexOf

LEMMA MagicExact ==
    ASSUME NEW list \in List, NEW s \in Nat, NEW q \in Seq(Byte), q # <<>>,
           NEW parts, parts = EncodeMagic(list, s, q)
    PROVE  /\ parts \in Seq(Part) /\ DecodeVarint(parts) = {}
           /\ DecodeMagic(list, parts) = {[slot |-> s, pass |-> q]}
           /\ Tail(parts) \in Seq(Part) /\ Len(Tail(parts)) = Len(q)
           /\ \A i \in 1..Len(q) : Tail(parts)[i] = Word(list, q[i], i - 1)
  <1>1. PICK ws : ws = [i \in DOMAIN q |-> Word(list, q[i], i - 1)]
    OBVIOUS
  <1>2. /\ WordBytes(list, ws) = {q} /\ ws \in Seq(Part) /\ Len(ws) = Len(q)
        /\ \A i \in 1..Len(q) : ws[i] = Word(list, q[i], i - 1)
    BY <1>1, WordsBack
  <1>3. PICK w : w = Number(10, s)
    OBVIOUS
  <1>4. ParseInt(10, w) = {s} /\ w \in Part /\ ~ (w["en"] >= 0)
    BY <1>3, NumberBack DEF List
  <1>5. parts = <<w>> \o ws
    BY <1>1, <1>3 DEF EncodeMagic
  <1>6. /\ parts \in Seq(Part) /\ parts[1] = w /\ Len(parts) = 1 + Len(ws) /\ Len(ws) \in Nat
        /\ Len(ws) # 0
    BY <1>2, <1>4, <1>5
  <1>7. Tail(parts) = ws
    BY <1>2, <1>4, <1>5
  <1>8. DecodeVarint(parts) = {}
    <2>1. 1 \in 1..Len(parts) /\ "en" \in List
      BY <1>6 DEF List
    <2>2. WordBytes("en", parts) = {}
      BY <1>4, <1>6, <2>1, NotWords
    <2> QED
      BY <2>2 DEF DecodeVarint
  <1>9. DecodeMagic(list, parts) = {[slot |-> s, pass |-> q]}
    <2>1. ~ (Len(parts) < 2)
      BY <1>6
    <2>2. ParseInt(10, parts[1]) = {s} /\ WordBytes(list, Tail(parts)) = {q}
      BY <1>2, <1>4, <1>6, <1>7, Zenon
    <2>3. PICK A, B : A = ParseInt(10, parts[1]) /\ B = WordBytes(list, Tail(parts))
      OBVIOUS
    <2>4. DecodeMagic(list, parts) = {[slot |-> a, pass |-> p] : a \in A, p \in B}
      BY <2>1, <2>3 DEF DecodeMagic
    <2> QED
      BY <2>2, <2>3, <2>4
  <1> QED
    BY <1>2, <1>6, <1>7, <1>8, <1>9

(* An odd PGP word that is English too is an even one there.               *)
LEMMA PgpNotEnglish ==
    ASSUME NEW s \in Nat, NEW q \in Seq(Byte), q # <<>>,
           Len(q) > 1 \/ pgpWords(2 * q[1]).en % 2 # 0,
           NEW parts, parts = EncodeMagic("pgp", s, q)
    PROVE  DecodeMagic("en", parts) = {}
  <1>1. "pgp" \in List /\ "en" \in List
    BY DEF List
  <1>2. PICK ws : ws = Tail(parts)
    OBVIOUS
  <1>3. ws \in Seq(Part) /\ Len(ws) = Len(q) /\ \A i \in 1..Len(q) : ws[i] = Word("pgp", q[i], i - 1)
    <2>1. \A list \in List : parts = EncodeMagic(list, s, q) =>
            /\ Tail(parts) \in Seq(Part) /\ Len(Tail(parts)) = Len(q)
            /\ \A i \in 1..Len(q) : Tail(parts)[i] = Word(list, q[i], i - 1)
      BY MagicExact
    <2> QED
      BY <1>1, <1>2, <2>1, Zenon
  <1>4. WordBytes("en", ws) = {}
    <2>1. CASE Len(q) > 1
      <3>1. 2 \in 1..Len(q) /\ q[2] \in Byte
        BY <2>1
      <3>2. PICK i, w : i = 1 /\ w = Word("pgp", q[2], i)
        OBVIOUS
      <3>3. w.en < 0 \/ w.en % 2 = 0
        <4>1. i \in Nat /\ i % 2 = 1
          BY <3>2
        <4> QED
          BY <1>1, <3>1, <3>2, <4>1, WordFacts
      <3>4. ws[2] = w /\ w \in Part
        BY <1>3, <3>1, <3>2
      <3>5. w["en"] \in Int
        BY <3>4, Indices DEF Part
      <3>6. ~ (ws[2]["en"] >= 0) \/ ws[2]["en"] % 2 # (2 - 1) % 2
        BY <3>3, <3>4, <3>5
      <3>7. 2 \in 1..Len(ws)
        BY <1>3, <3>1
      <3> QED
        BY <1>1, <1>3, <3>6, <3>7, NotWords
    <2>2. CASE pgpWords(2 * q[1]).en % 2 # 0
      <3>1. 1 \in 1..Len(q) /\ q[1] \in Byte
        OBVIOUS
      <3>2. ws[1] = Word("pgp", q[1], 0)
        BY <1>3, <3>1
      <3>3. q[1] \in Nat
        BY <3>1, Bytewise
      <3>4. 2 * q[1] + (0 % 2) = 2 * q[1]
        BY <3>3
      <3>5. ws[1] = pgpWords(2 * q[1])
        BY <3>2, <3>4 DEF Word, WordAt
      <3>6. ws[1]["en"] % 2 # (1 - 1) % 2
        BY <2>2, <3>5
      <3>7. 1 \in 1..Len(ws)
        BY <1>3, <3>1
      <3> QED
        BY <1>1, <1>3, <3>6, <3>7, NotWords
    <2> QED
      BY <2>1, <2>2
  <1> QED
    BY <1>2, <1>4 DEF DecodeMagic

(* Three octal digits hold a byte and its parity bit.                      *)
LEMMA Octal3Back ==
    ASSUME NEW n \in Nat, n < 512, NEW w, w = Octal3(n)
    PROVE  /\ ParseInt(8, w) = {n} /\ w \in Part
           /\ \A list \in List : ~ (w[list] >= 0)
  <1>1. PICK a, b, c : a = n \div 64 /\ b = (n \div 8) % 8 /\ c = n % 8
    OBVIOUS
  <1>2. /\ a \in Nat /\ a < 8 /\ b \in Nat /\ b < 8 /\ c \in Nat /\ c < 8
        /\ (a * 8 + b) * 8 + c = n
    BY <1>1
  <1>3. PICK d : d = <<a, b, c>>
    OBVIOUS
  <1>4. PICK base : base = 8
    OBVIOUS
  <1>5. ValueOf(base, d) = n
    <2>0. base \in Base
      BY <1>4 DEF Base
    <2>1. PICK d0, d1, d2 : d0 = <<>> /\ d1 = Append(d0, a) /\ d2 = Append(d1, b)
      OBVIOUS
    <2>2. d0 \in Seq(Nat) /\ d1 \in Seq(Nat) /\ d2 \in Seq(Nat)
      BY <1>2, <2>1
    <2>3. d = Append(d2, c)
      BY <1>2, <1>3, <2>1
    <2>4. ValueOf(base, d1) = 0 * base + a
      <3>1. ValueOf(base, d0) = 0
        BY <2>0, <2>1, ValueFacts
      <3>2. ValueOf(base, d1) = ValueOf(base, d0) * base + a
        BY <1>2, <2>0, <2>1, <2>2, ValueFacts
      <3> QED
        BY <3>1, <3>2
    <2>5. ValueOf(base, d2) = ValueOf(base, d1) * base + b
      BY <1>2, <2>0, <2>1, <2>2, ValueFacts
    <2>6. ValueOf(base, d) = ValueOf(base, d2) * base + c
      BY <1>2, <2>0, <2>2, <2>3, ValueFacts
    <2> QED
      BY <1>2, <1>4, <2>4, <2>5, <2>6
  <1>6. w = [en |-> -1, pgp |-> -1, digits |-> d]
    BY <1>1, <1>3 DEF Octal3
  <1>7. w.digits = d /\ w["en"] = -1 /\ w["pgp"] = -1
    BY <1>6
  <1>8. d # <<>> /\ \A i \in DOMAIN d : d[i] < base
    BY <1>2, <1>3, <1>4
  <1>9. ParseInt(8, w) = {n}
    BY <1>4, <1>5, <1>7, <1>8 DEF ParseInt
  <1>10. w \in Part
    <2>1. d \in Seq(0..9)
      BY <1>2, <1>3
    <2>2. -1 \in Index
      BY Indices
    <2> QED
      BY <1>6, <2>1, <2>2 DEF Part
  <1> QED
    BY <1>7, <1>9, <1>10 DEF List

LEMMA OctalExact ==
    ASSUME NEW s \in Nat, NEW q \in Seq(Byte), q # <<>>, NEW parts, parts = EncodeOctal(s, q)
    PROVE  /\ parts \in Seq(Part) /\ DecodeVarint(parts) = {}
           /\ DecodeMagic("en", parts) = {} /\ DecodeMagic("pgp", parts) = {}
           /\ DecodeOctal(parts) = {[slot |-> s, pass |-> q]}
  <1>1. Len(q) \in Nat /\ Len(q) # 0 /\ DOMAIN q = 1..Len(q)
    OBVIOUS
  <1>2. PICK v : v = [i \in 1..Len(q) |-> q[i] + 256 * ((i - 1) % 2)]
    OBVIOUS
  <1>3. ASSUME NEW i \in 1..Len(q)
        PROVE  /\ v[i] \in Nat /\ v[i] < 512
               /\ (v[i] \div 256) % 2 = (i - 1) % 2 /\ v[i] % 256 = q[i]
    <2>1. q[i] \in Nat /\ q[i] < 256
      BY Bytewise
    <2>2. v[i] = q[i] + 256 * ((i - 1) % 2)
      BY <1>2
    <2>3. (i - 1) % 2 = 0 \/ (i - 1) % 2 = 1
      OBVIOUS
    <2> QED
      BY <2>1, <2>2, <2>3
  <1>4. PICK ws, w : ws = [i \in 1..Len(q) |-> Octal3(v[i])] /\ w = Number(8, s)
    OBVIOUS
  <1>5. ASSUME NEW i \in 1..Len(q)
        PROVE  /\ ParseInt(8, ws[i]) = {v[i]} /\ ws[i] \in Part
               /\ ~ (ws[i]["en"] >= 0) /\ ~ (ws[i]["pgp"] >= 0)
    <2>1. ws[i] = Octal3(v[i]) /\ v[i] \in Nat /\ v[i] < 512
      BY <1>3, <1>4
    <2> QED
      BY <2>1, Octal3Back DEF List
  <1>6. ParseInt(8, w) = {s} /\ w \in Part /\ ~ (w["en"] >= 0)
    BY <1>4, NumberBack DEF List
  <1>7. parts = <<w>> \o ws
    BY <1>1, <1>2, <1>4 DEF EncodeOctal
  <1>8. ws \in Seq(Part) /\ Len(ws) = Len(q)
    BY <1>1, <1>4, <1>5
  <1>9. /\ parts \in Seq(Part) /\ parts[1] = w /\ Len(parts) = 1 + Len(q)
        /\ Tail(parts) = ws /\ \A i \in 2..Len(parts) : parts[i] = ws[i - 1]
    BY <1>1, <1>6, <1>7, <1>8
  <1>10. DecodeVarint(parts) = {}
    <2>1. 1 \in 1..Len(parts) /\ "en" \in List
      BY <1>1, <1>9 DEF List
    <2>2. WordBytes("en", parts) = {}
      BY <1>6, <1>9, <2>1, NotWords
    <2> QED
      BY <2>2 DEF DecodeVarint
  <1>11. ASSUME NEW list \in List PROVE DecodeMagic(list, parts) = {}
    <2>1. 1 \in 1..Len(ws) /\ ~ (ws[1][list] >= 0)
      BY <1>1, <1>5, <1>8 DEF List
    <2>2. WordBytes(list, ws) = {}
      BY <1>8, <2>1, NotWords
    <2>3. PICK A, B : A = ParseInt(10, parts[1]) /\ B = WordBytes(list, Tail(parts))
      OBVIOUS
    <2>4. DecodeMagic(list, parts) \subseteq {[slot |-> a, pass |-> p] : a \in A, p \in B}
      BY <2>3 DEF DecodeMagic
    <2>5. B = {}
      BY <1>9, <2>2, <2>3
    <2>6. {[slot |-> a, pass |-> p] : a \in A, p \in B} = {}
      BY <2>5
    <2> QED
      BY <2>4, <2>6
  <1>12. DecodeOctal(parts) = {[slot |-> s, pass |-> q]}
    <2>1. ASSUME NEW i \in 2..Len(parts)
          PROVE  \E n \in ParseInt(8, parts[i]) : n < 2 ^ 15 /\ (n \div 256) % 2 = i % 2
      <3>1. i - 1 \in 1..Len(q) /\ parts[i] = ws[i - 1] /\ (i - 1 - 1) % 2 = i % 2
        BY <1>1, <1>9
      <3>2. PICK n : n = v[i - 1]
        OBVIOUS
      <3>3. n \in ParseInt(8, parts[i]) /\ n \in Nat /\ n < 512 /\ (n \div 256) % 2 = i % 2
        BY <1>3, <1>5, <3>1, <3>2, ZenonT(30)
      <3>4. n < 2 ^ 15
        BY <3>3
      <3> QED
        BY <3>3, <3>4
    <2>2. ~ (Len(parts) < 2) /\ Len(parts) - 1 = Len(q)
      BY <1>1, <1>9
    <2>3. ASSUME NEW i \in 1..Len(q)
          PROVE  (CHOOSE n \in ParseInt(8, parts[i + 1]) : TRUE) % 256 = q[i]
      <3>1. parts[i + 1] = ws[i]
        BY <1>1, <1>9
      <3>2. ParseInt(8, parts[i + 1]) = {v[i]}
        BY <1>5, <3>1
      <3>3. (CHOOSE n \in ParseInt(8, parts[i + 1]) : TRUE) = v[i]
        BY <3>2
      <3> QED
        BY <1>3, <3>3, ZenonT(30)
    <2>4. PICK p : p = [i \in 1..Len(parts) - 1 |-> (CHOOSE n \in ParseInt(8, parts[i + 1]) : TRUE) % 256]
      OBVIOUS
    <2>5. p = q
      BY <1>1, <2>2, <2>3, <2>4
    <2>6. DecodeOctal(parts) = {[slot |-> a, pass |-> p] : a \in ParseInt(8, parts[1])}
      BY <2>1, <2>2, <2>4 DEF DecodeOctal
    <2> QED
      BY <1>6, <1>9, <2>5, <2>6
  <1> QED
    BY <1>9, <1>10, <1>11, <1>12 DEF List

-----------------------------------------------------------------------------
(* Every code typed as shown is read back.                                 *)
Exactly(s, q) == {[slot |-> s, pass |-> q]}
ReadBack(enc_, q) == enc_ = "pgp" => Len(q) > 1 \/ pgpWords(2 * q[1]).en % 2 # 0

LEMMA EncodeType ==
    ASSUME NEW e \in Encoding, NEW s \in Slot, NEW q \in Seq(Byte)
    PROVE  EncodeAs(e, s, q) \in Seq(Part)
  <1>0. s \in Nat
    BY DEF Slot
  <1>1. CASE q = <<>>
    <2>1. EncodeAs(e, s, q) = <<>>
      BY <1>1 DEF EncodeAs
    <2> QED
      BY <2>1
  <1>2. ASSUME q # <<>>, e = "varint" PROVE EncodeAs(e, s, q) \in Seq(Part)
    <2>1. PICK p, buf : p = PutUvarint(s) /\ buf = p \o q
      OBVIOUS
    <2>2. p \in Seq(Byte)
      BY <2>1, PutType
    <2>3. buf \in Seq(Byte)
      BY <2>1, <2>2
    <2>4. EncodeVarint(s, q) = [i \in DOMAIN buf |-> Word("en", buf[i], i - 1)]
      BY <2>1 DEF EncodeVarint
    <2>5. EncodeVarint(s, q) \in Seq(Part)
      BY <2>3, <2>4, WordsBack DEF List
    <2> QED
      BY <1>2, <2>5 DEF EncodeAs
  <1>3. ASSUME q # <<>>, e = "magic" PROVE EncodeAs(e, s, q) \in Seq(Part)
    <2>1. EncodeMagic("en", s, q) \in Seq(Part)
      BY <1>0, <1>3, MagicExact DEF List
    <2> QED
      BY <1>3, <2>1 DEF EncodeAs
  <1>4. ASSUME q # <<>>, e = "pgp" PROVE EncodeAs(e, s, q) \in Seq(Part)
    <2>1. EncodeMagic("pgp", s, q) \in Seq(Part)
      BY <1>0, <1>4, MagicExact DEF List
    <2> QED
      BY <1>4, <2>1 DEF EncodeAs
  <1>5. ASSUME q # <<>>, e = "octal" PROVE EncodeAs(e, s, q) \in Seq(Part)
    <2>1. EncodeOctal(s, q) \in Seq(Part)
      BY <1>0, <1>5, OctalExact
    <2> QED
      BY <1>5, <2>1 DEF EncodeAs
  <1> QED
    BY <1>1, <1>2, <1>3, <1>4, <1>5 DEF Encoding

LEMMA DecodeExact ==
    ASSUME NEW e \in Encoding, NEW s \in Slot, NEW q \in Seq(Byte), q # <<>>, ReadBack(e, q),
           NEW parts, parts = EncodeAs(e, s, q)
    PROVE  Decode(parts) = Exactly(s, q)
  <1>0. s \in Nat /\ Exactly(s, q) # {} /\ "en" \in List /\ "pgp" \in List
    BY DEF Slot, Exactly, List
  <1>1. ASSUME e = "varint" PROVE Decode(parts) = Exactly(s, q)
    <2>1. parts = EncodeVarint(s, q)
      BY <1>1 DEF EncodeAs
    <2>2. DecodeVarint(parts) = Exactly(s, q)
      BY <2>1, VarintExact DEF Exactly
    <2> QED
      BY <1>0, <2>2, FirstAccepts
  <1>2. ASSUME e = "magic" PROVE Decode(parts) = Exactly(s, q)
    <2>1. parts = EncodeMagic("en", s, q)
      BY <1>2 DEF EncodeAs
    <2>2. DecodeVarint(parts) = {} /\ DecodeMagic("en", parts) = Exactly(s, q)
      BY <1>0, <2>1, MagicExact DEF Exactly
    <2> QED
      BY <1>0, <2>2, FirstAccepts
  <1>3. ASSUME e = "pgp" PROVE Decode(parts) = Exactly(s, q)
    <2>1. parts = EncodeMagic("pgp", s, q)
      BY <1>3 DEF EncodeAs
    <2>2. DecodeVarint(parts) = {} /\ DecodeMagic("pgp", parts) = Exactly(s, q)
      BY <1>0, <2>1, MagicExact DEF Exactly
    <2>3. DecodeMagic("en", parts) = {}
      BY <1>0, <1>3, <2>1, PgpNotEnglish DEF ReadBack
    <2> QED
      BY <1>0, <2>2, <2>3, FirstAccepts
  <1>4. ASSUME e = "octal" PROVE Decode(parts) = Exactly(s, q)
    <2>1. parts = EncodeOctal(s, q)
      BY <1>4 DEF EncodeAs
    <2>2. /\ DecodeVarint(parts) = {} /\ DecodeMagic("en", parts) = {}
          /\ DecodeMagic("pgp", parts) = {} /\ DecodeOctal(parts) = Exactly(s, q)
      BY <1>0, <2>1, OctalExact DEF Exactly
    <2> QED
      BY <2>2, FirstAccepts
  <1> QED
    BY <1>1, <1>2, <1>3, <1>4 DEF Encoding

-----------------------------------------------------------------------------
(* No decoder accepts words of which one is at a position of the other     *)
(* parity.                                                                 *)
Plain == {w \in Part : w.digits = <<>>}
Refused(parts) == parts # <<>> /\ Decode(parts) = {}

LEMMA Misplaced ==
    ASSUME NEW parts \in Seq(Plain), NEW i \in 1..Len(parts),
           parts[i].en % 2 # (i - 1) % 2
    PROVE  Refused(parts)
  <1>1. parts \in Seq(Part)
    <2>1. Plain \subseteq Part
      BY DEF Plain
    <2> QED
      BY <2>1, Wider
  <1>2. Len(parts) \in Nat /\ parts[1].digits = <<>>
    <2>1. 1 \in 1..Len(parts)
      OBVIOUS
    <2>2. parts[1] \in Plain
      BY <2>1
    <2> QED
      BY <2>2 DEF Plain
  <1>3. \A base : ParseInt(base, parts[1]) = {}
    BY <1>2 DEF ParseInt
  <1>4. DecodeVarint(parts) = {}
    <2>1. "en" \in List /\ parts[i]["en"] % 2 # (i - 1) % 2
      BY DEF List
    <2>2. WordBytes("en", parts) = {}
      BY <1>1, <2>1, NotWords
    <2> QED
      BY <2>2 DEF DecodeVarint
  <1>5. ASSUME NEW list PROVE DecodeMagic(list, parts) = {}
    <2>1. PICK A, B : A = ParseInt(10, parts[1]) /\ B = WordBytes(list, Tail(parts))
      OBVIOUS
    <2>2. DecodeMagic(list, parts) \subseteq {[slot |-> a, pass |-> p] : a \in A, p \in B}
      BY <2>1 DEF DecodeMagic
    <2>3. A = {}
      BY <1>3, <2>1
    <2>4. {[slot |-> a, pass |-> p] : a \in A, p \in B} = {}
      BY <2>3
    <2> QED
      BY <2>2, <2>4
  <1>6. DecodeOctal(parts) = {}
    <2>1. PICK A, p : /\ A = ParseInt(8, parts[1])
                      /\ p = [j \in 1..Len(parts) - 1 |-> (CHOOSE n \in ParseInt(8, parts[j + 1]) : TRUE) % 256]
      OBVIOUS
    <2>2. DecodeOctal(parts) \subseteq {[slot |-> a, pass |-> p] : a \in A}
      BY <2>1 DEF DecodeOctal
    <2>3. A = {}
      BY <1>3, <2>1
    <2> QED
      BY <2>2, <2>3
  <1>7. Decode(parts) = {}
    BY <1>4, <1>5, <1>6, FirstAccepts
  <1>8. parts # <<>>
    OBVIOUS
  <1> QED
    BY <1>7, <1>8 DEF Refused

(* What the slips do to a sequence of parts.                               *)
Swapped(ws, i) == [ws EXCEPT ![i] = ws[i + 1], ![i + 1] = ws[i]]

LEMMA SwapFacts ==
    ASSUME NEW T, NEW ws \in Seq(T), NEW i \in 1..Len(ws) - 1
    PROVE  Swapped(ws, i) \in Seq(T) /\ i \in 1..Len(Swapped(ws, i)) /\ Swapped(ws, i)[i] = ws[i + 1]
  <1>1. i \in 1..Len(ws) /\ i + 1 \in 1..Len(ws) /\ i # i + 1 /\ Len(ws) \in Nat
    OBVIOUS
  <1>2. PICK us : us = [ws EXCEPT ![i] = ws[i + 1]]
    OBVIOUS
  <1>3. us \in Seq(T) /\ Len(us) = Len(ws) /\ us[i] = ws[i + 1]
    BY <1>1, <1>2
  <1>4. PICK vs : vs = [us EXCEPT ![i + 1] = ws[i]]
    OBVIOUS
  <1>5. vs \in Seq(T) /\ Len(vs) = Len(ws) /\ vs[i] = us[i]
    BY <1>1, <1>3, <1>4
  <1>6. vs = Swapped(ws, i)
    BY <1>2, <1>4 DEF Swapped
  <1> QED
    BY <1>1, <1>3, <1>5, <1>6

LEMMA JoinFacts ==
    ASSUME NEW T, NEW a \in Seq(T), NEW b \in Seq(T)
    PROVE  /\ a \o b \in Seq(T) /\ Len(a \o b) = Len(a) + Len(b)
           /\ 0 < Len(b) => (a \o b)[Len(a) + 1] = b[1]
  <1>0. PICK c, m, n : c = a \o b /\ m = Len(a) /\ n = Len(b)
    OBVIOUS
  <1>1. m \in Nat /\ n \in Nat
    BY <1>0
  <1>2. c \in Seq(T) /\ Len(c) = m + n
    BY <1>0, <1>1
  <1>3. ASSUME 0 < n PROVE c[m + 1] = b[1]
    <2>1. \A k \in 1..n : c[m + k] = b[k]
      BY <1>0, <1>1
    <2>2. 1 \in 1..n
      BY <1>1, <1>3
    <2> QED
      BY <2>1, <2>2
  <1> QED
    BY <1>0, <1>2, <1>3

LEMMA DropFacts ==
    ASSUME NEW T, NEW ws \in Seq(T), NEW i \in 1..Len(ws)
    PROVE  /\ RemoveAt(ws, i) \in Seq(T) /\ Len(RemoveAt(ws, i)) = Len(ws) - 1
           /\ i < Len(ws) => RemoveAt(ws, i)[i] = ws[i + 1]
  <1>1. PICK n : n = Len(ws) /\ n \in Nat /\ i \in Nat /\ 1 <= i /\ i <= n
    OBVIOUS
  <1>2. PICK a, b : a = SubSeq(ws, 1, i - 1) /\ b = SubSeq(ws, i + 1, n)
    OBVIOUS
  <1>3. a \in Seq(T) /\ Len(a) = i - 1
    BY <1>1, <1>2
  <1>4. b \in Seq(T) /\ Len(b) = n - i /\ (i < n => b[1] = ws[i + 1])
    BY <1>1, <1>2
  <1>5. PICK c : c = a \o b
    OBVIOUS
  <1>6. c \in Seq(T) /\ Len(c) = n - 1 /\ (i < n => c[i] = b[1])
    <2>1. PICK k, l : k = i - 1 /\ l = n - i /\ k = Len(a) /\ l = Len(b)
      BY <1>3, <1>4
    <2>2. c \in Seq(T) /\ Len(c) = k + l /\ (0 < l => c[k + 1] = b[1])
      <3>1. /\ a \o b \in Seq(T) /\ Len(a \o b) = Len(a) + Len(b)
            /\ 0 < Len(b) => (a \o b)[Len(a) + 1] = b[1]
        <4>1. a \in Seq(T) /\ b \in Seq(T)
          BY <1>3, <1>4, <1>5
        <4> QED
          BY <4>1, JoinFacts, Zenon
      <3> QED
        BY <1>5, <2>1, <3>1
    <2> QED
      BY <1>1, <2>1, <2>2, SMTT(30)
  <1>7. RemoveAt(ws, i) = c
    BY <1>1, <1>2, <1>5 DEF RemoveAt
  <1> QED
    BY <1>1, <1>4, <1>6, <1>7

LEMMA RepeatFacts ==
    ASSUME NEW T, NEW ws \in Seq(T), NEW i \in 1..Len(ws)
    PROVE  /\ InsertAt(ws, i, ws[i]) \in Seq(T) /\ i + 1 \in 1..Len(InsertAt(ws, i, ws[i]))
           /\ InsertAt(ws, i, ws[i])[i + 1] = ws[i]
  <1>1. PICK n : n = Len(ws) /\ n \in Nat /\ i \in Nat /\ 1 <= i /\ i <= n
    OBVIOUS
  <1>2. PICK a, b, w : a = SubSeq(ws, 1, i - 1) /\ b = SubSeq(ws, i, n) /\ w = <<ws[i]>>
    OBVIOUS
  <1>3. a \in Seq(T) /\ Len(a) = i - 1
    BY <1>1, <1>2
  <1>4. b \in Seq(T) /\ Len(b) = n - i + 1 /\ b[1] = ws[i]
    BY <1>1, <1>2
  <1>5. w \in Seq(T) /\ Len(w) = 1
    BY <1>2
  <1>6. PICK c, d : c = a \o w /\ d = c \o b
    OBVIOUS
  <1>7. c \in Seq(T) /\ Len(c) = i
    <2>1. PICK k, l : k = i - 1 /\ l = 1 /\ k = Len(a) /\ l = Len(w)
      BY <1>3, <1>5
    <2>2. c \in Seq(T) /\ Len(c) = k + l
      <3>1. /\ a \o w \in Seq(T) /\ Len(a \o w) = Len(a) + Len(w)
            /\ 0 < Len(w) => (a \o w)[Len(a) + 1] = w[1]
        <4>1. a \in Seq(T) /\ w \in Seq(T)
          BY <1>3, <1>4, <1>5
        <4> QED
          BY <4>1, JoinFacts, Zenon
      <3> QED
        BY <1>6, <2>1, <3>1
    <2>3. Len(c) = i
      <3>1. k + l = i
        BY <1>1, <2>1
      <3> QED
        BY <2>2, <3>1
    <2> QED
      BY <2>2, <2>3
  <1>8. d \in Seq(T) /\ Len(d) = n + 1 /\ d[i + 1] = b[1]
    <2>1. PICK k, l : l = n - i + 1 /\ l = Len(b) /\ k = i /\ k = Len(c)
      BY <1>4, <1>7
    <2>2. d \in Seq(T) /\ Len(d) = k + l /\ (0 < l => d[k + 1] = b[1])
      <3>1. /\ c \o b \in Seq(T) /\ Len(c \o b) = Len(c) + Len(b)
            /\ 0 < Len(b) => (c \o b)[Len(c) + 1] = b[1]
        <4>1. c \in Seq(T) /\ b \in Seq(T)
          BY <1>3, <1>4, <1>5, <1>7
        <4> QED
          BY <4>1, JoinFacts, Zenon
      <3> QED
        BY <1>6, <2>1, <3>1
    <2> QED
      BY <1>1, <2>1, <2>2
  <1>9. InsertAt(ws, i, ws[i]) = d
    BY <1>1, <1>2, <1>6 DEF InsertAt
  <1> QED
    BY <1>1, <1>4, <1>8, <1>9

(* The words of a varint code are at positions of their parity.            *)
Placed(ws) == ws \in Seq(Plain) /\ \A i \in 1..Len(ws) : ws[i].en % 2 = (i - 1) % 2

LEMMA VarintPlaced ==
    ASSUME NEW s \in Slot, NEW q \in Seq(Byte)
    PROVE  Placed(EncodeAs("varint", s, q))
  <1>1. CASE q = <<>>
    <2>1. EncodeAs("varint", s, q) = <<>>
      BY <1>1 DEF EncodeAs
    <2>2. PICK ws : ws = EncodeAs("varint", s, q)
      OBVIOUS
    <2>3. ws \in Seq(Plain) /\ Len(ws) = 0
      <3>1. \A T, t : t = <<>> => t \in Seq(T) /\ Len(t) = 0
        OBVIOUS
      <3> QED
        BY <2>1, <2>2, <3>1, Zenon
    <2>4. \A i \in 1..Len(ws) : ws[i].en % 2 = (i - 1) % 2
      BY <2>3
    <2> QED
      BY <2>2, <2>3, <2>4 DEF Placed
  <1>2. CASE q # <<>>
    <2>1. PICK p, buf, ws : /\ p = PutUvarint(s) /\ buf = p \o q
                            /\ ws = [i \in DOMAIN buf |-> Word("en", buf[i], i - 1)]
      OBVIOUS
    <2>2. p \in Seq(Byte)
      BY <2>1, PutType
    <2>3. buf \in Seq(Byte)
      BY <2>1, <2>2
    <2>4. EncodeAs("varint", s, q) = ws
      BY <1>2, <2>1 DEF EncodeAs, EncodeVarint
    <2>5. /\ ws \in Seq(Part) /\ Len(ws) = Len(buf)
          /\ \A i \in 1..Len(buf) : ws[i].digits = <<>> /\ ws[i]["en"] % 2 = (i - 1) % 2
      <3>1. PICK list \in List : list = "en"
        BY DEF List
      <3>2. ws = [i \in DOMAIN buf |-> Word(list, buf[i], i - 1)]
        BY <2>1, <3>1
      <3>3. /\ ws \in Seq(Part) /\ Len(ws) = Len(buf)
            /\ \A i \in 1..Len(buf) : ws[i].digits = <<>> /\ ws[i][list] % 2 = (i - 1) % 2
        BY <2>3, <3>2, WordsBack
      <3> QED
        BY <3>1, <3>3
    <2>6. \A i \in 1..Len(ws) : ws[i] \in Plain
      BY <2>5 DEF Plain
    <2>7. ws \in Seq(Plain)
      <3>1. ws = [i \in 1..Len(ws) |-> ws[i]] /\ Len(ws) \in Nat
        BY <2>5
      <3>2. PICK n, vs : n = Len(ws) /\ vs = [i \in 1..n |-> ws[i]]
        OBVIOUS
      <3>3. vs \in Seq(Plain)
        BY <2>6, <3>1, <3>2
      <3> QED
        BY <3>1, <3>2, <3>3
    <2> QED
      BY <2>4, <2>5, <2>7 DEF Placed
  <1> QED
    BY <1>1, <1>2

LEMMA SlipsMisplaced ==
    ASSUME NEW ws, Placed(ws)
    PROVE  /\ \A i \in 1..Len(ws) - 1 : Refused(Swapped(ws, i))
           /\ \A i \in 1..Len(ws) : Refused(InsertAt(ws, i, ws[i]))
           /\ \A i \in 1..Len(ws) : i <= Len(RemoveAt(ws, i)) => Refused(RemoveAt(ws, i))
  <1>1. ws \in Seq(Plain) /\ Len(ws) \in Nat /\ \A i \in 1..Len(ws) : ws[i].en % 2 = (i - 1) % 2
    BY DEF Placed
  <1>2. \A i \in Nat : i >= 1 => i % 2 # (i - 1) % 2
    OBVIOUS
  <1>3. ASSUME NEW i \in 1..Len(ws) - 1 PROVE Refused(Swapped(ws, i))
    <2>1. /\ Swapped(ws, i) \in Seq(Plain) /\ i \in 1..Len(Swapped(ws, i))
          /\ Swapped(ws, i)[i] = ws[i + 1]
      BY <1>1, SwapFacts
    <2>2. i + 1 \in 1..Len(ws) /\ i + 1 - 1 = i /\ i \in Nat /\ i >= 1
      BY <1>1
    <2>3. ws[i + 1].en % 2 # (i - 1) % 2
      BY <1>1, <1>2, <2>2
    <2> QED
      BY <2>1, <2>3, Misplaced
  <1>4. ASSUME NEW i \in 1..Len(ws) PROVE Refused(InsertAt(ws, i, ws[i]))
    <2>1. PICK vs : vs = InsertAt(ws, i, ws[i])
      OBVIOUS
    <2>2. vs \in Seq(Plain) /\ i + 1 \in 1..Len(vs) /\ vs[i + 1] = ws[i]
      BY <1>1, <2>1, RepeatFacts
    <2>3. i \in Nat /\ i >= 1 /\ i + 1 - 1 = i
      OBVIOUS
    <2>4. vs[i + 1].en % 2 # (i + 1 - 1) % 2
      BY <1>1, <1>2, <2>2, <2>3
    <2> QED
      BY <2>1, <2>2, <2>4, Misplaced
  <1>5. ASSUME NEW i \in 1..Len(ws), i <= Len(RemoveAt(ws, i)) PROVE Refused(RemoveAt(ws, i))
    <2>1. PICK vs : vs = RemoveAt(ws, i)
      OBVIOUS
    <2>2. vs \in Seq(Plain) /\ Len(vs) = Len(ws) - 1 /\ (i < Len(ws) => vs[i] = ws[i + 1])
      BY <1>1, <2>1, DropFacts
    <2>3. i \in 1..Len(vs) /\ i + 1 \in 1..Len(ws) /\ i + 1 - 1 = i /\ i \in Nat /\ i >= 1 /\ i < Len(ws)
      BY <1>1, <1>5, <2>1, <2>2
    <2>4. vs[i].en % 2 # (i - 1) % 2
      BY <1>1, <1>2, <2>2, <2>3
    <2> QED
      BY <2>1, <2>2, <2>3, <2>4, Misplaced
  <1> QED
    BY <1>3, <1>4, <1>5

-----------------------------------------------------------------------------
(* What the decoders yield.                                                *)
LEMMA SomeLeast ==
    ASSUME NEW I, I \subseteq Nat, I # {}
    PROVE  Min(I) \in I
  <1> DEFINE S == {n \in Nat : n \notin I}
  <1>1. CASE \E x \in I : \A y \in I : x <= y
    BY <1>1 DEF Min
  <1>2. ASSUME ~ \E x \in I : \A y \in I : x <= y PROVE FALSE
    <2>1. ASSUME NEW n \in Nat, \A m \in Nat : m < n => m \in S PROVE n \in S
      <3>1. ASSUME n \in I PROVE FALSE
        <4>1. \A y \in I : y \in Nat /\ ~ (y < n)
          BY <2>1
        <4>2. \A y \in I : n <= y
          BY <4>1
        <4> QED
          BY <1>2, <3>1, <4>2
      <3> QED
        BY <3>1
    <2>2. Nat \subseteq S
      <3> HIDE DEF S
      <3> QED
        BY <2>1, FromSmaller
    <2> QED
      BY <2>2
  <1> QED
    BY <1>1, <1>2

LEMMA ParseIntType ==
    ASSUME NEW base \in {8, 10}, NEW part \in Part
    PROVE  ParseInt(base, part) \subseteq Nat
  <1>1. PICK d : d = part.digits
    OBVIOUS
  <1>2. d \in Seq(Nat)
    <2>1. d \in Seq(0..9) /\ 0..9 \subseteq Nat
      BY <1>1 DEF Part
    <2> QED
      BY <2>1, Wider
  <1>3. base \in Base
    BY DEF Base
  <1>4. ValueOf(base, d) \in Nat
    BY <1>2, <1>3, ValueFacts
  <1> QED
    BY <1>1, <1>4 DEF ParseInt

LEMMA UvarintType ==
    ASSUME NEW buf \in Seq(Byte)
    PROVE  Uvarint(buf).slot \in Int /\ Uvarint(buf).n \in Nat
  <1>1. PICK I, n : I = {i \in 1..Len(buf) : buf[i] < 128} /\ n = IF I # {} THEN Min(I) ELSE 0
    OBVIOUS
  <1>2. n \in Nat /\ n <= Len(buf) /\ Len(buf) \in Nat
    <2>1. I \subseteq Nat /\ I \subseteq 1..Len(buf) /\ Len(buf) \in Nat
      BY <1>1
    <2>2. CASE I = {}
      BY <1>1, <2>1, <2>2
    <2>3. CASE I # {}
      <3>1. Min(I) \in I
        BY <2>1, <2>3, SomeLeast
      <3> QED
        BY <1>1, <2>1, <2>3, <3>1
    <2> QED
      BY <2>2, <2>3
  <1>3. n = SelectInSeq(buf, LAMBDA b : b < 128)
    BY <1>1 DEF SelectInSeq
  <1>4. PICK d : d = [i \in 1..n |-> buf[n + 1 - i] % 128]
    OBVIOUS
  <1>5. d \in Seq(Nat)
    <2>1. ASSUME NEW i \in 1..n PROVE buf[n + 1 - i] % 128 \in Nat
      <3>1. n + 1 - i \in 1..Len(buf)
        BY <1>2
      <3>2. buf[n + 1 - i] \in Byte
        BY <3>1
      <3>3. buf[n + 1 - i] \in Nat
        BY <3>2, Bytewise
      <3> QED
        BY <3>3
    <2> QED
      BY <1>2, <1>4, <2>1
  <1>6. PICK value : value = ValueOf(128, d)
    OBVIOUS
  <1>7. value \in Nat
    <2>1. 128 \in Base
      BY DEF Base
    <2> QED
      BY <1>5, <1>6, <2>1, ValueFacts
  <1>8. PICK a, b : a = (n > 10 \/ (n = 10 /\ buf[n] > 1)) /\ b = (n = 10 /\ buf[n] = 1)
    OBVIOUS
  <1>9. Uvarint(buf) = IF a THEN [slot |-> 0, n |-> 0] ELSE [slot |-> IF b THEN value - 2 ^ 64 ELSE value, n |-> n]
    BY <1>3, <1>4, <1>6, <1>8 DEF Uvarint
  <1>10. value - 2 ^ 64 \in Int /\ value \in Int
    BY <1>7
  <1> QED
    BY <1>2, <1>9, <1>10

LEMMA DecodeType ==
    ASSUME NEW parts \in Seq(Part)
    PROVE  Decode(parts) \subseteq Secret
  <1>1. DecodeVarint(parts) \subseteq Secret
    <2>1. ASSUME NEW buf \in WordBytes("en", parts)
          PROVE  [slot |-> Uvarint(buf).slot, pass |-> SubSeq(buf, Uvarint(buf).n + 1, Len(buf))] \in Secret
      <3>1. buf \in Seq(Byte)
        BY WordBytesType DEF List
      <3>2. PICK s, n : s = Uvarint(buf).slot /\ n = Uvarint(buf).n
        OBVIOUS
      <3>3. s \in Int /\ n \in Nat
        BY <3>1, <3>2, UvarintType
      <3>4. SubSeq(buf, n + 1, Len(buf)) \in Seq(Byte)
        BY <3>1, <3>3
      <3> QED
        BY <3>2, <3>3, <3>4 DEF Secret, Byte
    <2> QED
      BY <2>1 DEF DecodeVarint
  <1>2. ASSUME NEW list \in List PROVE DecodeMagic(list, parts) \subseteq Secret
    <2>1. CASE Len(parts) < 2
      BY <2>1 DEF DecodeMagic
    <2>2. CASE ~ (Len(parts) < 2)
      <3>1. parts[1] \in Part /\ Tail(parts) \in Seq(Part)
        BY <2>2
      <3>2. PICK A, B : A = ParseInt(10, parts[1]) /\ B = WordBytes(list, Tail(parts))
        OBVIOUS
      <3>3. A \subseteq Nat /\ B \subseteq Seq(Byte)
        BY <3>1, <3>2, ParseIntType, WordBytesType
      <3>4. {[slot |-> s, pass |-> p] : s \in A, p \in B} \subseteq Secret
        BY <3>3 DEF Secret, Byte
      <3>5. DecodeMagic(list, parts) = {[slot |-> s, pass |-> p] : s \in A, p \in B}
        BY <2>2, <3>2 DEF DecodeMagic
      <3> QED
        BY <3>4, <3>5
    <2> QED
      BY <2>1, <2>2
  <1>3. DecodeOctal(parts) \subseteq Secret
    <2>1. PICK ok : ok = ~ (\/ Len(parts) < 2
                            \/ \E i \in 2..Len(parts) : ~\E n \in ParseInt(8, parts[i]) : n < 2 ^ 15 /\ (n \div 256) % 2 = i % 2)
      OBVIOUS
    <2>2. CASE ~ ok
      BY <2>1, <2>2 DEF DecodeOctal
    <2>3. CASE ok
      <3>1. PICK last : last = Len(parts) - 1 /\ last \in Nat
        <4>1. \A n \in Nat : ~ (n < 2) => n - 1 \in Nat
          OBVIOUS
        <4>2. Len(parts) \in Nat
          OBVIOUS
        <4> QED
          BY <2>1, <2>3, <4>1, <4>2
      <3>2. ASSUME NEW i \in 1..last
            PROVE  (CHOOSE n \in ParseInt(8, parts[i + 1]) : TRUE) % 256 \in Byte
        <4>1. i + 1 \in 2..Len(parts) /\ parts[i + 1] \in Part
          BY <3>1
        <4>2. ParseInt(8, parts[i + 1]) # {}
          BY <2>1, <2>3, <4>1
        <4>3. PICK n : n = CHOOSE m \in ParseInt(8, parts[i + 1]) : TRUE
          OBVIOUS
        <4>4. n \in ParseInt(8, parts[i + 1])
          BY <4>2, <4>3
        <4>5. n \in Nat
          BY <4>1, <4>4, ParseIntType
        <4>6. n % 256 \in Nat /\ n % 256 < 256
          BY <4>5
        <4> QED
          BY <4>3, <4>6, Bytewise
      <3>3. PICK p : p = [i \in 1..last |-> (CHOOSE n \in ParseInt(8, parts[i + 1]) : TRUE) % 256]
        OBVIOUS
      <3>4. p \in Seq(Byte)
        BY <3>1, <3>2, <3>3
      <3>5. parts[1] \in Part
        BY <3>1
      <3>6. PICK A : A = ParseInt(8, parts[1]) /\ A \subseteq Nat
        BY <3>5, ParseIntType
      <3>7. DecodeOctal(parts) = {[slot |-> s, pass |-> p] : s \in A}
        BY <2>1, <2>3, <3>1, <3>3, <3>6 DEF DecodeOctal
      <3>8. \A s \in A : s \in Int
        BY <3>6
      <3> QED
        BY <3>4, <3>7, <3>8 DEF Secret, Byte
    <2> QED
      BY <2>1, <2>2, <2>3
  <1> QED
    BY <1>1, <1>2, <1>3, FirstAccepts DEF List

-----------------------------------------------------------------------------
(* The inductive invariant: until the code is typed it is the encoding of  *)
(* the host's slot and pass, after an exact typing it still is, and after  *)
(* a slip that RoundTrip does not speak of it is one that Decode refuses.  *)
Caught == slip.kind \in {"swap", "repeat"} \/ (slip.kind = "drop" /\ slip.at <= Len(code))

HostOK == host.slot \in Slot /\ host.pass \in Seq(Byte)
ShownOK == /\ stage \in {"new", "shown"} => slip = Exact
           /\ stage = "shown" => code = EncodeAs(enc, host.slot, host.pass)
TypedOK == stage = "typed" => /\ slip = Exact => code = EncodeAs(enc, host.slot, host.pass)
                              /\ enc = "varint" /\ Caught => Refused(code)

CodeInv == TypeOK /\ HostOK /\ ShownOK /\ TypedOK /\ RoundTrip /\ SlipsRefused

Stage == {"new", "shown", "typed", "join", "refuse", "host"}
Slip == [kind: {"none", "swap", "drop", "repeat"}, at: Nat]

LEMMA Types ==
    TypeOK <=> /\ stage \in Stage /\ enc \in Encoding /\ host \in Secret
               /\ code \in Seq(Part) /\ slip \in Slip /\ joined \in SUBSET Secret
  BY Zenon DEF TypeOK, Stage, Part, Index, Slip

LEMMA TypesNext ==
    TypeOK' <=> /\ stage' \in Stage /\ enc' \in Encoding /\ host' \in Secret
                /\ code' \in Seq(Part) /\ slip' \in Slip /\ joined' \in SUBSET Secret
  BY Zenon DEF TypeOK, Stage, Part, Index, Slip

LEMMA InitCode == Init => CodeInv
  <1> SUFFICES ASSUME Init PROVE CodeInv
    OBVIOUS
  <1>1. /\ stage = "new" /\ code = <<>> /\ slip = Exact /\ joined = {} /\ enc \in Encoding
        /\ host \in [slot: Slots, pass: BoundedSeq(Bytes, MaxLength)]
    BY DEF Init
  <1>2. host.slot \in Slots /\ host.pass \in BoundedSeq(Bytes, MaxLength)
        /\ host = [slot |-> host.slot, pass |-> host.pass]
    BY <1>1
  <1>3. host.slot \in Slot
    <2>1. \A s \in Nat : s < 2 ^ 21 => s < 2097152
      BY SMT
    <2> QED
      BY <1>2, <2>1, CodeAssumption DEF Slot
  <1>4. host.pass \in Seq(Byte)
    <2>1. PICK q, m : q = host.pass /\ m \in 0..MaxLength /\ q \in [1..m -> Bytes]
      BY <1>2 DEF BoundedSeq, SeqOf
    <2>2. Bytes \subseteq Byte /\ MaxLength \in Nat
      BY CodeAssumption DEF Byte
    <2>3. q \in [1..m -> Byte] /\ m \in Nat
      BY <2>1, <2>2
    <2> QED
      BY <2>1, <2>3
  <1>5. host \in Secret
    <2>1. host.slot \in Int
      BY <1>3 DEF Slot
    <2> QED
      BY <1>2, <1>4, <2>1 DEF Secret, Byte
  <1>6. code \in Seq(Part) /\ slip \in Slip /\ stage \in Stage
    BY <1>1 DEF Slip, Exact, Stage
  <1>7. TypeOK
    BY <1>1, <1>5, <1>6, Types
  <1> QED
    BY <1>1, <1>3, <1>4, <1>7 DEF CodeInv, HostOK, ShownOK, TypedOK, RoundTrip, SlipsRefused

LEMMA ShowCodeInv ==
    ASSUME CodeInv, ShowCode
    PROVE  CodeInv'
  <1>1. /\ stage = "new" /\ stage' = "shown" /\ code' = EncodeAs(enc, host.slot, host.pass)
        /\ enc' = enc /\ host' = host /\ slip' = slip /\ joined' = joined
    BY DEF ShowCode
  <1>2. TypeOK /\ HostOK /\ slip = Exact
    BY <1>1 DEF CodeInv, ShownOK
  <1>3. HostOK'
    BY <1>1, <1>2 DEF HostOK
  <1>4. code' \in Seq(Part)
    BY <1>1, <1>2, Types, EncodeType DEF HostOK
  <1>5. TypeOK'
    BY <1>1, <1>2, <1>4, Types, TypesNext DEF Stage
  <1> QED
    BY <1>1, <1>2, <1>3, <1>5 DEF CodeInv, ShownOK, TypedOK, RoundTrip, SlipsRefused

(* What can become of a shown code.                                        *)
LEMMA TypeCodeInv ==
    ASSUME CodeInv, TypeCode
    PROVE  CodeInv'
  <1>1. /\ stage = "shown" /\ stage' = "typed" /\ enc' = enc /\ host' = host /\ joined' = joined
    BY DEF TypeCode
  <1>2. TypeOK /\ HostOK /\ slip = Exact /\ code = EncodeAs(enc, host.slot, host.pass)
    BY <1>1 DEF CodeInv, ShownOK
  <1>3. code \in Seq(Part) /\ slip \in Slip /\ DOMAIN code = 1..Len(code) /\ Len(code) \in Nat
    BY <1>2, Types
  <1>4. enc = "varint" => Placed(code)
    BY <1>2, VarintPlaced DEF HostOK
  <1> DEFINE Goal == /\ code' \in Seq(Part) /\ slip' \in Slip
                     /\ slip' = Exact => code' = code
                     /\ enc = "varint" /\ Caught' => Refused(code')
  <1>5. ASSUME UNCHANGED <<code, slip>> PROVE Goal
    <2>1. ~ Caught'
      BY <1>2, <1>5 DEF Caught, Exact
    <2> QED
      BY <1>3, <1>5, <2>1
  <1>6. ASSUME NEW i \in 1..Len(code) - 1, slip' = [kind |-> "swap", at |-> i],
               code' = [code EXCEPT ![i] = code[i + 1], ![i + 1] = code[i]]
        PROVE  Goal
    <2>1. code' = Swapped(code, i)
      BY <1>6 DEF Swapped
    <2>2. Swapped(code, i) \in Seq(Part)
      BY <1>3, SwapFacts
    <2>3. slip' \in Slip /\ slip' # Exact
      BY <1>6 DEF Slip, Exact
    <2>4. enc = "varint" => Refused(Swapped(code, i))
      BY <1>4, SlipsMisplaced
    <2> QED
      BY <2>1, <2>2, <2>3, <2>4
  <1>7. ASSUME NEW i \in DOMAIN code, slip' = [kind |-> "drop", at |-> i], code' = RemoveAt(code, i)
        PROVE  Goal
    <2>1. i \in 1..Len(code) /\ i \in Nat
      BY <1>3
    <2>2. code' \in Seq(Part)
      BY <1>3, <1>7, <2>1, DropFacts
    <2>3. slip' \in Slip /\ slip' # Exact /\ slip'.kind = "drop" /\ slip'.at = i
      BY <1>7, <2>1 DEF Slip, Exact
    <2>4. enc = "varint" /\ i <= Len(code') => Refused(code')
      BY <1>4, <1>7, <2>1, SlipsMisplaced
    <2> QED
      BY <2>2, <2>3, <2>4 DEF Caught
  <1>8. ASSUME NEW i \in DOMAIN code, slip' = [kind |-> "repeat", at |-> i],
               code' = InsertAt(code, i, code[i])
        PROVE  Goal
    <2>1. i \in 1..Len(code) /\ i \in Nat
      BY <1>3
    <2>2. code' \in Seq(Part)
      BY <1>3, <1>8, <2>1, RepeatFacts
    <2>3. slip' \in Slip /\ slip' # Exact
      BY <1>8, <2>1 DEF Slip, Exact
    <2>4. enc = "varint" => Refused(code')
      BY <1>4, <1>8, <2>1, SlipsMisplaced
    <2> QED
      BY <2>2, <2>3, <2>4
  <1>9. Goal
    <2> HIDE DEF Goal
    <2> QED
      BY <1>5, <1>6, <1>7, <1>8 DEF TypeCode
  <1>10. HostOK'
    BY <1>1, <1>2 DEF HostOK
  <1>11. TypeOK'
    BY <1>1, <1>2, <1>9, Types, TypesNext DEF Stage
  <1>12. TypedOK'
    BY <1>1, <1>2, <1>9 DEF TypedOK
  <1> QED
    BY <1>1, <1>10, <1>11, <1>12 DEF CodeInv, ShownOK, RoundTrip, SlipsRefused

(* A client joins with what Decode makes of the code, or with that part of *)
(* it whose pass is not empty.                                             *)
LEMMA JoinInv ==
    ASSUME CodeInv, stage = "typed", joined' \subseteq Decode(code),
           \/ joined' = Decode(code)
           \/ joined' = {s \in Decode(code) : s.pass # <<>>},
           code = <<>> => stage' = "host",
           code # <<>> => stage' = IF joined' = {} THEN "refuse" ELSE "join",
           enc' = enc, host' = host, code' = code, slip' = slip
    PROVE  CodeInv'
  <1>1. TypeOK /\ HostOK /\ TypedOK
    BY DEF CodeInv
  <1>2. code \in Seq(Part) /\ enc \in Encoding /\ host \in Secret
    BY <1>1, Types
  <1>3. stage' \in {"join", "refuse", "host"} /\ (stage' \in {"join", "refuse"} => code # <<>>)
    OBVIOUS
  <1>4. TypeOK'
    <2>1. Decode(code) \subseteq Secret
      BY <1>2, DecodeType
    <2> QED
      BY <1>1, <1>3, <2>1, Types, TypesNext DEF Stage
  <1>5. HostOK'
    BY <1>1 DEF HostOK
  <1>6. ASSUME stage' \in {"join", "refuse"}, slip = Exact, ReadBack(enc, host.pass)
        PROVE  joined' = {host}
    <2>1. code = EncodeAs(enc, host.slot, host.pass) /\ code # <<>>
      BY <1>1, <1>3, <1>6 DEF TypedOK
    <2>2. PICK s, q : s = host.slot /\ q = host.pass /\ s \in Slot /\ q \in Seq(Byte)
      BY <1>1 DEF HostOK
    <2>3. q # <<>>
      BY <2>1, <2>2 DEF EncodeAs
    <2>4. Decode(code) = Exactly(s, q)
      BY <1>2, <1>6, <2>1, <2>2, <2>3, DecodeExact
    <2>5. host = [slot |-> s, pass |-> q]
      BY <1>2, <2>2 DEF Secret
    <2>6. Decode(code) = {host} /\ host.pass # <<>>
      BY <2>2, <2>3, <2>4, <2>5 DEF Exactly
    <2> QED
      BY <2>6
  <1>7. RoundTrip'
    BY <1>6 DEF RoundTrip, ReadBack
  <1>8. SlipsRefused'
    <2>1. ASSUME enc = "varint", Caught PROVE stage' = "refuse"
      <3>1. code # <<>> /\ Decode(code) = {}
        BY <1>1, <2>1 DEF TypedOK, Refused
      <3> QED
        BY <3>1
    <2> QED
      BY <2>1 DEF SlipsRefused, Caught
  <1> QED
    BY <1>3, <1>4, <1>5, <1>7, <1>8 DEF CodeInv, ShownOK, TypedOK

LEMMA NextCode == CodeInv /\ [Next]_vars => CodeInv'
  <1> SUFFICES ASSUME CodeInv, [Next]_vars PROVE CodeInv'
    OBVIOUS
  <1>1. CASE ShowCode
    BY <1>1, ShowCodeInv
  <1>2. CASE TypeCode
    BY <1>2, TypeCodeInv
  <1>3. CASE JoinGo
    BY <1>3, JoinInv DEF JoinGo
  <1>4. CASE JoinWeb
    BY <1>4, JoinInv DEF JoinWeb
  <1>5. CASE UNCHANGED vars
    <2>1. /\ stage' = stage /\ enc' = enc /\ host' = host /\ code' = code /\ slip' = slip
          /\ joined' = joined
      BY <1>5 DEF vars
    <2>2. TypeOK'
      BY <2>1, Types, TypesNext DEF CodeInv
    <2> QED
      BY <2>1, <2>2 DEF CodeInv, HostOK, ShownOK, TypedOK, Caught, RoundTrip, SlipsRefused
  <1> QED
    BY <1>1, <1>2, <1>3, <1>4, <1>5 DEF Next

LEMMA CodeHolds == Spec => []CodeInv
  <1>1. Init => CodeInv
    BY InitCode
  <1>2. CodeInv /\ [Next]_vars => CodeInv'
    BY NextCode
  <1> QED
    BY <1>1, <1>2, PTL DEF Spec

(* A slot fits an int and a pass is made of bytes, whatever a person types *)
(* at newConn or at the web client's page.                                 *)
THEOREM TypeCorrect == Spec => []TypeOK
  <1>1. CodeInv => TypeOK
    BY DEF CodeInv
  <1> QED
    BY <1>1, CodeHolds, PTL

(* A code typed as shown leads newConn and the web client to the slot and  *)
(* the pass of the host, whichever of the four encodings it has.           *)
THEOREM RoundTripHolds == Spec => []RoundTrip
  <1>1. CodeInv => RoundTrip
    BY DEF CodeInv
  <1> QED
    BY <1>1, CodeHolds, PTL

(* The parity of positions makes every decoder refuse a swapped, repeated  *)
(* or left out word.                                                       *)
THEOREM SlipsRefusedHolds == Spec => []SlipsRefused
  <1>1. CodeInv => SlipsRefused
    BY DEF CodeInv
  <1> QED
    BY <1>1, CodeHolds, PTL

=============================================================================
