------------------------------- MODULE Folding -------------------------------
(***************************************************************************)
(* Induction over natural numbers and over the folds of SequencesExt.  A   *)
(* fold is parameterised by an operator, which no prover can instantiate   *)
(* in a theorem: here the operator is the module's, and who needs it takes *)
(* an instance of the module, and shows that the instance's Fold is the    *)
(* FoldLeft meant, by their definitions.                                   *)
(***************************************************************************)
EXTENDS Integers, Sequences, SequencesExt, WellFoundedInduction, TLAPS

CONSTANT Op(_, _)

Fold(base, s) == FoldLeft(Op, base, s)

\* What it goes through: the result for each prefix of s.
Steps(h, base, s) ==
  /\ h[0] = base
  /\ \A k \in 1 .. Len(s) : h[k] = Op(h[k - 1], s[k])

-----------------------------------------------------------------------------
\* Every set of natural numbers that is not empty has a least one.
LEMMA LeastNumber ==
  ASSUME NEW T \in SUBSET Nat, T # {}
  PROVE  \E m \in T : \A n \in T : m <= n
<1>1. PICK m \in T : \A n \in T : ~(<<n, m>> \in OpToRel(<, Nat))
  BY NatLessThanWellFounded, WFMin
<1>2. \A n \in T : ~(n < m)
  BY <1>1 DEF OpToRel
<1> QED BY <1>2

\* Induction, for a property given as the set of numbers that have it.
LEMMA SetInduction ==
  ASSUME NEW T, 0 \in T, \A n \in Nat : n \in T => n + 1 \in T
  PROVE  \A n \in Nat : n \in T
<1> SUFFICES ASSUME NEW n \in Nat, n \notin T PROVE FALSE
  OBVIOUS
<1> DEFINE Others == Nat \ T
<1>1. Others \in SUBSET Nat /\ Others # {}
  OBVIOUS
<1>2. PICK m \in Others : \A k \in Others : m <= k
  BY <1>1, LeastNumber
<1>3. m \in Nat /\ m \notin T /\ m # 0
  BY <1>2
<1>4. m - 1 \in Nat /\ m - 1 \in T
  BY <1>2, <1>3
<1>5. (m - 1) + 1 \in T
  BY <1>4
<1> QED BY <1>3, <1>5

\* The numbers up to N, and no others.
LEMMA BoundedInduction ==
  ASSUME NEW N \in Nat, NEW T, 0 \in T, \A n \in 0 .. N - 1 : n \in T => n + 1 \in T
  PROVE  \A n \in 0 .. N : n \in T
<1> DEFINE U == {n \in Nat : n <= N => n \in T}
<1>1. 0 \in U
  OBVIOUS
<1>2. \A n \in Nat : n \in U => n + 1 \in U
  OBVIOUS
<1> HIDE DEF U
<1>3. \A n \in Nat : n \in U
  BY <1>1, <1>2, SetInduction
<1> QED BY <1>3 DEF U

\* The largest number of a set.
LEMMA MaxOfSet ==
  ASSUME NEW N \in Nat, NEW T \in SUBSET (1 .. N), T # {}
  PROVE  Max(T) \in T /\ \A k \in T : k <= Max(T)
<1> DEFINE Bounds == {m \in Nat : \A k \in T : k <= m}
<1>1. N \in Bounds
  OBVIOUS
<1>2. PICK m \in Bounds : \A b \in Bounds : m <= b
  BY <1>1, LeastNumber
<1>3. m \in T
  <2> SUFFICES ASSUME m \notin T PROVE FALSE
    OBVIOUS
  <2>1. \A k \in T : k \in Int /\ k <= m /\ k # m /\ k >= 1
    BY <1>2
  <2>2. m - 1 \in Nat /\ \A k \in T : k <= m - 1
    <3>1. PICK k \in T : TRUE
      OBVIOUS
    <3>2. m \in Nat /\ k \in Int /\ 1 <= k /\ k <= m
      BY <1>2, <2>1, <3>1
    <3> QED BY <2>1, <3>2
  <2> QED BY <1>2, <2>2
<1>4. \E x \in T : \A y \in T : x >= y
  BY <1>2, <1>3
<1>5. Max(T) \in T /\ \A y \in T : Max(T) >= y
  BY <1>4 DEF Max
<1> QED BY <1>5

-----------------------------------------------------------------------------
\* The function of subsets that FoldLeft is defined by, for the first n places.
Unfolds(g, n, base, s) ==
  g = [x \in SUBSET (1 .. n) |->
         IF x = {} THEN base ELSE Op(g[x \ {Max(x)}], s[Max(x)])]

LEMMA Unfolding ==
  ASSUME NEW N \in Nat, NEW base, NEW s
  PROVE  \E g : Unfolds(g, N, base, s)
<1> DEFINE T == {n \in Nat : \E g : Unfolds(g, n, base, s)}
<1>1. 0 \in T
  <2> DEFINE g == [x \in SUBSET (1 .. 0) |-> base]
  <2>1. \A x \in SUBSET (1 .. 0) : x = {}
    OBVIOUS
  <2>2. g = [x \in SUBSET (1 .. 0) |->
               IF x = {} THEN base ELSE Op(g[x \ {Max(x)}], s[Max(x)])]
    BY <2>1
  <2>3. Unfolds(g, 0, base, s)
    BY <2>2 DEF Unfolds
  <2> QED BY <2>3
<1>2. ASSUME NEW n \in Nat, n \in T PROVE n + 1 \in T
  <2>1. PICK g : Unfolds(g, n, base, s)
    BY <1>2
  <2> DEFINE Value(x) == IF x = {} THEN base
                         ELSE IF x \in SUBSET (1 .. n) THEN g[x]
                         ELSE Op(g[x \ {Max(x)}], s[Max(x)])
             h == [x \in SUBSET (1 .. n + 1) |-> Value(x)]
  <2>2. ASSUME NEW x \in SUBSET (1 .. n + 1)
        PROVE  h[x] = IF x = {} THEN base ELSE Op(h[x \ {Max(x)}], s[Max(x)])
    <3>1. CASE x = {}
      BY <3>1
    <3>2. CASE x # {}
      <4>1. Max(x) \in x /\ \A k \in x : k <= Max(x)
        <5> HIDE DEF h, T
        <5>1. n + 1 \in Nat /\ x \in SUBSET (1 .. n + 1)
          OBVIOUS
        <5> QED BY <3>2, <5>1, MaxOfSet
      <4>2. x \ {Max(x)} \in SUBSET (1 .. n)
        <5>1. ASSUME NEW k \in x, k # Max(x) PROVE k \in 1 .. n
          <6>1. k \in 1 .. n + 1 /\ Max(x) \in 1 .. n + 1 /\ k <= Max(x)
            BY <4>1
          <6> HIDE DEF h, T
          <6> QED BY <5>1, <6>1
        <5> QED BY <5>1
      <4> DEFINE y == x \ {Max(x)}
      <4>3. y \in SUBSET (1 .. n) /\ y \in SUBSET (1 .. n + 1)
        BY <4>2
      <4>4. {} \in SUBSET (1 .. n)
        OBVIOUS
      <4>5. g[y] = h[y]
        <5> HIDE DEF y
        <5>1. g[{}] = base
          BY <2>1, <4>4 DEF Unfolds
        <5> QED BY <4>3, <5>1
      <4>6. CASE x \in SUBSET (1 .. n)
        <5>1. g[x] = Op(g[y], s[Max(x)])
          BY <2>1, <3>2, <4>6 DEF Unfolds
        <5> QED BY <3>2, <4>5, <4>6, <5>1
      <4>7. CASE x \notin SUBSET (1 .. n)
        BY <3>2, <4>5, <4>7
      <4> QED BY <4>6, <4>7
    <3> QED BY <3>1, <3>2
  <2> HIDE DEF h
  <2>3. h = [x \in SUBSET (1 .. n + 1) |-> h[x]]
    BY DEF h
  <2>4. Unfolds(h, n + 1, base, s)
    BY <2>2, <2>3 DEF Unfolds
  <2> QED BY <2>4
<1> HIDE DEF T
<1>3. N \in T
  BY <1>1, <1>2, SetInduction
<1> QED BY <1>3 DEF T

\* A fold goes through the elements from the first to the last.
LEMMA FoldSteps ==
  ASSUME NEW S, NEW s \in Seq(S), NEW base
  PROVE  \E h : Steps(h, base, s) /\ Fold(base, s) = h[Len(s)]
<1>0. Len(s) \in Nat /\ DOMAIN s = 1 .. Len(s)
  OBVIOUS
<1> DEFINE g == CHOOSE g : Unfolds(g, Len(s), base, s)
           h == [k \in 0 .. Len(s) |-> g[1 .. k]]
<1>1. Unfolds(g, Len(s), base, s)
  BY <1>0, Unfolding
<1>2. Fold(base, s) = g[1 .. Len(s)]
  BY <1>0 DEF Fold, FoldLeft, MapThenFoldSet, Unfolds
<1>3. h[0] = base
  <2>1. 1 .. 0 = {} /\ 1 .. 0 \in SUBSET (1 .. Len(s)) /\ 0 \in 0 .. Len(s)
    BY <1>0
  <2>2. g[1 .. 0] = base
    BY <1>1, <2>1 DEF Unfolds
  <2> QED BY <2>1, <2>2
<1>4. ASSUME NEW k \in 1 .. Len(s) PROVE h[k] = Op(h[k - 1], s[k])
  <2> DEFINE x == 1 .. k
  <2>1. x \in SUBSET (1 .. Len(s)) /\ x # {} /\ k \in x
    BY <1>0
  <2>2. Max(x) = k
    <3>1. k \in Nat /\ x \in SUBSET (1 .. k)
      BY <1>0
    <3>2. Max(x) \in x /\ k <= Max(x)
      <4> HIDE DEF x
      <4> QED BY <2>1, <3>1, MaxOfSet
    <3> QED BY <3>1, <3>2
  <2>3. x \ {k} = 1 .. k - 1
    OBVIOUS
  <2>4. g[x] = Op(g[1 .. k - 1], s[k])
    BY <1>1, <2>1, <2>2, <2>3 DEF Unfolds
  <2> QED BY <1>0, <2>4
<1> HIDE DEF h
<1>5. Fold(base, s) = h[Len(s)]
  BY <1>0, <1>2 DEF h
<1> QED BY <1>3, <1>4, <1>5 DEF Steps

\* They are the only steps there are.
LEMMA StepsAreUnique ==
  ASSUME NEW S, NEW s \in Seq(S), NEW base, NEW g, NEW h,
         Steps(g, base, s), Steps(h, base, s)
  PROVE  \A k \in 0 .. Len(s) : g[k] = h[k]
<1> DEFINE T == {k \in 0 .. Len(s) : g[k] = h[k]}
<1>1. Len(s) \in Nat
  OBVIOUS
<1>2. 0 \in T
  BY <1>1 DEF Steps
<1>3. ASSUME NEW k \in 0 .. Len(s) - 1, k \in T PROVE k + 1 \in T
  <2>1. k + 1 \in 1 .. Len(s) /\ (k + 1) - 1 = k /\ k + 1 \in 0 .. Len(s)
    BY <1>1
  <2>2. g[k + 1] = Op(g[k], s[k + 1]) /\ h[k + 1] = Op(h[k], s[k + 1])
    BY <2>1 DEF Steps
  <2> QED BY <1>3, <2>1, <2>2
<1> HIDE DEF T
<1>4. \A k \in 0 .. Len(s) : k \in T
  BY <1>1, <1>2, <1>3, BoundedInduction
<1> QED BY <1>4 DEF T

\* So whatever goes through the steps ends at the fold.
LEMMA FoldIsLastStep ==
  ASSUME NEW S, NEW s \in Seq(S), NEW base, NEW h, Steps(h, base, s)
  PROVE  Fold(base, s) = h[Len(s)]
<1>1. PICK g : Steps(g, base, s) /\ Fold(base, s) = g[Len(s)]
  BY FoldSteps
<1>2. Len(s) \in 0 .. Len(s)
  OBVIOUS
<1> QED BY <1>1, <1>2, StepsAreUnique

\* Nothing to fold.
LEMMA FoldEmpty == \A base : Fold(base, << >>) = base
<1> SUFFICES ASSUME NEW base PROVE Fold(base, << >>) = base
  OBVIOUS
<1>1. << >> \in Seq({}) /\ Len(<< >>) = 0
  OBVIOUS
<1>2. PICK h : Steps(h, base, << >>) /\ Fold(base, << >>) = h[0]
  BY <1>1, FoldSteps
<1> QED BY <1>2 DEF Steps

\* One more element at the end.
LEMMA FoldAppend ==
  ASSUME NEW S, NEW s \in Seq(S), NEW e \in S, NEW base
  PROVE  Fold(base, Append(s, e)) = Op(Fold(base, s), e)
<1> DEFINE t == Append(s, e)
           n == Len(s)
<1>1. t \in Seq(S) /\ Len(t) = n + 1 /\ n \in Nat /\ t[n + 1] = e
      /\ \A k \in 1 .. n : t[k] = s[k]
  OBVIOUS
<1> HIDE DEF t, n
<1>2. PICK h : Steps(h, base, t) /\ Fold(base, t) = h[n + 1]
  BY <1>1, FoldSteps
<1>3. h[n + 1] = Op(h[n], e)
  <2>1. n + 1 \in 1 .. n + 1 /\ (n + 1) - 1 = n
    BY <1>1
  <2> QED BY <1>1, <1>2, <2>1 DEF Steps
<1>4. Steps(h, base, s)
  <2>1. ASSUME NEW k \in 1 .. Len(s) PROVE h[k] = Op(h[k - 1], s[k])
    <3>1. k \in 1 .. n /\ k \in 1 .. n + 1
      BY <1>1 DEF n
    <3> QED BY <1>1, <1>2, <3>1 DEF Steps
  <2> QED BY <1>2, <2>1 DEF Steps
<1>5. Fold(base, s) = h[n]
  BY <1>4, FoldIsLastStep DEF n
<1> QED BY <1>2, <1>3, <1>5 DEF t

\* One more at the beginning.
LEMMA FoldCons ==
  ASSUME NEW S, NEW s \in Seq(S), NEW e \in S, NEW base
  PROVE  Fold(base, <<e>> \o s) = Fold(Op(base, e), s)
<1> DEFINE t == <<e>> \o s
           n == Len(s)
<1>1. t \in Seq(S) /\ Len(t) = n + 1 /\ n \in Nat /\ t[1] = e
      /\ \A k \in 1 .. n : t[k + 1] = s[k]
  OBVIOUS
<1> HIDE DEF t, n
<1>2. PICK h : Steps(h, base, t) /\ Fold(base, t) = h[n + 1]
  BY <1>1, FoldSteps
<1> DEFINE g == [k \in 0 .. n |-> h[k + 1]]
<1>3. g[0] = Op(base, e)
  <2>1. 1 \in 1 .. n + 1 /\ 1 - 1 = 0 /\ 0 \in 0 .. n /\ 0 + 1 = 1
    BY <1>1
  <2>2. h[1] = Op(h[0], t[1]) /\ h[0] = base
    BY <1>1, <1>2, <2>1 DEF Steps
  <2> QED BY <1>1, <2>1, <2>2
<1>4. ASSUME NEW k \in 1 .. n PROVE g[k] = Op(g[k - 1], s[k])
  <2>1. k + 1 \in 1 .. n + 1 /\ (k + 1) - 1 = k /\ k \in 0 .. n /\ k - 1 \in 0 .. n
        /\ (k - 1) + 1 = k
    BY <1>1
  <2>2. h[k + 1] = Op(h[k], t[k + 1])
    BY <1>1, <1>2, <2>1 DEF Steps
  <2> QED BY <1>1, <2>1, <2>2
<1>5. g[n] = h[n + 1]
  BY <1>1
<1> HIDE DEF g
<1>6. Steps(g, Op(base, e), s)
  BY <1>3, <1>4 DEF Steps, n
<1>7. Fold(Op(base, e), s) = g[n]
  BY <1>6, FoldIsLastStep DEF n
<1> QED BY <1>2, <1>5, <1>7 DEF t

\* What every step keeps, the fold has.
LEMMA FoldKeeps ==
  ASSUME NEW S, NEW s \in Seq(S), NEW T, NEW base \in T,
         \A a \in T, e \in S : Op(a, e) \in T
  PROVE  Fold(base, s) \in T
<1>1. PICK h : Steps(h, base, s) /\ Fold(base, s) = h[Len(s)]
  BY FoldSteps
<1>2. Len(s) \in Nat
  OBVIOUS
<1> DEFINE U == {k \in 0 .. Len(s) : h[k] \in T}
<1>3. 0 \in U
  BY <1>1, <1>2 DEF Steps
<1>4. ASSUME NEW k \in 0 .. Len(s) - 1, k \in U PROVE k + 1 \in U
  <2>1. k + 1 \in 1 .. Len(s) /\ (k + 1) - 1 = k /\ k + 1 \in 0 .. Len(s)
    BY <1>2
  <2>2. h[k + 1] = Op(h[k], s[k + 1]) /\ s[k + 1] \in S
    BY <1>1, <2>1 DEF Steps
  <2> QED BY <1>4, <2>1, <2>2
<1> HIDE DEF U
<1>5. \A k \in 0 .. Len(s) : k \in U
  BY <1>2, <1>3, <1>4, BoundedInduction
<1>6. Len(s) \in 0 .. Len(s)
  BY <1>2
<1> QED BY <1>1, <1>5, <1>6 DEF U
=============================================================================
