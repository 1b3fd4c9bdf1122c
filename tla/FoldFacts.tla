------------------------------- MODULE FoldFacts -------------------------------
(***************************************************************************)
(* What FoldLeft computes, for any operator and any sequence.  A module     *)
(* that folds an operator of its own instantiates this one with it.         *)
(***************************************************************************)
EXTENDS Integers, SequencesExt, FiniteSetTheorems, SequenceTheorems, WellFoundedInduction, TLAPS

CONSTANT op(_, _)   \* what is folded

\* Induction, of a set: the least number outside it has a predecessor inside.
LEMMA NatSetInduction ==
    ASSUME NEW T \in SUBSET Nat, 0 \in T, \A n \in T : n+1 \in T
    PROVE  T = Nat
<1> SUFFICES ASSUME Nat \ T # {} PROVE FALSE
  OBVIOUS
<1>0. \A x, y \in Nat : x < y => <<x,y>> \in OpToRel(<,Nat)
  BY DEF OpToRel
<1>1. PICK x \in Nat \ T : \A y \in Nat \ T : ~ (<<y,x>> \in OpToRel(<,Nat))
  BY NatLessThanWellFounded, WFMin
<1>2. x # 0 /\ x-1 \in Nat /\ x-1 < x OBVIOUS
<1>3. x-1 \in T BY <1>0, <1>1, <1>2
<1> QED BY <1>2, <1>3

\* g folds f over the sets of D, in the order in which `pick' takes the elements.
Folds(g, D, base, f, pick) ==
    g = [d \in D |-> IF d = {} THEN base ELSE op(g[d \ {pick[d]}], f[pick[d]])]

\* There is such a function: by the number of elements.
LEMMA FoldExists ==
    ASSUME NEW S, IsFiniteSet(S), NEW base, NEW f, NEW pick,
           \A d \in SUBSET S : d # {} => pick[d] \in d
    PROVE  \E g : Folds(g, SUBSET S, base, f, pick)
<1> DEFINE Upto(n) == {d \in SUBSET S : Cardinality(d) <= n}
           Foldable(n) == \E g : Folds(g, Upto(n), base, f, pick)
           T == {n \in Nat : Foldable(n)}
<1>0. \A d \in SUBSET S : /\ IsFiniteSet(d) /\ Cardinality(d) \in Nat
                          /\ Cardinality(d) <= Cardinality(S)
                          /\ Cardinality(d) = 0 => d = {}
                          /\ \A x \in d : Cardinality(d \ {x}) = Cardinality(d) - 1
  BY FS_Subset, FS_CardinalityType, FS_EmptySet, FS_RemoveElement
<1>1. Foldable(0)
  <2>1. \A d \in Upto(0) : d = {}
    BY <1>0
  <2>2. Folds([d \in Upto(0) |-> base], Upto(0), base, f, pick)
    BY <2>1 DEF Folds
  <2>3. QED
    BY <2>2
<1>2. ASSUME NEW n \in Nat, Foldable(n)
      PROVE  Foldable(n + 1)
  <2>1. PICK g : Folds(g, Upto(n), base, f, pick)
    BY <1>2
  <2> DEFINE h == [d \in Upto(n + 1) |-> IF d = {} THEN base ELSE op(g[d \ {pick[d]}], f[pick[d]])]
  <2>2. ASSUME NEW d \in Upto(n + 1), d # {}
        PROVE  d \ {pick[d]} \in Upto(n)
    <3>1. pick[d] \in d
      BY <2>2
    <3>2. QED
      BY <1>0, <2>2, <3>1
  <2>3. ASSUME NEW d \in Upto(n)
        PROVE  h[d] = g[d]
    <3>1. d \in Upto(n + 1)
      BY <1>0
    <3>2. QED
      BY <2>1, <3>1 DEF Folds
  <2>4. Folds(h, Upto(n + 1), base, f, pick)
    BY <2>2, <2>3 DEF Folds
  <2>5. QED
    BY <2>4
<1>3. T = Nat
  <2> HIDE DEF Foldable
  <2>1. 0 \in T /\ \A n \in T : n + 1 \in T
    BY <1>1, <1>2
  <2>2. T \in SUBSET Nat
    OBVIOUS
  <2> HIDE DEF T
  <2>3. QED
    BY <2>1, <2>2, NatSetInduction
<1>4. Foldable(Cardinality(S))
  BY <1>3, FS_CardinalityType
<1>5. Upto(Cardinality(S)) = SUBSET S
  BY <1>0
<1>6. QED
  BY <1>4, <1>5

\* The largest element of a prefix of the numbers is its length, ...
LEMMA MaxOfPrefix == ASSUME NEW n \in Nat \ {0} PROVE Max(1 .. n) = n
BY DEF Max

\* ... and every nonempty set of them has a largest one.
LEMMA MaxIn ==
    ASSUME NEW n \in Nat, NEW d \in SUBSET (1 .. n), d # {}
    PROVE  Max(d) \in d
<1> DEFINE U == {m \in Nat : \A x \in d : x <= n - m}
<1>1. SUFFICES ASSUME ~ \E x \in d : \A y \in d : x >= y PROVE FALSE
  BY DEF Max
<1>2. 0 \in U OBVIOUS
<1>3. \A m \in U : m + 1 \in U
  BY <1>1
<1>4. U = Nat
  BY <1>2, <1>3, NatSetInduction
<1>5. \A x \in d : x <= n - n
  BY <1>4
<1>6. PICK x \in d : TRUE
  OBVIOUS
<1>7. QED
  BY <1>5, <1>6

\* g holds, after each element of a, what op makes of it and of what came before.
Walk(g, a, n) == \A k \in 1 .. n : g[k] = op(g[k-1], a[k])

\* The result of FoldLeft is the end of a walk along the sequence.
LEMMA FoldLeftUnfolds ==
    ASSUME NEW base, NEW S, NEW s \in Seq(S)
    PROVE  \E g : /\ g[0] = base
                  /\ Walk(g, s, Len(s))
                  /\ FoldLeft(op, base, s) = g[Len(s)]
<1> DEFINE body(g) == [d \in SUBSET (DOMAIN s) |-> IF d = {} THEN base ELSE op(g[d \ {Max(d)}], s[Max(d)])]
           pick == [d \in SUBSET DOMAIN s |-> Max(d)]
           iter == CHOOSE iter : iter = [d \in SUBSET (DOMAIN s) |-> IF d = {} THEN base ELSE op(iter[d \ {Max(d)}], s[Max(d)])]
<1>1. FoldLeft(op, base, s) = iter[DOMAIN s]
  BY Zenon DEF FoldLeft, MapThenFoldSet
<1>2. DOMAIN s = 1 .. Len(s) /\ Len(s) \in Nat
  BY LenProperties
<1>3. IsFiniteSet(DOMAIN s)
  BY <1>2, FS_Interval
<1>4. \A d \in SUBSET DOMAIN s : d # {} => pick[d] \in d
  BY <1>2, MaxIn
<1>5. PICK g : Folds(g, SUBSET DOMAIN s, base, s, pick)
  BY <1>3, <1>4, FoldExists
<1>6. g = [d \in SUBSET DOMAIN s |-> IF d = {} THEN base ELSE op(g[d \ {Max(d)}], s[Max(d)])]
  BY <1>5 DEF Folds
<1>7. iter = [d \in SUBSET DOMAIN s |-> IF d = {} THEN base ELSE op(iter[d \ {Max(d)}], s[Max(d)])]
  BY <1>6, Zenon
<1> HIDE DEF iter
<1> DEFINE at == [k \in 0 .. Len(s) |-> iter[1 .. k]]
<1>8. at[0] = base
  BY <1>2, <1>7
<1>9. ASSUME NEW k \in 1 .. Len(s)
      PROVE  at[k] = op(at[k-1], s[k])
  <2>0. k \in Nat \ {0} /\ k \in 1 .. k
    BY <1>2
  <2>1. Max(1 .. k) = k /\ 1 .. k \in SUBSET DOMAIN s /\ 1 .. k # {}
    BY <1>2, <2>0, MaxOfPrefix
  <2>2. (1 .. k) \ {k} = 1 .. k-1 /\ k-1 \in 0 .. Len(s) /\ k \in 0 .. Len(s)
    BY <1>2
  <2>3. QED
    BY <1>7, <2>1, <2>2
<1>10. FoldLeft(op, base, s) = at[Len(s)]
  BY <1>1, <1>2
<1>11. Walk(at, s, Len(s))
  BY <1>9 DEF Walk
<1>12. QED
  BY <1>8, <1>10, <1>11

\* Two walks over the same elements that agree at the start agree to the end.
LEMMA SameWalk ==
    ASSUME NEW n \in Nat, NEW g, NEW h, NEW a, g[0] = h[0],
           Walk(g, a, n), Walk(h, a, n)
    PROVE  g[n] = h[n]
<1> DEFINE T == {k \in Nat : k <= n => g[k] = h[k]}
<1>1. 0 \in T
  OBVIOUS
<1>2. ASSUME NEW k \in T PROVE k + 1 \in T
  <2>1. CASE k + 1 <= n
    <3>1. g[k] = h[k]
      BY <2>1
    <3>2. k + 1 \in 1 .. n /\ (k+1)-1 = k
      BY <2>1
    <3>3. g[k+1] = op(g[k], a[k+1]) /\ h[k+1] = op(h[k], a[k+1])
      BY <3>2 DEF Walk
    <3>4. QED
      BY <3>1, <3>3
  <2>2. QED
    BY <2>1
<1>3. T \in SUBSET Nat
  OBVIOUS
<1> HIDE DEF T
<1>4. T = Nat
  BY <1>1, <1>2, <1>3, NatSetInduction
<1> USE DEF T
<1>5. QED
  BY <1>4

\* FoldLeft of nothing, ...
LEMMA FoldLeftEmpty == ASSUME NEW base PROVE FoldLeft(op, base, <<>>) = base
<1>1. <<>> \in Seq({}) /\ Len(<<>>) = 0
  OBVIOUS
<1>2. QED
  BY <1>1, FoldLeftUnfolds

\* ... of two sequences after each other, ...
LEMMA FoldLeftConcat ==
    ASSUME NEW base, NEW S, NEW s \in Seq(S), NEW t \in Seq(S)
    PROVE  FoldLeft(op, base, s \o t) = FoldLeft(op, FoldLeft(op, base, s), t)
<1>1. PICK g : /\ g[0] = base
               /\ Walk(g, s, Len(s))
               /\ FoldLeft(op, base, s) = g[Len(s)]
  BY FoldLeftUnfolds
<1>2. PICK f : /\ f[0] = FoldLeft(op, base, s)
               /\ Walk(f, t, Len(t))
               /\ FoldLeft(op, FoldLeft(op, base, s), t) = f[Len(t)]
  BY FoldLeftUnfolds
<1>3. s \o t \in Seq(S) /\ Len(s \o t) = Len(s) + Len(t) /\ Len(s) \in Nat /\ Len(t) \in Nat
  BY ConcatProperties, LenProperties
<1>4. PICK h : /\ h[0] = base
               /\ Walk(h, s \o t, Len(s \o t))
               /\ FoldLeft(op, base, s \o t) = h[Len(s \o t)]
  BY <1>3, FoldLeftUnfolds
<1>5. /\ \A k \in 1 .. Len(s) : (s \o t)[k] = s[k]
      /\ \A k \in 1 .. Len(t) : (s \o t)[Len(s) + k] = t[k]
  BY <1>3
<1>6. g[Len(s)] = h[Len(s)]
  <2>1. g[0] = h[0]
    BY <1>1, <1>4
  <2>2. Walk(h, s, Len(s))
    BY <1>3, <1>4, <1>5 DEF Walk
  <2>3. QED
    BY <1>1, <1>3, <2>1, <2>2, SameWalk
<1>7. f[Len(t)] = h[Len(s) + Len(t)]
  <2> DEFINE r == [k \in 0 .. Len(t) |-> h[Len(s) + k]]
  <2>1. f[0] = r[0]
    BY <1>1, <1>2, <1>3, <1>6
  <2>2. ASSUME NEW k \in 1 .. Len(t)
        PROVE  r[k] = op(r[k-1], t[k])
    <3>1. /\ Len(s) + k \in 1 .. Len(s \o t)
          /\ Len(s) + k - 1 = Len(s) + (k - 1)
          /\ k \in 0 .. Len(t) /\ k - 1 \in 0 .. Len(t)
      BY <1>3
    <3>2. h[Len(s) + k] = op(h[Len(s) + k - 1], (s \o t)[Len(s) + k])
      BY <1>4, <3>1 DEF Walk
    <3>3. (s \o t)[Len(s) + k] = t[k]
      BY <1>5
    <3>4. QED
      BY <3>1, <3>2, <3>3
  <2> HIDE DEF r
  <2>4. Walk(r, t, Len(t))
    BY <2>2 DEF Walk
  <2> USE DEF r
  <2>3. r[Len(t)] = h[Len(s) + Len(t)]
    BY <1>3
  <2> HIDE DEF r
  <2>5. f[Len(t)] = r[Len(t)]
    BY <1>2, <1>3, <2>1, <2>4, SameWalk
  <2>6. QED
    BY <2>3, <2>5
<1>8. QED
  BY <1>2, <1>3, <1>4, <1>7

\* ... of one element, ...
LEMMA FoldLeftOne ==
    ASSUME NEW base, NEW x
    PROVE  FoldLeft(op, base, <<x>>) = op(base, x)
<1> DEFINE s == <<x>>
           S == {x}
<1>1. s \in Seq(S) /\ Len(s) = 1 /\ s[1] = x
  OBVIOUS
<1> HIDE DEF s, S
<1>2. PICK g : /\ g[0] = base
               /\ Walk(g, s, Len(s))
               /\ FoldLeft(op, base, s) = g[Len(s)]
  BY <1>1, FoldLeftUnfolds
<1>3. 1 \in 1 .. Len(s) /\ 1 - 1 = 0
  BY <1>1
<1>4. FoldLeft(op, base, s) = op(base, x)
  BY <1>1, <1>2, <1>3 DEF Walk
<1>5. QED
  BY <1>4 DEF s

\* ... and of one element more.
LEMMA FoldLeftAppend ==
    ASSUME NEW base, NEW S, NEW s \in Seq(S), NEW x \in S
    PROVE  FoldLeft(op, base, Append(s, x)) = op(FoldLeft(op, base, s), x)
<1> DEFINE t == <<x>>
<1>1. Append(s, x) = s \o t /\ t \in Seq(S)
  BY AppendIsConcat
<1>2. FoldLeft(op, FoldLeft(op, base, s), t) = op(FoldLeft(op, base, s), x)
  BY FoldLeftOne
<1> HIDE DEF t
<1>3. FoldLeft(op, base, s \o t) = FoldLeft(op, FoldLeft(op, base, s), t)
  BY <1>1, FoldLeftConcat
<1>4. QED
  BY <1>1, <1>2, <1>3

\* What every step preserves holds of the result.
LEMMA FoldLeftType ==
    ASSUME NEW V, NEW base \in V, NEW S, NEW s \in Seq(S),
           \A v \in V, x \in S : op(v, x) \in V
    PROVE  FoldLeft(op, base, s) \in V
<1>1. PICK g : /\ g[0] = base
               /\ Walk(g, s, Len(s))
               /\ FoldLeft(op, base, s) = g[Len(s)]
  BY FoldLeftUnfolds
<1> DEFINE T == {k \in Nat : k <= Len(s) => g[k] \in V}
<1>2. Len(s) \in Nat /\ \A k \in 1 .. Len(s) : s[k] \in S
  BY LenProperties, ElementOfSeq
<1>3. 0 \in T
  BY <1>1
<1>4. ASSUME NEW k \in T PROVE k + 1 \in T
  <2>1. CASE k + 1 <= Len(s)
    <3>1. k + 1 \in 1 .. Len(s) /\ (k+1)-1 = k /\ g[k] \in V
      BY <1>2, <2>1
    <3>2. g[k+1] = op(g[k], s[k+1]) /\ s[k+1] \in S
      BY <1>1, <1>2, <3>1 DEF Walk
    <3>3. QED
      BY <3>1, <3>2
  <2>2. QED
    BY <2>1
<1>5. T \in SUBSET Nat
  OBVIOUS
<1> HIDE DEF T
<1>6. T = Nat
  BY <1>3, <1>4, <1>5, NatSetInduction
<1> USE DEF T
<1>7. QED
  BY <1>1, <1>2, <1>6

\* Two folds over the same elements stay related as their steps are.
LEMMA FoldLeftRelated ==
    ASSUME NEW R, NEW a, NEW b, <<a, b>> \in R, NEW S, NEW s \in Seq(S),
           \A u, v : \A x \in S : <<u, v>> \in R => <<op(u, x), op(v, x)>> \in R
    PROVE  <<FoldLeft(op, a, s), FoldLeft(op, b, s)>> \in R
<1>1. PICK g : g[0] = a /\ Walk(g, s, Len(s)) /\ FoldLeft(op, a, s) = g[Len(s)]
  BY FoldLeftUnfolds
<1>2. PICK h : h[0] = b /\ Walk(h, s, Len(s)) /\ FoldLeft(op, b, s) = h[Len(s)]
  BY FoldLeftUnfolds
<1> DEFINE T == {k \in Nat : k <= Len(s) => <<g[k], h[k]>> \in R}
<1>3. Len(s) \in Nat /\ \A k \in 1 .. Len(s) : s[k] \in S
  BY LenProperties, ElementOfSeq
<1>4. 0 \in T
  BY <1>1, <1>2
<1>5. ASSUME NEW k \in T PROVE k + 1 \in T
  <2>1. CASE k + 1 <= Len(s)
    <3>1. k + 1 \in 1 .. Len(s) /\ (k+1)-1 = k /\ <<g[k], h[k]>> \in R
      BY <1>3, <2>1
    <3>2. g[k+1] = op(g[k], s[k+1]) /\ h[k+1] = op(h[k], s[k+1]) /\ s[k+1] \in S
      BY <1>1, <1>2, <1>3, <3>1 DEF Walk
    <3>3. QED
      BY <3>1, <3>2
  <2>2. QED
    BY <2>1
<1>6. T \in SUBSET Nat
  OBVIOUS
<1> HIDE DEF T
<1>7. T = Nat
  BY <1>4, <1>5, <1>6, NatSetInduction
<1> USE DEF T
<1>8. QED
  BY <1>1, <1>2, <1>3, <1>7
================================================================================
