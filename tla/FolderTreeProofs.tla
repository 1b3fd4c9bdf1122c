--------------------------- MODULE FolderTreeProofs ---------------------------
(* The badges of the folder tree count every mail once, for all folders, in *)
(* whatever order and with whatever gaps the server lists them.  What the   *)
(* page computes by recursion and by adding up is shown to be the size of a *)
(* set of listed folders; that the sets behind the rows one sees divide the *)
(* listed folders among them is then a fact about sets.                     *)
EXTENDS FolderTree, FiniteSetTheorems, SequenceTheorems, TLAPS

(* Sums *)

(* As MapThenSumSet adds: an element first.                                 *)
Plus(a, b) == b + a
Adding == INSTANCE FoldFacts WITH op <- Plus

(* h adds up g over the sets of elements of S.                              *)
IsSum(h, g, S) ==
    h = [d \in SUBSET S |->
           IF d = {} THEN 0 ELSE g[CHOOSE x \in d : TRUE] + h[d \ {CHOOSE x \in d : TRUE}]]

(* MapThenSumSet of a function.                                             *)
SumOver(g, S) == (CHOOSE h : IsSum(h, g, S))[S]

(* The instance has its own name for it.                                    *)
LEMMA SameFinite == \A S : IsFiniteSet(S) => Adding!IsFiniteSet(S)
BY DEF IsFiniteSet, Adding!IsFiniteSet

(* The union of the sets C gives the elements of d.                         *)
Together(C, d) == UNION {C[x] : x \in d}

(* A finite sum is defined, ...                                             *)
LEMMA SumExists ==
    ASSUME NEW S, IsFiniteSet(S), NEW g
    PROVE  \E h : IsSum(h, g, S)
<1> DEFINE pick == [d \in SUBSET S |-> CHOOSE x \in d : TRUE]
<1>1. \A d \in SUBSET S : pick[d] = (CHOOSE x \in d : TRUE) /\ (d # {} => pick[d] \in d)
  OBVIOUS
<1>2. PICK h : Adding!Folds(h, SUBSET S, 0, g, pick)
  <2>1. \A d \in SUBSET S : d # {} => pick[d] \in d
    BY <1>1
  <2> HIDE DEF pick
  <2> QED BY <2>1, SameFinite, Adding!FoldExists
<1>3. IsSum(h, g, S)
  BY <1>2 DEF Adding!Folds, Plus, IsSum
<1> QED BY <1>3

(* ... and the sum of the sizes of disjoint sets is the size of their union:*)
(* the order in which the elements are chosen does not matter.              *)
LEMMA SumIsSize ==
    ASSUME NEW L, IsFiniteSet(L), NEW S, IsFiniteSet(S), NEW C, NEW g,
           \A x \in S : C[x] \subseteq L /\ g[x] = Cardinality(C[x]),
           \A x, y \in S : x # y => C[x] \cap C[y] = {},
           NEW sum, IsSum(sum, g, S)
    PROVE  sum[S] = Cardinality(Together(C, S))
<1> DEFINE pick == [d \in SUBSET S |-> CHOOSE x \in d : TRUE]
<1>2. \A d \in SUBSET S : pick[d] = (CHOOSE x \in d : TRUE) /\ (d # {} => pick[d] \in d)
  OBVIOUS
<1>6. sum[{}] = 0 /\ \A d \in SUBSET S : d # {} => sum[d] = g[pick[d]] + sum[d \ {pick[d]}]
  BY DEF IsSum
<1> HIDE DEF pick
<1> DEFINE Right(n) == \A d \in SUBSET S : Cardinality(d) = n => sum[d] = Cardinality(Together(C, d))
           T == {n \in Nat : Right(n)}
<1>7. \A d \in SUBSET S : /\ IsFiniteSet(d) /\ Cardinality(d) \in Nat
                          /\ Cardinality(d) = 0 => d = {}
                          /\ \A x \in d : Cardinality(d \ {x}) = Cardinality(d) - 1
  BY FS_Subset, FS_CardinalityType, FS_EmptySet, FS_RemoveElement
<1>8. \A d \in SUBSET S : /\ Together(C, d) \subseteq L
                          /\ IsFiniteSet(Together(C, d)) /\ Cardinality(Together(C, d)) \in Nat
  <2> SUFFICES ASSUME NEW d \in SUBSET S PROVE Together(C, d) \subseteq L
    BY FS_Subset, FS_CardinalityType
  <2> QED BY DEF Together
<1>9. Right(0)
  <2>1. Together(C, {}) = {}
    BY DEF Together
  <2> QED BY <1>6, <1>7, <2>1, FS_EmptySet
<1>10. ASSUME NEW n \in Nat, Right(n), NEW d \in SUBSET S, Cardinality(d) = n + 1
       PROVE  sum[d] = Cardinality(Together(C, d))
  <2> DEFINE x == pick[d]
             rest == d \ {x}
  <2>1. d # {} /\ x \in d /\ rest \in SUBSET S
    BY <1>2, <1>7, <1>10, FS_EmptySet
  <2>2. Cardinality(rest) = n
    <3>1. Cardinality(d \ {x}) = Cardinality(d) - 1
      BY <1>7, <2>1
    <3> QED BY <1>10, <3>1
  <2>3. sum[rest] = Cardinality(Together(C, rest))
    BY <1>10, <2>1, <2>2
  <2>4. Together(C, d) = Together(C, rest) \cup C[x]
    BY <2>1 DEF Together
  <2>5. Together(C, rest) \cap C[x] = {}
    BY <2>1 DEF Together
  <2>6. /\ IsFiniteSet(C[x]) /\ g[x] = Cardinality(C[x]) /\ Cardinality(C[x]) \in Nat
        /\ IsFiniteSet(Together(C, rest)) /\ Cardinality(Together(C, rest)) \in Nat
    BY <1>8, <2>1, FS_Subset, FS_CardinalityType
  <2>7. Cardinality(Together(C, d)) = Cardinality(Together(C, rest)) + Cardinality(C[x])
    <3> HIDE DEF rest, x
    <3>1. Cardinality(Together(C, rest) \cup C[x])
          = Cardinality(Together(C, rest)) + Cardinality(C[x]) - Cardinality(Together(C, rest) \cap C[x])
      BY <2>6, FS_Union
    <3>2. Cardinality({}) = 0
      BY FS_EmptySet
    <3>3. Cardinality(Together(C, rest) \cap C[x]) = 0
      BY <2>5, <3>2
    <3>4. Cardinality(Together(C, d)) = Cardinality(Together(C, rest) \cup C[x])
      BY <2>4
    <3> QED BY <2>6, <3>1, <3>3, <3>4
  <2>8. sum[d] = g[x] + sum[rest]
    BY <1>6, <2>1
  <2> HIDE DEF rest, x
  <2> QED BY <2>3, <2>6, <2>7, <2>8
<1>11. T = Nat
  <2> HIDE DEF Right
  <2>1. 0 \in T
    BY <1>9
  <2>2. \A n \in T : n + 1 \in T
    <3> USE DEF Right
    <3> QED BY <1>10
  <2>3. T \in SUBSET Nat
    OBVIOUS
  <2> HIDE DEF T
  <2> QED BY <2>1, <2>2, <2>3, Adding!NatSetInduction
<1>12. Right(Cardinality(S))
  <2> HIDE DEF Right
  <2> QED BY <1>7, <1>11
<1> QED BY <1>12

(* The same of MapThenSumSet.                                               *)
LEMMA SumOfSizes ==
    ASSUME NEW L, IsFiniteSet(L), NEW S, IsFiniteSet(S), NEW C, NEW g,
           \A x \in S : C[x] \subseteq L /\ g[x] = Cardinality(C[x]),
           \A x, y \in S : x # y => C[x] \cap C[y] = {}
    PROVE  SumOver(g, S) = Cardinality(Together(C, S))
<1> DEFINE sum == CHOOSE h : IsSum(h, g, S)
<1>1. SumOver(g, S) = sum[S]
  BY Zenon DEF SumOver
<1>2. IsSum(sum, g, S)
  BY SumExists, Zenon
<1> HIDE DEF sum
<1> QED BY <1>1, <1>2, SumIsSize

-----------------------------------------------------------------------------
(* Folders and those above them                                             *)

(* A folder is a sequence of names.                                         *)
Names == Seq(STRING)

(* A folder and those above it, without the root; the first l names of it.  *)
Above(f) == Prefixes(f) \ {<<>>}
Top(f, l) == SubSeq(f, 1, l)

(* The first names of a folder are a folder of that level, below the one    *)
(* with a name less.                                                        *)
LEMMA TopFacts ==
    ASSUME NEW f \in Names, NEW l \in 1 .. Len(f)
    PROVE  /\ Top(f, l) \in Names /\ Len(Top(f, l)) = l /\ Top(f, l) # <<>>
           /\ \A k \in 1 .. l : Top(f, l)[k] = f[k]
           /\ \A k \in 1 .. l : Top(Top(f, l), k) = Top(f, k)
           /\ l > 1 => Front(Top(f, l)) = Top(f, l - 1)
           /\ l = 1 => Front(Top(f, l)) = <<>> /\ Top(f, l) = <<f[1]>>
           /\ Top(f, Len(f)) = f
<1>1. /\ Top(f, l) \in Names /\ Len(Top(f, l)) = l
      /\ \A k \in 1 .. l : Top(f, l)[k] = f[k]
  BY SubSeqProperties DEF Names, Top
<1>2. Top(f, l) # <<>>
  BY <1>1
<1>3. ASSUME NEW k \in 1 .. l
      PROVE  Top(Top(f, l), k) = Top(f, k)
  <2>1. Top(f, k) \in Names /\ Len(Top(f, k)) = k /\ \A i \in 1 .. k : Top(f, k)[i] = f[i]
    BY SubSeqProperties DEF Names, Top
  <2>2. /\ Top(Top(f, l), k) \in Names /\ Len(Top(Top(f, l), k)) = k
        /\ \A i \in 1 .. k : Top(Top(f, l), k)[i] = Top(f, l)[i]
    BY <1>1, SubSeqProperties DEF Names, Top
  <2>3. \A i \in 1 .. k : Top(Top(f, l), k)[i] = Top(f, k)[i]
    BY <1>1, <2>1, <2>2
  <2> QED BY <2>1, <2>2, <2>3, SeqEqual DEF Names
<1>4. l > 1 => Front(Top(f, l)) = Top(f, l - 1)
  <2>1. l > 1 => l - 1 \in 1 .. l
    OBVIOUS
  <2>2. Front(Top(f, l)) = Top(Top(f, l), l - 1)
    BY <1>1 DEF Front, Top
  <2> QED BY <1>3, <2>1, <2>2
<1>5. l = 1 => Front(Top(f, l)) = <<>> /\ Top(f, l) = <<f[1]>>
  <2> SUFFICES ASSUME l = 1 PROVE Front(Top(f, l)) = <<>> /\ Top(f, l) = <<f[1]>>
    OBVIOUS
  <2>1. Top(f, l) \in Seq(STRING) /\ Len(Top(f, l)) = 1 /\ Top(f, l)[1] = f[1] /\ f[1] \in STRING
    BY <1>1 DEF Names
  <2>2. Top(f, l) = <<f[1]>>
    <3>1. <<f[1]>> \in Seq(STRING) /\ Len(<<f[1]>>) = 1 /\ <<f[1]>>[1] = f[1]
      BY <2>1
    <3>2. \A i \in 1 .. 1 : Top(f, l)[i] = <<f[1]>>[i]
      BY <2>1, <3>1
    <3> HIDE DEF Top
    <3> QED BY <2>1, <3>1, <3>2, SeqEqual
  <2>3. Front(Top(f, l)) = <<>>
    <3>1. SubSeq(Top(f, l), 1, 0) = <<>>
      <4>1. \A t \in Seq(STRING) : SubSeq(t, 1, 0) = <<>>
        OBVIOUS
      <4> QED BY <2>1, <4>1
    <3>2. Len(Top(f, l)) - 1 = 0
      BY <2>1
    <3> QED BY <3>1, <3>2 DEF Front
  <2> QED BY <2>2, <2>3
<1>6. Top(f, Len(f)) = f
  BY DEF Top, Names
<1> QED BY <1>1, <1>2, <1>3, <1>4, <1>5, <1>6

(* The folders above are the first names.                                   *)
LEMMA AboveFacts ==
    ASSUME NEW f \in Names
    PROVE  \A p : p \in Above(f) <=> \E l \in 1 .. Len(f) : p = Top(f, l)
<1>1. Len(f) \in Nat
  BY DEF Names
<1>2. Prefixes(f) = {Top(f, l) : l \in 0 .. Len(f)}
  BY DEF Prefixes, Top
<1>3. Top(f, 0) = <<>>
  BY DEF Top, Names
<1>4. \A l \in 1 .. Len(f) : Top(f, l) # <<>>
  BY TopFacts
<1>5. 0 .. Len(f) = {0} \cup 1 .. Len(f)
  BY <1>1
<1> HIDE DEF Top
<1> QED BY <1>2, <1>3, <1>4, <1>5 DEF Above

(* A folder is one of them.                                                 *)
LEMMA AboveSelf ==
    ASSUME NEW f \in Names, f # <<>>
    PROVE  f \in Above(f)
<1>1. Len(f) \in 1 .. Len(f)
  BY DEF Names
<1> QED BY <1>1, TopFacts, AboveFacts

(* What is above a folder above f is above f, and not longer.               *)
LEMMA AboveAbove ==
    ASSUME NEW f \in Names, NEW p \in Above(f)
    PROVE  /\ p \in Names /\ p # <<>> /\ Len(p) \in 1 .. Len(f) /\ p = Top(f, Len(p)) /\ p[1] = f[1]
           /\ \A q : q \in Above(p) <=> q \in Above(f) /\ Len(q) <= Len(p)
<1>1. PICK l \in 1 .. Len(f) : p = Top(f, l)
  BY AboveFacts
<1>2. p \in Names /\ p # <<>> /\ Len(p) = l /\ p[1] = f[1]
  BY <1>1, TopFacts
<1>3. \A q : q \in Above(p) <=> \E k \in 1 .. l : q = Top(f, k)
  BY <1>1, <1>2, TopFacts, AboveFacts
<1>4. ASSUME NEW q, q \in Above(f), Len(q) <= l
      PROVE  \E k \in 1 .. l : q = Top(f, k)
  BY <1>4, AboveFacts, TopFacts
<1>5. ASSUME NEW k \in 1 .. l
      PROVE  Top(f, k) \in Above(f) /\ Len(Top(f, k)) <= l
  BY <1>1, AboveFacts, TopFacts
<1> QED BY <1>1, <1>2, <1>3, <1>4, <1>5

-----------------------------------------------------------------------------
(* The tree and its totals                                                  *)

(* The tree of the folders L: a row for all of them and those above, and a  *)
(* mail in each of L.                                                       *)
TreeFor(L) == [p \in UNION {Above(f) : f \in L} |-> IF p \in L THEN 1 ELSE 0]

(* One more folder makes the tree of one more folder, whatever of it was    *)
(* there already.                                                           *)
LEMMA AddsFolder ==
    ASSUME NEW L \in SUBSET Folders, NEW f \in Folders
    PROVE  AddFolder(TreeFor(L), f) = TreeFor(L \cup {f})
<1>1. \A g \in Folders : g \in Above(g)
  BY FolderTreeAssumption, AboveSelf DEF Names
<1>2. DOMAIN TreeFor(L) = UNION {Above(g) : g \in L}
  BY DEF TreeFor
<1>3. UNION {Above(g) : g \in L \cup {f}} = DOMAIN TreeFor(L) \cup Above(f)
  BY <1>2
<1>4. AddFolder(TreeFor(L), f) =
        [p \in DOMAIN TreeFor(L) \cup Above(f) |->
            IF p = f THEN 1 ELSE IF p \in DOMAIN TreeFor(L) THEN TreeFor(L)[p] ELSE 0]
  BY DEF AddFolder, Above
<1>5. ASSUME NEW p \in DOMAIN TreeFor(L) \cup Above(f)
      PROVE  (IF p = f THEN 1 ELSE IF p \in DOMAIN TreeFor(L) THEN TreeFor(L)[p] ELSE 0)
             = IF p \in L \cup {f} THEN 1 ELSE 0
  <2>1. p \in DOMAIN TreeFor(L) => TreeFor(L)[p] = IF p \in L THEN 1 ELSE 0
    BY DEF TreeFor
  <2>2. p \in L => p \in DOMAIN TreeFor(L)
    BY <1>1, <1>2
  <2> QED BY <2>1, <2>2
<1>6. TreeFor(L \cup {f}) = [p \in DOMAIN TreeFor(L) \cup Above(f) |-> IF p \in L \cup {f} THEN 1 ELSE 0]
  BY <1>3 DEF TreeFor
<1> HIDE DEF TreeFor
<1> QED BY <1>4, <1>5, <1>6

Building == INSTANCE FoldFacts WITH op <- AddFolder

(* The instance has its own name for FoldLeft.                              *)
LEMMA BuildingFold ==
    \A base, s : Building!FoldLeft(AddFolder, base, s) = FoldLeft(AddFolder, base, s)
BY Zenon DEF FoldLeft, MapThenFoldSet, Max, Building!FoldLeft, Building!MapThenFoldSet, Building!Max

(* buildFolderTree makes the tree of the listed folders, in whatever order. *)
LEMMA TreeIsBuilt ==
    ASSUME NEW s \in Seq(Folders)
    PROVE  buildFolderTree(s) = TreeFor(Range(s))
<1> DEFINE Listed(k) == {s[i] : i \in 1 .. k}
<1>1. PICK g : /\ g[0] = TreeFor({})
               /\ Building!Walk(g, s, Len(s))
               /\ Building!FoldLeft(AddFolder, TreeFor({}), s) = g[Len(s)]
  BY Building!FoldLeftUnfolds
<1>2. Len(s) \in Nat /\ \A i \in 1 .. Len(s) : s[i] \in Folders
  OBVIOUS
<1> DEFINE T == {k \in Nat : k <= Len(s) => g[k] = TreeFor(Listed(k))}
<1>3. 0 \in T
  <2>1. Listed(0) = {}
    OBVIOUS
  <2> QED BY <1>1, <2>1
<1>4. ASSUME NEW k \in T
      PROVE  k + 1 \in T
  <2> SUFFICES ASSUME k + 1 <= Len(s) PROVE g[k + 1] = TreeFor(Listed(k + 1))
    OBVIOUS
  <2>1. k + 1 \in 1 .. Len(s) /\ (k + 1) - 1 = k /\ k <= Len(s) /\ k \in Nat
    BY <1>2
  <2>2. g[k + 1] = AddFolder(g[k], s[k + 1])
    BY <1>1, <2>1 DEF Building!Walk
  <2>3. Listed(k) \in SUBSET Folders /\ s[k + 1] \in Folders /\ Listed(k + 1) = Listed(k) \cup {s[k + 1]}
    BY <1>2, <2>1
  <2>4. g[k] = TreeFor(Listed(k))
    BY <2>1
  <2> HIDE DEF Listed
  <2> QED BY <2>2, <2>3, <2>4, AddsFolder
<1>5. T = Nat
  <2>1. T \in SUBSET Nat
    OBVIOUS
  <2> HIDE DEF T
  <2> QED BY <1>3, <1>4, <2>1, Building!NatSetInduction
<1>6. g[Len(s)] = TreeFor(Listed(Len(s)))
  <2> HIDE DEF Listed
  <2> QED BY <1>2, <1>5
<1>7. Listed(Len(s)) = Range(s)
  BY <1>2 DEF Range
<1>8. [p \in {} |-> 0] = TreeFor({})
  BY DEF TreeFor
<1> QED BY <1>1, <1>6, <1>7, <1>8, BuildingFold DEF buildFolderTree

(* The listed folders from p down, the rows, and the equation computeTotals *)
(* solves.                                                                  *)
Under(L, p) == {f \in L : p \in Above(f)}
RowsFor(L) == UNION {Above(f) : f \in L}
Totals(h, L) == h = [p \in RowsFor(L) |-> TreeFor(L)[p] + SumOver(h, ChildrenOf(TreeFor(L), p))]

(* A function has no more values than arguments.                            *)
LEMMA FiniteImage ==
    ASSUME NEW S, IsFiniteSet(S), NEW g
    PROVE  IsFiniteSet({g[x] : x \in S})
<1> DEFINE h == [x \in S |-> g[x]]
           T == {g[x] : x \in S}
<1>1. h \in Surjection(S, T)
  BY DEF Surjection
<1> HIDE DEF h, T
<1>2. IsFiniteSet(T)
  BY <1>1, FS_Surjection
<1> QED BY <1>2 DEF T

(* The tree has finitely many rows, and what it says of each.               *)
LEMMA RowsFinite ==
    ASSUME NEW L \in SUBSET Folders, IsFiniteSet(L)
    PROVE  IsFiniteSet(RowsFor(L)) /\ RowsFor(L) \in SUBSET Names /\ <<>> \notin RowsFor(L)
           /\ DOMAIN TreeFor(L) = RowsFor(L)
           /\ \A p \in RowsFor(L) : TreeFor(L)[p] = IF p \in L THEN 1 ELSE 0
<1>1. \A f \in L : f \in Names
  BY FolderTreeAssumption DEF Names
<1>2. ASSUME NEW f \in L
      PROVE  IsFiniteSet(Above(f))
  <2>1. Len(f) \in Nat
    BY <1>1 DEF Names
  <2>2. IsFiniteSet(1 .. Len(f))
    BY <2>1, FS_Interval
  <2> DEFINE tops == [l \in 1 .. Len(f) |-> Top(f, l)]
  <2>3. IsFiniteSet({tops[l] : l \in 1 .. Len(f)})
    <3> HIDE DEF tops
    <3> QED BY <2>2, FiniteImage
  <2>4. Above(f) \in SUBSET {tops[l] : l \in 1 .. Len(f)}
    BY <1>1, AboveFacts
  <2> QED BY <2>3, <2>4, FS_Subset
<1>3. IsFiniteSet({Above(f) : f \in L})
  <2> DEFINE above == [f \in L |-> Above(f)]
  <2>1. IsFiniteSet({above[f] : f \in L})
    <3> HIDE DEF above
    <3> QED BY FiniteImage
  <2>2. {above[f] : f \in L} = {Above(f) : f \in L}
    OBVIOUS
  <2> QED BY <2>1, <2>2
<1>4. IsFiniteSet(RowsFor(L))
  BY <1>2, <1>3, FS_UNION DEF RowsFor
<1>5. RowsFor(L) \in SUBSET Names /\ <<>> \notin RowsFor(L)
  BY <1>1, AboveAbove DEF RowsFor
<1> QED BY <1>4, <1>5 DEF RowsFor, TreeFor

(* The listed folders below p are those from its children down, each below  *)
(* one child.                                                               *)
LEMMA Children ==
    ASSUME NEW L \in SUBSET Folders, IsFiniteSet(L), NEW p \in RowsFor(L)
    PROVE  /\ ChildrenOf(TreeFor(L), p) \in SUBSET RowsFor(L)
           /\ \A c \in ChildrenOf(TreeFor(L), p) : p \in Above(c) /\ Len(c) = Len(p) + 1
           /\ \A c, d \in ChildrenOf(TreeFor(L), p) : c # d => Under(L, c) \cap Under(L, d) = {}
           /\ UNION {Under(L, c) : c \in ChildrenOf(TreeFor(L), p)} = Under(L, p) \ {p}
           /\ ChildrenOf(TreeFor(L), p) = {} => Under(L, p) = L \cap {p}
<1> DEFINE Ch == ChildrenOf(TreeFor(L), p)
<1>1. /\ RowsFor(L) \in SUBSET Names /\ DOMAIN TreeFor(L) = RowsFor(L)
      /\ \A f \in L : f \in Names /\ f # <<>>
      /\ p # <<>>
  BY RowsFinite, FolderTreeAssumption DEF Names
<1>2. Ch = {c \in RowsFor(L) : Front(c) = p}
  BY <1>1 DEF ChildrenOf
<1>3. ASSUME NEW c \in Ch
      PROVE  p \in Above(c) /\ Len(c) = Len(p) + 1
  <2>1. PICK f \in L : c \in Above(f)
    BY <1>2 DEF RowsFor
  <2>2. c \in Names /\ Len(c) \in 1 .. Len(f) /\ c = Top(f, Len(c)) /\ Len(c) \in Nat
    BY <1>1, <2>1, AboveAbove
  <2>3. Len(c) # 1
    BY <1>1, <1>2, <2>1, <2>2, TopFacts
  <2>4. p = Top(f, Len(c) - 1) /\ Len(c) - 1 \in 1 .. Len(f)
    BY <1>1, <1>2, <2>2, <2>3, TopFacts
  <2>5. p \in Above(f) /\ Len(p) = Len(c) - 1
    BY <1>1, <2>4, AboveFacts, TopFacts
  <2> QED BY <1>1, <2>1, <2>2, <2>5, AboveAbove
<1>4. ASSUME NEW c \in Ch, NEW f \in Under(L, c)
      PROVE  f \in Under(L, p) /\ f # p /\ c = Top(f, Len(p) + 1)
  <2>1. f \in L /\ c \in Above(f)
    BY DEF Under
  <2>2. p \in Above(c) /\ Len(c) = Len(p) + 1
    BY <1>3
  <2>3. p \in Above(f) /\ c = Top(f, Len(c)) /\ Len(c) \in 1 .. Len(f)
    BY <1>1, <2>1, <2>2, AboveAbove
  <2> QED BY <1>1, <2>1, <2>2, <2>3 DEF Under, Names
<1>5. ASSUME NEW f \in Under(L, p), f # p
      PROVE  \E c \in Ch : f \in Under(L, c)
  <2>1. f \in L /\ p \in Above(f)
    BY DEF Under
  <2>2. Len(p) \in 1 .. Len(f) /\ p = Top(f, Len(p)) /\ f = Top(f, Len(f)) /\ Len(f) \in Nat
    BY <1>1, <2>1, AboveAbove, TopFacts DEF Names
  <2>3. Len(p) + 1 \in 1 .. Len(f) /\ Len(p) + 1 > 1
    BY <1>5, <2>2
  <2> DEFINE c == Top(f, Len(p) + 1)
  <2>4. c \in Above(f) /\ Front(c) = p
    BY <1>1, <2>1, <2>2, <2>3, AboveFacts, TopFacts
  <2>5. c \in RowsFor(L)
    BY <2>1, <2>4 DEF RowsFor
  <2> HIDE DEF c
  <2> QED BY <1>2, <2>1, <2>4, <2>5 DEF Under
<1>6. \A c, d \in Ch : c # d => Under(L, c) \cap Under(L, d) = {}
  BY <1>4
<1>7. UNION {Under(L, c) : c \in Ch} = Under(L, p) \ {p}
  BY <1>4, <1>5
<1>8. Ch = {} => Under(L, p) = L \cap {p}
  <2>1. p \in L => p \in Under(L, p)
    BY <1>1, AboveSelf DEF Under
  <2> QED BY <1>5, <2>1 DEF Under
<1>9. Ch \in SUBSET RowsFor(L)
  BY <1>2
<1> QED BY <1>3, <1>6, <1>7, <1>8, <1>9

(* A total that is right for the children is right for the parent.          *)
LEMMA OneTotal ==
    ASSUME NEW L \in SUBSET Folders, IsFiniteSet(L), NEW p \in RowsFor(L),
           NEW h, \A c \in ChildrenOf(TreeFor(L), p) : h[c] = Cardinality(Under(L, c))
    PROVE  TreeFor(L)[p] + SumOver(h, ChildrenOf(TreeFor(L), p))
           = Cardinality(Under(L, p))
<1> DEFINE Ch == ChildrenOf(TreeFor(L), p)
           C == [c \in Ch |-> Under(L, c)]
<1>1. Ch \in SUBSET RowsFor(L) /\ IsFiniteSet(Ch)
  BY Children, RowsFinite, FS_Subset
<1>2. \A c \in Ch : C[c] \subseteq L /\ h[c] = Cardinality(C[c])
  BY DEF Under
<1>3. \A c, d \in Ch : c # d => C[c] \cap C[d] = {}
  BY Children
<1>4. Together(C, Ch) = Under(L, p) \ {p}
  BY Children DEF Together
<1>5. SumOver(h, Ch) = Cardinality(Together(C, Ch))
  <2> HIDE DEF Ch, C
  <2> QED BY <1>1, <1>2, <1>3, SumOfSizes
<1>6. Under(L, p) \in SUBSET L /\ IsFiniteSet(Under(L, p)) /\ Cardinality(Under(L, p)) \in Nat
  BY FS_Subset, FS_CardinalityType DEF Under
<1>7. Cardinality(Under(L, p) \ {p})
      = IF p \in Under(L, p) THEN Cardinality(Under(L, p)) - 1 ELSE Cardinality(Under(L, p))
  BY <1>6, FS_RemoveElement
<1>8. p \in Under(L, p) <=> p \in L
  BY FolderTreeAssumption, AboveSelf DEF Under, Names
<1>9. TreeFor(L)[p] = IF p \in L THEN 1 ELSE 0
  BY RowsFinite
<1> HIDE DEF Ch, C
<1>10. TreeFor(L)[p] + Cardinality(Under(L, p) \ {p}) = Cardinality(Under(L, p))
  BY <1>6, <1>7, <1>8, <1>9
<1> QED BY <1>4, <1>5, <1>10 DEF Ch

(* The totals there should be ...                                           *)
Totalled(L) == [p \in RowsFor(L) |-> Cardinality(Under(L, p))]

(* ... solve the equation, ...                                              *)
LEMMA TotalsExist ==
    ASSUME NEW L \in SUBSET Folders, IsFiniteSet(L)
    PROVE  Totals(Totalled(L), L)
<1>1. ASSUME NEW p \in RowsFor(L)
      PROVE  Totalled(L)[p] = TreeFor(L)[p] + SumOver(Totalled(L), ChildrenOf(TreeFor(L), p))
  <2>1. \A c \in ChildrenOf(TreeFor(L), p) : Totalled(L)[c] = Cardinality(Under(L, c))
    BY Children DEF Totalled
  <2>2. TreeFor(L)[p] + SumOver(Totalled(L), ChildrenOf(TreeFor(L), p)) = Cardinality(Under(L, p))
    BY <2>1, OneTotal
  <2> QED BY <2>2 DEF Totalled
<1>2. Totalled(L) = [p \in RowsFor(L) |-> Totalled(L)[p]]
  BY DEF Totalled
<1> HIDE DEF Totalled
<1> QED BY <1>1, <1>2 DEF Totals

(* ... and nothing else does: from the leaves up, by the number of rows     *)
(* below.                                                                   *)
LEMMA TotalsUnique ==
    ASSUME NEW L \in SUBSET Folders, IsFiniteSet(L), NEW h, Totals(h, L)
    PROVE  \A p \in RowsFor(L) : h[p] = Cardinality(Under(L, p))
<1> DEFINE Deeper(p) == {q \in RowsFor(L) : p \in Above(q)}
           T == {n \in Nat : \A p \in RowsFor(L) :
                                Cardinality(Deeper(p)) <= n => h[p] = Cardinality(Under(L, p))}
<1>1. RowsFor(L) \in SUBSET Names /\ <<>> \notin RowsFor(L) /\ IsFiniteSet(RowsFor(L))
  BY RowsFinite
<1>2. \A p \in RowsFor(L) : IsFiniteSet(Deeper(p)) /\ Cardinality(Deeper(p)) \in Nat
  BY <1>1, FS_Subset, FS_CardinalityType
<1>3. \A p \in RowsFor(L) : p \in Deeper(p)
  BY <1>1, AboveSelf
<1>4. ASSUME NEW p \in RowsFor(L), NEW c \in ChildrenOf(TreeFor(L), p)
      PROVE  c \in RowsFor(L) /\ Cardinality(Deeper(c)) < Cardinality(Deeper(p))
  <2>1. c \in RowsFor(L) /\ p \in Above(c) /\ Len(c) = Len(p) + 1
    BY Children
  <2>2. Deeper(c) \in SUBSET Deeper(p)
    BY <1>1, <2>1, AboveAbove
  <2>3. p \notin Deeper(c)
    <3>1. p \in Names /\ Len(p) \in Nat
      BY <1>1 DEF Names
    <3>2. c \in Above(p) => Len(c) <= Len(p)
      BY <3>1, AboveAbove
    <3> QED BY <2>1, <3>1, <3>2
  <2>4. /\ Cardinality(Deeper(c)) <= Cardinality(Deeper(p))
        /\ Cardinality(Deeper(p)) = Cardinality(Deeper(c)) => Deeper(p) = Deeper(c)
    <3> HIDE DEF Deeper
    <3> QED BY <1>2, <2>2, FS_Subset
  <2>5. Deeper(p) # Deeper(c)
    BY <1>3, <2>3
  <2>6. Cardinality(Deeper(c)) \in Nat /\ Cardinality(Deeper(p)) \in Nat
    BY <1>2, <2>1
  <2> HIDE DEF Deeper
  <2> QED BY <2>1, <2>4, <2>5, <2>6
<1>5. ASSUME NEW p \in RowsFor(L), \A c \in ChildrenOf(TreeFor(L), p) : h[c] = Cardinality(Under(L, c))
      PROVE  h[p] = Cardinality(Under(L, p))
  <2>1. h[p] = TreeFor(L)[p] + SumOver(h, ChildrenOf(TreeFor(L), p))
    BY DEF Totals
  <2> QED BY <1>5, <2>1, OneTotal
<1> HIDE DEF Deeper
<1>6. 0 \in T
  <2>1. \A p \in RowsFor(L) : Cardinality(Deeper(p)) # 0
    BY <1>2, <1>3, FS_EmptySet
  <2> QED BY <1>2, <2>1
<1>7. ASSUME NEW n \in T
      PROVE  n + 1 \in T
  <2>1. ASSUME NEW p \in RowsFor(L), Cardinality(Deeper(p)) <= n + 1
        PROVE  h[p] = Cardinality(Under(L, p))
    <3>1. ASSUME NEW c \in ChildrenOf(TreeFor(L), p)
          PROVE  h[c] = Cardinality(Under(L, c))
      <4>1. c \in RowsFor(L) /\ Cardinality(Deeper(c)) <= n
        BY <1>2, <1>4, <2>1
      <4> QED BY <4>1
    <3> QED BY <1>5, <3>1
  <2> QED BY <2>1
<1>8. T = Nat
  <2>1. T \in SUBSET Nat
    OBVIOUS
  <2> HIDE DEF T
  <2> QED BY <1>6, <1>7, <2>1, Adding!NatSetInduction
<1>9. ASSUME NEW p \in RowsFor(L)
      PROVE  h[p] = Cardinality(Under(L, p))
  <2>1. Cardinality(Deeper(p)) \in T
    BY <1>2, <1>8
  <2> QED BY <1>2, <2>1
<1> QED BY <1>9

(* So computeTotals counts the listed folders from a row down.              *)
LEMMA TotalsAreSizes ==
    ASSUME NEW L \in SUBSET Folders, IsFiniteSet(L)
    PROVE  \A p \in RowsFor(L) : computeTotals(TreeFor(L))[p] = Cardinality(Under(L, p))
<1> DEFINE total == CHOOSE h : Totals(h, L)
<1>1. DOMAIN TreeFor(L) = RowsFor(L)
  BY RowsFinite
<1>2. computeTotals(TreeFor(L)) =
        CHOOSE h : h = [p \in DOMAIN TreeFor(L) |->
                          TreeFor(L)[p] + SumOver(h, ChildrenOf(TreeFor(L), p))]
  BY Zenon DEF computeTotals, MapThenSumSet, MapThenFoldSet, SumOver, IsSum
<1>3. computeTotals(TreeFor(L)) = total
  BY <1>1, <1>2, Zenon DEF Totals
<1>4. Totals(total, L)
  BY TotalsExist, Zenon
<1> HIDE DEF total
<1> QED BY <1>3, <1>4, TotalsUnique

-----------------------------------------------------------------------------
(* The rows one sees *)

(* f is a system folder or below one.                                       *)
BelowSystem(f) == isSystemFolder(<<f[1]>>)

(* The folders whose mails the badge of row p stands for.                   *)
Seen(L, p) ==
    IF p = Group THEN IF Group \in expandedPaths THEN {} ELSE {f \in L : BelowSystem(f)}
    ELSE IF p \in expandedPaths THEN L \cap {p} ELSE Under(L, p)

(* The row of the system folders is not one of the tree's.                  *)
LEMMA GroupIsNoFolder ==
    ASSUME NEW L \in SUBSET Folders
    PROVE  Group \notin RowsFor(L)
BY FolderTreeAssumption DEF RowsFor, Above

(* What is below a system folder starts with its name.                      *)
LEMMA SystemRows ==
    ASSUME NEW L \in SUBSET Folders, IsFiniteSet(L)
    PROVE  /\ \A s \in RowsFor(L) : isSystemFolder(s) =>
                 Under(L, s) = {f \in L : <<f[1]>> = s} /\ s = <<s[1]>>
           /\ \A f \in L : <<f[1]>> \in RowsFor(L) /\ <<f[1]>> \in Above(f)
<1>1. RowsFor(L) \in SUBSET Names /\ \A f \in L : f \in Names /\ f # <<>> /\ Len(f) \in Nat
  BY RowsFinite, FolderTreeAssumption DEF Names
<1>2. ASSUME NEW f \in L
      PROVE  Top(f, 1) = <<f[1]>> /\ Top(f, 1) \in Above(f) /\ <<f[1]>> \in RowsFor(L)
  <2>1. 1 \in 1 .. Len(f)
    BY <1>1
  <2>2. Top(f, 1) = <<f[1]>> /\ Top(f, 1) \in Above(f)
    BY <1>1, <2>1, TopFacts, AboveFacts
  <2> HIDE DEF Top
  <2> QED BY <2>2 DEF RowsFor
<1>3. ASSUME NEW s \in RowsFor(L), isSystemFolder(s)
      PROVE  Under(L, s) = {f \in L : <<f[1]>> = s} /\ s = <<s[1]>>
  <2>1. s \in Names /\ Len(s) = 1
    BY <1>1, <1>3 DEF isSystemFolder
  <2>2. ASSUME NEW f \in L, s \in Above(f)
        PROVE  <<f[1]>> = s
    <3>1. s = Top(f, 1)
      BY <1>1, <2>1, <2>2, AboveAbove
    <3> QED BY <1>2, <3>1
  <2>3. ASSUME NEW f \in L, <<f[1]>> = s
        PROVE  s \in Above(f)
    BY <1>2, <2>3
  <2>4. s = <<s[1]>>
    BY <2>1 DEF Names
  <2> QED BY <2>2, <2>3, <2>4 DEF Under
<1> QED BY <1>2, <1>3

(* The badge is the number of these folders.                                *)
LEMMA BadgeIsSize ==
    ASSUME NEW L \in SUBSET Folders, IsFiniteSet(L), NEW p \in Rows(TreeFor(L))
    PROVE  Badge(TreeFor(L), p) = Cardinality(Seen(L, p))
<1> DEFINE tree == TreeFor(L)
<1>1. DOMAIN tree = RowsFor(L) /\ Group \notin RowsFor(L) /\ Cardinality({}) = 0
  BY RowsFinite, GroupIsNoFolder, FS_EmptySet
<1>2. CASE p = Group /\ Group \in expandedPaths
  BY <1>1, <1>2 DEF Badge, Seen
<1>3. CASE p = Group /\ Group \notin expandedPaths
  <2> DEFINE S == {q \in RowsFor(L) : isSystemFolder(q)}
             h == computeTotals(tree)
             C == [q \in S |-> Under(L, q)]
  <2>1. Badge(tree, p) = SumOver(h, S)
    <3>1. Badge(tree, p) = MapThenSumSet(LAMBDA s : computeTotals(tree)[s], {q \in DOMAIN tree : isSystemFolder(q)})
      BY <1>3 DEF Badge
    <3> HIDE DEF tree
    <3>2. Badge(tree, p) = SumOver(h, {q \in DOMAIN tree : isSystemFolder(q)})
      BY <3>1, Zenon DEF MapThenSumSet, MapThenFoldSet, SumOver, IsSum
    <3> QED BY <1>1, <3>2
  <2>2. IsFiniteSet(S)
    BY RowsFinite, FS_Subset
  <2>3. \A q \in S : C[q] \subseteq L /\ h[q] = Cardinality(C[q])
    BY TotalsAreSizes DEF Under
  <2>4. \A q, r \in S : q # r => C[q] \cap C[r] = {}
    BY SystemRows
  <2>5. Together(C, S) = {f \in L : BelowSystem(f)}
    BY SystemRows DEF Together, BelowSystem
  <2>6. SumOver(h, S) = Cardinality(Together(C, S))
    <3> HIDE DEF S, h, C
    <3> QED BY <2>2, <2>3, <2>4, SumOfSizes
  <2> HIDE DEF S, h, C
  <2> QED BY <1>3, <2>1, <2>5, <2>6 DEF Seen
<1>4. CASE p # Group
  <2>1. p \in RowsFor(L)
    BY <1>1, <1>4 DEF Rows
  <2>2. /\ computeTotals(tree)[p] = Cardinality(Under(L, p))
        /\ tree[p] = IF p \in L THEN 1 ELSE 0
        /\ ChildrenOf(tree, p) = {} => Under(L, p) = L \cap {p}
    BY <2>1, TotalsAreSizes, RowsFinite, Children
  <2>3. Cardinality(L \cap {p}) = IF p \in L THEN 1 ELSE 0
    <3>1. CASE p \in L
      <4>1. L \cap {p} = {p}
        BY <3>1
      <4> QED BY <3>1, <4>1, FS_Singleton
    <3>2. CASE p \notin L
      <4>1. L \cap {p} = {}
        BY <3>2
      <4> QED BY <1>1, <3>2, <4>1
    <3> QED BY <3>1, <3>2
  <2>4. Badge(tree, p) = IF ChildrenOf(tree, p) # {} /\ p \notin expandedPaths
                         THEN computeTotals(tree)[p] ELSE tree[p]
    BY <1>4 DEF Badge
  <2>5. Badge(tree, p) = Cardinality(Seen(L, p))
    <3> HIDE DEF tree
    <3> QED BY <1>4, <2>2, <2>3, <2>4 DEF Seen
  <2> QED BY <2>5
<1> QED BY <1>2, <1>3, <1>4

(* No folder stands behind two rows one sees: of two rows above it, the     *)
(* upper one is expanded, or the lower one would be hidden.                 *)
LEMMA SeenOnce ==
    ASSUME NEW L \in SUBSET Folders, IsFiniteSet(L),
           NEW p \in Rows(TreeFor(L)), NEW q \in Rows(TreeFor(L)),
           RowVisible(p), RowVisible(q), p # q
    PROVE  Seen(L, p) \cap Seen(L, q) = {}
<1>1. /\ DOMAIN TreeFor(L) = RowsFor(L) /\ RowsFor(L) \in SUBSET Names
      /\ \A f \in L : f \in Names /\ f # <<>> /\ Len(f) \in Nat
  BY RowsFinite, FolderTreeAssumption DEF Names
<1>2. ASSUME NEW r \in RowsFor(L), r # Group, NEW f \in Seen(L, r)
      PROVE  f \in L /\ r \in Above(f) /\ (r \in expandedPaths => f = r)
  <2>1. CASE r \in expandedPaths
    BY <1>1, <1>2, <2>1, AboveSelf DEF Seen
  <2>2. CASE r \notin expandedPaths
    BY <1>2, <2>2 DEF Seen, Under
  <2> QED BY <2>1, <2>2
<1>3. ASSUME NEW r \in RowsFor(L), NEW s \in RowsFor(L), r # Group, s # Group, r # s,
             RowVisible(s), NEW f, f \in Seen(L, r), f \in Seen(L, s), Len(r) <= Len(s)
      PROVE  FALSE
  <2>1. f \in L /\ r \in Above(f) /\ s \in Above(f)
    BY <1>2, <1>3
  <2>2. r \in Above(s) /\ r # <<>>
    BY <1>1, <1>3, <2>1, AboveAbove
  <2>3. r \in expandedPaths
    BY <1>3, <2>2 DEF RowVisible, Above
  <2>4. f = r
    BY <1>2, <1>3, <2>3
  <2>5. Len(s) <= Len(r) /\ s = Top(f, Len(s)) /\ r = Top(f, Len(r)) /\ Len(r) \in Nat /\ Len(s) \in Nat
    BY <1>1, <2>1, <2>4, AboveAbove DEF Names
  <2>6. Len(s) = Len(r)
    BY <1>3, <2>5
  <2> QED BY <1>3, <2>5, <2>6
<1>4. ASSUME NEW r \in RowsFor(L), r # Group, RowVisible(r), NEW f, f \in Seen(L, r), f \in Seen(L, Group)
      PROVE  FALSE
  <2>1. Group \notin expandedPaths /\ BelowSystem(f)
    BY <1>4 DEF Seen
  <2>2. f \in L /\ r \in Above(f)
    BY <1>2, <1>4
  <2>3. r[1] = f[1]
    BY <1>1, <2>2, AboveAbove
  <2> QED BY <1>4, <2>1, <2>3 DEF RowVisible, BelowSystem
<1>5. \A r \in Rows(TreeFor(L)) : r # Group => r \in RowsFor(L)
  BY <1>1 DEF Rows
<1>6. SUFFICES ASSUME NEW f, f \in Seen(L, p), f \in Seen(L, q) PROVE FALSE
  OBVIOUS
<1>7. CASE p = Group
  BY <1>4, <1>5, <1>6, <1>7
<1>8. CASE q = Group
  BY <1>4, <1>5, <1>6, <1>8
<1>9. CASE p # Group /\ q # Group
  <2>1. Len(p) \in Nat /\ Len(q) \in Nat
    BY <1>1, <1>5, <1>9 DEF Names
  <2>2. Len(p) <= Len(q) \/ Len(q) <= Len(p)
    BY <2>1
  <2> QED BY <1>3, <1>5, <1>6, <1>9, <2>2
<1> QED BY <1>7, <1>8, <1>9

(* Every folder stands behind one: the first row on the way down to it that *)
(* is not expanded, or its own.                                             *)
LEMMA SeenSomewhere ==
    ASSUME NEW L \in SUBSET Folders, IsFiniteSet(L), NEW f \in L
    PROVE  \E p \in Rows(TreeFor(L)) : RowVisible(p) /\ f \in Seen(L, p)
<1>1. /\ DOMAIN TreeFor(L) = RowsFor(L) /\ Group \notin RowsFor(L)
      /\ f \in Names /\ f # <<>> /\ Len(f) \in Nat /\ Len(f) # 0
  BY RowsFinite, GroupIsNoFolder, FolderTreeAssumption DEF Names
<1>2. CASE BelowSystem(f) /\ Group \notin expandedPaths
  <2>1. Group \in Rows(TreeFor(L))
    BY <1>1, <1>2, SystemRows DEF Rows, BelowSystem
  <2> QED BY <1>2, <2>1 DEF RowVisible, Seen
<1>3. CASE BelowSystem(f) => Group \in expandedPaths
  <2> SUFFICES ASSUME \A p \in Rows(TreeFor(L)) : RowVisible(p) => f \notin Seen(L, p)
               PROVE  FALSE
    OBVIOUS
  <2> DEFINE T == {n \in Nat : \A k \in 1 .. n : k <= Len(f) => Top(f, k) \in expandedPaths}
  <2>1. ASSUME NEW l \in 1 .. Len(f), \A k \in 1 .. l - 1 : Top(f, k) \in expandedPaths
        PROVE  Top(f, l) \in expandedPaths /\ l # Len(f)
    <3> DEFINE r == Top(f, l)
    <3>1. r \in Above(f) /\ r \in Names /\ Len(r) = l /\ r[1] = f[1] /\ r \in RowsFor(L) /\ r # Group
      <4>1. r \in Above(f)
        BY <1>1, AboveFacts
      <4>2. r \in Names /\ Len(r) = l /\ r[1] = f[1]
        BY <1>1, TopFacts
      <4> HIDE DEF r
      <4> QED BY <1>1, <4>1, <4>2 DEF RowsFor
    <3>2. ASSUME NEW q \in Above(r), q # r
          PROVE  q \in expandedPaths
      <4>1. PICK k \in 1 .. l : q = Top(r, k)
        BY <3>1, AboveFacts
      <4>2. Top(r, k) = Top(f, k)
        BY <1>1, TopFacts
      <4>3. k # l
        BY <3>2, <4>1, <4>2
      <4>4. k \in 1 .. l - 1
        BY <4>3
      <4> HIDE DEF r, Top
      <4> QED BY <2>1, <4>1, <4>2, <4>4
    <3> HIDE DEF r
    <3>3. RowVisible(r)
      BY <1>3, <3>1, <3>2 DEF RowVisible, Above, BelowSystem
    <3>4. f \notin Seen(L, r)
      BY <1>1, <3>1, <3>3 DEF Rows
    <3>5. r \in expandedPaths /\ r # f
      BY <3>1, <3>4 DEF Seen, Under
    <3>6. l # Len(f)
      BY <1>1, <3>5, TopFacts DEF r
    <3> QED BY <3>5, <3>6 DEF r
  <2>2. 0 \in T
    OBVIOUS
  <2>3. ASSUME NEW n \in T
        PROVE  n + 1 \in T
    <3>1. CASE n + 1 <= Len(f)
      <4>1. n + 1 \in 1 .. Len(f) /\ (n + 1) - 1 = n
        BY <1>1, <3>1
      <4>2. \A k \in 1 .. n : Top(f, k) \in expandedPaths
        BY <1>1, <3>1
      <4>3. Top(f, n + 1) \in expandedPaths
        BY <2>1, <4>1, <4>2
      <4> QED BY <4>2, <4>3
    <3>2. CASE ~ (n + 1 <= Len(f))
      BY <1>1, <3>2
    <3> QED BY <3>1, <3>2
  <2>4. T = Nat
    <3>1. T \in SUBSET Nat
      OBVIOUS
    <3> HIDE DEF T
    <3> QED BY <2>2, <2>3, <3>1, Adding!NatSetInduction
  <2>5. \A k \in 1 .. Len(f) - 1 : Top(f, k) \in expandedPaths
    <3>1. Len(f) \in T
      BY <1>1, <2>4
    <3> QED BY <1>1, <3>1
  <2>6. Len(f) \in 1 .. Len(f)
    BY <1>1
  <2> HIDE DEF T
  <2> QED BY <2>1, <2>5, <2>6
<1> QED BY <1>2, <1>3

(* h adds up the badges; the sum of them on the rows S.                     *)
IsBadgeSum(h, tree, S) ==
    h = [d \in SUBSET S |->
           IF d = {} THEN 0 ELSE Badge(tree, CHOOSE x \in d : TRUE) + h[d \ {CHOOSE x \in d : TRUE}]]

BadgeSum(tree, S) == (CHOOSE h : IsBadgeSum(h, tree, S))[S]

(* The badges one sees add up to the number of folders.                     *)
LEMMA BadgesAddUp ==
    ASSUME NEW L \in SUBSET Folders, IsFiniteSet(L)
    PROVE  BadgeSum(TreeFor(L), {q \in Rows(TreeFor(L)) : RowVisible(q)}) = Cardinality(L)
<1> DEFINE tree == TreeFor(L)
           S == {q \in Rows(tree) : RowVisible(q)}
           g == [q \in S |-> Badge(tree, q)]
           C == [q \in S |-> Seen(L, q)]
           sum == CHOOSE h : IsBadgeSum(h, tree, S)
<1>1. BadgeSum(tree, S) = sum[S]
  BY Zenon DEF BadgeSum
<1>2. IsFiniteSet(S)
  <2>1. IsFiniteSet(RowsFor(L)) /\ DOMAIN tree = RowsFor(L)
    BY RowsFinite
  <2>2. IsFiniteSet(RowsFor(L) \cup {Group})
    BY <2>1, FS_AddElement
  <2>3. S \in SUBSET (RowsFor(L) \cup {Group})
    BY <2>1 DEF Rows
  <2> HIDE DEF S
  <2> QED BY <2>2, <2>3, FS_Subset
<1>3. \A h : IsBadgeSum(h, tree, S) <=> IsSum(h, g, S)
  <2>1. \A d \in SUBSET S : d # {} => Badge(tree, CHOOSE x \in d : TRUE) = g[CHOOSE x \in d : TRUE]
    <3>1. \A d \in SUBSET S : d # {} => (CHOOSE x \in d : TRUE) \in S
      OBVIOUS
    <3> HIDE DEF S, tree
    <3> QED BY <3>1
  <2> HIDE DEF S, tree, g
  <2> SUFFICES ASSUME NEW h PROVE IsBadgeSum(h, tree, S) <=> IsSum(h, g, S)
    OBVIOUS
  <2> QED BY <2>1 DEF IsSum, IsBadgeSum
<1>4. IsSum(sum, g, S)
  <2> HIDE DEF S, g, tree
  <2>1. \E h : IsBadgeSum(h, tree, S)
    BY <1>2, <1>3, SumExists
  <2>2. IsBadgeSum(sum, tree, S)
    BY <2>1, Zenon
  <2> QED BY <1>3, <2>2
<1>5. \A q \in S : C[q] \subseteq L /\ g[q] = Cardinality(C[q])
  BY BadgeIsSize DEF Seen, Under
<1>6. \A q, r \in S : q # r => C[q] \cap C[r] = {}
  BY SeenOnce
<1>7. Together(C, S) = L
  <2>1. \A f \in L : \E q \in S : f \in C[q]
    BY SeenSomewhere
  <2> HIDE DEF S, C
  <2> QED BY <1>5, <2>1 DEF Together
<1>8. sum[S] = Cardinality(Together(C, S))
  <2> HIDE DEF S, C, g, sum
  <2> QED BY <1>2, <1>4, <1>5, <1>6, SumIsSize
<1> HIDE DEF sum, C
<1> QED BY <1>1, <1>7, <1>8

-----------------------------------------------------------------------------
(* The listing *)

(* The inductive invariant: the listing names no folder twice.              *)
Listed == listing \in Seq(Folders) /\ \A i, j \in 1 .. Len(listing) : i # j => listing[i] # listing[j]

(* The server lists folders once, ...                                       *)
LEMMA ListedInit == TreeInit => Listed
<1> SUFFICES ASSUME TreeInit PROVE Listed
  OBVIOUS
<1>1. PICK s \in SUBSET Folders : Cardinality(s) \in 1 .. MaxListed /\ listing \in SetToSeqs(s)
  BY DEF TreeInit, Listings
<1>2. /\ listing \in [1 .. Cardinality(s) -> s]
      /\ \A i, j \in 1 .. Cardinality(s) : i # j => listing[i] # listing[j]
  BY <1>1 DEF SetToSeqs
<1>3. Cardinality(s) \in Nat
  BY <1>1, FolderTreeAssumption
<1>4. listing \in Seq(Folders) /\ Len(listing) = Cardinality(s)
  BY <1>1, <1>2, <1>3
<1> QED BY <1>2, <1>4 DEF Listed

(* ... also when one has come, gone or moved.                               *)
LEMMA ListedStep == Listed /\ [TreeNext]_treeVars => Listed'
<1> SUFFICES ASSUME Listed, [TreeNext]_treeVars PROVE Listed'
  OBVIOUS
<1>1. CASE listing' = listing
  BY <1>1 DEF Listed
<1>2. ASSUME NEW i \in 1 .. Len(listing), NEW f \in Folders \ Range(listing),
             listing' = [listing EXCEPT ![i] = f]
      PROVE  Listed'
  <2>1. listing' \in Seq(Folders) /\ Len(listing') = Len(listing)
    BY <1>2 DEF Listed
  <2>2. \A j \in 1 .. Len(listing) : listing'[j] = IF j = i THEN f ELSE listing[j]
    BY <1>2 DEF Listed
  <2>3. \A j \in 1 .. Len(listing) : listing[j] # f
    BY DEF Listed, Range
  <2> QED BY <2>1, <2>2, <2>3 DEF Listed
<1>3. ASSUME NEW i \in 1 .. Len(listing), listing' = RemoveAt(listing, i)
      PROVE  Listed'
  <2> DEFINE n == Len(listing)
  <2>1. listing \in Seq(Folders) /\ n \in Nat
    BY DEF Listed
  <2> DEFINE a == SubSeq(listing, 1, i - 1)
             b == SubSeq(listing, i + 1, n)
  <2>2. /\ a \in Seq(Folders) /\ Len(a) = i - 1
        /\ \A j \in 1 .. i - 1 : a[j] = listing[j]
    BY <2>1, SubSeqProperties
  <2>3. /\ b \in Seq(Folders) /\ Len(b) = n - i
        /\ \A j \in 1 .. n - i : b[j] = listing[i + j]
    BY <2>1, SubSeqProperties
  <2>4. listing' = a \o b
    BY <1>3 DEF RemoveAt
  <2> HIDE DEF a, b
  <2>5. listing' \in Seq(Folders) /\ Len(listing') = n - 1
    BY <2>1, <2>2, <2>3, <2>4
  <2>6. \A j \in 1 .. n - 1 : listing'[j] = IF j < i THEN listing[j] ELSE listing[j + 1]
    BY <2>1, <2>2, <2>3, <2>4
  <2>7. ASSUME NEW j \in 1 .. n - 1, NEW k \in 1 .. n - 1, j # k
        PROVE  listing'[j] # listing'[k]
    <3> DEFINE from(m) == IF m < i THEN m ELSE m + 1
    <3>1. from(j) \in 1 .. n /\ from(k) \in 1 .. n /\ from(j) # from(k)
      BY <2>1, <2>7
    <3>2. listing'[j] = listing[from(j)] /\ listing'[k] = listing[from(k)]
      BY <2>1, <2>6
    <3> HIDE DEF from
    <3> QED BY <3>1, <3>2 DEF Listed
  <2> QED BY <2>1, <2>5, <2>7 DEF Listed
<1> QED BY <1>1, <1>2, <1>3 DEF TreeNext, toggleExpanded, Refetched, treeVars

(* What one sees depends on the listed folders alone.                       *)
LEMMA BadgesFollow ==
    ASSUME Listed
    PROVE  BadgesCountEveryMail
<1> DEFINE L == Range(listing)
<1>1. listing \in Seq(Folders) /\ Len(listing) \in Nat
  BY DEF Listed
<1>2. L \in SUBSET Folders
  BY <1>1 DEF Range
<1>3. IsFiniteSet(L) /\ Cardinality(L) = Len(listing)
  <2>1. listing \in Bijection(1 .. Len(listing), L)
    <3>1. listing \in [1 .. Len(listing) -> L]
      BY <1>1 DEF Range
    <3>2. \A x \in L : \E j \in 1 .. Len(listing) : listing[j] = x
      BY <1>1 DEF Range
    <3>3. \A j, k \in 1 .. Len(listing) : listing[j] = listing[k] => j = k
      BY DEF Listed
    <3> HIDE DEF L
    <3> QED BY <3>1, <3>2, <3>3 DEF Bijection, Injection, Surjection, IsInjective
  <2>2. IsFiniteSet(1 .. Len(listing)) /\ Cardinality(1 .. Len(listing)) = Len(listing)
    BY <1>1, FS_Interval
  <2> HIDE DEF L
  <2> QED BY <2>1, <2>2, FS_Bijection DEF ExistsBijection
<1>4. buildFolderTree(listing) = TreeFor(L)
  BY <1>1, TreeIsBuilt
<1> HIDE DEF L
<1>5. BadgesCountEveryMail
      <=> BadgeSum(buildFolderTree(listing),
                   {q \in Rows(buildFolderTree(listing)) : RowVisible(q)}) = Len(listing)
  BY Zenon DEF BadgesCountEveryMail, MapThenSumSet, MapThenFoldSet, BadgeSum, IsBadgeSum
<1>6. BadgeSum(TreeFor(L), {q \in Rows(TreeFor(L)) : RowVisible(q)}) = Cardinality(L)
  BY <1>2, <1>3, BadgesAddUp
<1> QED BY <1>3, <1>4, <1>5, <1>6

(* The numbers on the rows one sees add up to all mails, for every set of   *)
(* folders, every order and every gap in the listing, and whatever is       *)
(* expanded (buildFolderTree, computeTotals, mailCountBadge).               *)
THEOREM BadgesAreRight == TreeSpec => []BadgesCountEveryMail
BY ListedInit, ListedStep, BadgesFollow, PTL DEF TreeSpec
=============================================================================
