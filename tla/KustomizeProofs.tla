--------------------------- MODULE KustomizeProofs ---------------------------
(***************************************************************************)
(* Proofs about Kustomize: files of any length, with any number of items,  *)
(* comments and block entries, and histories of any length.                *)
(***************************************************************************)
EXTENDS Kustomize, FiniteSetTheorems, SequenceTheorems, WellFoundedInduction, TLAPS

-----------------------------------------------------------------------------
(* Least and greatest line numbers *)

(* A set of numbers has a least one: of the intervals that end in it, the  *)
(* smallest by inclusion, an order that is well-founded.                   *)
LEMMA LeastExists ==
    ASSUME NEW S, S \subseteq Nat, S # {}
    PROVE  \E x \in S : \A y \in S : x <= y
<1> DEFINE ends == {1 .. x : x \in S}
<1>1. ends \subseteq FiniteSubsetsOf(Nat)
    <2> SUFFICES ASSUME NEW x \in S PROVE 1 .. x \in FiniteSubsetsOf(Nat)
        OBVIOUS
    <2>1. IsFiniteSet(1 .. x)
        BY FS_Interval
    <2> QED
        BY <2>1 DEF FiniteSubsetsOf
<1>2. PICK e \in ends : \A f \in ends : ~(<<f, e>> \in StrictSubsetOrdering(Nat))
    <2>1. IsWellFoundedOn(StrictSubsetOrdering(Nat), FiniteSubsetsOf(Nat))
        BY FS_StrictSubsetOrderingWellFounded
    <2>2. ends # {}
        OBVIOUS
    <2> HIDE DEF ends
    <2> QED
        BY <1>1, <2>1, <2>2, WFMin
<1>3. PICK x \in S : e = 1 .. x
    OBVIOUS
<1>4. ASSUME NEW y \in S, y < x PROVE FALSE
    <2>1. 1 .. y \in ends
        OBVIOUS
    <2>2. x \in 1 .. x /\ x \notin 1 .. y /\ 1 .. y \subseteq 1 .. x
        BY <1>4
    <2>3. <<1 .. y, e>> \in StrictSubsetOrdering(Nat)
        BY <2>2, <1>3 DEF StrictSubsetOrdering
    <2> QED
        BY <1>2, <2>1, <2>3
<1> QED
    BY <1>4

(* Min is the least number of a set.                                       *)
LEMMA MinFacts ==
    ASSUME NEW S, S \subseteq Nat, S # {}
    PROVE  Min(S) \in S /\ \A y \in S : Min(S) <= y
BY LeastExists DEF Min

(* Max is the greatest number of a bounded set.                            *)
LEMMA MaxFacts ==
    ASSUME NEW S, NEW b \in Nat, S \subseteq 0 .. b, S # {}
    PROVE  Max(S) \in S /\ \A y \in S : y <= Max(S)
<1> DEFINE T == {b - x : x \in S}
<1>0. \A x \in S : x \in Nat /\ x <= b /\ b - x \in Nat
    OBVIOUS
<1>1. T \subseteq Nat /\ T # {}
    BY <1>0
<1>2. PICK z \in T : \A y \in T : z <= y
    <2> HIDE DEF T
    <2> QED
        BY <1>1, LeastExists
<1>3. PICK x \in S : z = b - x
    OBVIOUS
<1>4. ASSUME NEW y \in S PROVE x >= y
    <2>1. b - y \in T
        OBVIOUS
    <2> QED
        BY <1>0, <1>2, <1>3, <2>1
<1>5. Max(S) \in S /\ \A y \in S : Max(S) >= y
    BY <1>4 DEF Max
<1> QED
    BY <1>0, <1>5

(* The number that is least, or greatest, is the one that Min or Max names.*)
LEMMA MinIs ==
    ASSUME NEW S, S \subseteq Nat, NEW x \in S, \A y \in S : x <= y
    PROVE  Min(S) = x
<1>1. Min(S) \in S /\ Min(S) <= x
    BY MinFacts
<1>2. x \in Nat /\ Min(S) \in Nat /\ x <= Min(S)
    BY <1>1
<1> QED
    BY <1>1, <1>2

(* A member that is above all others is the greatest.                      *)
LEMMA MaxIs ==
    ASSUME NEW S, S \subseteq Nat, NEW x \in S, \A y \in S : y <= x
    PROVE  Max(S) = x
<1>1. S \subseteq 0 .. x /\ S # {} /\ x \in Nat
    OBVIOUS
<1>2. Max(S) \in S /\ x <= Max(S)
    BY <1>1, MaxFacts
<1>3. Max(S) \in Nat /\ Max(S) <= x
    BY <1>2
<1> QED
    BY <1>1, <1>2, <1>3

-----------------------------------------------------------------------------
(* Ranks *)

(* A strict total order of a set.                                          *)
Orders(R, S) ==
    /\ \A x \in S : <<x, x>> \notin R
    /\ \A x, y, z \in S : <<x, y>> \in R /\ <<y, z>> \in R => <<x, z>> \in R
    /\ \A x, y \in S : x # y => <<x, y>> \in R \/ <<y, x>> \in R

(* How many members of a set come before x in an order.                    *)
RankIn(S, R, x) == Cardinality({y \in S : <<y, x>> \in R})

(* In a finite set with a strict total order, as many members as come      *)
(* before a member tell which one it is, and every such number occurs.     *)
LEMMA Ranks ==
    ASSUME NEW S, IsFiniteSet(S), NEW R, Orders(R, S)
    PROVE  /\ \A x \in S : RankIn(S, R, x) \in 0 .. Cardinality(S) - 1
           /\ \A x, y \in S : <<x, y>> \in R => RankIn(S, R, x) < RankIn(S, R, y)
           /\ \A x, y \in S : RankIn(S, R, x) = RankIn(S, R, y) => x = y
           /\ \A n \in 1 .. Cardinality(S) : \E x \in S : RankIn(S, R, x) = n - 1
<1> DEFINE N == Cardinality(S)
           under(x) == {y \in S : <<y, x>> \in R}
           rank(x) == Cardinality(under(x))
           f == [x \in S |-> rank(x)]
<1> USE DEF Orders
<1>1. N \in Nat
    BY FS_CardinalityType
<1>2. ASSUME NEW x \in S
      PROVE  IsFiniteSet(under(x)) /\ rank(x) \in 0 .. N - 1
    <2>1. under(x) \in SUBSET (S \ {x})
        OBVIOUS
    <2>2. IsFiniteSet(S \ {x}) /\ Cardinality(S \ {x}) = N - 1
        BY FS_RemoveElement
    <2>3. IsFiniteSet(under(x)) /\ rank(x) <= N - 1
        BY ONLY <2>1, <2>2, FS_Subset, ZenonT(30)
    <2>4. rank(x) \in Nat
        BY ONLY <2>3, FS_CardinalityType
    <2> QED
        BY <1>1, <2>3, <2>4
<1>3. ASSUME NEW x \in S, NEW y \in S, <<x, y>> \in R
      PROVE  rank(x) < rank(y)
    <2>1. under(x) \in SUBSET under(y) /\ x \in under(y) /\ x \notin under(x)
        BY <1>3
    <2>2. IsFiniteSet(under(y)) /\ rank(x) \in Nat /\ rank(y) \in Nat
        BY <1>1, <1>2, SMTT(30)
    <2>3. rank(x) <= rank(y) /\ (rank(x) = rank(y) => under(y) = under(x))
        BY ONLY <2>1, <2>2, FS_Subset
    <2> QED
        BY <2>1, <2>2, <2>3
<1>4. ASSUME NEW x \in S, NEW y \in S, rank(x) = rank(y)
      PROVE  x = y
    <2> SUFFICES ASSUME x # y PROVE FALSE
        OBVIOUS
    <2>0. rank(x) \in 0 .. N - 1 /\ rank(y) \in 0 .. N - 1
        BY <1>2
    <2>2. rank(x) < rank(y) \/ rank(y) < rank(x)
        BY <1>3, ZenonT(30)
    <2> HIDE DEF rank, N
    <2>1. rank(x) \in Int /\ rank(y) \in Int
        BY <1>1, <2>0
    <2> QED
        BY <1>4, <2>1, <2>2
<1>5. f \in Injection(S, 0 .. N - 1)
    <2>1. f \in [S -> 0 .. N - 1]
        BY <1>2
    <2>2. \A x, y \in S : f[x] = f[y] => x = y
        BY <1>4
    <2> HIDE DEF f
    <2> QED
        BY <2>1, <2>2 DEF Injection, IsInjective
<1>6. IsFiniteSet(0 .. N - 1) /\ Cardinality(0 .. N - 1) = N
    <2> HIDE DEF N
    <2> QED
        BY <1>1, FS_Interval
<1>7. f \in Surjection(S, 0 .. N - 1)
    <2> DEFINE T == 0 .. N - 1
    <2>1. f \in Injection(S, T) /\ IsFiniteSet(T) /\ Cardinality(S) = Cardinality(T)
        BY <1>5, <1>6
    <2> HIDE DEF f, T
    <2>2. f \in Surjection(S, T)
        BY ONLY <2>1, FS_Injection
    <2> QED
        BY <2>2 DEF T
<1>8. ASSUME NEW n \in 1 .. N PROVE \E x \in S : rank(x) = n - 1
    <2>1. n - 1 \in 0 .. N - 1
        BY <1>1
    <2>2. \E x \in S : f[x] = n - 1
        BY <1>7, <2>1 DEF Surjection
    <2> QED
        BY <2>2
<1> QED
    BY <1>2, <1>3, <1>4, <1>8 DEF RankIn

(* The members of S, from top to bottom.                                   *)
Enumerates(f, m, S) ==
    /\ m \in Nat /\ f \in [1 .. m -> S]
    /\ \A x \in S : \E n \in 1 .. m : f[n] = x
    /\ \A n, l \in 1 .. m : n < l => f[n] < f[l]

(* The line numbers of a finite set, in the order of the lines.            *)
LEMMA TopDownFacts ==
    ASSUME NEW S, S \subseteq Nat, IsFiniteSet(S)
    PROVE  /\ Enumerates(TopDown(S), Cardinality(S), S)
           /\ \A x \in S, n \in DOMAIN TopDown(S) :
                 Cardinality({y \in S : y < x}) = n - 1 => TopDown(S)[n] = x
<1> DEFINE N == Cardinality(S)
           R == {p \in S \X S : p[1] < p[2]}
           rank(x) == Cardinality({y \in S : y < x})
           d == TopDown(S)
<1>1. \A x, y \in S : <<x, y>> \in R <=> x < y
    OBVIOUS
<1>2. \A x \in S : x \in Nat
    OBVIOUS
<1>3. N \in Nat
    BY FS_CardinalityType
<1>4. ASSUME NEW x \in S PROVE {y \in S : <<y, x>> \in R} = {y \in S : y < x}
    OBVIOUS
<1>5. /\ \A x \in S : rank(x) \in 0 .. N - 1
      /\ \A x, y \in S : x < y => rank(x) < rank(y)
      /\ \A x, y \in S : rank(x) = rank(y) => x = y
      /\ \A n \in 1 .. N : \E x \in S : rank(x) = n - 1
    <2>1. \A x \in S : <<x, x>> \notin R
        BY <1>1, <1>2
    <2>2. \A x, y, z \in S : <<x, y>> \in R /\ <<y, z>> \in R => <<x, z>> \in R
        BY <1>1, <1>2
    <2>3. \A x, y \in S : x # y => <<x, y>> \in R \/ <<y, x>> \in R
        BY <1>1, <1>2
    <2>0. Orders(R, S)
        BY <2>1, <2>2, <2>3 DEF Orders
    <2> HIDE DEF R
    <2> DEFINE of(x) == RankIn(S, R, x)
    <2>4. /\ \A x \in S : of(x) \in 0 .. N - 1
          /\ \A x, y \in S : <<x, y>> \in R => of(x) < of(y)
          /\ \A x, y \in S : of(x) = of(y) => x = y
          /\ \A n \in 1 .. N : \E x \in S : of(x) = n - 1
        <3>1. \A x \in S : of(x) \in 0 .. N - 1
            BY <2>0, Ranks
        <3>2. \A x, y \in S : <<x, y>> \in R => of(x) < of(y)
            BY <2>0, Ranks
        <3>3. \A x, y \in S : of(x) = of(y) => x = y
            BY <2>0, Ranks
        <3>4. \A n \in 1 .. Cardinality(S) : \E x \in S : RankIn(S, R, x) = n - 1
            <4> HIDE DEF N, of, d, rank
            <4> QED
                BY ONLY IsFiniteSet(S), <2>0, Ranks
        <3> QED
            BY <3>1, <3>2, <3>3, <3>4
    <2>5. \A x \in S : of(x) = rank(x)
        BY <1>4 DEF RankIn
    <2> HIDE DEF of, rank
    <2> QED
        BY <1>1, <2>4, <2>5
<1>6. ASSUME NEW n \in 1 .. N PROVE d[n] \in S /\ rank(d[n]) = n - 1
    <2>1. d[n] = CHOOSE x \in S : rank(x) = n - 1
        BY DEF TopDown
    <2>2. \E x \in S : rank(x) = n - 1
        BY <1>5
    <2> HIDE DEF d, rank
    <2> QED
        BY <2>1, <2>2
<1>7. d \in [1 .. N -> S] /\ DOMAIN d = 1 .. N
    <2>1. d = [n \in 1 .. N |-> d[n]]
        BY SMTT(30) DEF TopDown
    <2> HIDE DEF d
    <2> QED
        BY <1>6, <2>1
<1> HIDE DEF d, rank, N
<1>8. ASSUME NEW x \in S, NEW n \in DOMAIN d, rank(x) = n - 1 PROVE d[n] = x
    BY <1>5, <1>6, <1>7, <1>8
<1>9. ASSUME NEW x \in S PROVE \E n \in DOMAIN d : d[n] = x
    <2>1. rank(x) \in Int /\ rank(x) + 1 \in 1 .. N /\ rank(x) = (rank(x) + 1) - 1
        BY <1>3, <1>5
    <2> QED
        BY <1>7, <1>8, <2>1
<1>10. ASSUME NEW n \in DOMAIN d, NEW m \in DOMAIN d, n < m PROVE d[n] < d[m]
    <2>1. n \in Nat /\ m \in Nat /\ d[n] \in S /\ d[m] \in S
        BY <1>3, <1>7
    <2>2. rank(d[n]) < rank(d[m])
        BY <1>6, <1>7, <1>10, <2>1
    <2>3. d[n] \in Nat /\ d[m] \in Nat /\ rank(d[m]) \in Int /\ rank(d[n]) \in Int
        <3>1. rank(d[m]) = m - 1 /\ rank(d[n]) = n - 1
            BY <1>6, <1>7
        <3>2. d[n] \in Nat /\ d[m] \in Nat
            BY <1>2, <2>1, Zenon
        <3> QED
            BY <2>1, <3>1, <3>2
    <2>4. d[m] < d[n] => rank(d[m]) < rank(d[n])
        BY <1>5, <2>1
    <2>5. d[n] # d[m]
        BY <2>2, <2>3
    <2> QED
        BY <2>2, <2>3, <2>4, <2>5
<1> QED
    BY <1>3, <1>7, <1>8, <1>9, <1>10 DEF d, rank, N, Enumerates

(* There is no other enumeration of a set from top to bottom.              *)
LEMMA TopDownIs ==
    ASSUME NEW S, S \subseteq Nat, NEW m, NEW f, Enumerates(f, m, S)
    PROVE  IsFiniteSet(S) /\ Cardinality(S) = m /\ TopDown(S) = f
<1> USE DEF Enumerates
<1>0. ASSUME NEW n \in 1 .. m, NEW l \in 1 .. m PROVE f[n] < f[l] <=> n < l
    <2>0. f[n] \in S /\ f[l] \in S
        OBVIOUS
    <2>1. f[n] \in Nat /\ f[l] \in Nat
        BY <2>0, Zenon
    <2>4. n \in Nat /\ l \in Nat
        OBVIOUS
    <2>2. n < l => f[n] < f[l]
        OBVIOUS
    <2>3. l < n => f[l] < f[n]
        OBVIOUS
    <2> QED
        BY <2>1, <2>2, <2>3, <2>4
<1>1. \A n, l \in 1 .. m : f[n] = f[l] => n = l
    <2> SUFFICES ASSUME NEW n \in 1 .. m, NEW l \in 1 .. m, f[n] = f[l] PROVE n = l
        OBVIOUS
    <2>0. f[n] \in S
        OBVIOUS
    <2>1. f[n] \in Nat
        BY <2>0, Zenon
    <2>2. n \in Nat /\ l \in Nat
        OBVIOUS
    <2> QED
        BY <1>0, <2>1, <2>2
<1>2. IsFiniteSet(1 .. m) /\ Cardinality(1 .. m) = m
    BY FS_Interval
<1>3. ExistsBijection(1 .. m, S)
    <2>1. f \in Bijection(1 .. m, S)
        BY <1>1 DEF Bijection, Injection, Surjection, IsInjective
    <2> QED
        BY <2>1 DEF ExistsBijection
<1>4. IsFiniteSet(S) /\ Cardinality(S) = m
    BY <1>2, <1>3, FS_Bijection
<1>5. ASSUME NEW n \in 1 .. m PROVE Cardinality({y \in S : y < f[n]}) = n - 1
    <2> DEFINE T == {y \in S : y < f[n]}
               g == [l \in 1 .. n - 1 |-> f[l]]
    <2>1. \A l \in 1 .. n - 1 : l \in 1 .. m /\ f[l] \in T
        OBVIOUS
    <2>2. \A y \in T : \E l \in 1 .. n - 1 : g[l] = y
        <3> SUFFICES ASSUME NEW y \in T PROVE \E l \in 1 .. n - 1 : g[l] = y
            OBVIOUS
        <3>1. PICK l \in 1 .. m : f[l] = y
            OBVIOUS
        <3>2. l < n
            BY <1>0, <3>1
        <3> QED
            BY <3>1, <3>2
    <2>3. g \in Bijection(1 .. n - 1, T)
        <3>1. g \in [1 .. n - 1 -> T]
            BY <2>1
        <3>2. \A k, l \in 1 .. n - 1 : g[k] = g[l] => k = l
            BY <1>1, <2>1
        <3> HIDE DEF g, T
        <3> QED
            BY <2>2, <3>1, <3>2 DEF Bijection, Injection, Surjection, IsInjective
    <2>4. IsFiniteSet(1 .. n - 1) /\ Cardinality(1 .. n - 1) = n - 1
        BY FS_Interval
    <2>5. ExistsBijection(1 .. n - 1, T)
        BY <2>3 DEF ExistsBijection
    <2> HIDE DEF g, T
    <2>6. Cardinality(T) = n - 1
        BY <2>4, <2>5, FS_Bijection
    <2> QED
        BY <2>6 DEF T
<1>6. DOMAIN TopDown(S) = 1 .. m
    BY <1>4 DEF TopDown
<1>7. ASSUME NEW n \in 1 .. m PROVE TopDown(S)[n] = f[n]
    <2>1. \A x \in S, l \in DOMAIN TopDown(S) :
             Cardinality({y \in S : y < x}) = l - 1 => TopDown(S)[l] = x
        BY <1>4, TopDownFacts
    <2>2. f[n] \in S
        OBVIOUS
    <2> QED
        BY <1>5, <1>6, <2>1, <2>2
<1>8. TopDown(S) = [n \in 1 .. m |-> TopDown(S)[n]]
    <2> DEFINE at(n) == CHOOSE x \in S : Cardinality({y \in S : y < x}) = n - 1
    <2>1. TopDown(S) = [n \in 1 .. m |-> at(n)]
        BY <1>4 DEF TopDown
    <2> HIDE DEF at
    <2> QED
        BY <2>1
<1> QED
    BY <1>4, <1>7, <1>8

-----------------------------------------------------------------------------
(* The images block *)

(* imagesKeyLine is the first images key, or 0.                            *)
LEMMA KeyFacts ==
    ASSUME NEW ls \in Seq(Line)
    PROVE  /\ imagesKeyLine(ls) \in 0 .. Len(ls)
           /\ imagesKeyLine(ls) > 0 => ls[imagesKeyLine(ls)].k = "images"
           /\ \A n \in 1 .. Len(ls) : ls[n].k = "images" => imagesKeyLine(ls) \in 1 .. n
<1> DEFINE I == {n \in 1 .. Len(ls) : ls[n].k = "images"}
<1>1. imagesKeyLine(ls) = IF I # {} THEN Min(I) ELSE 0
    BY DEF imagesKeyLine, SelectInSeq, IsImages
<1>2. Len(ls) \in Nat
    OBVIOUS
<1>3. CASE I = {}
    BY <1>1, <1>2, <1>3
<1>4. CASE I # {}
    <2>1. I \subseteq Nat
        OBVIOUS
    <2>2. Min(I) \in I /\ \A y \in I : Min(I) <= y
        BY <1>4, <2>1, MinFacts
    <2>3. imagesKeyLine(ls) = Min(I)
        BY <1>1, <1>4
    <2>4. imagesKeyLine(ls) \in 1 .. Len(ls) /\ ls[imagesKeyLine(ls)].k = "images"
        BY <2>2, <2>3
    <2>5. ASSUME NEW n \in 1 .. Len(ls), ls[n].k = "images" PROVE imagesKeyLine(ls) \in 1 .. n
        <3>1. n \in I
            BY <2>5
        <3>2. imagesKeyLine(ls) <= n
            BY <2>2, <2>3, <3>1
        <3> QED
            BY <2>4, <3>2
    <2> QED
        BY <1>2, <2>4, <2>5
<1> QED
    BY <1>3, <1>4

(* A line with an images key and none above it is imagesKeyLine.           *)
LEMMA KeyIs ==
    ASSUME NEW ls \in Seq(Line), NEW p \in 1 .. Len(ls), ls[p].k = "images",
           \A n \in 1 .. p - 1 : ls[n].k # "images"
    PROVE  imagesKeyLine(ls) = p
<1>1. imagesKeyLine(ls) \in 1 .. p
    BY KeyFacts
<1>2. ls[imagesKeyLine(ls)].k = "images"
    BY <1>1, KeyFacts
<1> QED
    BY <1>1, <1>2

(* The lines of ls from its images key on, in their order, are lines of ms *)
(* from its images key on, with their kinds; further lines are newTags.    *)
Embeds(g, ls, ms) ==
    LET K == imagesKeyLine(ls)  L == imagesKeyLine(ms)
    IN  /\ K > 0 /\ L > 0
        /\ g \in [K .. Len(ls) -> L .. Len(ms)] /\ g[K] = L
        /\ \A n, m \in K .. Len(ls) : n < m => g[n] < g[m]
        /\ \A n \in K .. Len(ls) : ms[g[n]].k = ls[n].k
        /\ \A m \in L .. Len(ms) : (\E n \in K .. Len(ls) : g[n] = m) \/ ms[m].k = "tag"

(* The order of line numbers survives in both directions.                  *)
LEMMA EmbedOrder ==
    ASSUME NEW ls \in Seq(Line), NEW ms \in Seq(Line), NEW g, Embeds(g, ls, ms),
           NEW n \in imagesKeyLine(ls) .. Len(ls), NEW m \in imagesKeyLine(ls) .. Len(ls)
    PROVE  /\ n \in Nat /\ g[n] \in Nat /\ g[n] \in imagesKeyLine(ms) .. Len(ms)
           /\ g[n] < g[m] <=> n < m
           /\ g[n] = g[m] <=> n = m
<1> DEFINE K == imagesKeyLine(ls)
           L == imagesKeyLine(ms)
<1>1. K \in Nat /\ L \in Nat /\ Len(ls) \in Nat /\ Len(ms) \in Nat
    BY KeyFacts
<1>2. /\ g[n] \in L .. Len(ms) /\ g[m] \in L .. Len(ms)
      /\ n < m => g[n] < g[m]
      /\ m < n => g[m] < g[n]
    BY DEF Embeds
<1> HIDE DEF K, L
<1>3. g[n] \in Nat /\ g[m] \in Nat /\ n \in Nat /\ m \in Nat
    BY <1>1, <1>2 DEF K
<1> QED
    BY <1>2, <1>3 DEF L

(* The lines of the images block stay in it, and no other line joins.      *)
LEMMA EmbedBlock ==
    ASSUME NEW ls \in Seq(Line), NEW ms \in Seq(Line), NEW g, Embeds(g, ls, ms),
           NEW n \in imagesKeyLine(ls) + 1 .. Len(ls)
    PROVE  g[n] \in InBlock(ms) <=> n \in InBlock(ls)
<1> DEFINE K == imagesKeyLine(ls)
           L == imagesKeyLine(ms)
           Within(x) == x \notin {"other", "images"}
<1>1. K \in Nat /\ L \in Nat /\ Len(ls) \in Nat /\ Len(ms) \in Nat
    BY KeyFacts
<1>2. K \in K .. Len(ls) /\ n \in K .. Len(ls) /\ K < n /\ n \in Nat
    BY <1>1
<1>3. g[K] = L /\ L < g[n] /\ g[n] \in L .. Len(ms) /\ g[n] \in Nat
    BY <1>2, EmbedOrder DEF Embeds
<1>4. ASSUME n \in InBlock(ls), NEW m \in L + 1 .. g[n] PROVE Within(ms[m].k)
    <2>1. m \in L .. Len(ms)
        BY <1>1, <1>3
    <2>2. CASE ms[m].k = "tag"
        BY <2>2
    <2>3. CASE \E l \in K .. Len(ls) : g[l] = m
        <3>1. PICK l \in K .. Len(ls) : g[l] = m
            BY <2>3
        <3>2. g[K] < g[l] /\ (g[l] < g[n] \/ g[l] = g[n])
            BY <1>1, <1>3, <3>1
        <3>3. K < l /\ (l < n \/ l = n) /\ l \in Nat
            BY <1>2, <3>2, EmbedOrder
        <3>4. l \in K + 1 .. n
            BY <1>1, <1>2, <3>3
        <3>5. ms[m].k = ls[l].k
            BY <3>1 DEF Embeds
        <3> QED
            BY <1>4, <3>4, <3>5 DEF InBlock
    <2> QED
        BY <2>1, <2>2, <2>3 DEF Embeds
<1>5. ASSUME g[n] \in InBlock(ms), NEW l \in K + 1 .. n PROVE Within(ls[l].k)
    <2>1. l \in K .. Len(ls) /\ K < l /\ l \in Nat /\ (l < n \/ l = n)
        BY <1>1, <1>2
    <2>2. g[K] < g[l] /\ (g[l] < g[n] \/ g[l] = g[n]) /\ g[l] \in Nat
        BY <1>2, <2>1, EmbedOrder
    <2>3. g[l] \in L + 1 .. g[n]
        BY <1>1, <1>3, <2>2
    <2>4. ms[g[l]].k = ls[l].k
        BY <2>1 DEF Embeds
    <2> QED
        BY <1>5, <2>3, <2>4 DEF InBlock
<1>6. n \in InBlock(ls) <=> \A l \in K + 1 .. n : Within(ls[l].k)
    BY DEF InBlock
<1>7. g[n] \in InBlock(ms) <=> \A m \in L + 1 .. g[n] : Within(ms[m].k)
    <2>1. g[n] \in L + 1 .. Len(ms)
        BY <1>1, <1>3
    <2> QED
        BY <2>1 DEF InBlock
<1> QED
    BY <1>4, <1>5, <1>6, <1>7

(* A file without items in flow style.                                     *)
NoFlow(ls) == \A n \in 1 .. Len(ls) : ls[n].k # "flow"

(* The line numbers the parser works with.                                 *)
LEMMA BlockLines ==
    ASSUME NEW ls \in Seq(Line)
    PROVE  /\ InBlock(ls) \subseteq imagesKeyLine(ls) + 1 .. Len(ls)
           /\ Starts(ls) \subseteq InBlock(ls) /\ IsFiniteSet(Starts(ls))
           /\ \A s \in Starts(ls) : Own(ls, s) \subseteq InBlock(ls) /\ s \in Own(ls, s)
<1>1. imagesKeyLine(ls) \in Nat /\ Len(ls) \in Nat
    BY KeyFacts
<1>2. InBlock(ls) \subseteq imagesKeyLine(ls) + 1 .. Len(ls)
    BY DEF InBlock
<1>3. Starts(ls) \subseteq InBlock(ls)
    BY DEF Starts
<1>4. Starts(ls) \in SUBSET (imagesKeyLine(ls) + 1 .. Len(ls))
    BY <1>2, <1>3
<1>5. IsFiniteSet(imagesKeyLine(ls) + 1 .. Len(ls))
    BY <1>1, FS_Interval
<1>6. IsFiniteSet(Starts(ls))
    BY <1>4, <1>5, FS_Subset
<1>7. ASSUME NEW s \in Starts(ls) PROVE Own(ls, s) \subseteq InBlock(ls) /\ s \in Own(ls, s)
    <2>1. s \in InBlock(ls) /\ ls[s].k \in {"name", "flow"} /\ s \in Nat
        BY <1>1, <1>4 DEF Starts
    <2>2. \A x \in Starts(ls) : x \in Nat
        BY <1>1, <1>4
    <2>3. \A x \in Starts(ls) : x <= s \/ s < x
        BY <2>1, <2>2
    <2> QED
        BY <2>1, <2>3 DEF Own
<1> QED
    BY <1>2, <1>3, <1>6, <1>7

(* The items are the same ones, and their own lines stay their own.        *)
LEMMA EmbedItems ==
    ASSUME NEW ls \in Seq(Line), NEW ms \in Seq(Line), NEW g, Embeds(g, ls, ms)
    PROVE  /\ \A s \in Starts(ls) : g[s] \in Starts(ms)
           /\ \A x \in Starts(ms) : \E s \in Starts(ls) : g[s] = x
           /\ \A s \in Starts(ls), n \in imagesKeyLine(ls) + 1 .. Len(ls) :
                 g[n] \in Own(ms, g[s]) <=> n \in Own(ls, s)
<1> DEFINE K == imagesKeyLine(ls)
           L == imagesKeyLine(ms)
<1>1. K \in Nat /\ L \in Nat /\ Len(ls) \in Nat /\ Len(ms) \in Nat
    BY KeyFacts
<1>2. \A n \in K + 1 .. Len(ls) : n \in K .. Len(ls) /\ K < n /\ n \in Nat
    BY <1>1
<1>3. \A s \in Starts(ls) : s \in K + 1 .. Len(ls)
    BY BlockLines
<1>4. ASSUME NEW s \in Starts(ls) PROVE g[s] \in Starts(ms)
    <2>1. g[s] \in InBlock(ms)
        BY <1>3, EmbedBlock DEF Starts
    <2>2. ms[g[s]].k = ls[s].k
        BY <1>2, <1>3 DEF Embeds
    <2> QED
        BY <2>1, <2>2 DEF Starts
<1>5. ASSUME NEW x \in Starts(ms) PROVE \E s \in Starts(ls) : g[s] = x
    <2>1. x \in InBlock(ms) /\ x \in L + 1 .. Len(ms) /\ ms[x].k \in {"name", "flow"}
        BY BlockLines DEF Starts
    <2>2. x \in L .. Len(ms) /\ x \in Nat /\ L < x
        BY <1>1, <2>1
    <2>3. PICK n \in K .. Len(ls) : g[n] = x
        BY <2>1, <2>2 DEF Embeds
    <2>4. K \in K .. Len(ls) /\ g[K] = L
        BY <1>1 DEF Embeds
    <2>5. K < n /\ n \in Nat
        BY <2>2, <2>3, <2>4, EmbedOrder
    <2>6. n \in K + 1 .. Len(ls)
        BY <1>1, <2>3, <2>5
    <2>7. n \in InBlock(ls)
        BY <2>1, <2>3, <2>6, EmbedBlock
    <2>8. ms[g[n]].k = ls[n].k
        BY <2>3 DEF Embeds
    <2> QED
        BY <2>1, <2>3, <2>7, <2>8 DEF Starts
<1>6. ASSUME NEW s \in Starts(ls), NEW n \in K + 1 .. Len(ls)
      PROVE  g[n] \in Own(ms, g[s]) <=> n \in Own(ls, s)
    <2>1. s \in K .. Len(ls) /\ n \in K .. Len(ls) /\ s \in Nat /\ n \in Nat
        BY <1>2, <1>3
    <2>2. g[n] \in InBlock(ms) <=> n \in InBlock(ls)
        BY EmbedBlock
    <2>3. ms[g[n]].k = ls[n].k
        BY <2>1 DEF Embeds
    <2>4. g[n] \in Nat /\ g[s] \in Nat /\ (g[n] < g[s] <=> n < s)
        BY <2>1, EmbedOrder
    <2>5. g[n] >= g[s] <=> n >= s
        BY <2>1, <2>4
    <2>6. ASSUME NEW x \in Starts(ls)
          PROVE  (g[x] <= g[s] \/ g[n] < g[x]) <=> (x <= s \/ n < x)
        <3>1. x \in K .. Len(ls) /\ x \in Nat
            BY <1>2, <1>3
        <3>2. g[x] \in Nat /\ (g[s] < g[x] <=> s < x) /\ (g[n] < g[x] <=> n < x)
            BY <2>1, <3>1, EmbedOrder
        <3> QED
            BY <2>1, <2>4, <3>1, <3>2
    <2>7. (\A x \in Starts(ms) : x <= g[s] \/ g[n] < x) <=> \A x \in Starts(ls) : x <= s \/ n < x
        BY <1>4, <1>5, <2>6
    <2> QED
        BY <2>2, <2>3, <2>5, <2>7 DEF Own
<1> QED
    BY <1>4, <1>5, <1>6

(* The items are in the same order.                                        *)
LEMMA EmbedTopDown ==
    ASSUME NEW ls \in Seq(Line), NEW ms \in Seq(Line), NEW g, Embeds(g, ls, ms)
    PROVE  LET d == TopDown(Starts(ls))
           IN  TopDown(Starts(ms)) = [k \in DOMAIN d |-> g[d[k]]]
<1> DEFINE d == TopDown(Starts(ls))
           N == Cardinality(Starts(ls))
           f == [k \in DOMAIN d |-> g[d[k]]]
<1>1. Starts(ls) \subseteq Nat /\ Starts(ms) \subseteq Nat /\ IsFiniteSet(Starts(ls))
    <2>1. imagesKeyLine(ls) \in Nat /\ imagesKeyLine(ms) \in Nat /\ Len(ls) \in Nat /\ Len(ms) \in Nat
        BY KeyFacts
    <2> QED
        BY <2>1, BlockLines
<1>2. Enumerates(d, N, Starts(ls))
    BY <1>1, TopDownFacts
<1> HIDE DEF d, N
<1> USE DEF Enumerates
<1>3. DOMAIN d = 1 .. N
    BY <1>2
<1>4. f \in [1 .. N -> Starts(ms)]
    <2>1. \A k \in 1 .. N : g[d[k]] \in Starts(ms)
        BY <1>2, EmbedItems
    <2> QED
        BY <1>3, <2>1
<1>5. \A x \in Starts(ms) : \E n \in 1 .. N : f[n] = x
    <2> SUFFICES ASSUME NEW x \in Starts(ms) PROVE \E n \in 1 .. N : f[n] = x
        OBVIOUS
    <2>1. PICK s \in Starts(ls) : g[s] = x
        BY EmbedItems
    <2>2. PICK n \in 1 .. N : d[n] = s
        BY <1>2
    <2> QED
        BY <1>3, <2>1, <2>2
<1>6. ASSUME NEW n \in 1 .. N, NEW l \in 1 .. N, n < l PROVE f[n] < f[l]
    <2>1. d[n] \in Starts(ls) /\ d[l] \in Starts(ls) /\ d[n] < d[l]
        BY <1>2, <1>6
    <2>2. \A s \in Starts(ls) : s \in imagesKeyLine(ls) .. Len(ls)
        <3>1. imagesKeyLine(ls) \in Nat /\ Len(ls) \in Nat
            BY KeyFacts
        <3> QED
            BY <3>1, BlockLines
    <2>3. g[d[n]] < g[d[l]]
        BY <2>1, <2>2, EmbedOrder
    <2> QED
        BY <1>3, <2>3
<1> HIDE DEF f
<1>7. TopDown(Starts(ms)) = f
    <2>1. Enumerates(f, N, Starts(ms))
        BY <1>2, <1>4, <1>5, <1>6
    <2> HIDE DEF Enumerates
    <2> QED
        BY <1>1, <2>1, TopDownIs
<1> QED
    BY <1>7 DEF f, d

(* The newTag lines of an item.                                            *)
TagsOf(ls, s) == {n \in Own(ls, s) : ls[n].k = "tag"}

(* No two members.                                                         *)
AtMostOne(S) == \A x, y \in S : x = y

(* As parse counts them.                                                   *)
LEMMA AtMostOneCounts ==
    ASSUME NEW S, IsFiniteSet(S)
    PROVE  Cardinality(S) <= 1 <=> AtMostOne(S)
<1>1. CASE S = {}
    BY <1>1, FS_EmptySet DEF AtMostOne
<1>2. CASE S # {}
    <2>1. PICK x : x \in S
        BY <1>2
    <2>2. Cardinality(S) \in Nat /\ Cardinality(S) # 0
        BY <1>2, FS_CardinalityType, FS_EmptySet
    <2>3. ASSUME AtMostOne(S) PROVE Cardinality(S) = 1
        <3>1. S = {x}
            BY <2>1, <2>3 DEF AtMostOne
        <3> QED
            BY <3>1, FS_Singleton
    <2>4. ASSUME Cardinality(S) = 1 PROVE AtMostOne(S)
        <3>1. PICK y : S = {y}
            BY <2>4, FS_Singleton
        <3> QED
            BY <3>1 DEF AtMostOne
    <2> QED
        BY <2>2, <2>3, <2>4
<1> QED
    BY <1>1, <1>2

(* A file that parses, if no item is in flow style.                        *)
LEMMA ParsesMeans ==
    ASSUME NEW ls \in Seq(Line), NoFlow(ls)
    PROVE  Parses(ls) <=> /\ imagesKeyLine(ls) > 0
                          /\ \A n \in InBlock(ls) : ls[n].k # "broken"
                          /\ \A s \in Starts(ls) : AtMostOne(TagsOf(ls, s))
<1>1. imagesKeyLine(ls) \in Nat /\ Len(ls) \in Nat
    BY KeyFacts
<1>2. ASSUME NEW s \in Starts(ls)
      PROVE  /\ ls[s].k # "flow"
             /\ Cardinality(TagsOf(ls, s)) <= 1 <=> AtMostOne(TagsOf(ls, s))
    <2>1. s \in imagesKeyLine(ls) + 1 .. Len(ls)
        BY BlockLines
    <2>2. ls[s].k # "flow"
        BY <1>1, <2>1 DEF NoFlow
    <2>3. TagsOf(ls, s) \in SUBSET (imagesKeyLine(ls) + 1 .. Len(ls))
        BY BlockLines DEF TagsOf
    <2>4. IsFiniteSet(imagesKeyLine(ls) + 1 .. Len(ls))
        BY <1>1, FS_Interval
    <2>5. IsFiniteSet(TagsOf(ls, s))
        BY <2>3, <2>4, FS_Subset
    <2> QED
        BY <2>2, <2>5, AtMostOneCounts
<1> QED
    BY <1>2 DEF Parses, TagsOf

(* What parse records of an item.                                          *)
LEMMA NodeFacts ==
    ASSUME NEW ls \in Seq(Line), NoFlow(ls), NEW s \in Starts(ls), AtMostOne(TagsOf(ls, s))
    PROVE  LET n == Node(ls, s)
           IN  /\ n = [image |-> ls[s].image, tag |-> n.tag, tagLine |-> n.tagLine, last |-> n.last]
               /\ TagsOf(ls, s) = {} => n.tagLine = 0 /\ n.tag = NoTag
               /\ \A p \in TagsOf(ls, s) :
                     TagsOf(ls, s) = {p} /\ n.tagLine = p /\ n.tag = ls[p].tag
               /\ n.last \in Own(ls, s) /\ \A m \in Own(ls, s) : m <= n.last
<1> DEFINE n == Node(ls, s)
           T == TagsOf(ls, s)
<1>1. imagesKeyLine(ls) \in Nat /\ Len(ls) \in Nat
    BY KeyFacts
<1>2. s \in imagesKeyLine(ls) + 1 .. Len(ls)
    BY BlockLines
<1>3. ls[s].k # "flow"
    BY <1>1, <1>2 DEF NoFlow
<1>4. Own(ls, s) \subseteq 0 .. Len(ls) /\ Own(ls, s) # {}
    BY <1>1, BlockLines
<1>5. n = [image |-> ls[s].image, tag |-> IF T # {} THEN ls[Max(T)].tag ELSE NoTag,
           tagLine |-> IF T # {} THEN Max(T) ELSE 0, last |-> Max(Own(ls, s))]
    BY <1>3 DEF Node, TagsOf
<1>6. ASSUME NEW p \in T PROVE T = {p} /\ Max(T) = p
    <2>1. T = {p}
        BY DEF AtMostOne
    <2>2. p \in Nat
        BY <1>4 DEF TagsOf
    <2>3. Max({p}) = p
        BY <2>2, MaxIs
    <2> QED
        BY <2>1, <2>3
<1>7. Max(Own(ls, s)) \in Own(ls, s) /\ \A m \in Own(ls, s) : m <= Max(Own(ls, s))
    BY <1>1, <1>4, MaxFacts
<1> HIDE DEF n, T
<1> QED
    BY <1>5, <1>6, <1>7 DEF n, T

(* The lines of the item that starts at s are those of ls.                 *)
Untouched(g, ls, ms, s) ==
    /\ \A m \in Own(ms, g[s]) : \E n \in Own(ls, s) : g[n] = m
    /\ \A n \in Own(ls, s) : ms[g[n]] = ls[n]

(* An untouched item is read as before, further down in the file.          *)
LEMMA NodeKept ==
    ASSUME NEW ls \in Seq(Line), NEW ms \in Seq(Line), NEW g, Embeds(g, ls, ms),
           NoFlow(ls), NoFlow(ms), NEW s \in Starts(ls), AtMostOne(TagsOf(ls, s)),
           Untouched(g, ls, ms, s)
    PROVE  /\ AtMostOne(TagsOf(ms, g[s]))
           /\ Node(ms, g[s]).image = Node(ls, s).image
           /\ Node(ms, g[s]).tag = Node(ls, s).tag
           /\ (\A n \in Own(ls, s) : g[n] = n) => Node(ms, g[s]) = Node(ls, s)
<1> DEFINE a == Node(ls, s)
           b == Node(ms, g[s])
<1>1. \A n \in Own(ls, s) : n \in imagesKeyLine(ls) + 1 .. Len(ls)
    BY BlockLines
<1>2. g[s] \in Starts(ms) /\ \A n \in Own(ls, s) : g[n] \in Own(ms, g[s])
    BY <1>1, EmbedItems
<1>3. s \in Own(ls, s) /\ ms[g[s]] = ls[s]
    BY BlockLines DEF Untouched
<1>4. \A n \in TagsOf(ls, s) : g[n] \in TagsOf(ms, g[s])
    BY <1>2 DEF Untouched, TagsOf
<1>5. \A m \in TagsOf(ms, g[s]) : \E n \in TagsOf(ls, s) : g[n] = m /\ ms[m] = ls[n]
    BY DEF Untouched, TagsOf
<1>6. AtMostOne(TagsOf(ms, g[s]))
    BY <1>5 DEF AtMostOne
<1>7. /\ a = [image |-> ls[s].image, tag |-> a.tag, tagLine |-> a.tagLine, last |-> a.last]
      /\ TagsOf(ls, s) = {} => a.tagLine = 0 /\ a.tag = NoTag
      /\ \A p \in TagsOf(ls, s) : a.tagLine = p /\ a.tag = ls[p].tag
      /\ a.last \in Own(ls, s) /\ \A m \in Own(ls, s) : m <= a.last
    BY NodeFacts
<1>8. /\ b = [image |-> ms[g[s]].image, tag |-> b.tag, tagLine |-> b.tagLine, last |-> b.last]
      /\ TagsOf(ms, g[s]) = {} => b.tagLine = 0 /\ b.tag = NoTag
      /\ \A p \in TagsOf(ms, g[s]) : b.tagLine = p /\ b.tag = ms[p].tag
      /\ b.last \in Own(ms, g[s]) /\ \A m \in Own(ms, g[s]) : m <= b.last
    BY <1>2, <1>6, NodeFacts
<1> HIDE DEF a, b
<1>9. a.image = b.image
    BY <1>3, <1>7, <1>8
<1>10. a.tag = b.tag /\ ((\A n \in Own(ls, s) : g[n] = n) => a.tagLine = b.tagLine)
    <2>1. CASE TagsOf(ls, s) = {}
        <3>1. TagsOf(ms, g[s]) = {}
            BY <1>5, <2>1
        <3> QED
            BY <1>7, <1>8, <2>1, <3>1
    <2>2. CASE TagsOf(ls, s) # {}
        <3>1. PICK p \in TagsOf(ls, s) : TRUE
            BY <2>2
        <3>2. g[p] \in TagsOf(ms, g[s]) /\ p \in Own(ls, s) /\ ms[g[p]] = ls[p]
            BY <1>4, <3>1 DEF TagsOf, Untouched
        <3> QED
            BY <1>7, <1>8, <3>1, <3>2
    <2> QED
        BY <2>1, <2>2
<1>11. ASSUME \A n \in Own(ls, s) : g[n] = n PROVE a.last = b.last
    <2>1. a.last \in Own(ms, g[s]) /\ b.last \in Own(ls, s)
        BY <1>2, <1>7, <1>8, <1>11 DEF Untouched
    <2>2. a.last <= b.last /\ b.last <= a.last
        BY <1>7, <1>8, <2>1
    <2>3. a.last \in Nat /\ b.last \in Nat
        <3>1. imagesKeyLine(ls) \in Nat
            BY KeyFacts
        <3> QED
            BY <1>1, <1>7, <2>1, <3>1
    <2> QED
        BY <2>2, <2>3
<1>12. ASSUME \A n \in Own(ls, s) : g[n] = n PROVE a = b
    <2>1. a.tagLine = b.tagLine /\ a.last = b.last
        BY <1>10, <1>11, <1>12
    <2> QED
        BY <1>3, <1>7, <1>8, <1>10, <2>1
<1> QED
    BY <1>6, <1>9, <1>10, <1>12 DEF a, b

-----------------------------------------------------------------------------
(* One edit *)

(* ms is ls with the newTag of the item at s set to t: the lines above the *)
(* item stay where they are, and no other item is touched.                 *)
TagEdit(g, ls, ms, s, t) ==
    /\ ms \in Seq(Line) /\ NoFlow(ms) /\ Embeds(g, ls, ms)
    /\ imagesKeyLine(ms) = imagesKeyLine(ls)
    /\ \A n \in imagesKeyLine(ls) .. s : g[n] = n
    /\ ms[s] = ls[s]
    /\ \A n \in 1 .. imagesKeyLine(ls) : ms[n] = ls[n]
    /\ \A n \in imagesKeyLine(ls) .. Len(ls) : ls[n].k # "tag" => ms[g[n]] = ls[n]
    /\ \A x \in Starts(ls) \ {s} : Untouched(g, ls, ms, x)
    /\ \E e \in TagsOf(ms, s) : TagsOf(ms, s) = {e} /\ ms[e] = TagLine(t)

(* The lines of an item are above the next one.                            *)
LEMMA OwnAbove ==
    ASSUME NEW ls \in Seq(Line), NEW s \in Starts(ls), NEW x \in Starts(ls), x < s,
           NEW n \in Own(ls, x)
    PROVE  n < s /\ x <= n
<1>1. imagesKeyLine(ls) \in Nat
    BY KeyFacts
<1>2. s \in Nat /\ x \in Nat /\ n \in Nat
    BY <1>1, BlockLines
<1> QED
    BY <1>2 DEF Own

(* What an edit means for the file that is read back.                      *)
LEMMA TagEditReads ==
    ASSUME NEW ls \in Seq(Line), NoFlow(ls), Parses(ls), NEW ms, NEW g, NEW t,
           NEW k \in DOMAIN TopDown(Starts(ls)),
           TagEdit(g, ls, ms, TopDown(Starts(ls))[k], t)
    PROVE  /\ Parses(ms)
           /\ DOMAIN imageNodes(ms) = DOMAIN imageNodes(ls)
           /\ \A l \in DOMAIN imageNodes(ls) : l < k => imageNodes(ms)[l] = imageNodes(ls)[l]
           /\ Images(ms) = [Images(ls) EXCEPT ![k].tag = t]
<1> DEFINE d == TopDown(Starts(ls))
           N == Cardinality(Starts(ls))
           s == d[k]
<1>1. imagesKeyLine(ls) \in Nat /\ Len(ls) \in Nat
    BY KeyFacts
<1>2. Starts(ls) \subseteq Nat /\ IsFiniteSet(Starts(ls))
    BY <1>1, BlockLines
<1>3. Enumerates(d, N, Starts(ls))
    BY <1>2, TopDownFacts
<1>4. ms \in Seq(Line) /\ NoFlow(ms) /\ Embeds(g, ls, ms)
    BY DEF TagEdit
<1>5. TopDown(Starts(ms)) = [l \in DOMAIN d |-> g[d[l]]]
    BY <1>4, EmbedTopDown
<1>6. d \in [1 .. N -> Starts(ls)] /\ DOMAIN d = 1 .. N /\ N \in Nat
    BY <1>3 DEF Enumerates
<1> HIDE DEF d, N
<1>7. s \in Starts(ls) /\ k \in 1 .. N
    BY <1>6 DEF d
<1>8. \A x \in Starts(ls) : AtMostOne(TagsOf(ls, x))
    BY ParsesMeans
<1>9. g[s] = s /\ s \in Starts(ms)
    <2>1. s \in imagesKeyLine(ls) .. s
        BY <1>1, <1>7, BlockLines
    <2>2. g[s] = s
        BY <2>1 DEF TagEdit, d
    <2> QED
        BY <1>4, <1>7, <2>2, EmbedItems
<1>10. PICK e \in TagsOf(ms, s) : TagsOf(ms, s) = {e} /\ ms[e] = TagLine(t)
    BY DEF TagEdit, d
<1>11. \A x \in Starts(ls) : AtMostOne(TagsOf(ms, g[x]))
    <2> SUFFICES ASSUME NEW x \in Starts(ls) PROVE AtMostOne(TagsOf(ms, g[x]))
        OBVIOUS
    <2>1. CASE x = s
        BY <1>9, <1>10, <2>1 DEF AtMostOne
    <2>2. CASE x # s
        <3>1. Untouched(g, ls, ms, x)
            BY <2>2 DEF TagEdit, d
        <3> QED
            BY <1>4, <1>8, <3>1, NodeKept
    <2> QED
        BY <2>1, <2>2
<1>12. Parses(ms)
    <2>1. imagesKeyLine(ms) > 0 /\ imagesKeyLine(ms) \in Nat
        BY <1>4, KeyFacts DEF Embeds
    <2>2. \A x \in Starts(ms) : AtMostOne(TagsOf(ms, x))
        BY <1>4, <1>11, EmbedItems
    <2>3. ASSUME NEW m \in InBlock(ms) PROVE ms[m].k # "broken"
        <3>1. m \in imagesKeyLine(ms) + 1 .. Len(ms) /\ m \in imagesKeyLine(ms) .. Len(ms)
            BY <1>4, <2>1, BlockLines
        <3>2. CASE ms[m].k = "tag"
            BY <3>2
        <3>3. CASE \E n \in imagesKeyLine(ls) .. Len(ls) : g[n] = m
            <4>1. PICK n \in imagesKeyLine(ls) .. Len(ls) : g[n] = m
                BY <3>3
            <4>2. n # imagesKeyLine(ls)
                BY <2>1, <3>1, <4>1, <1>4 DEF Embeds
            <4>3. n \in imagesKeyLine(ls) + 1 .. Len(ls)
                BY <1>1, <4>1, <4>2
            <4>4. n \in InBlock(ls)
                BY <1>4, <4>1, <4>3, EmbedBlock
            <4>5. ms[m].k = ls[n].k
                BY <1>4, <4>1 DEF Embeds
            <4> QED
                BY <4>4, <4>5, ParsesMeans
        <3> QED
            BY <1>4, <3>1, <3>2, <3>3 DEF Embeds
    <2> QED
        BY <1>4, <2>1, <2>2, <2>3, ParsesMeans
<1>13. imageNodes(ls) = [l \in 1 .. N |-> Node(ls, d[l])]
    BY <1>6 DEF imageNodes, d
<1>14. imageNodes(ms) = [l \in 1 .. N |-> Node(ms, g[d[l]])]
    BY <1>5, <1>6 DEF imageNodes
<1>15. ASSUME NEW l \in 1 .. N, l # k
       PROVE  /\ Node(ms, g[d[l]]).image = Node(ls, d[l]).image
              /\ Node(ms, g[d[l]]).tag = Node(ls, d[l]).tag
              /\ l < k => Node(ms, g[d[l]]) = Node(ls, d[l])
    <2>1. d[l] \in Starts(ls) /\ d[l] # s /\ (l < k => d[l] < s)
        <3>1. d[l] \in Nat /\ s \in Nat
            BY <1>2, <1>6, <1>7
        <3>2. (l < k => d[l] < s) /\ (k < l => s < d[l])
            BY <1>3, <1>7 DEF Enumerates
        <3> QED
            BY <1>6, <1>7, <1>15, <3>1, <3>2
    <2>2. Untouched(g, ls, ms, d[l])
        BY <2>1 DEF TagEdit, d
    <2>3. ASSUME l < k, NEW n \in Own(ls, d[l]) PROVE g[n] = n
        <3>1. n < s /\ d[l] <= n
            BY <1>7, <2>1, <2>3, OwnAbove
        <3>2. n \in imagesKeyLine(ls) + 1 .. Len(ls)
            BY <2>1, BlockLines
        <3>3. n \in imagesKeyLine(ls) .. s
            BY <1>1, <1>2, <1>7, <3>1, <3>2
        <3> QED
            BY <3>3 DEF TagEdit, d
    <2> QED
        BY <1>4, <1>8, <2>1, <2>2, <2>3, NodeKept
<1>16. Node(ms, g[s]).image = Node(ls, s).image /\ Node(ms, g[s]).tag = t
    <2>1. Node(ms, s).tag = ms[e].tag /\ Node(ms, s).image = ms[s].image
        BY <1>4, <1>7, <1>9, <1>10, <1>11, NodeFacts
    <2>2. Node(ls, s).image = ls[s].image
        BY <1>7, <1>8, NodeFacts
    <2>3. ms[s] = ls[s]
        BY DEF TagEdit, d
    <2> QED
        BY <1>9, <1>10, <2>1, <2>2, <2>3 DEF TagLine
<1>17. Images(ls) = [l \in 1 .. N |-> [image |-> Node(ls, d[l]).image, tag |-> Node(ls, d[l]).tag]]
    BY <1>13 DEF Images
<1>18. Images(ms) = [l \in 1 .. N |->
                        [image |-> Node(ms, g[d[l]]).image, tag |-> Node(ms, g[d[l]]).tag]]
    BY <1>14 DEF Images
<1>19. Images(ms) = [Images(ls) EXCEPT ![k].tag = t]
    <2> DEFINE I == Images(ls)
               J == Images(ms)
    <2>1. /\ I = [l \in 1 .. N |-> I[l]] /\ J = [l \in 1 .. N |-> J[l]]
          /\ DOMAIN I = 1 .. N /\ DOMAIN J = 1 .. N
        BY <1>17, <1>18
    <2>2. I[k] = [image |-> Node(ls, s).image, tag |-> Node(ls, s).tag]
        BY <1>7, <1>17
    <2>3. J[k] = [image |-> Node(ls, s).image, tag |-> t]
        BY <1>7, <1>16, <1>18
    <2>4. ASSUME NEW l \in 1 .. N, l # k PROVE J[l] = I[l]
        BY <1>15, <1>17, <1>18, <2>4
    <2> HIDE DEF I, J, s
    <2>5. J[k] = [I[k] EXCEPT !.tag = t]
        BY <2>2, <2>3
    <2>6. J = [I EXCEPT ![k] = [I[k] EXCEPT !.tag = t]]
        BY <1>7, <2>1, <2>4, <2>5
    <2> QED
        BY <2>6 DEF I, J
<1> QED
    BY <1>12, <1>13, <1>14, <1>15, <1>19

(* The lines of ls with e as line p.                                       *)
Inserted(ms, ls, p, e) ==
    /\ ms \in Seq(Line) /\ Len(ms) = Len(ls) + 1
    /\ \A n \in 1 .. p - 1 : ms[n] = ls[n]
    /\ ms[p] = e
    /\ \A n \in p .. Len(ls) : ms[n + 1] = ls[n]

(* What InsertAt and ReplaceAt make of the lines.                          *)
LEMMA InsertFacts ==
    ASSUME NEW ls \in Seq(Line), NEW p \in 1 .. Len(ls) + 1, NEW e \in Line
    PROVE  Inserted(InsertAt(ls, p, e), ls, p, e)
<1> DEFINE a == SubSeq(ls, 1, p - 1)
           b == SubSeq(ls, p, Len(ls))
           ae == a \o <<e>>
           ms == ae \o b
<1>0. Len(ls) \in Nat /\ p \in Nat
    OBVIOUS
<1>1. a \in Seq(Line) /\ Len(a) = p - 1 /\ \A n \in 1 .. p - 1 : a[n] = ls[n]
    BY SubSeqProperties
<1>2. b \in Seq(Line) /\ Len(b) = Len(ls) - p + 1 /\ \A n \in 1 .. Len(b) : b[n] = ls[p + n - 1]
    <2>1. \A n \in p .. Len(ls) : ls[n] \in Line
        OBVIOUS
    <2> QED
        BY <2>1, SubSeqProperties
<1> HIDE DEF a, b
<1>3. /\ ae \in Seq(Line) /\ Len(ae) = p /\ ae[p] = e
      /\ \A n \in 1 .. p - 1 : ae[n] = ls[n]
    BY <1>0, <1>1
<1> HIDE DEF ae
<1>4. ms \in Seq(Line) /\ Len(ms) = Len(ls) + 1
    BY <1>0, <1>2, <1>3
<1>5. \A n \in 1 .. p : ms[n] = ae[n]
    BY <1>0, <1>2, <1>3
<1>6. ASSUME NEW n \in p .. Len(ls) PROVE ms[n + 1] = ls[n]
    <2>1. n + 1 \in Len(ae) + 1 .. Len(ae) + Len(b) /\ (n + 1) - Len(ae) \in 1 .. Len(b)
        BY <1>0, <1>2, <1>3
    <2>2. ms[n + 1] = b[(n + 1) - Len(ae)]
        BY <1>2, <1>3, <2>1
    <2> QED
        BY <1>0, <1>2, <1>3, <2>1, <2>2
<1>7. InsertAt(ls, p, e) = ms
    BY DEF InsertAt, ae, a, b
<1> HIDE DEF ms
<1>8. \A n \in 1 .. p - 1 : ms[n] = ls[n]
    BY <1>0, <1>3, <1>5
<1>9. ms[p] = e
    BY <1>0, <1>3, <1>5
<1> QED
    BY <1>4, <1>6, <1>7, <1>8, <1>9 DEF Inserted

(* ReplaceAt changes one line.                                             *)
LEMMA ReplaceFacts ==
    ASSUME NEW ls \in Seq(Line), NEW p \in 1 .. Len(ls), NEW e \in Line
    PROVE  LET ms == ReplaceAt(ls, p, e)
           IN  /\ ms \in Seq(Line) /\ Len(ms) = Len(ls) /\ ms[p] = e
               /\ \A n \in 1 .. Len(ls) : n # p => ms[n] = ls[n]
BY DEF ReplaceAt

(* A line belongs to one item.                                             *)
LEMMA OwnDisjoint ==
    ASSUME NEW ls \in Seq(Line), NEW s \in Starts(ls), NEW x \in Starts(ls), x # s
    PROVE  \A n \in Own(ls, x) : n \notin Own(ls, s)
<1> SUFFICES ASSUME NEW n \in Own(ls, x), n \in Own(ls, s) PROVE FALSE
    OBVIOUS
<1>1. imagesKeyLine(ls) \in Nat
    BY KeyFacts
<1>2. s \in Nat /\ x \in Nat /\ n \in Nat
    BY <1>1, BlockLines
<1>3. s \in Own(ls, s) /\ x \in Own(ls, x)
    BY BlockLines
<1>4. CASE x < s
    BY <1>2, <1>4 DEF Own
<1>5. CASE s < x
    BY <1>2, <1>5 DEF Own
<1> QED
    BY <1>2, <1>4, <1>5

(* replaceScalar on a newTag line.                                         *)
LEMMA ReplaceEdits ==
    ASSUME NEW ls \in Seq(Line), NoFlow(ls), imagesKeyLine(ls) > 0, NEW s \in Starts(ls),
           NEW t \in Tag, NEW p \in TagsOf(ls, s), TagsOf(ls, s) = {p}
    PROVE  \E g : TagEdit(g, ls, ReplaceAt(ls, p, TagLine(t)), s, t)
<1> DEFINE ms == ReplaceAt(ls, p, TagLine(t))
           K == imagesKeyLine(ls)
           g == [n \in K .. Len(ls) |-> n]
<1>1. K \in Nat /\ Len(ls) \in Nat /\ ls[K].k = "images" /\ K \in 1 .. Len(ls)
      /\ \A n \in 1 .. K - 1 : ls[n].k # "images"
    BY KeyFacts
<1>2. p \in K + 1 .. Len(ls) /\ ls[p].k = "tag" /\ p \in Own(ls, s)
    BY BlockLines DEF TagsOf
<1>3. TagLine(t) \in Line /\ TagLine(t).k = "tag"
    BY DEF TagLine, Line
<1>4. p \in 1 .. Len(ls)
    BY <1>1, <1>2
<1>5. /\ ms \in Seq(Line) /\ Len(ms) = Len(ls) /\ ms[p] = TagLine(t)
      /\ \A n \in 1 .. Len(ls) : n # p => ms[n] = ls[n]
    BY <1>3, <1>4, ReplaceFacts
<1> HIDE DEF ms
<1>6. \A n \in 1 .. Len(ls) : ms[n].k = ls[n].k
    BY <1>2, <1>3, <1>5
<1>7. imagesKeyLine(ms) = K
    <2>1. K \in 1 .. Len(ms) /\ ms[K].k = "images" /\ \A n \in 1 .. K - 1 : ms[n].k # "images"
        BY <1>1, <1>5, <1>6
    <2> QED
        BY <1>5, <2>1, KeyIs
<1>8. NoFlow(ms)
    BY <1>5, <1>6 DEF NoFlow
<1>9. g \in [K .. Len(ls) -> K .. Len(ls)] /\ \A n \in K .. Len(ls) : g[n] = n /\ n \in 1 .. Len(ls)
    BY <1>1
<1> HIDE DEF g
<1>10. Embeds(g, ls, ms)
    BY <1>1, <1>5, <1>6, <1>7, <1>9 DEF Embeds
<1>11. s \in K + 1 .. Len(ls) /\ s \in K .. Len(ls) /\ s # p /\ ls[s].k = "name"
    <2>1. s \in K + 1 .. Len(ls) /\ ls[s].k \in {"name", "flow"}
        BY BlockLines DEF Starts
    <2> QED
        BY <1>1, <1>2, <2>1 DEF NoFlow
<1>12. ASSUME NEW x \in Starts(ls), NEW m \in Own(ms, g[x])
       PROVE  m \in Own(ls, x) /\ g[m] = m
    <2>1. g[x] \in Starts(ms)
        BY <1>5, <1>10, EmbedItems
    <2>2. m \in K + 1 .. Len(ls)
        BY <1>5, <1>7, <2>1, BlockLines
    <2>3. g[m] = m
        BY <1>1, <1>9, <2>2
    <2> QED
        BY <1>5, <1>10, <2>2, <2>3, EmbedItems
<1>13. ASSUME NEW x \in Starts(ls) \ {s} PROVE Untouched(g, ls, ms, x)
    <2>1. ASSUME NEW n \in Own(ls, x) PROVE ms[g[n]] = ls[n]
        <3>1. n \in K + 1 .. Len(ls) /\ n # p
            BY <1>2, OwnDisjoint, BlockLines
        <3>2. n \in K .. Len(ls)
            BY <1>1, <3>1
        <3> QED
            BY <1>5, <1>9, <3>1, <3>2
    <2> QED
        BY <1>12, <2>1 DEF Untouched
<1>14. TagsOf(ms, s) = {p}
    <2>0. g[p] = p /\ g[s] = s
        BY <1>1, <1>2, <1>9, <1>11
    <2>1. g[p] = p /\ g[s] = s /\ p \in Own(ms, s)
        BY <1>2, <1>5, <1>10, <2>0, EmbedItems
    <2>2. p \in TagsOf(ms, s)
        BY <1>3, <1>5, <2>1 DEF TagsOf
    <2>3. ASSUME NEW m \in TagsOf(ms, s) PROVE m = p
        <3>1. m \in Own(ls, s) /\ ms[m].k = "tag"
            BY <1>12, <2>1 DEF TagsOf
        <3>2. m \in 1 .. Len(ls)
            BY <1>1, <3>1, BlockLines
        <3> QED
            BY <1>6, <3>1, <3>2 DEF TagsOf
    <2> QED
        BY <2>2, <2>3
<1>15. \A n \in imagesKeyLine(ls) .. s : g[n] = n
    BY <1>1, <1>9, <1>11
<1>16. \A n \in 1 .. K : ms[n] = ls[n]
    BY <1>1, <1>2, <1>5
<1>17. \A n \in K .. Len(ls) : ls[n].k # "tag" => ms[g[n]] = ls[n]
    BY <1>2, <1>5, <1>9
<1>18. ms[s] = ls[s]
    BY <1>5, <1>9, <1>11
<1> HIDE DEF K
<1>19. TagEdit(g, ls, ms, s, t)
    BY <1>5, <1>7, <1>8, <1>10, <1>13, <1>14, <1>15, <1>16, <1>17, <1>18 DEF TagEdit, K
<1> QED
    BY <1>19 DEF ms

(* appendMappingEntry below the last line of an item without newTag.       *)
LEMMA InsertEdits ==
    ASSUME NEW ls \in Seq(Line), NoFlow(ls), imagesKeyLine(ls) > 0, NEW s \in Starts(ls),
           NEW t \in Tag, TagsOf(ls, s) = {},
           NEW q \in Own(ls, s), \A n \in Own(ls, s) : n <= q
    PROVE  \E g : TagEdit(g, ls, InsertAt(ls, q + 1, TagLine(t)), s, t)
<1> DEFINE ms == InsertAt(ls, q + 1, TagLine(t))
           K == imagesKeyLine(ls)
           g == [n \in K .. Len(ls) |-> IF n <= q THEN n ELSE n + 1]
<1>1. K \in Nat /\ Len(ls) \in Nat /\ ls[K].k = "images" /\ K \in 1 .. Len(ls)
      /\ \A n \in 1 .. K - 1 : ls[n].k # "images"
    BY KeyFacts
<1>2. /\ q \in InBlock(ls) /\ q \in K + 1 .. Len(ls) /\ s \in K + 1 .. Len(ls) /\ s \in Own(ls, s)
      /\ ls[s].k = "name"
    <2>1. s \in K + 1 .. Len(ls) /\ ls[s].k \in {"name", "flow"}
        BY BlockLines DEF Starts
    <2>2. ls[s].k # "flow"
        BY <1>1, <2>1 DEF NoFlow
    <2> QED
        BY <2>1, <2>2, BlockLines
<1>3. q \in Nat /\ s \in Nat /\ s <= q /\ K < s /\ K < q /\ q <= Len(ls) /\ s <= Len(ls)
    BY <1>1, <1>2
<1>4. TagLine(t) \in Line /\ TagLine(t).k = "tag"
    BY DEF TagLine, Line
<1>5. /\ ms \in Seq(Line) /\ Len(ms) = Len(ls) + 1
      /\ \A n \in 1 .. q : ms[n] = ls[n]
      /\ ms[q + 1] = TagLine(t)
      /\ \A n \in q + 1 .. Len(ls) : ms[n + 1] = ls[n]
    <2> DEFINE p == q + 1
    <2>1. p \in 1 .. Len(ls) + 1 /\ p - 1 = q
        BY <1>1, <1>3
    <2> HIDE DEF p
    <2>2. Inserted(InsertAt(ls, p, TagLine(t)), ls, p, TagLine(t))
        BY ONLY ls \in Seq(Line), <1>4, <2>1, InsertFacts
    <2>3. Inserted(ms, ls, p, TagLine(t))
        BY <2>2 DEF p
    <2> HIDE DEF ms
    <2> QED
        BY <2>1, <2>3 DEF p, Inserted
<1> HIDE DEF ms
<1>6. imagesKeyLine(ms) = K
    <2>0. \A n \in 1 .. K : n \in 1 .. q /\ ms[n] = ls[n]
        BY <1>1, <1>3, <1>5
    <2>a. K \in Nat /\ 1 <= K /\ K <= q /\ q \in Nat /\ Len(ms) \in Nat /\ q <= Len(ms)
        BY <1>1, <1>3, <1>5
    <2>b. K \in 1 .. Len(ms) /\ K \in 1 .. K /\ \A n \in 1 .. K - 1 : n \in 1 .. K
        BY ONLY <2>a
    <2>c. ls[K].k = "images" /\ \A n \in 1 .. K - 1 : ls[n].k # "images"
        BY <1>1
    <2>1. K \in 1 .. Len(ms) /\ ms[K].k = "images" /\ \A n \in 1 .. K - 1 : ms[n].k # "images"
        BY ONLY <2>0, <2>b, <2>c
    <2> QED
        BY <1>5, <2>1, KeyIs
<1>7. ASSUME NEW n \in 1 .. Len(ms)
      PROVE  \/ n <= q /\ n \in 1 .. Len(ls) /\ ms[n] = ls[n]
             \/ n = q + 1
             \/ q + 1 < n /\ n - 1 \in q + 1 .. Len(ls) /\ ms[n] = ls[n - 1]
    <2>1. CASE n <= q
        BY <1>1, <1>3, <1>5, <2>1
    <2>2. CASE q + 1 < n
        <3>1. n - 1 \in q + 1 .. Len(ls) /\ (n - 1) + 1 = n
            BY <1>1, <1>3, <1>5, <2>2
        <3> QED
            BY <1>5, <2>2, <3>1
    <2> QED
        BY <1>1, <1>3, <1>5, <2>1, <2>2
<1>8. NoFlow(ms)
    <2> SUFFICES ASSUME NEW n \in 1 .. Len(ms) PROVE ms[n].k # "flow"
        BY DEF NoFlow
    <2>1. \A m \in q + 1 .. Len(ls) : m \in 1 .. Len(ls)
        BY <1>1, <1>3
    <2> QED
        BY <1>4, <1>5, <1>7, <2>1 DEF NoFlow
<1>9. ASSUME NEW n \in K .. Len(ls)
      PROVE  /\ g[n] = (IF n <= q THEN n ELSE n + 1) /\ g[n] \in K .. Len(ms)
             /\ ms[g[n]] = ls[n] /\ n \in Nat /\ n \in 1 .. Len(ls)
    <2>1. n \in Nat /\ n \in 1 .. Len(ls) /\ (n <= q => n \in 1 .. q) /\ (~(n <= q) => n \in q + 1 .. Len(ls))
        BY <1>1, <1>3
    <2>2. g[n] = IF n <= q THEN n ELSE n + 1
        OBVIOUS
    <2>3. g[n] \in K .. Len(ms)
        BY <1>1, <1>5, <2>1, <2>2
    <2> QED
        BY <1>5, <2>1, <2>2, <2>3
<1>10. g \in [K .. Len(ls) -> K .. Len(ms)]
    BY <1>9
<1> HIDE DEF g
<1>11. ASSUME NEW m \in K .. Len(ms), m # q + 1 PROVE \E n \in K .. Len(ls) : g[n] = m
    <2>1. CASE m <= q
        <3>1. m \in K .. Len(ls)
            BY <1>1, <1>3, <2>1
        <3> QED
            BY <1>9, <2>1, <3>1
    <2>2. CASE q + 1 < m
        <3>1. m - 1 \in K .. Len(ls) /\ ~(m - 1 <= q) /\ (m - 1) + 1 = m
            BY <1>1, <1>3, <1>5, <2>2
        <3> QED
            BY <1>9, <3>1
    <2> QED
        BY <1>1, <1>3, <1>5, <1>11, <2>1, <2>2
<1>12. Embeds(g, ls, ms)
    <2>1. g[K] = K /\ K > 0
        BY <1>1, <1>3, <1>9
    <2>2. \A n, m \in K .. Len(ls) : n < m => g[n] < g[m]
        BY <1>3, <1>9
    <2>3. \A n \in K .. Len(ls) : ms[g[n]].k = ls[n].k
        BY <1>9
    <2>4. \A m \in K .. Len(ms) : (\E n \in K .. Len(ls) : g[n] = m) \/ ms[m].k = "tag"
        BY <1>4, <1>5, <1>11
    <2> QED
        BY <1>6, <1>10, <2>1, <2>2, <2>3, <2>4 DEF Embeds
<1>13. ASSUME NEW n \in K .. Len(ls), n <= q PROVE g[n] = n
    BY <1>9, <1>13
<1>14. g[s] = s /\ s \in Starts(ms)
    <2>1. g[s] = s
        BY <1>1, <1>3, <1>9
    <2> QED
        BY <1>5, <1>12, <2>1, EmbedItems
<1>15. ASSUME NEW x \in Starts(ls) PROVE x \in K .. Len(ls) /\ x \in Nat /\ (x <= s \/ q < x)
    <2>1. x \in K + 1 .. Len(ls)
        BY BlockLines
    <2> QED
        BY <1>1, <2>1 DEF Own
<1>16. ASSUME NEW x \in Starts(ls) \ {s} PROVE q + 1 \notin Own(ms, g[x])
    <2>1. x \in K .. Len(ls) /\ x \in Nat /\ (x <= s \/ q < x) /\ x # s
        BY <1>15
    <2>2. CASE x < s
        <3>1. g[x] = x
            BY <1>3, <1>13, <2>1, <2>2
        <3>2. ~(s <= g[x] \/ q + 1 < s)
            BY <1>3, <2>1, <2>2, <3>1
        <3> QED
            BY <1>14, <3>2 DEF Own
    <2>3. CASE q < x
        <3>1. g[x] = x + 1
            BY <1>3, <1>9, <2>1, <2>3
        <3>2. ~(q + 1 >= g[x])
            BY <1>3, <2>1, <2>3, <3>1
        <3> QED
            BY <3>2 DEF Own
    <2> QED
        BY <1>3, <2>1, <2>2, <2>3
<1>17. ASSUME NEW x \in Starts(ls), NEW m \in Own(ms, g[x]), m # q + 1
       PROVE  \E n \in Own(ls, x) : g[n] = m
    <2>1. g[x] \in Starts(ms)
        BY <1>5, <1>12, EmbedItems
    <2>2. m \in K + 1 .. Len(ms)
        BY <1>5, <1>6, <2>1, BlockLines
    <2>3. m \in K .. Len(ms) /\ m # K
        BY <1>1, <1>5, <2>2
    <2>4. PICK n \in K .. Len(ls) : g[n] = m
        BY <1>11, <1>17, <2>3
    <2>5. n # K
        BY <1>3, <1>13, <2>3, <2>4
    <2>6. n \in K + 1 .. Len(ls)
        BY <1>1, <2>4, <2>5
    <2> QED
        BY <1>5, <1>12, <2>4, <2>6, EmbedItems
<1>18. ASSUME NEW x \in Starts(ls) \ {s} PROVE Untouched(g, ls, ms, x)
    <2>1. \A n \in Own(ls, x) : n \in K .. Len(ls)
        BY <1>1, BlockLines
    <2> QED
        BY <1>9, <1>16, <1>17, <2>1 DEF Untouched
<1>19. q + 1 \in TagsOf(ms, s)
    <2>1. q + 1 \in InBlock(ms)
        <3>1. q + 1 \in K + 1 .. Len(ms)
            BY <1>1, <1>3, <1>5
        <3>2. ASSUME NEW l \in K + 1 .. q + 1 PROVE ms[l].k \notin {"other", "images"}
            <4>1. CASE l = q + 1
                BY <1>4, <1>5, <4>1
            <4>2. CASE l # q + 1
                <5>1. l \in K + 1 .. q /\ l \in 1 .. q
                    BY <1>1, <1>3, <4>2, SMTT(30)
                <5> QED
                    BY <1>2, <1>5, <5>1 DEF InBlock
            <4> QED
                BY <4>1, <4>2
        <3> QED
            BY <1>6, <3>1, <3>2 DEF InBlock
    <2>2. ASSUME NEW x \in Starts(ms) PROVE x <= s \/ q + 1 < x
        <3>1. PICK y \in Starts(ls) : g[y] = x
            BY <1>5, <1>12, EmbedItems
        <3>2. y \in K .. Len(ls) /\ y \in Nat /\ (y <= s \/ q < y)
            BY <1>15
        <3>3. CASE y <= s
            BY <1>3, <1>13, <3>1, <3>2, <3>3
        <3>4. CASE q < y
            <4>1. g[y] = y + 1
                BY <1>3, <1>9, <3>2, <3>4
            <4> QED
                BY <1>3, <3>1, <3>2, <3>4, <4>1
        <3> QED
            BY <3>2, <3>3, <3>4
    <2>3. q + 1 >= s
        BY <1>3
    <2>4. ms[q + 1].k = "tag"
        BY <1>4, <1>5
    <2> QED
        BY <2>1, <2>2, <2>3, <2>4 DEF TagsOf, Own
<1>20. TagsOf(ms, s) = {q + 1}
    <2> SUFFICES ASSUME NEW m \in TagsOf(ms, s), m # q + 1 PROVE FALSE
        BY <1>19
    <2>1. PICK n \in Own(ls, s) : g[n] = m
        BY <1>14, <1>17 DEF TagsOf
    <2>2. n \in K .. Len(ls)
        BY <1>1, BlockLines
    <2>3. ls[n].k = "tag"
        BY <1>9, <2>1, <2>2 DEF TagsOf
    <2> QED
        BY <2>1, <2>3 DEF TagsOf
<1>21. \A n \in imagesKeyLine(ls) .. s : g[n] = n
    BY <1>1, <1>3, <1>13
<1>22. \A n \in 1 .. K : ms[n] = ls[n]
    BY <1>1, <1>3, <1>5
<1>23. \A n \in K .. Len(ls) : ls[n].k # "tag" => ms[g[n]] = ls[n]
    BY <1>9
<1>24. ms[s] = ls[s]
    BY <1>1, <1>3, <1>5
<1> HIDE DEF K
<1>25. TagEdit(g, ls, ms, s, t)
    BY <1>5, <1>6, <1>8, <1>12, <1>18, <1>20, <1>21, <1>22, <1>23, <1>24 DEF TagEdit, K
<1> QED
    BY <1>25 DEF ms

(* setNewTag sets the newTag of one item, whether it has one or not.       *)
LEMMA EditedEdits ==
    ASSUME lines \in Seq(Line), NoFlow(lines), Parses(lines), NEW s \in Starts(lines), NEW t \in Tag
    PROVE  \E g : TagEdit(g, lines, Edited(Node(lines, s), t), s, t)
<1> DEFINE node == Node(lines, s)
<1>1. imagesKeyLine(lines) > 0 /\ AtMostOne(TagsOf(lines, s))
    BY ParsesMeans
<1>2. /\ TagsOf(lines, s) = {} => node.tagLine = 0 /\ node.tag = NoTag
      /\ \A p \in TagsOf(lines, s) : TagsOf(lines, s) = {p} /\ node.tagLine = p
      /\ node.last \in Own(lines, s) /\ \A m \in Own(lines, s) : m <= node.last
    BY <1>1, NodeFacts
<1> HIDE DEF node
<1>3. CASE TagsOf(lines, s) = {}
    <2>1. Edited(node, t) = InsertAt(lines, node.last + 1, TagLine(t))
        BY <1>2, <1>3 DEF Edited
    <2> QED
        BY <1>1, <1>2, <1>3, <2>1, InsertEdits DEF node
<1>4. CASE TagsOf(lines, s) # {}
    <2>1. PICK p \in TagsOf(lines, s) : TRUE
        BY <1>4
    <2>2. TagsOf(lines, s) = {p} /\ node.tagLine = p
        BY <1>2, <2>1
    <2>3. imagesKeyLine(lines) \in Nat
        BY KeyFacts
    <2>4. p # 0 /\ lines[p].k = "tag"
        BY <2>1, <2>3, BlockLines DEF TagsOf
    <2>5. Edited(node, t) = ReplaceAt(lines, p, TagLine(t))
        BY <2>2, <2>4 DEF Edited
    <2> QED
        BY <1>1, <2>1, <2>2, <2>5, ReplaceEdits DEF node
<1> QED
    BY <1>3, <1>4

-----------------------------------------------------------------------------
(* The managed block *)

(* The comments directly above the images key.                             *)
LEMMA RegionFacts ==
    ASSUME NEW ls \in Seq(Line), imagesKeyLine(ls) > 0
    PROVE  /\ RegionStart(ls) \in 1 .. imagesKeyLine(ls)
           /\ \A l \in RegionStart(ls) .. imagesKeyLine(ls) - 1 : IsComment(ls[l])
           /\ RegionStart(ls) = 1 \/ ~IsComment(ls[RegionStart(ls) - 1])
<1> DEFINE K == imagesKeyLine(ls)
           R == {K} \cup {n \in 1 .. K - 1 : \A l \in n .. K - 1 : IsComment(ls[l])}
           r == RegionStart(ls)
<1>1. K \in Nat /\ K > 0
    BY KeyFacts
<1>2. r = Min(R)
    BY DEF RegionStart
<1>3. R \subseteq Nat /\ R # {}
    BY <1>1
<1> HIDE DEF r, R
<1>4. r \in R /\ \A n \in R : r <= n
    BY <1>2, <1>3, MinFacts
<1>5. r \in 1 .. K /\ \A l \in r .. K - 1 : IsComment(ls[l])
    BY <1>1, <1>4 DEF R
<1>6. ASSUME r # 1, IsComment(ls[r - 1]) PROVE FALSE
    <2>1. r - 1 \in 1 .. K - 1 /\ r \in Nat
        BY <1>1, <1>5, <1>6
    <2>2. \A l \in r - 1 .. K - 1 : l = r - 1 \/ l \in r .. K - 1
        BY <1>1, <2>1
    <2>3. r - 1 \in R
        BY <1>5, <1>6, <2>1, <2>2 DEF R
    <2>4. r <= r - 1
        BY <1>4, <2>3
    <2> QED
        BY <2>1, <2>4
<1> QED
    BY <1>5, <1>6 DEF r

(* Comments up to the images key, and none above: that is the region.      *)
LEMMA RegionIs ==
    ASSUME NEW ls \in Seq(Line), imagesKeyLine(ls) > 0, NEW r \in 1 .. imagesKeyLine(ls),
           \A l \in r .. imagesKeyLine(ls) - 1 : IsComment(ls[l]),
           r = 1 \/ ~IsComment(ls[r - 1])
    PROVE  RegionStart(ls) = r
<1> DEFINE K == imagesKeyLine(ls)
           R == {K} \cup {n \in 1 .. K - 1 : \A l \in n .. K - 1 : IsComment(ls[l])}
<1>1. K \in Nat /\ r \in Nat
    BY KeyFacts
<1>2. R \subseteq Nat /\ r \in R
    BY <1>1
<1>3. ASSUME NEW n \in R PROVE r <= n
    <2> SUFFICES ASSUME n < r PROVE FALSE
        BY <1>1, <1>2
    <2>1. n \in 1 .. K - 1 /\ \A l \in n .. K - 1 : IsComment(ls[l])
        BY <1>1
    <2>2. r - 1 \in n .. K - 1 /\ r # 1
        BY <1>1, <2>1
    <2> QED
        BY <2>1, <2>2
<1> HIDE DEF R
<1>4. Min(R) = r
    BY <1>2, <1>3, MinIs
<1> QED
    BY <1>4 DEF RegionStart, R

(* b and e are the markers of the block findManifestBlock finds.           *)
BlockAt(ls, b, e) ==
    LET r == RegionStart(ls)
    IN  /\ e \in r .. imagesKeyLine(ls) - 1 /\ b \in r .. e
        /\ ls[b].k = "begin" /\ ls[e].k = "end"
        /\ \A n \in b + 1 .. e : ls[n].k # "begin"
        /\ \A n \in r .. e - 1 : ls[n].k = "end" => \A x \in r .. n : ls[x].k # "begin"

(* A block that is found is at such a pair of lines.                       *)
LEMMA BlockFacts ==
    ASSUME NEW ls \in Seq(Line), imagesKeyLine(ls) > 0, HasBlock(ls)
    PROVE  BlockAt(ls, BlockStart(ls), BlockEnd(ls))
<1> DEFINE K == imagesKeyLine(ls)
           r == RegionStart(ls)
           e == BlockEnd(ls)
           B == {b \in r .. e : ls[b].k = "begin"}
<1>1. K \in Nat /\ r \in 1 .. K /\ r \in Nat
    BY KeyFacts, RegionFacts
<1>2. BlockEnds(ls) \subseteq Nat /\ BlockEnds(ls) # {}
    BY <1>1 DEF BlockEnds, HasBlock
<1>3. e \in BlockEnds(ls) /\ \A y \in BlockEnds(ls) : e <= y
    BY <1>2, MinFacts DEF BlockEnd
<1>4. e \in r .. K - 1 /\ ls[e].k = "end" /\ e \in Nat /\ B # {}
    BY <1>1, <1>3 DEF BlockEnds
<1>5. \A n \in r .. e - 1 : ls[n].k = "end" => \A x \in r .. n : ls[x].k # "begin"
    <2> SUFFICES ASSUME NEW n \in r .. e - 1, ls[n].k = "end", NEW x \in r .. n, ls[x].k = "begin"
                 PROVE  FALSE
        OBVIOUS
    <2>1. n \in r .. K - 1 /\ n < e /\ n \in Nat
        BY <1>1, <1>4
    <2>2. n \in BlockEnds(ls)
        BY <2>1 DEF BlockEnds
    <2>3. e <= n
        BY <1>3, <2>2
    <2> QED
        BY <1>4, <2>1, <2>3
<1>6. BlockStart(ls) = Max(B)
    BY DEF BlockStart
<1>7. B \subseteq 0 .. e
    BY <1>1, <1>4
<1> HIDE DEF B, e, r
<1>8. Max(B) \in B /\ \A y \in B : y <= Max(B)
    BY <1>4, <1>7, MaxFacts
<1>9. Max(B) \in r .. e /\ ls[Max(B)].k = "begin" /\ Max(B) \in Nat
    BY <1>1, <1>8 DEF B
<1>10. ASSUME NEW n \in Max(B) + 1 .. e PROVE ls[n].k # "begin"
    <2>1. n \in r .. e /\ n > Max(B) /\ n \in Nat
        BY <1>1, <1>4, <1>9
    <2>2. n \notin B
        BY <1>8, <1>9, <2>1
    <2> QED
        BY <2>1, <2>2 DEF B
<1> QED
    BY <1>4, <1>5, <1>6, <1>9, <1>10 DEF BlockAt, e, r

(* There is no other such pair.                                            *)
LEMMA BlockIs ==
    ASSUME NEW ls \in Seq(Line), imagesKeyLine(ls) > 0, NEW b, NEW e, BlockAt(ls, b, e)
    PROVE  HasBlock(ls) /\ BlockStart(ls) = b /\ BlockEnd(ls) = e
<1> DEFINE K == imagesKeyLine(ls)
           r == RegionStart(ls)
           B == {x \in r .. e : ls[x].k = "begin"}
<1>1. K \in Nat /\ r \in 1 .. K /\ r \in Nat
    BY KeyFacts, RegionFacts
<1>2. /\ e \in r .. K - 1 /\ b \in r .. e /\ ls[b].k = "begin" /\ ls[e].k = "end"
      /\ \A n \in b + 1 .. e : ls[n].k # "begin"
      /\ \A n \in r .. e - 1 : ls[n].k = "end" => \A x \in r .. n : ls[x].k # "begin"
    BY DEF BlockAt
<1>3. b \in Nat /\ e \in Nat
    BY <1>1, <1>2
<1>4. e \in BlockEnds(ls) /\ BlockEnds(ls) \subseteq Nat
    BY <1>1, <1>2 DEF BlockEnds
<1>5. ASSUME NEW n \in BlockEnds(ls) PROVE e <= n
    <2> SUFFICES ASSUME n < e PROVE FALSE
        BY <1>3, <1>4
    <2>1. n \in r .. e - 1
        BY <1>1, <1>3 DEF BlockEnds
    <2> QED
        BY <1>2, <2>1 DEF BlockEnds
<1>6. BlockEnd(ls) = e
    BY <1>4, <1>5, MinIs DEF BlockEnd
<1>7. BlockStart(ls) = Max(B)
    BY <1>6 DEF BlockStart
<1>8. B \subseteq Nat /\ b \in B
    BY <1>1, <1>2
<1>9. ASSUME NEW y \in B PROVE y <= b
    <2> SUFFICES ASSUME b < y PROVE FALSE
        BY <1>3, <1>8
    <2>1. y \in b + 1 .. e
        BY <1>1, <1>3
    <2> QED
        BY <1>2, <2>1
<1> HIDE DEF B
<1>10. Max(B) = b
    BY <1>8, <1>9, MaxIs
<1> QED
    BY <1>4, <1>6, <1>7, <1>10 DEF HasBlock

(* The block depends on nothing below the images key.                      *)
LEMMA HeadDecides ==
    ASSUME NEW ls \in Seq(Line), NEW ms \in Seq(Line), imagesKeyLine(ls) > 0,
           imagesKeyLine(ms) = imagesKeyLine(ls),
           \A n \in 1 .. imagesKeyLine(ls) : ms[n] = ls[n]
    PROVE  /\ HasBlock(ms) <=> HasBlock(ls)
           /\ HasBlock(ls) => BlockStart(ms) = BlockStart(ls) /\ BlockEnd(ms) = BlockEnd(ls)
           /\ Entries(ms) = Entries(ls)
<1> DEFINE K == imagesKeyLine(ls)
           r == RegionStart(ls)
<1>1. K \in Nat /\ r \in 1 .. K /\ r \in Nat
    BY KeyFacts, RegionFacts
<1>2. RegionStart(ms) = r
    <2>1. \A l \in r .. K - 1 : IsComment(ls[l]) /\ l \in 1 .. K
        BY <1>1, RegionFacts
    <2>2. r = 1 \/ (~IsComment(ls[r - 1]) /\ r - 1 \in 1 .. K)
        BY <1>1, RegionFacts
    <2>3. \A l \in r .. K - 1 : IsComment(ms[l])
        BY <2>1
    <2>4. r = 1 \/ ~IsComment(ms[r - 1])
        BY <2>2
    <2> QED
        BY <1>1, <2>3, <2>4, RegionIs
<1>3. ASSUME NEW b, NEW e PROVE BlockAt(ms, b, e) <=> BlockAt(ls, b, e)
    <2>1. \A n \in r .. K - 1 : ms[n] = ls[n]
        BY <1>1
    <2>2. ASSUME e \in r .. K - 1, b \in r .. e
          PROVE  /\ b \in r .. K - 1 /\ b + 1 .. e \subseteq r .. K - 1
                 /\ r .. e - 1 \subseteq r .. K - 1 /\ \A n \in r .. e - 1 : r .. n \subseteq r .. K - 1
        BY <1>1, <2>2
    <2> HIDE DEF K, r
    <2>3. CASE e \in r .. K - 1 /\ b \in r .. e
        BY <1>2, <2>1, <2>2, <2>3 DEF BlockAt, K, r
    <2>4. CASE ~(e \in r .. K - 1 /\ b \in r .. e)
        BY <1>2, <2>4 DEF BlockAt, K, r
    <2> QED
        BY <2>3, <2>4
<1>4. HasBlock(ms) <=> HasBlock(ls)
    BY <1>3, BlockFacts, BlockIs
<1>5. ASSUME HasBlock(ls)
      PROVE  BlockStart(ms) = BlockStart(ls) /\ BlockEnd(ms) = BlockEnd(ls)
    <2>1. BlockAt(ms, BlockStart(ls), BlockEnd(ls))
        BY <1>3, <1>5, BlockFacts
    <2> QED
        BY <2>1, BlockIs
<1>6. Entries(ms) = Entries(ls)
    <2>1. CASE HasBlock(ls)
        <3> DEFINE body == BlockStart(ls) + 1 .. BlockEnd(ls) - 1
                   order == TopDown({n \in body : ls[n].k = "meta"})
        <3>1. \A n \in body : ms[n] = ls[n]
            <4>1. BlockEnd(ls) \in r .. K - 1 /\ BlockStart(ls) \in r .. BlockEnd(ls)
                BY <2>1, BlockFacts DEF BlockAt
            <4> QED
                BY <1>1, <4>1
        <3> HIDE DEF body
        <3>2. {n \in body : ms[n].k = "meta"} = {n \in body : ls[n].k = "meta"}
            BY <3>1
        <3>3. (\E n \in body : ms[n].k = "garbled") <=> (\E n \in body : ls[n].k = "garbled")
            BY <3>1
        <3>4. \A n \in DOMAIN order : order[n] \in body
            <4> DEFINE S == {n \in body : ls[n].k = "meta"}
            <4>1. BlockEnd(ls) \in r .. K - 1 /\ BlockStart(ls) \in r .. BlockEnd(ls)
                BY <2>1, BlockFacts DEF BlockAt
            <4>2. body \subseteq Nat /\ IsFiniteSet(body)
                <5>1. BlockStart(ls) + 1 \in Int /\ BlockEnd(ls) - 1 \in Int /\ body \subseteq Nat
                    BY <1>1, <4>1 DEF body
                <5>2. IsFiniteSet(body)
                    BY ONLY <5>1, FS_Interval DEF body
                <5> QED
                    BY ONLY <5>1, <5>2
            <4>3. S \in SUBSET body
                OBVIOUS
            <4>5. order = TopDown(S)
                OBVIOUS
            <4> HIDE DEF S, order
            <4>4. S \subseteq Nat /\ IsFiniteSet(S)
                BY ONLY <4>2, <4>3, FS_Subset
            <4>6. Enumerates(TopDown(S), Cardinality(S), S)
                BY <4>4, TopDownFacts
            <4>7. order \in [1 .. Cardinality(S) -> S]
                BY <4>5, <4>6 DEF Enumerates
            <4> QED
                BY <4>3, <4>7
        <3>5. [n \in DOMAIN order |-> ms[order[n]]] = [n \in DOMAIN order |-> ls[order[n]]]
            BY <3>1, <3>4
        <3> QED
            BY <1>4, <1>5, <2>1, <3>2, <3>3, <3>5 DEF Entries, body
    <2>2. CASE ~HasBlock(ls)
        <3>1. /\ {n \in {} : ms[n].k = "meta"} = {} /\ {n \in {} : ls[n].k = "meta"} = {}
              /\ ~(\E n \in {} : ms[n].k = "garbled") /\ ~(\E n \in {} : ls[n].k = "garbled")
            OBVIOUS
        <3>2. DOMAIN TopDown({}) = {}
            BY FS_EmptySet DEF TopDown
        <3> QED
            BY <1>4, <2>2, <3>1, <3>2 DEF Entries
    <2> QED
        BY <2>1, <2>2
<1> QED
    BY <1>4, <1>5, <1>6

-----------------------------------------------------------------------------
(* What an edit keeps *)

(* The lines of the block, and the ones Rest lists.                        *)
Blocked(ls) == IF HasBlock(ls) THEN BlockStart(ls) .. BlockEnd(ls) ELSE {}
Surviving(ls) == {n \in DOMAIN ls \ Blocked(ls) : ls[n].k # "tag"}

(* Two files whose lines outside of newTags and the block correspond, in   *)
(* their order, have the same rest.                                        *)
LEMMA RestSame ==
    ASSUME NEW ls \in Seq(Line), NEW ms \in Seq(Line), NoFlow(ls), NEW h,
           h \in [Surviving(ls) -> Surviving(ms)],
           \A m \in Surviving(ms) : \E n \in Surviving(ls) : h[n] = m,
           \A n, l \in Surviving(ls) : n < l => h[n] < h[l],
           \A n \in Surviving(ls) : ms[h[n]] = ls[n]
    PROVE  Rest(ms) = Rest(ls)
<1> DEFINE S == Surviving(ls)
           T == Surviving(ms)
           d == TopDown(S)
           N == Cardinality(S)
           f == [n \in 1 .. N |-> h[d[n]]]
           Line0(l) == IF l.k = "flow" THEN [l EXCEPT !.tag = NoTag] ELSE l
<1>1. S \in SUBSET (1 .. Len(ls)) /\ T \subseteq Nat /\ Len(ls) \in Nat
    BY DEF Surviving
<1>2. IsFiniteSet(S) /\ S \subseteq Nat
    <2>1. IsFiniteSet(1 .. Len(ls))
        BY <1>1, FS_Interval
    <2> HIDE DEF S
    <2>2. IsFiniteSet(S)
        BY <1>1, <2>1, FS_Subset
    <2> QED
        BY <1>1, <2>2
<1> HIDE DEF S, T
<1>3. Enumerates(d, N, S)
    BY <1>2, TopDownFacts
<1>4. Rest(ls) = [n \in DOMAIN TopDown(S) |-> Line0(ls[TopDown(S)[n]])]
    BY DEF Rest, S, Surviving, Blocked
<1>5. Rest(ms) = [n \in DOMAIN TopDown(T) |-> Line0(ms[TopDown(T)[n]])]
    BY DEF Rest, T, Surviving, Blocked
<1> HIDE DEF d, N, Line0
<1>6. N \in Nat /\ d \in [1 .. N -> S] /\ DOMAIN d = 1 .. N
    BY <1>3 DEF Enumerates
<1>7. Enumerates(f, N, T)
    <2>1. f \in [1 .. N -> T]
        BY <1>6 DEF S, T
    <2>2. ASSUME NEW m \in T PROVE \E n \in 1 .. N : f[n] = m
        <3>1. PICK x \in S : h[x] = m
            BY DEF S, T
        <3>2. PICK n \in 1 .. N : d[n] = x
            BY <1>3, <3>1 DEF Enumerates
        <3> QED
            BY <3>1, <3>2
    <2>3. ASSUME NEW n \in 1 .. N, NEW l \in 1 .. N, n < l PROVE f[n] < f[l]
        <3>1. d[n] < d[l] /\ d[n] \in S /\ d[l] \in S
            BY <1>3, <2>3 DEF Enumerates
        <3>2. h[d[n]] < h[d[l]]
            BY <3>1 DEF S
        <3> QED
            BY <3>2
    <2> HIDE DEF f
    <2> QED
        BY <1>6, <2>1, <2>2, <2>3 DEF Enumerates
<1>8. TopDown(T) = f
    BY <1>1, <1>7, TopDownIs
<1>9. Rest(ms) = [n \in 1 .. N |-> Line0(ms[h[d[n]]])]
    <2>1. DOMAIN f = 1 .. N /\ \A n \in 1 .. N : f[n] = h[d[n]]
        OBVIOUS
    <2> HIDE DEF f
    <2> QED
        BY <1>5, <1>8, <2>1
<1>10. \A n \in 1 .. N : ms[h[d[n]]] = ls[d[n]]
    BY <1>6 DEF S
<1> QED
    BY <1>4, <1>6, <1>9, <1>10 DEF d

(* Setting a newTag keeps the rest and the entries of the block.           *)
LEMMA TagEditKeeps ==
    ASSUME NEW ls \in Seq(Line), NoFlow(ls), imagesKeyLine(ls) > 0, NEW ms, NEW g, NEW s, NEW t,
           TagEdit(g, ls, ms, s, t)
    PROVE  Rest(ms) = Rest(ls) /\ Entries(ms) = Entries(ls)
<1> DEFINE K == imagesKeyLine(ls)
           h == [n \in Surviving(ls) |-> IF n < K THEN n ELSE g[n]]
<1>1. /\ ms \in Seq(Line) /\ NoFlow(ms) /\ Embeds(g, ls, ms) /\ imagesKeyLine(ms) = K
      /\ \A n \in 1 .. K : ms[n] = ls[n]
      /\ \A n \in K .. Len(ls) : ls[n].k # "tag" => ms[g[n]] = ls[n]
    BY DEF TagEdit
<1>2. K \in Nat /\ K \in 1 .. Len(ls) /\ Len(ls) \in Nat /\ Len(ms) \in Nat /\ K \in 1 .. Len(ms)
    <2>1. K \in 1 .. Len(ls) /\ K \in 1 .. Len(ms)
        BY <1>1, KeyFacts
    <2> QED
        BY <1>1, <2>1
<1>3. /\ HasBlock(ms) <=> HasBlock(ls)
      /\ HasBlock(ls) => BlockStart(ms) = BlockStart(ls) /\ BlockEnd(ms) = BlockEnd(ls)
      /\ Entries(ms) = Entries(ls)
    BY <1>1, HeadDecides
<1>4. Blocked(ms) = Blocked(ls)
    BY <1>3 DEF Blocked
<1>5. \A n \in Blocked(ls) : n \in Nat /\ n < K
    <2>1. CASE HasBlock(ls)
        <3>1. /\ BlockEnd(ls) \in RegionStart(ls) .. K - 1
              /\ BlockStart(ls) \in RegionStart(ls) .. BlockEnd(ls)
            BY <2>1, BlockFacts DEF BlockAt
        <3>2. RegionStart(ls) \in 1 .. K
            BY RegionFacts
        <3> QED
            BY <1>2, <2>1, <3>1, <3>2 DEF Blocked
    <2>2. CASE ~HasBlock(ls)
        BY <2>2 DEF Blocked
    <2> QED
        BY <2>1, <2>2
<1>6. ASSUME NEW n \in Surviving(ls)
      PROVE  /\ n \in 1 .. Len(ls) /\ n \notin Blocked(ls) /\ ls[n].k # "tag" /\ n \in Nat
             /\ n < K => n \in 1 .. K
             /\ ~(n < K) => n \in K .. Len(ls)
    <2>1. n \in 1 .. Len(ls) /\ n \notin Blocked(ls) /\ ls[n].k # "tag"
        BY DEF Surviving
    <2> QED
        BY <1>2, <2>1
<1>7. \A n \in K .. Len(ls) : g[n] \in K .. Len(ms) /\ g[n] \in Nat
    <2>1. \A n \in K .. Len(ls) : g[n] \in K .. Len(ms)
        BY <1>1 DEF Embeds
    <2> QED
        BY <1>2, <2>1
<1>8. ASSUME NEW n \in Surviving(ls)
      PROVE  /\ h[n] = (IF n < K THEN n ELSE g[n]) /\ ms[h[n]] = ls[n]
             /\ h[n] \in Surviving(ms) /\ h[n] \in Nat
    <2>1. h[n] = IF n < K THEN n ELSE g[n]
        OBVIOUS
    <2>2. ms[h[n]] = ls[n]
        BY <1>1, <1>6, <2>1
    <2>3. h[n] \in 1 .. Len(ms) /\ h[n] \notin Blocked(ls) /\ h[n] \in Nat
        <3>1. CASE n < K
            BY <1>2, <1>6, <2>1, <3>1
        <3>2. CASE ~(n < K)
            <4>1. g[n] \in K .. Len(ms) /\ g[n] \in Nat
                BY <1>6, <1>7, <3>2
            <4> QED
                BY <1>2, <1>5, <2>1, <3>2, <4>1
        <3> QED
            BY <3>1, <3>2
    <2> HIDE DEF h
    <2>4. h[n] \in Surviving(ms)
        BY <1>1, <1>4, <1>6, <2>2, <2>3 DEF Surviving
    <2> QED
        BY <2>1, <2>2, <2>3, <2>4
<1>9. h \in [Surviving(ls) -> Surviving(ms)]
    BY <1>8
<1> HIDE DEF h
<1>10. ASSUME NEW m \in Surviving(ms) PROVE \E n \in Surviving(ls) : h[n] = m
    <2>1. m \in 1 .. Len(ms) /\ m \notin Blocked(ls) /\ ms[m].k # "tag"
        BY <1>1, <1>4 DEF Surviving
    <2>2. CASE m < K
        <3>1. m \in 1 .. K /\ m \in 1 .. Len(ls)
            BY <1>2, <2>1, <2>2
        <3>2. m \in Surviving(ls)
            BY <1>1, <2>1, <3>1 DEF Surviving
        <3> QED
            BY <1>8, <2>2, <3>2
    <2>3. CASE ~(m < K)
        <3>1. m \in K .. Len(ms)
            BY <1>2, <2>1, <2>3
        <3>2. PICK n \in K .. Len(ls) : g[n] = m
            BY <1>1, <2>1, <3>1 DEF Embeds
        <3>3. n \in 1 .. Len(ls) /\ ~(n < K) /\ n \in Nat
            BY <1>2, <3>2
        <3>4. n \notin Blocked(ls)
            BY <1>5, <3>3
        <3>5. ls[n].k # "tag"
            BY <1>1, <2>1, <3>2 DEF Embeds
        <3>6. n \in Surviving(ls)
            BY <3>3, <3>4, <3>5 DEF Surviving
        <3> QED
            BY <1>8, <3>2, <3>3, <3>6
    <2> QED
        BY <2>2, <2>3
<1>11. ASSUME NEW n \in Surviving(ls), NEW l \in Surviving(ls), n < l PROVE h[n] < h[l]
    <2>1. n \in Nat /\ l \in Nat /\ h[n] \in Nat /\ h[l] \in Nat
        BY <1>6, <1>8
    <2>2. CASE l < K
        BY <1>2, <1>8, <1>11, <2>1, <2>2
    <2>3. CASE n < K /\ ~(l < K)
        <3>1. h[n] = n /\ h[l] = g[l] /\ g[l] \in K .. Len(ms)
            BY <1>6, <1>7, <1>8, <2>3
        <3> QED
            BY <1>2, <2>1, <2>3, <3>1
    <2>4. CASE ~(n < K) /\ ~(l < K)
        <3>1. h[n] = g[n] /\ h[l] = g[l] /\ n \in K .. Len(ls) /\ l \in K .. Len(ls)
            BY <1>6, <1>8, <2>4
        <3> QED
            BY <1>1, <1>11, <3>1 DEF Embeds
    <2> QED
        BY <1>2, <1>11, <2>1, <2>2, <2>3, <2>4
<1>12. Rest(ms) = Rest(ls)
    <2>1. \A n \in Surviving(ls) : ms[h[n]] = ls[n]
        BY <1>8
    <2> QED
        BY <1>1, <1>9, <1>10, <1>11, <2>1, RestSame
<1> QED
    BY <1>3, <1>12

-----------------------------------------------------------------------------
(* Replacing the block *)

(* When no item is touched, the same images are read back.                 *)
LEMMA ItemsKept ==
    ASSUME NEW ls \in Seq(Line), NoFlow(ls), Parses(ls), NEW ms \in Seq(Line), NoFlow(ms), NEW g,
           Embeds(g, ls, ms), \A s \in Starts(ls) : Untouched(g, ls, ms, s),
           \A m \in imagesKeyLine(ms) .. Len(ms) :
              \E n \in imagesKeyLine(ls) .. Len(ls) : g[n] = m
    PROVE  Parses(ms) /\ Images(ms) = Images(ls)
<1> DEFINE d == TopDown(Starts(ls))
           N == Cardinality(Starts(ls))
<1>1. imagesKeyLine(ls) \in Nat /\ Len(ls) \in Nat
    BY KeyFacts
<1>2. Starts(ls) \subseteq Nat /\ IsFiniteSet(Starts(ls))
    BY <1>1, BlockLines
<1>3. Enumerates(d, N, Starts(ls))
    BY <1>2, TopDownFacts
<1>4. TopDown(Starts(ms)) = [l \in DOMAIN d |-> g[d[l]]]
    BY EmbedTopDown
<1>5. d \in [1 .. N -> Starts(ls)] /\ DOMAIN d = 1 .. N /\ N \in Nat
    BY <1>3 DEF Enumerates
<1> HIDE DEF d, N
<1>6. \A x \in Starts(ls) : AtMostOne(TagsOf(ls, x))
    BY ParsesMeans
<1>7. ASSUME NEW x \in Starts(ls)
      PROVE  /\ AtMostOne(TagsOf(ms, g[x]))
             /\ Node(ms, g[x]).image = Node(ls, x).image
             /\ Node(ms, g[x]).tag = Node(ls, x).tag
    BY <1>6, NodeKept
<1>8. Parses(ms)
    <2>1. imagesKeyLine(ms) > 0 /\ imagesKeyLine(ms) \in Nat
        BY KeyFacts DEF Embeds
    <2>2. \A x \in Starts(ms) : AtMostOne(TagsOf(ms, x))
        BY <1>7, EmbedItems
    <2>3. ASSUME NEW m \in InBlock(ms) PROVE ms[m].k # "broken"
        <3>1. m \in imagesKeyLine(ms) + 1 .. Len(ms) /\ m \in imagesKeyLine(ms) .. Len(ms)
            BY <2>1, BlockLines
        <3>2. PICK n \in imagesKeyLine(ls) .. Len(ls) : g[n] = m
            BY <3>1
        <3>3. n # imagesKeyLine(ls)
            BY <2>1, <3>1, <3>2 DEF Embeds
        <3>4. n \in imagesKeyLine(ls) + 1 .. Len(ls)
            BY <1>1, <3>2, <3>3
        <3>5. n \in InBlock(ls)
            BY <3>2, <3>4, EmbedBlock
        <3>6. ms[m].k = ls[n].k
            BY <3>2 DEF Embeds
        <3> QED
            BY <3>5, <3>6, ParsesMeans
    <2> QED
        BY <2>1, <2>2, <2>3, ParsesMeans
<1>9. Images(ls) = [l \in 1 .. N |-> [image |-> Node(ls, d[l]).image, tag |-> Node(ls, d[l]).tag]]
    <2>1. imageNodes(ls) = [l \in 1 .. N |-> Node(ls, d[l])]
        BY <1>5 DEF imageNodes, d
    <2> QED
        BY <2>1 DEF Images
<1>10. Images(ms) = [l \in 1 .. N |->
                        [image |-> Node(ms, g[d[l]]).image, tag |-> Node(ms, g[d[l]]).tag]]
    <2>1. imageNodes(ms) = [l \in 1 .. N |-> Node(ms, g[d[l]])]
        BY <1>4, <1>5 DEF imageNodes
    <2> QED
        BY <2>1 DEF Images
<1> QED
    BY <1>5, <1>7, <1>8, <1>9, <1>10

(* The lines of ls with a block of the entries es for from .. upto - 1.    *)
Shift(from, upto, es) == (from + Len(es) + 2) - upto
Spliced(ms, ls, from, upto, es) ==
    LET D == Shift(from, upto, es)
    IN  /\ ms \in Seq(Line) /\ Len(ms) = Len(ls) + D
        /\ \A n \in 1 .. from - 1 : ms[n] = ls[n]
        /\ ms[from] = Begin
        /\ \A n \in 1 .. Len(es) : ms[from + n] = es[n]
        /\ ms[from + Len(es) + 1] = End
        /\ \A n \in upto .. Len(ls) : ms[n + D] = ls[n]

(* A concatenation, line by line.                                          *)
LEMMA Joined ==
    ASSUME NEW s \in Seq(Line), NEW t \in Seq(Line)
    PROVE  /\ s \o t \in Seq(Line) /\ Len(s \o t) = Len(s) + Len(t)
           /\ \A n \in 1 .. Len(s) : (s \o t)[n] = s[n]
           /\ \A n \in Len(s) + 1 .. Len(s) + Len(t) : (s \o t)[n] = t[n - Len(s)]
OBVIOUS

(* What the concatenation of WithBlock is, line by line.                   *)
LEMMA SpliceFacts ==
    ASSUME NEW ls \in Seq(Line), NEW from \in 1 .. Len(ls), NEW upto \in from .. Len(ls),
           NEW es \in Seq(Line)
    PROVE  Spliced(SubSeq(ls, 1, from - 1) \o <<Begin>> \o es \o <<End>> \o SubSeq(ls, upto, Len(ls)),
                   ls, from, upto, es)
<1> DEFINE a == SubSeq(ls, 1, from - 1)
           b == SubSeq(ls, upto, Len(ls))
           m == Len(es)
           a1 == a \o <<Begin>>
           a2 == a1 \o es
           a3 == a2 \o <<End>>
           ms == a3 \o b
<1>0. Len(ls) \in Nat /\ from \in Nat /\ upto \in Nat /\ m \in Nat /\ from >= 1 /\ upto <= Len(ls)
    OBVIOUS
<1>1. Begin \in Line /\ End \in Line
    BY DEF Begin, End, Line
<1>2. a \in Seq(Line) /\ Len(a) = from - 1 /\ \A n \in 1 .. from - 1 : a[n] = ls[n]
    BY SubSeqProperties
<1>3. b \in Seq(Line) /\ Len(b) = Len(ls) - upto + 1 /\ \A n \in 1 .. Len(b) : b[n] = ls[upto + n - 1]
    <2>1. \A n \in upto .. Len(ls) : ls[n] \in Line
        OBVIOUS
    <2> QED
        BY <2>1, SubSeqProperties
<1> HIDE DEF a, b, m
<1>4. /\ a1 \in Seq(Line) /\ Len(a1) = from /\ a1[from] = Begin
      /\ \A n \in 1 .. from - 1 : a1[n] = ls[n]
    <2> DEFINE one == <<Begin>>
    <2>1. one \in Seq(Line) /\ Len(one) = 1 /\ one[1] = Begin
        BY ONLY <1>1
    <2> HIDE DEF one
    <2>2. /\ a \o one \in Seq(Line) /\ Len(a \o one) = Len(a) + Len(one)
          /\ \A n \in 1 .. Len(a) : (a \o one)[n] = a[n]
          /\ \A n \in Len(a) + 1 .. Len(a) + Len(one) : (a \o one)[n] = one[n - Len(a)]
        BY ONLY <1>2, <2>1, Joined
    <2>3. a1 = a \o one
        BY DEF one
    <2> HIDE DEF a1
    <2>4. from \in Len(a) + 1 .. Len(a) + Len(one) /\ from - Len(a) = 1 /\ Len(a) + Len(one) = from
        BY ONLY <1>0, <1>2, <2>1
    <2> QED
        BY ONLY <1>2, <2>1, <2>2, <2>3, <2>4
<1> HIDE DEF a1
<1>5. /\ a2 \in Seq(Line) /\ Len(a2) = from + m
      /\ \A n \in 1 .. from : a2[n] = a1[n]
      /\ \A n \in 1 .. m : a2[from + n] = es[n]
    <2>1. a2 \in Seq(Line) /\ Len(a2) = from + m /\ \A n \in 1 .. from : a2[n] = a1[n]
        BY <1>0, <1>4 DEF m
    <2>2. ASSUME NEW n \in 1 .. m PROVE a2[from + n] = es[n]
        <3>1. from + n \in Len(a1) + 1 .. Len(a1) + Len(es) /\ (from + n) - Len(a1) = n
            BY <1>0, <1>4 DEF m
        <3> QED
            BY <1>4, <3>1
    <2> QED
        BY <2>1, <2>2
<1> HIDE DEF a2
<1>6. /\ a3 \in Seq(Line) /\ Len(a3) = from + m + 1 /\ a3[from + m + 1] = End
      /\ \A n \in 1 .. from + m : a3[n] = a2[n]
    BY <1>0, <1>1, <1>5
<1> HIDE DEF a3
<1>7. /\ ms \in Seq(Line) /\ Len(ms) = (from + m + 1) + (Len(ls) - upto + 1)
      /\ \A n \in 1 .. from + m + 1 : ms[n] = a3[n]
    <2>1. a3 \in Seq(Line) /\ b \in Seq(Line)
        BY <1>3, <1>6
    <2>2. ms \in Seq(Line) /\ Len(ms) = Len(a3) + Len(b) /\ \A n \in 1 .. Len(a3) : ms[n] = a3[n]
        BY ONLY <2>1, Joined
    <2> HIDE DEF ms
    <2> QED
        BY <1>0, <1>3, <1>6, <2>1, <2>2
<1>8. ASSUME NEW n \in upto .. Len(ls) PROVE ms[n + ((from + m + 2) - upto)] = ls[n]
    <2> DEFINE x == n + ((from + m + 2) - upto)
    <2>1. x \in Len(a3) + 1 .. Len(a3) + Len(b) /\ x - Len(a3) \in 1 .. Len(b)
          /\ upto + (x - Len(a3)) - 1 = n
        BY <1>0, <1>3, <1>6
    <2>2. ms[x] = b[x - Len(a3)]
        <3>1. a3 \in Seq(Line) /\ b \in Seq(Line)
            BY <1>3, <1>6
        <3> HIDE DEF x
        <3> QED
            BY ONLY <2>1, <3>1, Joined
    <2>3. b[x - Len(a3)] = ls[upto + (x - Len(a3)) - 1]
        BY <1>3, <2>1
    <2> QED
        BY <2>1, <2>2, <2>3
<1>9. ms = SubSeq(ls, 1, from - 1) \o <<Begin>> \o es \o <<End>> \o SubSeq(ls, upto, Len(ls))
    BY DEF a, b, a1, a2, a3
<1> HIDE DEF ms
<1>10. \A n \in 1 .. from - 1 : ms[n] = ls[n]
    BY <1>0, <1>4, <1>5, <1>6, <1>7
<1>11. ms[from] = Begin
    BY <1>0, <1>4, <1>5, <1>6, <1>7
<1>12. \A n \in 1 .. m : ms[from + n] = es[n]
    BY <1>0, <1>5, <1>6, <1>7
<1>13. ms[from + m + 1] = End
    BY <1>0, <1>6, <1>7
<1>14. Spliced(ms, ls, from, upto, es)
    BY <1>0, <1>7, <1>8, <1>10, <1>11, <1>12, <1>13 DEF Spliced, Shift, m
<1> QED
    BY <1>9, <1>14

(* Where the lines of the old block are.                                   *)
OldBlock(ls, from, upto) ==
    IF HasBlock(ls) THEN from = BlockStart(ls) /\ upto = BlockEnd(ls) + 1
                    ELSE from = RegionStart(ls) /\ upto = RegionStart(ls)

(* They are comments above the images key.                                 *)
LEMMA OldBlockFacts ==
    ASSUME NEW ls \in Seq(Line), imagesKeyLine(ls) > 0, NEW from, NEW upto, OldBlock(ls, from, upto)
    PROVE  /\ imagesKeyLine(ls) \in 1 .. Len(ls) /\ RegionStart(ls) \in 1 .. imagesKeyLine(ls)
           /\ from \in RegionStart(ls) .. imagesKeyLine(ls)
           /\ upto \in from .. imagesKeyLine(ls)
           /\ \A n \in RegionStart(ls) .. from - 1 :
                 ls[n].k = "end" => \A x \in RegionStart(ls) .. n : ls[x].k # "begin"
           /\ Blocked(ls) = from .. upto - 1
<1> DEFINE K == imagesKeyLine(ls)
           r == RegionStart(ls)
<1>1. K \in 1 .. Len(ls) /\ r \in 1 .. K /\ K \in Nat /\ r \in Nat
    <2>1. K \in 1 .. Len(ls) /\ r \in 1 .. K
        BY KeyFacts, RegionFacts
    <2> QED
        BY <2>1
<1>2. CASE HasBlock(ls)
    <2>1. /\ upto - 1 \in r .. K - 1 /\ from \in r .. upto - 1 /\ upto = BlockEnd(ls) + 1
          /\ \A n \in r .. upto - 2 : ls[n].k = "end" => \A x \in r .. n : ls[x].k # "begin"
        <3>1. BlockAt(ls, from, BlockEnd(ls)) /\ upto = BlockEnd(ls) + 1
            BY <1>2, BlockFacts DEF OldBlock
        <3>2. BlockEnd(ls) \in Nat
            BY <1>1, <3>1 DEF BlockAt
        <3>3. upto - 1 = BlockEnd(ls) /\ upto - 2 = BlockEnd(ls) - 1
            BY <3>1, <3>2
        <3> QED
            BY <3>1, <3>3 DEF BlockAt
    <2>2. from \in r .. K /\ upto \in from .. K /\ r .. from - 1 \subseteq r .. upto - 2
        BY <1>1, <2>1
    <2>3. Blocked(ls) = from .. upto - 1
        <3>1. upto - 1 = BlockEnd(ls)
            <4>1. BlockEnd(ls) \in Nat
                BY <1>1, <1>2, BlockFacts DEF BlockAt
            <4> QED
                BY <2>1, <4>1
        <3> QED
            BY <1>2, <3>1 DEF Blocked, OldBlock
    <2> QED
        BY <1>1, <2>1, <2>2, <2>3
<1>3. CASE ~HasBlock(ls)
    BY <1>1, <1>3 DEF OldBlock, Blocked
<1> QED
    BY <1>2, <1>3

(* The lines of the new file: above, in and below the new block.           *)
LEMMA SplicedLines ==
    ASSUME NEW ls \in Seq(Line), imagesKeyLine(ls) > 0, NEW from, NEW upto, OldBlock(ls, from, upto),
           NEW es \in Seq(Line), \A n \in 1 .. Len(es) : es[n].k = "meta",
           NEW ms, Spliced(ms, ls, from, upto, es), NEW n \in 1 .. Len(ms)
    PROVE  LET D == Shift(from, upto, es)
               K == imagesKeyLine(ls)
           IN  /\ D \in Int /\ K + D \in 1 .. Len(ms) /\ Len(ms) = Len(ls) + D /\ Len(es) \in Nat
               /\ from + Len(es) + 2 = upto + D
               /\ \/ n \in 1 .. from - 1 /\ n \in 1 .. K - 1 /\ ms[n] = ls[n]
                  \/ n = from /\ ms[n] = Begin
                  \/ n \in from + 1 .. from + Len(es) /\ ms[n].k = "meta" /\ ms[n] = es[n - from]
                  \/ n = from + Len(es) + 1 /\ ms[n] = End
                  \/ n \in upto + D .. Len(ms) /\ n - D \in upto .. Len(ls) /\ ms[n] = ls[n - D]
<1> DEFINE D == Shift(from, upto, es)
           K == imagesKeyLine(ls)
           m == Len(es)
<1>1. K \in 1 .. Len(ls) /\ from \in 1 .. K /\ upto \in from .. K /\ m \in Nat /\ Len(ls) \in Nat
    <2>1. K \in 1 .. Len(ls) /\ RegionStart(ls) \in 1 .. K /\ from \in RegionStart(ls) .. K
          /\ upto \in from .. K
        BY OldBlockFacts
    <2> QED
        BY <2>1
<1>2. D = (from + m + 2) - upto
    BY DEF Shift
<1>3. /\ ms \in Seq(Line) /\ Len(ms) = Len(ls) + D
      /\ \A x \in 1 .. from - 1 : ms[x] = ls[x]
      /\ ms[from] = Begin
      /\ \A x \in 1 .. m : ms[from + x] = es[x]
      /\ ms[from + m + 1] = End
      /\ \A x \in upto .. Len(ls) : ms[x + D] = ls[x]
    BY DEF Spliced
<1> HIDE DEF D, K, m
<1>4. D \in Int /\ K + D \in 1 .. Len(ms) /\ from + m + 2 = upto + D
    BY <1>1, <1>2, <1>3, SMTT(30)
<1>5. ASSUME n < from PROVE n \in 1 .. from - 1 /\ n \in 1 .. K - 1 /\ ms[n] = ls[n]
    BY <1>1, <1>3, <1>5
<1>7. ASSUME n \in from + 1 .. from + m PROVE ms[n].k = "meta" /\ ms[n] = es[n - from]
    <2>1. n - from \in 1 .. m /\ from + (n - from) = n
        BY <1>1, <1>7
    <2>2. ms[n] = es[n - from] /\ es[n - from].k = "meta"
        BY <1>3, <2>1 DEF m
    <2> QED
        BY <2>2
<1>9. ASSUME n \in upto + D .. Len(ms) PROVE n - D \in upto .. Len(ls) /\ ms[n] = ls[n - D]
    <2>1. n - D \in upto .. Len(ls) /\ (n - D) + D = n
        BY <1>1, <1>3, <1>4, <1>9
    <2>2. ms[n] = ls[n - D]
        BY <1>3, <2>1
    <2> QED
        BY <2>1, <2>2
<1>10. n < from \/ n = from \/ n \in from + 1 .. from + m \/ n = from + m + 1 \/ n \in upto + D .. Len(ms)
    BY <1>1, <1>3, <1>4
<1> QED
    BY <1>1, <1>3, <1>4, <1>5, <1>7, <1>9, <1>10 DEF D, K, m

(* The images below a replaced block are read as before.                   *)
LEMMA SplicedReads ==
    ASSUME NEW ls \in Seq(Line), NoFlow(ls), Parses(ls), NEW from, NEW upto, OldBlock(ls, from, upto),
           NEW es \in Seq(Line), \A n \in 1 .. Len(es) : es[n].k = "meta",
           NEW ms, Spliced(ms, ls, from, upto, es)
    PROVE  /\ imagesKeyLine(ms) = imagesKeyLine(ls) + Shift(from, upto, es)
           /\ NoFlow(ms) /\ Parses(ms) /\ Images(ms) = Images(ls)
<1> DEFINE D == Shift(from, upto, es)
           K == imagesKeyLine(ls)
           m == Len(es)
           g == [n \in K .. Len(ls) |-> n + D]
<1>1. /\ K > 0 /\ K \in 1 .. Len(ls) /\ from \in 1 .. K /\ upto \in from .. K
      /\ m \in Nat /\ Len(ls) \in Nat /\ D = (from + m + 2) - upto
    <2>1. K > 0
        BY DEF Parses
    <2>2. K \in 1 .. Len(ls) /\ RegionStart(ls) \in 1 .. K /\ from \in RegionStart(ls) .. K
          /\ upto \in from .. K
        BY <2>1, OldBlockFacts
    <2> QED
        BY <2>1, <2>2 DEF Shift
<1>2. /\ ms \in Seq(Line) /\ Len(ms) = Len(ls) + D /\ \A x \in upto .. Len(ls) : ms[x + D] = ls[x]
    BY DEF Spliced
<1>3. ASSUME NEW n \in 1 .. Len(ms)
      PROVE  \/ n \in 1 .. K - 1 /\ ms[n] = ls[n]
             \/ ms[n].k \in {"begin", "meta", "end"}
             \/ n \in upto + D .. Len(ms) /\ n - D \in upto .. Len(ls) /\ ms[n] = ls[n - D]
    <2>1. K > 0
        BY <1>1
    <2>2. LET E == from + m + 1
          IN  \/ n \in 1 .. from - 1 /\ n \in 1 .. K - 1 /\ ms[n] = ls[n]
              \/ n = from /\ ms[n] = Begin
              \/ n \in from + 1 .. from + m /\ ms[n].k = "meta" /\ ms[n] = es[n - from]
              \/ n = E /\ ms[n] = End
              \/ n \in upto + D .. Len(ms) /\ n - D \in upto .. Len(ls) /\ ms[n] = ls[n - D]
        BY <2>1, SplicedLines
    <2> QED
        BY <2>2 DEF Begin, End
<1> HIDE DEF D, K, m
<1>4. /\ D \in Int /\ K + D \in 1 .. Len(ms) /\ Len(ms) \in Nat
      /\ K \in Nat /\ upto \in Nat /\ upto >= 1 /\ upto <= K
    BY <1>1, <1>2
<1>5. ls[K].k = "images" /\ \A n \in 1 .. Len(ls) : ls[n].k = "images" => K <= n
    BY <1>1, KeyFacts DEF K
<1>6. imagesKeyLine(ms) = K + D
    <2>1. ms[K + D].k = "images"
        BY <1>1, <1>2, <1>5
    <2>2. ASSUME NEW n \in 1 .. (K + D) - 1 PROVE ms[n].k # "images"
        <3>1. n \in 1 .. Len(ms)
            BY <1>1, <1>4
        <3>2. CASE n \in 1 .. K - 1 /\ ms[n] = ls[n]
            BY <1>1, <1>5, <3>2
        <3>3. CASE n - D \in upto .. Len(ls) /\ ms[n] = ls[n - D]
            <4>1. n - D \in 1 .. Len(ls) /\ n - D < K
                BY <1>2, <1>4, <3>1, <3>3
            <4> QED
                BY <1>4, <1>5, <3>3, <4>1
        <3> QED
            BY <1>3, <3>1, <3>2, <3>3
    <2> QED
        BY <1>2, <1>4, <2>1, <2>2, KeyIs
<1>7. NoFlow(ms)
    <2> SUFFICES ASSUME NEW n \in 1 .. Len(ms) PROVE ms[n].k # "flow"
        BY DEF NoFlow
    <2>1. CASE n \in 1 .. K - 1 /\ ms[n] = ls[n]
        BY <1>1, <2>1 DEF NoFlow
    <2>2. CASE n - D \in upto .. Len(ls) /\ ms[n] = ls[n - D]
        BY <1>1, <2>2 DEF NoFlow
    <2> QED
        BY <1>3, <2>1, <2>2
<1>8. /\ g \in [K .. Len(ls) -> K + D .. Len(ms)]
      /\ \A n \in K .. Len(ls) : g[n] = n + D /\ ms[g[n]] = ls[n]
    <2>1. \A n \in K .. Len(ls) : n + D \in K + D .. Len(ms) /\ ms[n + D] = ls[n]
        BY <1>1, <1>2, <1>4
    <2> QED
        BY <2>1
<1> HIDE DEF g
<1>9. ASSUME NEW x \in K + D .. Len(ms) PROVE x - D \in K .. Len(ls) /\ g[x - D] = x
    <2>1. x - D \in K .. Len(ls) /\ (x - D) + D = x
        BY <1>1, <1>2, <1>4
    <2> QED
        BY <1>8, <2>1
<1>10. Embeds(g, ls, ms)
    <2>1. \A n, l \in K .. Len(ls) : n < l => g[n] < g[l]
        BY <1>1, <1>4, <1>8
    <2>2. \A n \in K .. Len(ls) : ms[g[n]].k = ls[n].k
        BY <1>8
    <2>3. \A x \in K + D .. Len(ms) : \E n \in K .. Len(ls) : g[n] = x
        BY <1>9
    <2>4. g[K] = K + D /\ K + D > 0
        BY <1>1, <1>4, <1>8
    <2> QED
        BY <1>1, <1>6, <1>8, <2>1, <2>2, <2>3, <2>4 DEF Embeds, K
<1>11. ASSUME NEW s \in Starts(ls) PROVE Untouched(g, ls, ms, s)
    <2>1. g[s] \in Starts(ms)
        BY <1>2, <1>10, <1>11, EmbedItems
    <2>2. ASSUME NEW x \in Own(ms, g[s]) PROVE \E n \in Own(ls, s) : g[n] = x
        <3>1. x \in (K + D) + 1 .. Len(ms)
            BY <1>2, <1>6, <2>1, BlockLines
        <3>2. x \in K + D .. Len(ms) /\ x - D \in K + 1 .. Len(ls)
            BY <1>1, <1>2, <1>4, <3>1
        <3>3. g[x - D] = x
            BY <1>9, <3>2
        <3>4. x - D \in Own(ls, s)
            BY <1>2, <1>10, <3>2, <3>3, EmbedItems DEF K
        <3> QED
            BY <3>3, <3>4
    <2>3. ASSUME NEW n \in Own(ls, s) PROVE ms[g[n]] = ls[n]
        <3>1. n \in K + 1 .. Len(ls)
            BY BlockLines DEF K
        <3>2. n \in K .. Len(ls)
            BY <1>1, <3>1
        <3> QED
            BY <1>8, <3>2
    <2> QED
        BY <2>2, <2>3 DEF Untouched
<1>12. \A x \in imagesKeyLine(ms) .. Len(ms) : \E n \in imagesKeyLine(ls) .. Len(ls) : g[n] = x
    BY <1>6, <1>9 DEF K
<1>13. Parses(ms) /\ Images(ms) = Images(ls)
    BY <1>2, <1>7, <1>10, <1>11, <1>12, ItemsKept
<1> QED
    BY <1>6, <1>7, <1>13 DEF D, K

(* The new block is the one that is found again, with its entries.         *)
LEMMA SplicedBlock ==
    ASSUME NEW ls \in Seq(Line), NoFlow(ls), Parses(ls), NEW from, NEW upto, OldBlock(ls, from, upto),
           NEW es \in Seq(Line), \A n \in 1 .. Len(es) : es[n].k = "meta",
           NEW ms, Spliced(ms, ls, from, upto, es)
    PROVE  /\ Blocked(ms) = from .. from + Len(es) + 1
           /\ Entries(ms) = es
<1> DEFINE D == Shift(from, upto, es)
           K == imagesKeyLine(ls)
           r == RegionStart(ls)
           m == Len(es)
           e == from + m + 1
<1>0. K > 0
    BY DEF Parses
<1>1. /\ K \in 1 .. Len(ls) /\ r \in 1 .. K /\ from \in r .. K /\ upto \in from .. K
      /\ m \in Nat /\ Len(ls) \in Nat /\ D = (from + m + 2) - upto
      /\ \A n \in r .. from - 1 : ls[n].k = "end" => \A x \in r .. n : ls[x].k # "begin"
    BY <1>0, OldBlockFacts DEF Shift
<1>2. ms \in Seq(Line) /\ Len(ms) = Len(ls) + D
    BY DEF Spliced
<1>3. ASSUME NEW n \in 1 .. Len(ms)
      PROVE  \/ n \in 1 .. from - 1 /\ ms[n] = ls[n]
             \/ n = from /\ ms[n].k = "begin"
             \/ n \in from + 1 .. from + m /\ ms[n].k = "meta"
             \/ n = e /\ ms[n].k = "end"
             \/ n \in upto + D .. Len(ms) /\ n - D \in upto .. Len(ls) /\ ms[n] = ls[n - D]
    BY <1>0, SplicedLines DEF Begin, End
<1>4. imagesKeyLine(ms) = K + D
    BY SplicedReads
<1>5. (\A l \in r .. K - 1 : IsComment(ls[l])) /\ (r = 1 \/ ~IsComment(ls[r - 1]))
    BY <1>0, RegionFacts
<1>6. \A n \in 1 .. m : ms[from + n] = es[n]
    BY DEF Spliced
<1> HIDE DEF D, K, r, m
<1>7. /\ D \in Int /\ K + D \in 1 .. Len(ms) /\ Len(ms) \in Nat
      /\ e < K + D /\ upto + D = e + 1 /\ e \in Nat /\ e = from + m + 1 /\ from \in Nat /\ from >= 1
      /\ imagesKeyLine(ms) > 0
    BY <1>1, <1>2, <1>4
<1>a. /\ K \in Nat /\ r \in Nat /\ m \in Nat /\ upto \in Nat /\ 1 <= r /\ r <= from
      /\ K + D \in Int /\ K + D <= Len(ms)
    BY ONLY <1>1, <1>7
<1> HIDE DEF e
<1>8. RegionStart(ms) = r
    <2>1. r \in 1 .. K + D
        BY <1>1, <1>7 DEF e
    <2>2. ASSUME NEW n \in r .. (K + D) - 1 PROVE IsComment(ms[n])
        <3>0. n \in Int /\ r <= n /\ n <= (K + D) - 1
            BY <1>a
        <3>1. n \in 1 .. Len(ms)
            BY ONLY <1>7, <1>a, <3>0
        <3>2. CASE n \in 1 .. from - 1 /\ ms[n] = ls[n]
            BY <1>1, <1>5, <3>2
        <3>3. CASE n - D \in upto .. Len(ls) /\ ms[n] = ls[n - D]
            <4>1. n - D \in r .. K - 1
                BY <1>1, <1>7, <3>3
            <4> QED
                BY <1>5, <3>3, <4>1
        <3>4. CASE ms[n].k \in {"begin", "meta", "end"}
            BY <3>4 DEF IsComment
        <3> QED
            BY <1>3, <3>1, <3>2, <3>3, <3>4
    <2>3. r = 1 \/ ~IsComment(ms[r - 1])
        <3>1. CASE r # 1
            <4>1. r - 1 \in 1 .. Len(ms) /\ r - 1 < from /\ r - 1 < upto + D
                BY ONLY <1>7, <1>a, <3>1
            <4>2. ms[r - 1] = ls[r - 1]
                BY <1>1, <1>3, <1>7, <4>1 DEF e
            <4> QED
                BY <1>5, <3>1, <4>2
        <3> QED
            BY <3>1
    <2> QED
        BY ONLY <1>2, <1>4, <1>7, <2>1, <2>2, <2>3, RegionIs
<1>9. ASSUME NEW n \in from + 1 .. from + m PROVE ms[n].k = "meta" /\ n \in 1 .. Len(ms)
    <2>1. n \in 1 .. Len(ms) /\ n < upto + D /\ n # from /\ n # e /\ ~(n < from)
        <3>1. n \in Nat /\ n > from /\ n <= from + m
            BY <1>1
        <3> QED
            BY ONLY <1>7, <1>a, <3>1
    <2> QED
        BY <1>1, <1>3, <1>7, <2>1
<1>10. ms[from].k = "begin" /\ ms[e].k = "end"
    BY <1>1 DEF Spliced, Begin, End, e, m
<1>11. BlockAt(ms, from, e)
    <2>1. e \in r .. (K + D) - 1 /\ from \in r .. e
        BY <1>1, <1>7 DEF e
    <2>2. ASSUME NEW n \in from + 1 .. e PROVE ms[n].k # "begin"
        <3>1. CASE n = e
            BY <1>10, <3>1
        <3>2. CASE n # e
            <4>1. n \in from + 1 .. from + m
                BY <1>1, <1>7, <3>2 DEF e
            <4> QED
                BY <1>9, <4>1
        <3> QED
            BY <3>1, <3>2
    <2>3. ASSUME NEW n \in r .. e - 1, ms[n].k = "end", NEW x \in r .. n PROVE ms[x].k # "begin"
        <3>1. n \in 1 .. Len(ms) /\ n \in Nat /\ n < e /\ x \in 1 .. Len(ms) /\ x \in Nat /\ x <= n
            BY ONLY <1>7, <1>a, <2>3
        <3>2. n < from
            <4>1. n # from
                BY <1>10, <2>3
            <4>2. n \notin from + 1 .. from + m
                BY <1>9, <2>3
            <4> QED
                BY <1>1, <1>7, <3>1, <4>1, <4>2 DEF e
        <3>3. ms[n] = ls[n] /\ ms[x] = ls[x]
            <4>1. n < e + 1 /\ x < e + 1 /\ x < from
                BY ONLY <1>7, <1>a, <3>1, <3>2
            <4> QED
                BY <1>1, <1>3, <1>7, <3>1, <3>2, <4>1
        <3>4. n \in r .. from - 1
            BY <1>1, <2>3, <3>1, <3>2
        <3> QED
            BY <1>1, <2>3, <3>3, <3>4
    <2> QED
        BY <1>4, <1>8, <1>10, <2>1, <2>2, <2>3 DEF BlockAt
<1>12. HasBlock(ms) /\ BlockStart(ms) = from /\ BlockEnd(ms) = e
    BY ONLY <1>2, <1>7, <1>11, BlockIs
<1>13. Entries(ms) = es
    <2> DEFINE S == from + 1 .. from + m
               f == [n \in 1 .. m |-> from + n]
    <2>1. BlockStart(ms) + 1 .. BlockEnd(ms) - 1 = S
        BY <1>1, <1>12 DEF e
    <2>2. {n \in S : ms[n].k = "meta"} = S /\ ~\E n \in S : ms[n].k = "garbled"
        BY <1>9
    <2>3. Enumerates(f, m, S) /\ S \subseteq Nat
        <3>1. f \in [1 .. m -> S] /\ S \subseteq Nat
            BY <1>1
        <3>2. ASSUME NEW x \in S PROVE \E n \in 1 .. m : f[n] = x
            <4>1. x - from \in 1 .. m /\ from + (x - from) = x
                BY <1>1
            <4> QED
                BY <4>1
        <3>3. \A n, l \in 1 .. m : n < l => f[n] < f[l]
            BY <1>1
        <3> HIDE DEF f, S
        <3> QED
            BY <1>1, <3>1, <3>2, <3>3 DEF Enumerates
    <2>4. DOMAIN f = 1 .. m /\ \A n \in 1 .. m : f[n] = from + n
        OBVIOUS
    <2> HIDE DEF S, f
    <2>5. TopDown(S) = f
        BY <2>3, TopDownIs
    <2>6. Entries(ms) = [n \in DOMAIN f |-> ms[f[n]]]
        BY <1>12, <2>1, <2>2, <2>5 DEF Entries
    <2>7. es = [n \in 1 .. m |-> es[n]]
        BY DEF m
    <2> QED
        BY <1>6, <2>4, <2>6, <2>7
<1> QED
    BY <1>12, <1>13 DEF Blocked, e, m

(* Everything outside of the block stays as it was.                        *)
LEMMA SplicedRest ==
    ASSUME NEW ls \in Seq(Line), NoFlow(ls), Parses(ls), NEW from, NEW upto, OldBlock(ls, from, upto),
           NEW es \in Seq(Line), \A n \in 1 .. Len(es) : es[n].k = "meta",
           NEW ms, Spliced(ms, ls, from, upto, es)
    PROVE  Rest(ms) = Rest(ls)
<1> DEFINE D == Shift(from, upto, es)
           K == imagesKeyLine(ls)
           m == Len(es)
           h == [n \in Surviving(ls) |-> IF n < from THEN n ELSE n + D]
<1>0. K > 0
    BY DEF Parses
<1>1. /\ K \in 1 .. Len(ls) /\ from \in 1 .. K /\ upto \in from .. K
      /\ m \in Nat /\ Len(ls) \in Nat /\ D = (from + m + 2) - upto
      /\ Blocked(ls) = from .. upto - 1
    <2>1. K \in 1 .. Len(ls) /\ RegionStart(ls) \in 1 .. K /\ from \in RegionStart(ls) .. K
          /\ upto \in from .. K /\ Blocked(ls) = from .. upto - 1
        BY <1>0, OldBlockFacts
    <2> QED
        BY <2>1 DEF Shift
<1>2. /\ ms \in Seq(Line) /\ Len(ms) = Len(ls) + D
      /\ \A n \in 1 .. from - 1 : ms[n] = ls[n]
      /\ \A n \in upto .. Len(ls) : ms[n + D] = ls[n]
    BY DEF Spliced
<1>3. Blocked(ms) = from .. from + m + 1
    BY SplicedBlock
<1> HIDE DEF D, K, m
<1>4. /\ D \in Int /\ from \in Nat /\ upto \in Nat /\ Len(ms) \in Nat /\ 1 <= from /\ from <= upto
      /\ upto <= Len(ls) /\ from + m + 2 = upto + D
    BY <1>1, <1>2
<1>5. ASSUME NEW n
      PROVE  n \in Surviving(ls) <=>
                (n \in 1 .. from - 1 \/ n \in upto .. Len(ls)) /\ ls[n].k # "tag"
    <2>1. DOMAIN ls = 1 .. Len(ls)
        OBVIOUS
    <2>2. n \in (1 .. Len(ls)) \ (from .. upto - 1) <=> n \in 1 .. from - 1 \/ n \in upto .. Len(ls)
        BY ONLY <1>1, <1>4
    <2> QED
        BY <1>1, <2>1, <2>2 DEF Surviving
<1>6. ASSUME NEW n
      PROVE  n \in Surviving(ms) <=>
                (n \in 1 .. from - 1 \/ n \in upto + D .. Len(ms)) /\ ms[n].k # "tag"
    <2>1. DOMAIN ms = 1 .. Len(ms)
        BY <1>2
    <2>2. n \in (1 .. Len(ms)) \ (from .. from + m + 1) <=> n \in 1 .. from - 1 \/ n \in upto + D .. Len(ms)
        BY ONLY <1>1, <1>2, <1>4
    <2> QED
        BY <1>3, <2>1, <2>2 DEF Surviving
<1>7. ASSUME NEW n \in Surviving(ls)
      PROVE  /\ h[n] = (IF n < from THEN n ELSE n + D) /\ n \in Nat
             /\ ms[h[n]] = ls[n] /\ h[n] \in Surviving(ms)
    <2>1. h[n] = (IF n < from THEN n ELSE n + D)
        OBVIOUS
    <2>2. (n \in 1 .. from - 1 \/ n \in upto .. Len(ls)) /\ ls[n].k # "tag"
        BY <1>5
    <2> HIDE DEF h
    <2>3. CASE n \in 1 .. from - 1
        <3>1. n < from /\ n \in Nat
            BY <1>4, <2>3
        <3>2. h[n] = n /\ ms[n] = ls[n]
            BY <1>2, <2>1, <2>3, <3>1
        <3> QED
            BY <1>6, <2>1, <2>2, <2>3, <3>1, <3>2
    <2>4. CASE n \in upto .. Len(ls)
        <3>1. ~(n < from) /\ n \in Nat /\ n + D \in upto + D .. Len(ms)
            BY <1>1, <1>2, <1>4, <2>4
        <3>2. h[n] = n + D /\ ms[n + D] = ls[n]
            BY <1>2, <2>1, <2>4, <3>1
        <3>3. n + D \in Surviving(ms)
            BY <1>6, <2>2, <3>1, <3>2
        <3> QED
            BY <2>1, <3>1, <3>2, <3>3
    <2> QED
        BY <2>2, <2>3, <2>4
<1>8. h \in [Surviving(ls) -> Surviving(ms)]
    BY <1>7
<1> HIDE DEF h
<1>9. ASSUME NEW x \in Surviving(ms) PROVE \E n \in Surviving(ls) : h[n] = x
    <2>1. (x \in 1 .. from - 1 \/ x \in upto + D .. Len(ms)) /\ ms[x].k # "tag"
        BY <1>6
    <2>2. CASE x \in 1 .. from - 1
        <3>1. x < from /\ ms[x] = ls[x]
            BY <1>2, <1>4, <2>2
        <3>2. x \in Surviving(ls)
            BY <1>5, <2>1, <2>2, <3>1
        <3> QED
            BY <1>7, <3>1, <3>2
    <2>3. CASE x \in upto + D .. Len(ms)
        <3>1. x - D \in upto .. Len(ls) /\ (x - D) + D = x /\ ~(x - D < from)
            BY ONLY <1>1, <1>2, <1>4, <2>3
        <3>2. ms[x] = ls[x - D]
            BY <1>2, <3>1
        <3>3. x - D \in Surviving(ls)
            BY <1>5, <2>1, <3>1, <3>2
        <3>4. h[x - D] = x
            BY <1>7, <3>1, <3>3
        <3> QED
            BY <3>3, <3>4
    <2> QED
        BY <2>1, <2>2, <2>3
<1>10. ASSUME NEW n \in Surviving(ls), NEW l \in Surviving(ls), n < l PROVE h[n] < h[l]
    <2>1. /\ n \in Nat /\ l \in Nat
          /\ h[n] = (IF n < from THEN n ELSE n + D)
          /\ h[l] = (IF l < from THEN l ELSE l + D)
        BY <1>7
    <2>2. n \in 1 .. from - 1 \/ n \in upto .. Len(ls)
        BY <1>5
    <2>3. l \in 1 .. from - 1 \/ l \in upto .. Len(ls)
        BY <1>5
    <2>4. m \in Nat
        BY <1>1
    <2> QED
        BY ONLY <1>4, <1>10, <2>1, <2>2, <2>3, <2>4
<1>11. \A n \in Surviving(ls) : ms[h[n]] = ls[n]
    BY <1>7
<1> QED
    BY <1>2, <1>8, <1>9, <1>10, <1>11, RestSame

-----------------------------------------------------------------------------
(* The entries of the block *)

(* Entries, and one per image of them.                                     *)
EntryLine == [k : {"meta"}, image : Image, content : STRING]
OnePerImage(es) == \A n, l \in DOMAIN es : es[n].image = es[l].image => n = l

(* The full names of images are totally ordered.                           *)
LEMMA NamesOrdered ==
    ASSUME NEW x \in EntryLine, NEW y \in EntryLine, NEW z \in EntryLine
    PROVE  /\ ~NameBefore(x, x)
           /\ NameBefore(x, y) /\ NameBefore(y, z) => NameBefore(x, z)
           /\ NameBefore(x, y) \/ NameBefore(y, x) \/ x.image = y.image
           /\ x.image = y.image => /\ NameBefore(x, z) <=> NameBefore(y, z)
                                   /\ NameBefore(z, x) <=> NameBefore(z, y)
<1>1. x.image \in Nat \X Nat /\ y.image \in Nat \X Nat /\ z.image \in Nat \X Nat
    BY DEF EntryLine, Image
<1>2. PICK x1 \in Nat, x2 \in Nat : x.image = <<x1, x2>>
    BY <1>1
<1>3. PICK y1 \in Nat, y2 \in Nat : y.image = <<y1, y2>>
    BY <1>1
<1>4. PICK z1 \in Nat, z2 \in Nat : z.image = <<z1, z2>>
    BY <1>1
<1> QED
    BY <1>2, <1>3, <1>4 DEF NameBefore

(* Sorting keeps the entries; without two of one image, each one has a     *)
(* name before the next one's.                                             *)
LEMMA ByNameFacts ==
    ASSUME NEW es \in Seq(EntryLine), OnePerImage(es)
    PROVE  /\ ByName(es) \in Seq(EntryLine) /\ Len(ByName(es)) = Len(es)
           /\ Range(ByName(es)) = Range(es)
           /\ \A n, l \in 1 .. Len(es) : n < l => NameBefore(ByName(es)[n], ByName(es)[l])
<1> DEFINE N == Len(es)
           S == 1 .. N
           Before(l, n) == Precedes(es, l, n)
           R == {p \in S \X S : Before(p[1], p[2])}
           rank(x) == Cardinality({y \in S : Before(y, x)})
           at(n) == CHOOSE l \in S : rank(l) = n - 1
           d == ByName(es)
<1>1. N \in Nat /\ DOMAIN es = S /\ \A n \in S : es[n] \in EntryLine
    OBVIOUS
<1>2. IsFiniteSet(S) /\ Cardinality(S) = N
    <2>1. IsFiniteSet(1 .. N) /\ Cardinality(1 .. N) = N
        <3>1. N \in Int /\ N >= 0
            BY <1>1
        <3> HIDE DEF N
        <3>2. IsFiniteSet(1 .. N) /\ Cardinality(1 .. N) = IF 1 > N THEN 0 ELSE (N - 1) + 1
            BY ONLY <3>1, FS_Interval
        <3> QED
            BY ONLY <3>1, <3>2
    <2> QED
        BY <2>1
<1>3. d = [n \in S |-> es[at(n)]]
    BY <1>1 DEF ByName
<1>4. \A n, l \in S : Before(l, n) <=> NameBefore(es[l], es[n])
    <2> SUFFICES ASSUME NEW n \in S, NEW l \in S
                 PROVE  es[l].image = es[n].image /\ l < n => NameBefore(es[l], es[n])
        BY DEF Precedes
    <2>1. n \in Nat
        BY <1>1
    <2>3. ~(n < n)
        BY ONLY <2>1
    <2>2. es[l].image = es[n].image => l = n
        BY <1>1 DEF OnePerImage
    <2> QED
        BY <2>2, <2>3
<1> HIDE DEF Before, S, N
<1>5. \A x, y \in S : <<x, y>> \in R <=> Before(x, y)
    OBVIOUS
<1>6. ASSUME NEW x \in S PROVE {y \in S : <<y, x>> \in R} = {y \in S : Before(y, x)}
    OBVIOUS
<1>7. Orders(R, S)
    <2>1. \A x \in S : ~Before(x, x)
        BY <1>1, <1>4, NamesOrdered
    <2>2. ASSUME NEW x \in S, NEW y \in S, NEW z \in S, Before(x, y), Before(y, z) PROVE Before(x, z)
        BY <1>1, <1>4, <2>2, NamesOrdered
    <2>3. ASSUME NEW x \in S, NEW y \in S, x # y PROVE Before(x, y) \/ Before(y, x)
        <3>1. es[x].image # es[y].image
            BY <1>1, <2>3 DEF OnePerImage
        <3> QED
            BY <1>1, <1>4, <3>1, NamesOrdered
    <2> HIDE DEF R
    <2> QED
        BY <1>5, <2>1, <2>2, <2>3 DEF Orders
<1> HIDE DEF R
<1>8. /\ \A x \in S : rank(x) \in 0 .. N - 1
      /\ \A x, y \in S : Before(x, y) => rank(x) < rank(y)
      /\ \A n \in S : \E x \in S : rank(x) = n - 1
    <2> DEFINE of(x) == RankIn(S, R, x)
    <2>0. S = 1 .. Cardinality(S)
        BY <1>2 DEF S
    <2>1. \A x \in S : of(x) \in 0 .. Cardinality(S) - 1
        BY <1>2, <1>7, Ranks
    <2>2. \A x, y \in S : <<x, y>> \in R => of(x) < of(y)
        BY <1>2, <1>7, Ranks
    <2>3. \A n \in 1 .. Cardinality(S) : \E x \in S : RankIn(S, R, x) = n - 1
        <3> HIDE DEF of, d, rank
        <3> QED
            BY ONLY <1>2, <1>7, Ranks
    <2>4. \A x \in S : of(x) = rank(x)
        BY <1>6 DEF RankIn
    <2>5. \A n \in S : \E x \in S : of(x) = n - 1
        BY ONLY <2>0, <2>3 DEF of
    <2> HIDE DEF of, rank
    <2> QED
        BY <1>2, <1>5, <2>1, <2>2, <2>4, <2>5
<1>9. ASSUME NEW n \in S PROVE at(n) \in S /\ rank(at(n)) = n - 1
    <2>1. \E x \in S : rank(x) = n - 1
        BY <1>8
    <2> HIDE DEF rank
    <2> QED
        BY <2>1
<1>10. DOMAIN d = S /\ \A n \in S : d[n] = es[at(n)]
    BY <1>3
<1> HIDE DEF d, rank, at
<1>11. d \in Seq(EntryLine) /\ Len(d) = N
    <2>1. d \in [1 .. N -> EntryLine]
        <3>1. \A n \in S : d[n] \in EntryLine
            BY <1>1, <1>9, <1>10
        <3>2. d = [n \in S |-> d[n]]
            BY <1>3, <1>10
        <3> QED
            BY <3>1, <3>2 DEF S
    <2> QED
        BY <1>1, <2>1
<1>12. ASSUME NEW x \in S PROVE \E n \in S : d[n] = es[x]
    <2>1. rank(x) \in 0 .. N - 1
        BY <1>8
    <2>2. rank(x) + 1 \in S /\ rank(x) = (rank(x) + 1) - 1
        BY <1>1, <2>1 DEF S
    <2>3. at(rank(x) + 1) \in S /\ rank(at(rank(x) + 1)) = rank(x)
        BY <1>9, <2>2
    <2>4. ~Before(x, at(rank(x) + 1)) /\ ~Before(at(rank(x) + 1), x)
        <3>1. ASSUME NEW r \in Int PROVE ~(r < r)
            OBVIOUS
        <3> QED
            BY <1>8, <2>1, <2>3, <3>1
    <2>5. at(rank(x) + 1) = x
        <3>1. \A y \in S : y = x \/ Before(x, y) \/ Before(y, x)
            BY <1>5, <1>7 DEF Orders
        <3> QED
            BY <2>3, <2>4, <3>1
    <2> QED
        BY <1>10, <2>2, <2>5
<1>13. Range(d) = Range(es)
    <2>1. \A n \in S : d[n] \in Range(es)
        BY <1>1, <1>9, <1>10 DEF Range
    <2>2. \A x \in S : es[x] \in Range(d)
        BY <1>10, <1>12 DEF Range
    <2> QED
        BY <1>1, <1>10, <2>1, <2>2 DEF Range
<1>14. ASSUME NEW n \in S, NEW l \in S, n < l PROVE NameBefore(d[n], d[l])
    <2>1. at(n) \in S /\ at(l) \in S /\ rank(at(n)) = n - 1 /\ rank(at(l)) = l - 1 /\ n \in Nat /\ l \in Nat
        BY <1>1, <1>9 DEF S
    <2>2. ~(l - 1 < n - 1) /\ l - 1 # n - 1
        BY <1>14, <2>1
    <2>3. at(n) # at(l) /\ ~Before(at(l), at(n))
        BY <1>8, <2>1, <2>2
    <2>4. Before(at(n), at(l))
        BY <1>5, <1>7, <2>1, <2>3 DEF Orders
    <2> QED
        BY <1>4, <1>10, <2>1, <2>4
<1> QED
    BY <1>11, <1>13, <1>14 DEF d, S, N

(* Upsert merges an entry into a block: the other images keep theirs.      *)
Merged(ms, es, e) ==
    /\ ms \in Seq(EntryLine)
    /\ \A n, l \in DOMAIN ms : n < l => NameBefore(ms[n], ms[l])
    /\ Range(ms) = {x \in Range(es) : x.image # e.image} \cup {e}

(* A sorted block has one entry per image.                                 *)
LEMMA SortedOnePerImage ==
    ASSUME NEW ms \in Seq(EntryLine), \A n, l \in DOMAIN ms : n < l => NameBefore(ms[n], ms[l])
    PROVE  OnePerImage(ms)
<1> SUFFICES ASSUME NEW n \in DOMAIN ms, NEW l \in DOMAIN ms, ms[n].image = ms[l].image, n # l
             PROVE  FALSE
    BY DEF OnePerImage
<1>1. ms[n] \in EntryLine /\ ms[l] \in EntryLine
    OBVIOUS
<1>2. NameBefore(ms[n], ms[l]) \/ NameBefore(ms[l], ms[n])
    <2>1. n \in Nat /\ l \in Nat
        OBVIOUS
    <2> QED
        BY <2>1
<1> QED
    BY <1>1, <1>2, NamesOrdered

(* What Upsert does to a block with one entry per image.                   *)
LEMMA UpsertFacts ==
    ASSUME NEW es \in Seq(EntryLine), OnePerImage(es), NEW e \in EntryLine
    PROVE  Merged(Upsert(es, e), es, e)
<1> DEFINE S == 1 .. Len(es)
           same == {n \in DOMAIN es : es[n].image = e.image}
           new == IF same = {} THEN Append(es, e) ELSE [es EXCEPT ![Min(same)] = e]
           others == {x \in Range(es) : x.image # e.image}
<1>1. Len(es) \in Nat /\ DOMAIN es = S /\ \A n \in S : es[n] \in EntryLine
    OBVIOUS
<1>2. new \in Seq(EntryLine) /\ OnePerImage(new) /\ Range(new) = others \cup {e}
    <2>1. CASE same = {}
        <3> DEFINE a == Append(es, e)
                   N == Len(es) + 1
        <3>1. /\ a \in Seq(EntryLine) /\ DOMAIN a = 1 .. N /\ N \in Nat
              /\ \A n \in S : a[n] = es[n] /\ n # N
              /\ \A n \in 1 .. N : n \in S \/ n = N
              /\ a[N] = e
            BY <1>1
        <3>2. \A n \in S : es[n].image # e.image
            BY <1>1, <2>1
        <3>3. OnePerImage(a)
            <4> HIDE DEF a, N, S, same
            <4>1. ASSUME NEW n \in 1 .. N, NEW l \in 1 .. N, a[n].image = a[l].image PROVE n = l
                BY <1>1, <3>1, <3>2, <4>1 DEF OnePerImage
            <4> QED
                BY <3>1, <4>1 DEF OnePerImage
        <3>4. Range(a) = others \cup {e}
            <4>1. \A n \in 1 .. N : a[n] \in others \cup {e}
                <5> HIDE DEF a, N, S, same
                <5> QED
                    BY <1>1, <3>1, <3>2 DEF Range
            <4>2. \A x \in others : \E n \in 1 .. N : a[n] = x
                <5>1. S \subseteq 1 .. N
                    BY <1>1
                <5> HIDE DEF a, N, S, same
                <5> QED
                    BY <1>1, <3>1, <5>1 DEF Range
            <4>3. N \in 1 .. N
                BY <1>1
            <4> HIDE DEF a, N, S, same, others
            <4> QED
                BY <3>1, <4>1, <4>2, <4>3 DEF Range
        <3> QED
            BY <2>1, <3>1, <3>3, <3>4
    <2>2. CASE same # {}
        <3> DEFINE p == Min(same)
                   a == [es EXCEPT ![p] = e]
        <3>1. p \in same
            <4>1. same \subseteq Nat
                BY <1>1
            <4> HIDE DEF same
            <4> QED
                BY ONLY <2>2, <4>1, MinFacts
        <3>2. p \in S /\ es[p].image = e.image
            BY <1>1, <3>1
        <3> HIDE DEF p
        <3>3. /\ a \in Seq(EntryLine) /\ DOMAIN a = S /\ a[p] = e
              /\ \A n \in S : n # p => a[n] = es[n] /\ es[n].image # e.image
            <4>1. a \in Seq(EntryLine) /\ DOMAIN a = S /\ a[p] = e
                BY <1>1, <3>2
            <4>2. \A n \in S : n # p => a[n] = es[n]
                BY <1>1, <3>2
            <4>3. \A n \in S : n # p => es[n].image # e.image
                BY <1>1, <3>2 DEF OnePerImage
            <4> QED
                BY <4>1, <4>2, <4>3
        <3>4. OnePerImage(a)
            <4> HIDE DEF a, S, same
            <4>1. ASSUME NEW n \in S, NEW l \in S, a[n].image = a[l].image PROVE n = l
                BY <1>1, <3>2, <3>3, <4>1 DEF OnePerImage
            <4> QED
                BY <3>3, <4>1 DEF OnePerImage
        <3>5. Range(a) = others \cup {e}
            <4> HIDE DEF a, S, same
            <4>1. \A n \in S : a[n] \in others \cup {e}
                BY <1>1, <3>3 DEF Range
            <4>2. \A x \in others : \E n \in S : a[n] = x
                BY <1>1, <3>2, <3>3 DEF Range
            <4> HIDE DEF others
            <4> QED
                BY <3>2, <3>3, <4>1, <4>2 DEF Range
        <3> QED
            BY <2>2, <3>3, <3>4, <3>5 DEF p
    <2> QED
        BY <2>1, <2>2
<1>3. Upsert(es, e) = ByName(new)
    BY DEF Upsert
<1> HIDE DEF new, others
<1>4. /\ ByName(new) \in Seq(EntryLine) /\ Len(ByName(new)) = Len(new)
      /\ Range(ByName(new)) = Range(new)
      /\ \A n, l \in 1 .. Len(new) : n < l => NameBefore(ByName(new)[n], ByName(new)[l])
    BY <1>2, ByNameFacts
<1>5. DOMAIN ByName(new) = 1 .. Len(new)
    BY <1>4
<1> QED
    BY <1>2, <1>3, <1>4, <1>5 DEF Merged, others

(* Reading a block gives entries.                                          *)
LEMMA EntriesFacts ==
    ASSUME NEW ls \in Seq(Line), imagesKeyLine(ls) > 0
    PROVE  Entries(ls) \in Seq(EntryLine)
<1> DEFINE body == IF HasBlock(ls) THEN BlockStart(ls) + 1 .. BlockEnd(ls) - 1 ELSE {}
           S == {n \in body : ls[n].k = "meta"}
           d == TopDown(S)
<1>1. imagesKeyLine(ls) \in 1 .. Len(ls) /\ RegionStart(ls) \in 1 .. imagesKeyLine(ls) /\ Len(ls) \in Nat
    BY KeyFacts, RegionFacts
<1>2. body \in SUBSET (1 .. Len(ls))
    <2>1. CASE HasBlock(ls)
        <3>1. /\ BlockEnd(ls) \in RegionStart(ls) .. imagesKeyLine(ls) - 1
              /\ BlockStart(ls) \in RegionStart(ls) .. BlockEnd(ls)
            BY <2>1, BlockFacts DEF BlockAt
        <3>2. BlockStart(ls) + 1 .. BlockEnd(ls) - 1 \subseteq 1 .. Len(ls)
            BY ONLY <1>1, <3>1
        <3> QED
            BY <2>1, <3>2
    <2>2. CASE ~HasBlock(ls)
        BY <2>2
    <2> QED
        BY <2>1, <2>2
<1> HIDE DEF body
<1>3. S \in SUBSET (1 .. Len(ls)) /\ \A n \in S : ls[n].k = "meta"
    BY <1>2
<1>4. Entries(ls) = IF \E n \in body : ls[n].k = "garbled" THEN <<>> ELSE [n \in DOMAIN d |-> ls[d[n]]]
    BY DEF Entries, body
<1> HIDE DEF S
<1>5. IsFiniteSet(S) /\ S \subseteq Nat
    <2>1. IsFiniteSet(1 .. Len(ls))
        BY ONLY <1>1, FS_Interval
    <2>2. IsFiniteSet(S)
        BY ONLY <1>3, <2>1, FS_Subset
    <2>3. S \subseteq Nat
        BY ONLY <1>1, <1>3
    <2> QED
        BY <2>2, <2>3
<1>6. Enumerates(d, Cardinality(S), S)
    BY ONLY <1>5, TopDownFacts
<1> HIDE DEF d
<1>7. Cardinality(S) \in Nat /\ d \in [1 .. Cardinality(S) -> S]
    BY <1>6 DEF Enumerates
<1>8. \A n \in S : ls[n] \in EntryLine
    <2> SUFFICES ASSUME NEW n \in S PROVE ls[n] \in EntryLine
        OBVIOUS
    <2>1. ls[n] \in Line /\ ls[n].k = "meta"
        BY <1>3
    <2> QED
        BY <2>1 DEF Line, EntryLine
<1>9. [n \in DOMAIN d |-> ls[d[n]]] \in [1 .. Cardinality(S) -> EntryLine]
    BY <1>7, <1>8
<1>10. [n \in DOMAIN d |-> ls[d[n]]] \in Seq(EntryLine)
    BY <1>7, <1>9
<1> QED
    BY <1>4, <1>10

-----------------------------------------------------------------------------
(* replaceTag *)

(* The images read from a file.                                            *)
ReadImages(es) ==
    /\ es = [n \in DOMAIN es |-> es[n]]
    /\ \A n \in DOMAIN es : es[n] = [image |-> es[n].image, tag |-> es[n].tag]

(* Images and imageNodes list the items from top to bottom.                *)
LEMMA ImagesFacts ==
    ASSUME NEW ls \in Seq(Line)
    PROVE  /\ ReadImages(Images(ls)) /\ DOMAIN Images(ls) = DOMAIN imageNodes(ls)
           /\ DOMAIN imageNodes(ls) = DOMAIN TopDown(Starts(ls))
           /\ \A k \in DOMAIN imageNodes(ls) :
                 /\ TopDown(Starts(ls))[k] \in Starts(ls)
                 /\ imageNodes(ls)[k] = Node(ls, TopDown(Starts(ls))[k])
           /\ \E N \in Nat : DOMAIN imageNodes(ls) = 1 .. N
<1>1. imagesKeyLine(ls) \in Nat /\ Len(ls) \in Nat
    BY KeyFacts
<1>2. Starts(ls) \subseteq Nat /\ IsFiniteSet(Starts(ls))
    BY <1>1, BlockLines
<1>3. Enumerates(TopDown(Starts(ls)), Cardinality(Starts(ls)), Starts(ls))
    BY ONLY <1>2, TopDownFacts
<1>4. /\ Cardinality(Starts(ls)) \in Nat
      /\ TopDown(Starts(ls)) \in [1 .. Cardinality(Starts(ls)) -> Starts(ls)]
    BY <1>3 DEF Enumerates
<1>5. /\ DOMAIN imageNodes(ls) = DOMAIN TopDown(Starts(ls))
      /\ \A k \in DOMAIN imageNodes(ls) : imageNodes(ls)[k] = Node(ls, TopDown(Starts(ls))[k])
    BY DEF imageNodes
<1>6. ReadImages(Images(ls)) /\ DOMAIN Images(ls) = DOMAIN imageNodes(ls)
    BY DEF Images, ReadImages
<1> QED
    BY <1>4, <1>5, <1>6

(* An entry keeps its image; its tag changes to the pushed one or not.     *)
Replaced(es, u, n) ==
    /\ n \notin changedNewTags(es, u) => replaceTag(es, u)[n] = es[n]
    /\ n \in changedNewTags(es, u) =>
          /\ Selects(es[n], u)
          /\ replaceTag(es, u)[n] = [image |-> es[n].image, tag |-> u.tag]

(* That is so for every entry, and the number of entries stays.            *)
LEMMA ReplaceTagFacts ==
    ASSUME NEW es, ReadImages(es), NEW u
    PROVE  /\ DOMAIN replaceTag(es, u) = DOMAIN es
           /\ ReadImages(replaceTag(es, u))
           /\ changedNewTags(es, u) \subseteq DOMAIN es
           /\ \A n \in DOMAIN es : Replaced(es, u, n)
<1> DEFINE R == replaceTag(es, u)
<1>1. DOMAIN R = DOMAIN es /\ R = [n \in DOMAIN es |-> R[n]]
    BY DEF replaceTag
<1>2. ASSUME NEW n \in DOMAIN es
      PROVE  R[n] = IF Selects(es[n], u) THEN [es[n] EXCEPT !.tag = u.tag] ELSE es[n]
    BY DEF replaceTag
<1>3. ASSUME NEW n \in DOMAIN es
      PROVE  /\ es[n] = [image |-> es[n].image, tag |-> es[n].tag]
             /\ [es[n] EXCEPT !.tag = u.tag] = [image |-> es[n].image, tag |-> u.tag]
    <2>1. es[n] = [image |-> es[n].image, tag |-> es[n].tag]
        BY DEF ReadImages
    <2> QED
        BY <2>1
<1>4. changedNewTags(es, u) = {n \in DOMAIN es : R[n].tag # es[n].tag}
    BY DEF changedNewTags
<1> HIDE DEF R
<1>5. ASSUME NEW n \in DOMAIN es
      PROVE  /\ R[n] = [image |-> R[n].image, tag |-> R[n].tag]
             /\ R[n].tag = es[n].tag => R[n] = es[n]
             /\ R[n].tag # es[n].tag =>
                   Selects(es[n], u) /\ R[n] = [image |-> es[n].image, tag |-> u.tag]
    <2>1. CASE Selects(es[n], u)
        <3>1. R[n] = [image |-> es[n].image, tag |-> u.tag]
            BY <1>2, <1>3, <2>1
        <3>2. R[n].tag = u.tag /\ R[n].image = es[n].image
            BY <3>1
        <3> QED
            BY <1>2, <1>3, <2>1, <3>1, <3>2
    <2>2. CASE ~Selects(es[n], u)
        BY <1>2, <1>3, <2>2
    <2> QED
        BY <2>1, <2>2
<1> QED
    BY <1>1, <1>4, <1>5 DEF R, ReadImages, Replaced

(* Applied a second time, replaceTag finds the update managed and has      *)
(* nothing to change.                                                      *)
LEMMA ReplaceTagIdempotent ==
    ASSUME NEW es, ReadImages(es), NEW u, changedNewTags(es, u) # {}
    PROVE  /\ Managed(replaceTag(es, u), u)
           /\ changedNewTags(replaceTag(es, u), u) = {}
<1> DEFINE R == replaceTag(es, u)
<1>1. DOMAIN R = DOMAIN es
    BY DEF replaceTag
<1>2. ASSUME NEW n \in DOMAIN es
      PROVE  R[n] = IF Selects(es[n], u) THEN [image |-> es[n].image, tag |-> u.tag] ELSE es[n]
    <2>1. es[n] = [image |-> es[n].image, tag |-> es[n].tag]
        BY DEF ReadImages
    <2>2. [es[n] EXCEPT !.tag = u.tag] = [image |-> es[n].image, tag |-> u.tag]
        BY <2>1
    <2>3. R[n] = IF Selects(es[n], u) THEN [es[n] EXCEPT !.tag = u.tag] ELSE es[n]
        BY DEF replaceTag
    <2> QED
        BY <2>2, <2>3
<1> HIDE DEF R
<1>3. Managed(R, u)
    <2>1. PICK n \in DOMAIN es : Selects(es[n], u)
        BY ReplaceTagFacts DEF Replaced
    <2>2. R[n] = [image |-> es[n].image, tag |-> u.tag]
        BY <1>2, <2>1
    <2>3. R[n].image = es[n].image /\ R[n].tag = u.tag
        BY <2>2
    <2>4. Refers(R[n], u) /\ (HasIdentifier(u.tag) => Selects(R[n], u))
        BY <2>1, <2>3 DEF Selects, Refers
    <2> QED
        BY <1>1, <2>4 DEF Managed
<1>4. ASSUME NEW n \in DOMAIN R, Selects(R[n], u) PROVE R[n].tag = u.tag
    BY <1>1, <1>2, <1>4
<1>5. ASSUME NEW n \in DOMAIN R PROVE replaceTag(R, u)[n].tag = R[n].tag
    <2>1. R[n] = [image |-> R[n].image, tag |-> R[n].tag]
        BY <1>1, ReplaceTagFacts DEF ReadImages, R
    <2>2. replaceTag(R, u)[n] = IF Selects(R[n], u) THEN [R[n] EXCEPT !.tag = u.tag] ELSE R[n]
        BY DEF replaceTag
    <2>3. [R[n] EXCEPT !.tag = u.tag].tag = u.tag
        BY <2>1
    <2> QED
        BY <1>4, <2>2, <2>3
<1>6. changedNewTags(R, u) = {}
    BY <1>5 DEF changedNewTags
<1> QED
    BY <1>3, <1>6 DEF R

(* A tag with an identifier is only replaced by one with the same.         *)
LEMMA ReplaceTagKeepsIdentifier ==
    ASSUME NEW es, ReadImages(es), NEW u, NEW n \in DOMAIN es, HasIdentifier(es[n].tag)
    PROVE  LET new == replaceTag(es, u)[n].tag
           IN  HasIdentifier(new) /\ tagIdentifier(new) = tagIdentifier(es[n].tag)
<1>0. Replaced(es, u, n)
    BY ReplaceTagFacts
<1>1. CASE n \in changedNewTags(es, u)
    <2>1. Selects(es[n], u) /\ replaceTag(es, u)[n] = [image |-> es[n].image, tag |-> u.tag]
        BY <1>0, <1>1 DEF Replaced
    <2>2. replaceTag(es, u)[n].tag = u.tag
        BY <2>1
    <2> QED
        BY <2>1, <2>2 DEF Selects
<1>2. CASE n \notin changedNewTags(es, u)
    BY <1>0, <1>2 DEF Replaced
<1> QED
    BY <1>1, <1>2

-----------------------------------------------------------------------------
(* The specification *)

(* The files the theorems are about: no item in flow style, whose closing  *)
(* brace an edit may remove, and one block entry per image.                *)
Regular(f) == NoFlow(f) /\ OnePerImage(Entries(f))
RegularFiles == \A f \in Files : Regular(f)

(* While tags are set: what is to do was recorded by parse and still has   *)
(* the recorded line numbers, because nothing above was edited; what is    *)
(* done reads as replaceTag decided.                                       *)
TagsPending ==
    LET old == Images(file)  new == replaceTag(old, update)
    IN  /\ todo \subseteq changedNewTags(old, update)
        /\ DOMAIN imageNodes(lines) = DOMAIN nodes
        /\ \A k \in DOMAIN nodes, j \in todo : k <= j => imageNodes(lines)[k] = nodes[k]
        /\ Images(lines) = [k \in DOMAIN old |-> IF k \in todo THEN old[k] ELSE new[k]]

(* A Patch that edits: the lines can be read as often as they are edited,  *)
(* and keep the rest of the file.                                          *)
Patching ==
    /\ Parses(file) /\ nodes = imageNodes(file)
    /\ changedNewTags(Images(file), update) # {}
    /\ lines \in Seq(Line) /\ NoFlow(lines) /\ Parses(lines) /\ Rest(lines) = Rest(file)
    /\ pc = "tags" => TagsPending
    /\ pc \in {"block", "write"} => Images(lines) = replaceTag(Images(file), update)
    /\ pc \in {"tags", "block"} => Entries(lines) = Entries(file)
    /\ pc = "write" =>
          /\ OnePerImage(Entries(lines))
          /\ update.meta \notin {"none", "marker"} =>
                Merged(Entries(lines), Entries(file), Meta(update.image, update.meta))

(* The inductive invariant.                                                *)
PatchInv ==
    /\ TypeOK
    /\ file \in Seq(Line) /\ Regular(file)
    /\ pc # "idle" => Patching
    /\ RedeliveryIsNoop

(* The initial files are regular and nothing was written.                  *)
LEMMA InitPatch ==
    ASSUME RegularFiles, Init PROVE PatchInv
<1>1. file \in Seq(Line) /\ Regular(file)
    BY KustomizeConstants DEF Init, RegularFiles
<1>2. update \in Updates /\ MaxPatches \in Nat
    BY KustomizeConstants DEF Init
<1>3. TypeOK
    BY <1>2 DEF Init, TypeOK
<1> QED
    BY <1>1, <1>3 DEF Init, PatchInv, RedeliveryIsNoop

(* The block that is put in the place of the old one.                      *)
LEMMA RebuiltFacts ==
    ASSUME lines \in Seq(Line), NoFlow(lines), Parses(lines), OnePerImage(Entries(lines)),
           update \in Updates
    PROVE  /\ Rebuilt \in Seq(Line) /\ NoFlow(Rebuilt) /\ Parses(Rebuilt)
           /\ Images(Rebuilt) = Images(lines) /\ Rest(Rebuilt) = Rest(lines)
           /\ Merged(Entries(Rebuilt), Entries(lines), Meta(update.image, update.meta))
<1> DEFINE e == Meta(update.image, update.meta)
           es == Upsert(Entries(lines), e)
           from == IF HasBlock(lines) THEN BlockStart(lines) ELSE RegionStart(lines)
           upto == IF HasBlock(lines) THEN BlockEnd(lines) + 1 ELSE RegionStart(lines)
<1>1. imagesKeyLine(lines) > 0
    BY DEF Parses
<1>2. e \in EntryLine
    BY KustomizeConstants DEF Meta, EntryLine
<1>3. Entries(lines) \in Seq(EntryLine)
    BY <1>1, EntriesFacts
<1> HIDE DEF e
<1>4. Merged(es, Entries(lines), e)
    BY <1>2, <1>3, UpsertFacts
<1>5. es \in Seq(EntryLine)
    BY <1>4 DEF Merged
<1> HIDE DEF es
<1>6. es \in Seq(Line) /\ \A n \in 1 .. Len(es) : es[n].k = "meta"
    <2>1. \A x \in EntryLine : x \in Line /\ x.k = "meta"
        BY DEF EntryLine, Line
    <2>2. Len(es) \in Nat /\ es \in [1 .. Len(es) -> EntryLine]
        BY <1>5
    <2>3. es \in [1 .. Len(es) -> Line] /\ \A n \in 1 .. Len(es) : es[n].k = "meta"
        BY <2>1, <2>2
    <2> QED
        BY <2>2, <2>3
<1>7. OldBlock(lines, from, upto)
    BY DEF OldBlock
<1>8. Rebuilt = SubSeq(lines, 1, from - 1) \o <<Begin>> \o es \o <<End>> \o SubSeq(lines, upto, Len(lines))
    BY DEF Rebuilt, WithBlock, es, e
<1> HIDE DEF from, upto
<1>9. from \in 1 .. Len(lines) /\ upto \in from .. Len(lines)
    <2>1. /\ imagesKeyLine(lines) \in 1 .. Len(lines) /\ RegionStart(lines) \in 1 .. imagesKeyLine(lines)
          /\ from \in RegionStart(lines) .. imagesKeyLine(lines)
          /\ upto \in from .. imagesKeyLine(lines)
        BY <1>1, <1>7, OldBlockFacts
    <2> QED
        BY <2>1
<1>10. Spliced(Rebuilt, lines, from, upto, es)
    BY <1>6, <1>8, <1>9, SpliceFacts
<1>11. Rebuilt \in Seq(Line)
    BY <1>10 DEF Spliced
<1>12. NoFlow(Rebuilt) /\ Parses(Rebuilt) /\ Images(Rebuilt) = Images(lines)
    BY <1>6, <1>7, <1>10, SplicedReads
<1>13. Entries(Rebuilt) = es
    BY <1>6, <1>7, <1>10, SplicedBlock
<1>14. Rest(Rebuilt) = Rest(lines)
    BY <1>6, <1>7, <1>10, SplicedRest
<1> QED
    BY <1>4, <1>11, <1>12, <1>13, <1>14 DEF e

(* Patch begins with what parse recorded.                                  *)
LEMMA PatchBegins ==
    ASSUME PatchInv, NEW u \in Updates, Patch(u) PROVE PatchInv'
<1> DEFINE old == Images(file)
           changed == changedNewTags(old, u)
<1>1. /\ pc = "idle" /\ patches < MaxPatches /\ patches' = patches + 1 /\ update' = u /\ file' = file
      /\ TypeOK /\ file \in Seq(Line) /\ Regular(file)
    BY DEF Patch, PatchInv
<1>2. patches' \in 0 .. MaxPatches
    BY <1>1, KustomizeConstants DEF TypeOK
<1>3. CASE \E r \in {"ErrInvalidManifest", "ErrImageNotManaged", "ErrNoDifference"} : Return(r)
    <2>1. PICK r \in {"ErrInvalidManifest", "ErrImageNotManaged", "ErrNoDifference"} : Return(r)
        BY <1>3
    <2>2. pc' = "idle" /\ result' = r /\ r # "nil"
        BY <2>1 DEF Return
    <2>3. TypeOK'
        BY <1>1, <1>2, <2>2 DEF TypeOK
    <2>4. RedeliveryIsNoop'
        BY <2>2 DEF RedeliveryIsNoop
    <2> QED
        BY <1>1, <2>2, <2>3, <2>4 DEF PatchInv
<1>4. CASE /\ Parses(file) /\ changed # {} /\ pc' = "tags" /\ lines' = file
           /\ nodes' = imageNodes(file) /\ todo' = changed /\ UNCHANGED result
    <2>1. /\ ReadImages(old) /\ DOMAIN old = DOMAIN imageNodes(file)
          /\ changed \subseteq DOMAIN old
        BY <1>1, ImagesFacts, ReplaceTagFacts
    <2>2. ASSUME NEW k \in DOMAIN old, k \notin changed PROVE replaceTag(old, u)[k] = old[k]
        <3>1. Replaced(old, u, k)
            BY <2>1, ReplaceTagFacts
        <3> QED
            BY <2>2, <3>1 DEF Replaced
    <2>3. TypeOK'
        BY <1>1, <1>2, <1>4, <2>1 DEF TypeOK
    <2> HIDE DEF old
    <2>4. old = [k \in DOMAIN old |-> IF k \in changed THEN old[k] ELSE replaceTag(old, u)[k]]
        <3>1. old = [k \in DOMAIN old |-> old[k]]
            BY <2>1 DEF ReadImages
        <3> HIDE DEF changed
        <3> QED
            BY <2>2, <3>1
    <2>5. TagsPending'
        BY <1>1, <1>4, <2>1, <2>4 DEF TagsPending, old
    <2>6. Patching'
        <3>1. NoFlow(file)
            BY <1>1 DEF Regular
        <3> QED
            BY <1>1, <1>4, <2>5, <3>1 DEF Patching, old
    <2>7. RedeliveryIsNoop'
        BY <1>4 DEF RedeliveryIsNoop
    <2> QED
        BY <1>1, <2>3, <2>6, <2>7 DEF PatchInv
<1> QED
    BY <1>3, <1>4 DEF Patch

(* The edit of the lowest entry that is left, at the lines recorded for it.*)
LEMMA TagIsSet ==
    ASSUME PatchInv, SetNewTag PROVE PatchInv'
<1> DEFINE old == Images(file)
           new == replaceTag(old, update)
           k == Max(todo)
           d == TopDown(Starts(lines))
<1>1. /\ pc = "tags" /\ lines' = Edited(nodes[k], update.tag) /\ todo' = todo \ {k}
      /\ pc' = (IF todo' = {} THEN "block" ELSE "tags")
      /\ file' = file /\ update' = update /\ nodes' = nodes /\ patches' = patches /\ result' = result
    BY DEF SetNewTag, NextIndex
<1>2. TypeOK /\ file \in Seq(Line) /\ Regular(file) /\ Patching /\ TagsPending
    BY <1>1 DEF PatchInv, Patching
<1>3. /\ Parses(file) /\ nodes = imageNodes(file) /\ changedNewTags(old, update) # {}
      /\ lines \in Seq(Line) /\ NoFlow(lines) /\ Parses(lines) /\ Rest(lines) = Rest(file)
      /\ Entries(lines) = Entries(file)
    BY <1>1, <1>2 DEF Patching
<1>4. /\ todo \subseteq changedNewTags(old, update)
      /\ DOMAIN imageNodes(lines) = DOMAIN nodes
      /\ \A l \in DOMAIN nodes, j \in todo : l <= j => imageNodes(lines)[l] = nodes[l]
      /\ Images(lines) = [l \in DOMAIN old |-> IF l \in todo THEN old[l] ELSE new[l]]
    BY <1>2 DEF TagsPending
<1>5. todo # {} /\ todo \subseteq DOMAIN nodes /\ update \in Updates
    BY <1>1, <1>2 DEF TypeOK
<1>6. PICK N \in Nat : DOMAIN nodes = 1 .. N
    BY <1>2, <1>3, ImagesFacts
<1>7. ReadImages(old) /\ DOMAIN old = DOMAIN nodes
    BY <1>2, <1>3, ImagesFacts
<1>8. k \in todo /\ \A j \in todo : j <= k
    <2>1. todo \subseteq 0 .. N
        BY <1>5, <1>6
    <2> QED
        BY ONLY <1>5, <2>1, MaxFacts
<1> HIDE DEF old, new, k
<1>9. k \in DOMAIN nodes /\ k \in Nat
    BY <1>5, <1>6, <1>8
<1>10. /\ k \in DOMAIN d /\ d[k] \in Starts(lines) /\ imageNodes(lines)[k] = Node(lines, d[k])
    BY <1>3, <1>4, <1>9, ImagesFacts
<1>11. nodes[k] = Node(lines, d[k])
    <2>1. k <= k
        BY <1>9
    <2> QED
        BY <1>4, <1>8, <1>9, <1>10, <2>1
<1>12. update.tag \in Tag
    BY <1>5, KustomizeConstants
<1>13. PICK g : TagEdit(g, lines, lines', d[k], update.tag)
    BY <1>1, <1>3, <1>10, <1>11, <1>12, EditedEdits
<1>14. /\ Parses(lines')
       /\ DOMAIN imageNodes(lines') = DOMAIN imageNodes(lines)
       /\ \A l \in DOMAIN imageNodes(lines) : l < k => imageNodes(lines')[l] = imageNodes(lines)[l]
       /\ Images(lines') = [Images(lines) EXCEPT ![k].tag = update.tag]
    BY <1>3, <1>10, <1>13, TagEditReads
<1>15. Rest(lines') = Rest(lines) /\ Entries(lines') = Entries(lines)
    <2>1. imagesKeyLine(lines) > 0
        BY <1>3 DEF Parses
    <2> QED
        BY <1>3, <1>13, <2>1, TagEditKeeps
<1>16. lines' \in Seq(Line) /\ NoFlow(lines')
    BY <1>13 DEF TagEdit
<1>17. Images(lines') = [l \in DOMAIN old |-> IF l \in todo' THEN old[l] ELSE new[l]]
    <2>1. Replaced(old, update, k)
        BY <1>7, <1>9, ReplaceTagFacts
    <2>2. new[k] = [image |-> old[k].image, tag |-> update.tag]
        BY <1>4, <1>8, <2>1 DEF Replaced, new
    <2>3. old[k] = [image |-> old[k].image, tag |-> old[k].tag]
        BY <1>7, <1>9 DEF ReadImages
    <2>4. [old[k] EXCEPT !.tag = update.tag] = new[k]
        BY <2>2, <2>3
    <2>5. Images(lines)[k] = old[k] /\ DOMAIN Images(lines) = DOMAIN old
        BY <1>4, <1>7, <1>8, <1>9
    <2>6. Images(lines') = [l \in DOMAIN old |-> IF l = k THEN new[k] ELSE Images(lines)[l]]
        <3>1. Images(lines) = [l \in DOMAIN old |-> Images(lines)[l]]
            BY <1>4, <2>5
        <3>2. Images(lines') = [Images(lines) EXCEPT ![k] = [Images(lines)[k] EXCEPT !.tag = update.tag]]
            BY <1>14
        <3>3. Images(lines') = [Images(lines) EXCEPT ![k] = new[k]]
            BY <2>4, <2>5, <3>2
        <3> QED
            BY <1>7, <1>9, <3>1, <3>3
    <2> QED
        BY <1>1, <1>4, <2>6
<1>18. TypeOK'
    BY <1>1, <1>2, <1>5 DEF TypeOK
<1>19. ASSUME todo' # {} PROVE TagsPending'
    <2>1. todo' \subseteq changedNewTags(old, update)
        BY <1>1, <1>4
    <2>2. ASSUME NEW l \in DOMAIN nodes, NEW j \in todo', l <= j PROVE imageNodes(lines')[l] = nodes[l]
        <3>1. j \in todo /\ j \in Nat /\ l \in Nat /\ j # k /\ j <= k
            BY <1>1, <1>5, <1>6, <1>8
        <3>2. l < k
            BY <1>9, <2>2, <3>1
        <3> QED
            BY <1>4, <1>14, <2>2, <3>1, <3>2
    <2> QED
        BY <1>1, <1>4, <1>14, <1>17, <2>1, <2>2 DEF TagsPending, old, new
<1>20. ASSUME todo' = {} PROVE Images(lines') = new
    <2>1. new = [l \in DOMAIN old |-> new[l]]
        BY <1>7, ReplaceTagFacts DEF ReadImages, new
    <2>2. Images(lines') = [l \in DOMAIN old |-> new[l]]
        BY <1>17, <1>20
    <2> QED
        BY <2>1, <2>2
<1>21. Patching'
    <2>1. /\ Parses(file') /\ nodes' = imageNodes(file') /\ changedNewTags(Images(file'), update') # {}
          /\ Rest(lines') = Rest(file') /\ Entries(lines') = Entries(file')
        BY <1>1, <1>3, <1>15 DEF old
    <2>2. CASE todo' = {}
        <3>1. pc' = "block" /\ Images(lines') = replaceTag(Images(file'), update')
            BY <1>1, <1>20, <2>2 DEF old, new
        <3> QED
            BY <1>14, <1>16, <2>1, <3>1 DEF Patching
    <2>3. CASE todo' # {}
        <3>1. pc' = "tags"
            BY <1>1, <2>3
        <3> QED
            BY <1>14, <1>16, <1>19, <2>1, <2>3, <3>1 DEF Patching
    <2> QED
        BY <2>2, <2>3
<1> QED
    BY <1>1, <1>2, <1>18, <1>21 DEF PatchInv, RedeliveryIsNoop

(* The block step keeps the images and the rest.                           *)
LEMMA BlockIsSet ==
    ASSUME PatchInv, UpsertImageManifest PROVE PatchInv'
<1>1. /\ pc = "block" /\ pc' = "write"
      /\ lines' = (IF update.meta \in {"none", "marker"} THEN lines ELSE Rebuilt)
      /\ file' = file /\ update' = update /\ nodes' = nodes /\ todo' = todo /\ patches' = patches
      /\ result' = result
    BY DEF UpsertImageManifest
<1>2. /\ TypeOK /\ file \in Seq(Line) /\ Regular(file) /\ Patching /\ update \in Updates
    BY <1>1 DEF PatchInv, TypeOK
<1>3. /\ Parses(file) /\ nodes = imageNodes(file) /\ changedNewTags(Images(file), update) # {}
      /\ lines \in Seq(Line) /\ NoFlow(lines) /\ Parses(lines) /\ Rest(lines) = Rest(file)
      /\ Images(lines) = replaceTag(Images(file), update)
      /\ Entries(lines) = Entries(file) /\ OnePerImage(Entries(lines))
    BY <1>1, <1>2 DEF Patching, Regular
<1>4. CASE update.meta \in {"none", "marker"}
    <2>1. lines' = lines
        BY <1>1, <1>4
    <2>2. Patching'
        BY <1>1, <1>3, <1>4, <2>1 DEF Patching
    <2>3. TypeOK'
        BY <1>1, <1>2 DEF TypeOK
    <2> QED
        BY <1>1, <1>2, <2>2, <2>3 DEF PatchInv, RedeliveryIsNoop
<1>5. CASE update.meta \notin {"none", "marker"}
    <2>1. lines' = Rebuilt
        BY <1>1, <1>5
    <2>2. /\ lines' \in Seq(Line) /\ NoFlow(lines') /\ Parses(lines')
          /\ Images(lines') = Images(lines) /\ Rest(lines') = Rest(lines)
          /\ Merged(Entries(lines'), Entries(lines), Meta(update.image, update.meta))
        BY <1>2, <1>3, <2>1, RebuiltFacts
    <2>3. OnePerImage(Entries(lines'))
        BY <2>2, SortedOnePerImage DEF Merged
    <2>4. Patching'
        BY <1>1, <1>3, <2>2, <2>3 DEF Patching
    <2>5. TypeOK'
        BY <1>1, <1>2 DEF TypeOK
    <2> QED
        BY <1>1, <1>2, <2>4, <2>5 DEF PatchInv, RedeliveryIsNoop
<1> QED
    BY <1>4, <1>5

(* The written file is regular again, and holds the update.                *)
LEMMA FileIsWritten ==
    ASSUME PatchInv, Write PROVE PatchInv'
<1>1. pc = "write" /\ file' = lines /\ update' = update /\ patches' = patches
      /\ pc' = "idle" /\ result' = "nil"
    BY DEF Write, Return
<1>2. /\ TypeOK /\ file \in Seq(Line) /\ Patching
    BY <1>1 DEF PatchInv
<1>3. /\ changedNewTags(Images(file), update) # {}
      /\ lines \in Seq(Line) /\ NoFlow(lines) /\ OnePerImage(Entries(lines))
      /\ Images(lines) = replaceTag(Images(file), update)
    BY <1>1, <1>2 DEF Patching
<1>4. ReadImages(Images(file))
    BY <1>2, ImagesFacts
<1>5. Managed(Images(lines), update) /\ changedNewTags(Images(lines), update) = {}
    BY <1>3, <1>4, ReplaceTagIdempotent
<1>6. RedeliveryIsNoop'
    BY <1>1, <1>5 DEF RedeliveryIsNoop
<1>7. TypeOK'
    BY <1>1, <1>2 DEF TypeOK
<1> QED
    BY <1>1, <1>3, <1>6, <1>7 DEF PatchInv, Regular

(* Every step keeps the invariant.                                         *)
LEMMA NextPatch ==
    ASSUME PatchInv, [Next]_vars PROVE PatchInv'
<1>1. CASE UNCHANGED vars
    BY <1>1 DEF vars, PatchInv, TypeOK, Patching, TagsPending, RedeliveryIsNoop
<1>2. ASSUME NEW u \in Updates, Patch(u) PROVE PatchInv'
    BY <1>2, PatchBegins
<1>3. CASE SetNewTag
    BY <1>3, TagIsSet
<1>4. CASE UpsertImageManifest
    BY <1>4, BlockIsSet
<1>5. CASE Write
    BY <1>5, FileIsWritten
<1>6. CASE Fails
    <2>1. pc' = "idle" /\ result' = "retryable" /\ file' = file /\ update' = update /\ patches' = patches
        BY <1>6 DEF Fails, Return
    <2> QED
        BY <2>1 DEF PatchInv, TypeOK, RedeliveryIsNoop
<1>7. CASE SetNewTagFails
    <2>1. pc' = "idle" /\ result' = "ErrInvalidManifest" /\ file' = file /\ update' = update /\ patches' = patches
        BY <1>7 DEF SetNewTagFails, Return
    <2> QED
        BY <2>1 DEF PatchInv, TypeOK, RedeliveryIsNoop
<1> QED
    BY <1>1, <1>2, <1>3, <1>4, <1>5, <1>6, <1>7 DEF Next

(* From regular files, the invariant holds throughout every history.       *)
LEMMA PatchInvariant ==
    ASSUME RegularFiles PROVE Spec => []PatchInv
<1>1. Init => PatchInv
    BY InitPatch
<1>2. PatchInv /\ [Next]_vars => PatchInv'
    BY NextPatch
<1> QED
    BY <1>1, <1>2, PTL DEF Spec

(* Patch: whatever the files, a Patch that edits has something left to     *)
(* edit, of what it has parsed, before every step of setNewTags.           *)
THEOREM PatchTypes == Spec => []TypeOK
<1>1. Init => TypeOK
    BY KustomizeConstants DEF Init, TypeOK
<1>2. ASSUME TypeOK, [Next]_vars PROVE TypeOK'
    <2>1. CASE UNCHANGED vars
        BY <1>2, <2>1 DEF TypeOK, vars
    <2>2. ASSUME NEW u \in Updates, Patch(u) PROVE TypeOK'
        <3>1. patches' \in 0 .. MaxPatches /\ update' \in Updates
            BY <1>2, <2>2, KustomizeConstants DEF TypeOK, Patch
        <3>2. changedNewTags(Images(file), u) \subseteq DOMAIN imageNodes(file)
            BY DEF changedNewTags, Images
        <3> QED
            BY <1>2, <2>2, <3>1, <3>2 DEF TypeOK, Patch, Return
    <2>3. CASE SetNewTag
        BY <1>2, <2>3 DEF TypeOK, SetNewTag
    <2>4. CASE UpsertImageManifest
        BY <1>2, <2>4 DEF TypeOK, UpsertImageManifest
    <2>5. CASE Write \/ Fails \/ SetNewTagFails
        BY <1>2, <2>5 DEF TypeOK, Write, Fails, SetNewTagFails, Return
    <2> QED
        BY <1>2, <2>1, <2>2, <2>3, <2>4, <2>5 DEF Next
<1> QED
    BY <1>1, <1>2, PTL DEF Spec

(* setNewTags: whatever number of items lack a newTag and wherever lines   *)
(* are inserted, the edited file reads back as replaceTag decided, because *)
(* the edits run from the bottom upwards and leave the recorded line       *)
(* numbers of the items above in place.                                    *)
THEOREM PatchEditsMatch ==
    ASSUME RegularFiles PROVE Spec => []EditsMatch
<1>1. PatchInv => EditsMatch
    BY DEF PatchInv, Patching, EditsMatch
<1> QED
    BY <1>1, PatchInvariant, PTL

(* Patch: every line that is neither a newTag nor of the managed block     *)
(* survives, in its place among the others.                                *)
THEOREM PatchRestUntouched ==
    ASSUME RegularFiles PROVE Spec => []RestUntouched
<1>1. PatchInv => RestUntouched
    BY DEF PatchInv, Patching, RestUntouched
<1> QED
    BY <1>1, PatchInvariant, PTL

(* Patch: in the file it has written, the update is managed and changes    *)
(* nothing, so that a redelivery ends with ErrNoDifference.                *)
THEOREM PatchRedeliveryIsNoop ==
    ASSUME RegularFiles PROVE Spec => []RedeliveryIsNoop
<1>1. PatchInv => RedeliveryIsNoop
    BY DEF PatchInv
<1> QED
    BY <1>1, PatchInvariant, PTL

(* replaceTag: an entry with an identifier never moves to another branch   *)
(* or to a plain tag.                                                      *)
THEOREM PatchIdentifierKept ==
    ASSUME RegularFiles PROVE Spec => []IdentifierKept
<1>1. ASSUME PatchInv PROVE IdentifierKept
    <2> SUFFICES ASSUME pc = "write", NEW n \in DOMAIN Images(file), HasIdentifier(Images(file)[n].tag)
                 PROVE  /\ HasIdentifier(Images(lines)[n].tag)
                        /\ tagIdentifier(Images(lines)[n].tag) = tagIdentifier(Images(file)[n].tag)
        BY DEF IdentifierKept
    <2>1. Images(lines) = replaceTag(Images(file), update) /\ file \in Seq(Line)
        BY <1>1 DEF PatchInv, Patching
    <2>2. ReadImages(Images(file))
        BY <2>1, ImagesFacts
    <2> QED
        BY <2>1, <2>2, ReplaceTagKeepsIdentifier
<1> QED
    BY <1>1, PatchInvariant, PTL

(* upsertImageManifest: the block that is written is sorted, has the entry *)
(* of the update and one for every other image that had one.               *)
THEOREM PatchBlockMerged ==
    ASSUME RegularFiles PROVE Spec => []BlockMerged
<1>1. PatchInv => BlockMerged
    BY DEF PatchInv, Patching, BlockMerged, Merged, Meta
<1> QED
    BY <1>1, PatchInvariant, PTL

=============================================================================
