------------------------- MODULE ManifestTreeProofs -------------------------
(***************************************************************************)
(* Proofs about Resolve, for every tree, every list of patterns and every  *)
(* order in which the walk visits what it finds.                           *)
(***************************************************************************)
EXTENDS ManifestTree, SequenceTheorems, TLAPS

-----------------------------------------------------------------------------
(* The inductive invariant *)

(* A source that can be resolved.                                          *)
Good(p) == Passable(p) /\ Reached(p) # {}

(* What the first n sources ask for.                                       *)
Wanted(n) ==
    UNION {{[dir |-> d, settings |-> sources[l].settings] : d \in Reached(sources[l].pattern)} :
              l \in 1 .. n}

(* The components rejectSymlinkPath has passed are there and are no links. *)
Looked ==
    /\ at \in 0 .. Len(FixedPart(pattern))
    /\ \A k \in 1 .. at : KindOf(SubSeq(FixedPart(pattern), 1, k)) \in {"dir", "file"}

(* The walk: nothing that is yet to be visited lies in a .git, what was    *)
(* found is right, and the way to what was not found leads through a path  *)
(* that is yet to be visited.                                              *)
WalkInv ==
    /\ i <= Len(sources) /\ Recursive(pattern) /\ Passable(pattern)
    /\ \A p \in todo :
          /\ p \in Paths /\ tree[p] # "absent"
          /\ \A k \in 1 .. Len(p) - 1 : k >= Len(FixedPart(pattern)) => p[k] # GitDir
    /\ matches \subseteq Reached(pattern)
    /\ \A d \in Reached(pattern) \ matches :
          \E k \in Len(FixedPart(pattern)) .. Len(d) + 1 :
              SubSeq(Append(d, FileName), 1, k) \in todo

(* Why resolveManifestTargets returned.                                    *)
Ended ==
    \/ err = "canceled"
    \/ /\ err \in {"ErrManifestNotFound", "ErrInvalidManifest", "other"}
       /\ i <= Len(sources) /\ ~Good(pattern)
    \/ err = "ErrIncompleteRule" /\ i = Len(sources) + 1 /\ Conflict
    \/ err = "none" /\ i = Len(sources) + 1 /\ ~Conflict

TreeInv ==
    /\ tree \in TreePool /\ sources \in SourcePool
    /\ pc \in {"inspect", "walk", "done"}
    /\ i \in 1 .. Len(sources) + 1
    /\ \A l \in 1 .. i - 1 : Good(sources[l].pattern)
    /\ resolved = Wanted(i - 1)
    /\ pc = "inspect" => matches = {} /\ (i <= Len(sources) => Looked)
    /\ pc = "walk" => WalkInv
    /\ pc # "done" => err = "none"
    /\ pc = "done" => Ended

-----------------------------------------------------------------------------
(* Paths *)

(* A beginning of a path is a path with the same first segments.           *)
LEMMA BeginningOf ==
    ASSUME NEW s \in Seq(STRING), NEW k \in 0 .. Len(s)
    PROVE  /\ SubSeq(s, 1, k) \in Seq(STRING) /\ Len(SubSeq(s, 1, k)) = k
           /\ \A l \in 1 .. k : SubSeq(s, 1, k)[l] = s[l]
<1>1. Len(s) \in Nat /\ \A l \in 1 .. k : s[l] \in STRING
    OBVIOUS
<1>2. k \in Int /\ 1 \in Int /\ k - 1 + 1 = k
    BY <1>1
<1>3. /\ SubSeq(s, 1, k) \in Seq(STRING) /\ Len(SubSeq(s, 1, k)) = (IF 1 <= k THEN k - 1 + 1 ELSE 0)
      /\ \A l \in 1 .. k - 1 + 1 : SubSeq(s, 1, k)[l] = s[1 + l - 1]
    BY <1>1, <1>2, SubSeqProperties
<1>4. \A l \in 1 .. k : 1 + l - 1 = l
    BY <1>1
<1> QED
    BY <1>1, <1>2, <1>3, <1>4

(* Two paths with the same segments are one.                               *)
LEMMA SamePath ==
    ASSUME NEW s \in Seq(STRING), NEW t \in Seq(STRING), Len(s) = Len(t),
           \A k \in 1 .. Len(s) : s[k] = t[k]
    PROVE  s = t
BY SeqEqual

(* A path is its own longest beginning.                                   *)
LEMMA WholePath == ASSUME NEW s \in Seq(STRING) PROVE SubSeq(s, 1, Len(s)) = s
BY SubSeqFull

(* A beginning of a beginning is a beginning of the path.                 *)
LEMMA BeginningOfBeginning ==
    ASSUME NEW s \in Seq(STRING), NEW k \in 0 .. Len(s), NEW l \in 0 .. k
    PROVE  SubSeq(SubSeq(s, 1, k), 1, l) = SubSeq(s, 1, l)
<1>1. Len(s) \in Nat /\ l \in 0 .. Len(s)
    OBVIOUS
<1> DEFINE b == SubSeq(s, 1, k)
           c == SubSeq(b, 1, l)
           d == SubSeq(s, 1, l)
<1>2. b \in Seq(STRING) /\ Len(b) = k /\ \A m \in 1 .. k : b[m] = s[m]
    BY BeginningOf
<1> HIDE DEF b
<1>3. c \in Seq(STRING) /\ Len(c) = l /\ \A m \in 1 .. l : c[m] = b[m]
    <2>1. l \in 0 .. Len(b)
        BY <1>2
    <2> QED
        BY <1>2, <2>1, BeginningOf
<1>4. d \in Seq(STRING) /\ Len(d) = l /\ \A m \in 1 .. l : d[m] = s[m]
    BY <1>1, BeginningOf
<1> HIDE DEF c, d
<1>5. \A m \in 1 .. l : m \in 1 .. k
    BY <1>1
<1>6. c = d
    BY <1>2, <1>3, <1>4, <1>5, SamePath
<1> QED
    BY <1>6 DEF b, c, d

(* The file kustomization.yaml of a directory, and the way to it.          *)
LEMMA FileOf ==
    ASSUME NEW d \in Seq(STRING), NEW x \in STRING
    PROVE  /\ Append(d, x) \in Seq(STRING) /\ Len(Append(d, x)) = Len(d) + 1
           /\ Append(d, x)[Len(d) + 1] = x /\ Parent(Append(d, x)) = d
           /\ \A k \in 0 .. Len(d) : SubSeq(Append(d, x), 1, k) = SubSeq(d, 1, k)
<1> DEFINE f == Append(d, x)
<1>1. /\ f \in Seq(STRING) /\ Len(f) = Len(d) + 1 /\ f[Len(d) + 1] = x
      /\ Len(d) \in Nat /\ \A k \in 1 .. Len(d) : f[k] = d[k]
    <2>1. Len(d) \in Nat
        OBVIOUS
    <2>2. f \in Seq(STRING) /\ Len(f) = Len(d) + 1
        BY AppendProperties
    <2>3. f[Len(d) + 1] = x
        BY AppendProperties
    <2>4. \A k \in 1 .. Len(d) : f[k] = d[k]
        BY AppendProperties
    <2> HIDE DEF f
    <2> QED
        BY <2>1, <2>2, <2>3, <2>4
<1> HIDE DEF f
<1>2. ASSUME NEW k \in 0 .. Len(d) PROVE SubSeq(f, 1, k) = SubSeq(d, 1, k)
    <2>1. k \in 0 .. Len(f)
        BY <1>1
    <2>2. /\ SubSeq(f, 1, k) \in Seq(STRING) /\ Len(SubSeq(f, 1, k)) = k
          /\ \A l \in 1 .. k : SubSeq(f, 1, k)[l] = f[l]
        BY <1>1, <2>1, BeginningOf
    <2>3. /\ SubSeq(d, 1, k) \in Seq(STRING) /\ Len(SubSeq(d, 1, k)) = k
          /\ \A l \in 1 .. k : SubSeq(d, 1, k)[l] = d[l]
        BY BeginningOf
    <2>4. \A l \in 1 .. k : f[l] = d[l]
        BY <1>1
    <2> QED
        BY <2>2, <2>3, <2>4, SamePath
<1>3. Parent(f) = SubSeq(f, 1, Len(d))
    BY <1>1 DEF Parent
<1>4. Len(d) \in 0 .. Len(d)
    OBVIOUS
<1>5. Parent(f) = d
    BY <1>2, <1>3, <1>4, WholePath
<1> QED
    BY <1>1, <1>2, <1>5 DEF f

(* A path other than the root is its last segment below its parent.       *)
LEMMA ParentOf ==
    ASSUME NEW p \in Seq(STRING), p # <<>>
    PROVE  /\ Len(p) \in Nat /\ Len(p) >= 1
           /\ Parent(p) \in Seq(STRING) /\ Len(Parent(p)) = Len(p) - 1
           /\ Parent(p) = SubSeq(p, 1, Len(p) - 1)
           /\ \A k \in 1 .. Len(p) - 1 : Parent(p)[k] = p[k]
           /\ Append(Parent(p), Last(p)) = p
<1>1. Len(p) \in Nat /\ Len(p) >= 1 /\ Len(p) - 1 \in 0 .. Len(p)
    BY EmptySeq
<1> DEFINE d == Parent(p)
<1>2. d = SubSeq(p, 1, Len(p) - 1)
    BY DEF Parent
<1>3. d \in Seq(STRING) /\ Len(d) = Len(p) - 1 /\ \A k \in 1 .. Len(p) - 1 : d[k] = p[k]
    BY <1>1, <1>2, BeginningOf
<1>4. Last(p) = p[Len(p)] /\ p[Len(p)] \in STRING
    BY <1>1 DEF Last
<1> HIDE DEF d
<1>5. /\ Append(d, Last(p)) \in Seq(STRING) /\ Len(Append(d, Last(p))) = Len(p)
      /\ Append(d, Last(p))[Len(p)] = p[Len(p)]
      /\ \A k \in 1 .. Len(p) - 1 : Append(d, Last(p))[k] = d[k]
    BY <1>1, <1>3, <1>4, AppendProperties
<1>6. \A k \in 1 .. Len(p) : k = Len(p) \/ k \in 1 .. Len(p) - 1
    BY <1>1
<1>7. Append(d, Last(p)) = p
    BY <1>3, <1>5, <1>6, SamePath
<1> QED
    BY <1>1, <1>2, <1>3, <1>7 DEF d

-----------------------------------------------------------------------------
(* Patterns *)

(* The fixed part of a pattern is what comes before the **.               *)
LEMMA FixedPartOf ==
    ASSUME NEW p \in Seq(STRING)
    PROVE  /\ FixedPart(p) \in Seq(STRING) /\ Len(FixedPart(p)) \in Nat
           /\ Recursive(p) => /\ Wildcard(p) \in 1 .. Len(p)
                              /\ Len(FixedPart(p)) = Wildcard(p) - 1
                              /\ \A k \in 1 .. Wildcard(p) - 1 : FixedPart(p)[k] = p[k]
<1>1. CASE ~Recursive(p)
    BY <1>1 DEF FixedPart
<1>2. CASE Recursive(p)
    <2> DEFINE w == Wildcard(p)
    <2>1. w \in 1 .. Len(p) /\ Len(p) \in Nat
        BY <1>2 DEF Wildcard, Recursive
    <2> HIDE DEF w
    <2>2. FixedPart(p) = SubSeq(p, 1, w - 1) /\ w - 1 \in 0 .. Len(p)
        BY <1>2, <2>1 DEF FixedPart, w
    <2>3. /\ FixedPart(p) \in Seq(STRING) /\ Len(FixedPart(p)) = w - 1
          /\ \A k \in 1 .. w - 1 : FixedPart(p)[k] = p[k]
        BY <2>2, BeginningOf
    <2> QED
        BY <2>1, <2>3 DEF w
<1> QED
    BY <1>1, <1>2

(* matchesRecursiveManifestPath compares both ends and the lengths, which  *)
(* is to say that ** stands for what is between.                           *)
LEMMA MatchIsFit ==
    ASSUME NEW p \in Seq(STRING), Recursive(p), NEW d \in Seq(STRING)
    PROVE  matchesRecursiveManifestPath(p, d) <=> Fits(p, d)
<1> DEFINE w == Wildcard(p)
           head == FixedPart(p)
           tail == SubSeq(p, w + 1, Len(p))
           middle(n) == SubSeq(d, w, n)
           whole(n) == head \o middle(n) \o tail
<1>1. /\ w \in 1 .. Len(p) /\ head \in Seq(STRING) /\ Len(head) = w - 1
      /\ \A k \in 1 .. w - 1 : head[k] = p[k]
    BY FixedPartOf
<1>2. Len(p) \in Nat /\ Len(d) \in Nat
    OBVIOUS
<1> DEFINE m == Len(p) - w
<1>3. tail \in Seq(STRING) /\ Len(tail) = m /\ \A k \in 1 .. m : tail[k] = p[w + k]
    <2>1. \A k \in w + 1 .. Len(p) : p[k] \in STRING
        BY <1>1, <1>2
    <2>2. w + 1 \in Int /\ Len(p) \in Int /\ Len(p) - (w + 1) + 1 = m
        BY <1>1, <1>2
    <2>3. /\ tail \in Seq(STRING)
          /\ Len(tail) = (IF w + 1 <= Len(p) THEN Len(p) - (w + 1) + 1 ELSE 0)
          /\ \A k \in 1 .. Len(p) - (w + 1) + 1 : tail[k] = p[w + 1 + k - 1]
        BY <2>1, <2>2, SubSeqProperties
    <2>4. \A k \in 1 .. m : w + 1 + k - 1 = w + k
        BY <1>1, <1>2
    <2>5. Len(tail) = m
        BY <2>3, <1>1, <1>2
    <2> HIDE DEF tail, w
    <2> QED
        BY <2>2, <2>3, <2>4, <2>5
<1>4. ASSUME NEW n \in w - 1 .. Len(d)
      PROVE  /\ middle(n) \in Seq(STRING) /\ Len(middle(n)) = n - w + 1
             /\ \A k \in 1 .. n - w + 1 : middle(n)[k] = d[w + k - 1]
    <2>1. w \in Int /\ n \in Int /\ \A k \in w .. n : d[k] \in STRING
        BY <1>1, <1>2
    <2>2. /\ middle(n) \in Seq(STRING)
          /\ Len(middle(n)) = (IF w <= n THEN n - w + 1 ELSE 0)
          /\ \A k \in 1 .. n - w + 1 : middle(n)[k] = d[w + k - 1]
        BY <2>1, SubSeqProperties
    <2>3. ~(w <= n) => n - w + 1 = 0
        BY <1>1, <1>2
    <2> HIDE DEF middle, w
    <2> QED
        BY <2>2, <2>3
<1> HIDE DEF w, head, tail, middle
<1>5. ASSUME NEW n \in w - 1 .. Len(d)
      PROVE  /\ whole(n) \in Seq(STRING) /\ Len(whole(n)) = n + m
             /\ \A k \in 1 .. w - 1 : whole(n)[k] = p[k]
             /\ \A k \in w .. n : whole(n)[k] = d[k]
             /\ \A k \in 1 .. m : whole(n)[n + k] = p[w + k]
    <2> DEFINE first == head \o middle(n)
    <2>1. /\ first \in Seq(STRING) /\ Len(first) = n
          /\ \A k \in 1 .. n : first[k] = IF k <= w - 1 THEN head[k] ELSE middle(n)[k - (w - 1)]
        <3>1. /\ first \in Seq(STRING) /\ Len(first) = Len(head) + Len(middle(n))
              /\ \A k \in 1 .. Len(head) + Len(middle(n)) :
                    first[k] = IF k <= Len(head) THEN head[k] ELSE middle(n)[k - Len(head)]
            BY <1>1, <1>4, ConcatProperties
        <3>2. Len(head) = w - 1 /\ Len(head) + Len(middle(n)) = n
            BY <1>1, <1>2, <1>4
        <3> HIDE DEF first
        <3> QED
            BY <3>1, <3>2
    <2>2. whole(n) = first \o tail
        OBVIOUS
    <2> HIDE DEF first
    <2>3. /\ first \o tail \in Seq(STRING) /\ Len(first \o tail) = n + m
          /\ \A k \in 1 .. n + m : (first \o tail)[k] = IF k <= n THEN first[k] ELSE tail[k - n]
        <3>1. /\ first \o tail \in Seq(STRING) /\ Len(first \o tail) = Len(first) + Len(tail)
              /\ \A k \in 1 .. Len(first) + Len(tail) :
                    (first \o tail)[k] = IF k <= Len(first) THEN first[k] ELSE tail[k - Len(first)]
            BY <2>1, <1>3, ConcatProperties
        <3>2. Len(first) = n /\ Len(tail) = m
            BY <2>1, <1>3
        <3> HIDE DEF m
        <3> QED
            BY <3>1, <3>2
    <2> HIDE DEF whole
    <2>4. \A k \in 1 .. w - 1 : k \in 1 .. n /\ k \in 1 .. n + m
        BY <1>1, <1>2
    <2>5. ASSUME NEW k \in 1 .. w - 1 PROVE whole(n)[k] = p[k]
        <3>1. k <= n /\ k <= w - 1
            BY <2>4, <1>1, <1>2
        <3>2. whole(n)[k] = first[k]
            BY <3>1, <2>2, <2>3, <2>4
        <3>3. first[k] = head[k]
            BY <3>1, <2>1, <2>4
        <3> QED
            BY <3>2, <3>3, <1>1
    <2>6. ASSUME NEW k \in w .. n PROVE whole(n)[k] = d[k]
        <3>1. /\ k \in 1 .. n /\ k \in 1 .. n + m /\ ~(k <= w - 1)
              /\ k - (w - 1) \in 1 .. n - w + 1 /\ w + (k - (w - 1)) - 1 = k
            BY <1>1, <1>2
        <3>2. whole(n)[k] = middle(n)[k - (w - 1)]
            BY <3>1, <2>1, <2>2, <2>3
        <3> QED
            BY <3>1, <3>2, <1>4
    <2>7. ASSUME NEW k \in 1 .. m PROVE whole(n)[n + k] = p[w + k]
        <3>1. n + k \in 1 .. n + m /\ ~(n + k <= n) /\ (n + k) - n = k
            BY <1>1, <1>2
        <3> QED
            BY <3>1, <2>2, <2>3, <1>3
    <2> QED
        BY <2>2, <2>3, <2>5, <2>6, <2>7
<1>6. Fits(p, d) <=> \E n \in w - 1 .. Len(d) : d = whole(n)
    BY <1>1 DEF Fits, head, tail, middle, w
<1> HIDE DEF whole
<1>7. matchesRecursiveManifestPath(p, d) <=>
         /\ Len(d) >= Len(p) - 1
         /\ \A k \in 1 .. w - 1 : p[k] = d[k]
         /\ \A k \in 0 .. m - 1 : p[Len(p) - k] = d[Len(d) - k]
    BY DEF matchesRecursiveManifestPath, w
<1>8. ASSUME Fits(p, d) PROVE matchesRecursiveManifestPath(p, d)
    <2>1. PICK n \in w - 1 .. Len(d) : d = whole(n)
        BY <1>6, <1>8
    <2>2. Len(d) = n + m
        BY <2>1, <1>5
    <2>3. Len(d) >= Len(p) - 1
        BY <2>2, <1>1, <1>2
    <2>4. \A k \in 1 .. w - 1 : p[k] = d[k]
        BY <2>1, <1>5
    <2>5. ASSUME NEW k \in 0 .. m - 1 PROVE p[Len(p) - k] = d[Len(d) - k]
        <3>1. m - k \in 1 .. m /\ w + (m - k) = Len(p) - k /\ n + (m - k) = Len(d) - k
            BY <2>2, <1>1, <1>2
        <3>2. whole(n)[n + (m - k)] = p[w + (m - k)]
            BY <3>1, <1>5
        <3> QED
            BY <3>1, <3>2, <2>1
    <2> QED
        BY <2>3, <2>4, <2>5, <1>7
<1>9. ASSUME matchesRecursiveManifestPath(p, d) PROVE Fits(p, d)
    <2> DEFINE n == Len(d) - m
    <2>1. n \in w - 1 .. Len(d) /\ n + m = Len(d)
        BY <1>1, <1>2, <1>7, <1>9
    <2> HIDE DEF n
    <2>2. ASSUME NEW k \in 1 .. Len(d) PROVE d[k] = whole(n)[k]
        <3>1. CASE k \in 1 .. w - 1
            BY <3>1, <2>1, <1>5, <1>7, <1>9
        <3>2. CASE k \in w .. n
            BY <3>2, <2>1, <1>5
        <3>3. CASE k > n
            <4>1. /\ k - n \in 1 .. m /\ n + (k - n) = k /\ Len(d) - k \in 0 .. m - 1
                  /\ Len(p) - (Len(d) - k) = w + (k - n) /\ Len(d) - (Len(d) - k) = k
                <5>1. w \in Nat /\ n \in Int /\ k \in Int /\ n + m = Len(d) /\ m = Len(p) - w
                    BY <2>1, <1>1, <1>2
                <5> QED
                    BY <5>1, <3>3, <1>2
            <4>2. whole(n)[n + (k - n)] = p[w + (k - n)]
                BY <4>1, <2>1, <1>5
            <4>3. p[Len(p) - (Len(d) - k)] = d[Len(d) - (Len(d) - k)]
                BY <4>1, <1>7, <1>9
            <4> QED
                BY <4>1, <4>2, <4>3
        <3> QED
            BY <3>1, <3>2, <3>3, <2>1, <1>1, <1>2
    <2>3. d = whole(n)
        BY <2>1, <2>2, <1>5, SamePath
    <2> QED
        BY <2>1, <2>3, <1>6
<1> QED
    BY <1>8, <1>9

-----------------------------------------------------------------------------
(* Trees *)

(* What is there has directories above it.                                 *)
LEMMA DirAbove ==
    ASSUME tree \in TreePool, NEW p, KindOf(p) # "absent", NEW k \in 0 .. Len(p) - 1
    PROVE  SubSeq(p, 1, k) \in Paths /\ tree[SubSeq(p, 1, k)] = "dir" /\ KindOf(SubSeq(p, 1, k)) = "dir"
<1>1. p \in Paths /\ tree[p] # "absent"
    BY DEF KindOf
<1>2. p \in Seq(STRING) /\ Len(p) \in Nat /\ k \in 0 .. Len(p)
    BY <1>1, CheckoutTrees
<1>3. SubSeq(p, 1, k) \in Paths
    BY <1>1, <1>2, CheckoutTrees
<1>4. tree[SubSeq(p, 1, k)] = "dir"
    BY <1>1, <1>2, CheckoutTrees
<1> QED
    BY <1>3, <1>4 DEF KindOf

(* A directory that a recursive pattern reaches lies below its fixed part. *)
LEMMA BelowFixedPart ==
    ASSUME tree \in TreePool, NEW p \in Seq(STRING), Recursive(p), NEW d \in Reached(p)
    PROVE  /\ d \in Paths /\ d \in Seq(STRING) /\ Len(d) \in Nat
           /\ Len(FixedPart(p)) \in 0 .. Len(d)
           /\ SubSeq(d, 1, Len(FixedPart(p))) = FixedPart(p)
           /\ Append(d, FileName) \in Paths /\ tree[Append(d, FileName)] = "file"
           /\ KindOf(Append(d, FileName)) = "file"
<1> DEFINE r == FixedPart(p)
<1>1. d \in Paths /\ Fits(p, d) /\ KindOf(Append(d, FileName)) = "file"
    BY DEF Reached
<1>2. d \in Seq(STRING) /\ Len(d) \in Nat /\ Len(p) \in Nat
    BY <1>1, CheckoutTrees
<1>3. /\ Len(d) >= Len(p) - 1
      /\ \A k \in 1 .. Wildcard(p) - 1 : p[k] = d[k]
    BY <1>1, <1>2, MatchIsFit DEF matchesRecursiveManifestPath
<1>4. /\ r \in Seq(STRING) /\ Len(r) = Wildcard(p) - 1 /\ Wildcard(p) \in 1 .. Len(p)
      /\ \A k \in 1 .. Wildcard(p) - 1 : r[k] = p[k]
    BY FixedPartOf
<1>5. Len(r) \in 0 .. Len(d)
    BY <1>2, <1>3, <1>4
<1> HIDE DEF r
<1>6. SubSeq(d, 1, Len(r)) = r
    <2>1. /\ SubSeq(d, 1, Len(r)) \in Seq(STRING) /\ Len(SubSeq(d, 1, Len(r))) = Len(r)
          /\ \A k \in 1 .. Len(r) : SubSeq(d, 1, Len(r))[k] = d[k]
        BY <1>2, <1>5, BeginningOf
    <2> QED
        BY <2>1, <1>3, <1>4, SamePath
<1>7. Append(d, FileName) \in Paths /\ tree[Append(d, FileName)] = "file"
    BY <1>1 DEF KindOf
<1> QED
    BY <1>1, <1>2, <1>5, <1>6, <1>7 DEF r

(* The walk begins where all of them lie.                                  *)
LEMMA FixedPartThere ==
    ASSUME tree \in TreePool, NEW p \in Seq(STRING), Recursive(p), NEW d \in Reached(p)
    PROVE  /\ SubSeq(Append(d, FileName), 1, Len(FixedPart(p))) = FixedPart(p)
           /\ KindOf(FixedPart(p)) = "dir"
<1> DEFINE r == FixedPart(p)
           f == Append(d, FileName)
<1>1. /\ d \in Seq(STRING) /\ Len(d) \in Nat /\ Len(r) \in 0 .. Len(d)
      /\ SubSeq(d, 1, Len(r)) = r /\ KindOf(f) = "file"
    BY BelowFixedPart
<1>2. Len(f) = Len(d) + 1 /\ SubSeq(f, 1, Len(r)) = SubSeq(d, 1, Len(r))
    BY <1>1, Names, FileOf
<1>3. Len(r) \in 0 .. Len(f) - 1
    BY <1>1, <1>2
<1>4. KindOf(SubSeq(f, 1, Len(r))) = "dir"
    BY <1>1, <1>3, DirAbove
<1> QED
    BY <1>1, <1>2, <1>4

(* The loop of rejectSymlinkPath has passed every component.               *)
LEMMA LookedThrough ==
    ASSUME tree \in TreePool, NEW p \in Seq(STRING),
           \A k \in 1 .. Len(FixedPart(p)) : KindOf(SubSeq(FixedPart(p), 1, k)) \in {"dir", "file"}
    PROVE  Passable(p)
<1> DEFINE r == FixedPart(p)
<1>1. r \in Seq(STRING) /\ Len(r) \in Nat
    BY FixedPartOf
<1>2. \A q \in Steps(r) : KindOf(q) # "link"
    BY DEF Steps
<1>3. ASSUME NEW q \in Steps(r) \ {r} PROVE KindOf(q) # "file"
    <2>1. PICK k \in 1 .. Len(r) : q = SubSeq(r, 1, k)
        BY DEF Steps
    <2>2. k # Len(r)
        BY <2>1, <1>1, WholePath
    <2>3. KindOf(r) # "absent"
        <3>1. Len(r) \in 1 .. Len(r)
            BY <1>1, <2>1
        <3>2. KindOf(SubSeq(r, 1, Len(r))) \in {"dir", "file"}
            BY <3>1
        <3> QED
            BY <3>2, <1>1, WholePath
    <2>4. k \in 0 .. Len(r) - 1
        BY <2>1, <2>2, <1>1
    <2> HIDE DEF r
    <2> QED
        BY <2>1, <2>3, <2>4, DirAbove
<1> QED
    BY <1>2, <1>3 DEF Passable

(* It ends early at a component that is not there: nor is what is below.   *)
LEMMA LookedUntil ==
    ASSUME tree \in TreePool, NEW p \in Seq(STRING), NEW n \in 0 .. Len(FixedPart(p)) - 1,
           \A k \in 1 .. n : KindOf(SubSeq(FixedPart(p), 1, k)) \in {"dir", "file"},
           KindOf(SubSeq(FixedPart(p), 1, n)) # "file",
           KindOf(SubSeq(FixedPart(p), 1, n + 1)) = "absent"
    PROVE  Passable(p) /\ KindOf(FixedPart(p)) = "absent"
<1> DEFINE r == FixedPart(p)
<1>1. r \in Seq(STRING) /\ Len(r) \in Nat
    BY FixedPartOf
<1> HIDE DEF r
<1>2. ASSUME NEW k \in n + 1 .. Len(r) PROVE KindOf(SubSeq(r, 1, k)) = "absent"
    <2>1. CASE k = n + 1
        BY <2>1 DEF r
    <2>2. CASE k # n + 1
        <3>1. k \in 0 .. Len(r) /\ n + 1 \in 0 .. k /\ n + 1 \in 0 .. k - 1
            BY <2>2, <1>1
        <3>2. SubSeq(SubSeq(r, 1, k), 1, n + 1) = SubSeq(r, 1, n + 1) /\ Len(SubSeq(r, 1, k)) = k
            BY <3>1, <1>1, BeginningOfBeginning, BeginningOf
        <3> SUFFICES ASSUME KindOf(SubSeq(r, 1, k)) # "absent" PROVE FALSE
            OBVIOUS
        <3>3. KindOf(SubSeq(SubSeq(r, 1, k), 1, n + 1)) = "dir"
            BY <3>1, <3>2, DirAbove
        <3> QED
            BY <3>2, <3>3 DEF r
    <2> QED
        BY <2>1, <2>2
<1>3. ASSUME NEW k \in 1 .. Len(r) PROVE KindOf(SubSeq(r, 1, k)) \notin {"link", "file"}
    <2>1. CASE k \in n + 1 .. Len(r)
        BY <2>1, <1>2
    <2>2. CASE k = n
        BY <2>2 DEF r
    <2>3. CASE k < n
        <3>1. n \in 1 .. n /\ n \in 0 .. Len(r) /\ k \in 0 .. n /\ k \in 0 .. n - 1
            BY <2>3, <1>1 DEF r
        <3>2. SubSeq(SubSeq(r, 1, n), 1, k) = SubSeq(r, 1, k) /\ Len(SubSeq(r, 1, n)) = n
            BY <3>1, <1>1, BeginningOfBeginning, BeginningOf
        <3>3. KindOf(SubSeq(r, 1, n)) # "absent"
            BY <3>1 DEF r
        <3>4. KindOf(SubSeq(SubSeq(r, 1, n), 1, k)) = "dir"
            BY <3>1, <3>2, <3>3, DirAbove
        <3> QED
            BY <3>2, <3>4
    <2> QED
        BY <2>1, <2>2, <2>3, <1>1
<1>4. Passable(p)
    BY <1>3 DEF Passable, Steps, r
<1>5. Len(r) \in n + 1 .. Len(r)
    BY <1>1 DEF r
<1>6. KindOf(r) = "absent"
    BY <1>1, <1>2, <1>5, WholePath
<1> QED
    BY <1>4, <1>6 DEF r

-----------------------------------------------------------------------------
(* The steps *)

(* The checkout and the plan stay as they are, and with them the meaning   *)
(* of every pattern.                                                       *)
LEMMA MeaningKept ==
    ASSUME tree' = tree, sources' = sources
    PROVE  /\ \A p : (Reached(p)' = Reached(p)) /\ (Passable(p)' <=> Passable(p)) /\ (Good(p)' <=> Good(p))
           /\ Wanted(i - 1)' = Wanted(i' - 1)
           /\ (\A l \in 1 .. i - 1 : Good(sources[l].pattern))' <=>
                 \A l \in 1 .. i' - 1 : Good(sources[l].pattern)
<1>1. \A p : KindOf(p)' = KindOf(p)
    BY DEF KindOf
<1>2. ASSUME NEW p PROVE Reached(p)' = Reached(p)
    BY <1>1 DEF Reached
<1>3. ASSUME NEW p PROVE Passable(p)' <=> Passable(p)
    BY <1>1 DEF Passable
<1>4. \A p : Good(p)' <=> Good(p)
    BY <1>2, <1>3 DEF Good
<1>5. Wanted(i - 1)' = Wanted(i' - 1)
    BY <1>2 DEF Wanted
<1>6. (\A l \in 1 .. i - 1 : Good(sources[l].pattern))' <=>
         \A l \in 1 .. i' - 1 : Good(sources[l].pattern)
    BY DEF Good, Passable, Reached, KindOf
<1> QED
    BY <1>2, <1>3, <1>4, <1>5, <1>6

(* The sources are a list of patterns.                                     *)
LEMMA SourceTypes ==
    ASSUME sources \in SourcePool
    PROVE  /\ Len(sources) \in Nat /\ DOMAIN sources = 1 .. Len(sources)
           /\ \A l \in 1 .. Len(sources) : sources[l].pattern \in Seq(STRING)
<1> DEFINE R == [pattern : Seq(STRING), settings : STRING]
<1>1. sources \in Seq(R)
    BY PlannedSources
<1>2. \A s \in R : s.pattern \in Seq(STRING)
    OBVIOUS
<1> HIDE DEF R
<1>3. Len(sources) \in Nat /\ DOMAIN sources = 1 .. Len(sources)
    BY <1>1
<1>4. ASSUME NEW l \in 1 .. Len(sources) PROVE sources[l] \in R
    BY <1>1
<1> QED
    BY <1>2, <1>3, <1>4

(* Nothing is resolved at first.                                          *)
LEMMA InitTree == Init => TreeInv
<1> SUFFICES ASSUME Init PROVE TreeInv
    OBVIOUS
<1>1. /\ tree \in TreePool /\ sources \in SourcePool /\ i = 1 /\ pc = "inspect" /\ at = 0
      /\ matches = {} /\ resolved = {} /\ err = "none"
    BY DEF Init
<1>2. Len(sources) \in Nat /\ \A l \in 1 .. Len(sources) : sources[l].pattern \in Seq(STRING)
    BY <1>1, SourceTypes
<1>3. Wanted(i - 1) = {}
    BY <1>1 DEF Wanted
<1>4. ASSUME i <= Len(sources) PROVE Looked
    <2>1. pattern \in Seq(STRING)
        BY <1>1, <1>2, <1>4 DEF pattern
    <2>2. Len(FixedPart(pattern)) \in Nat
        BY <2>1, FixedPartOf
    <2> QED
        BY <2>2, <1>1 DEF Looked
<1> QED
    BY <1>1, <1>2, <1>3, <1>4 DEF TreeInv

(* A source is resolved, and the next one is looked at from its beginning. *)
LEMMA ResolvedStep ==
    ASSUME TreeInv, pc # "done", i <= Len(sources), Good(pattern), Resolved(Reached(pattern)),
           UNCHANGED <<tree, sources>>
    PROVE  TreeInv'
<1>1. /\ tree \in TreePool /\ sources \in SourcePool /\ i \in 1 .. Len(sources) + 1
      /\ resolved = Wanted(i - 1) /\ err = "none" /\ \A l \in 1 .. i - 1 : Good(sources[l].pattern)
    BY DEF TreeInv
<1>2. /\ resolved' = resolved \cup {[dir |-> d, settings |-> sources[i].settings] : d \in Reached(pattern)}
      /\ i' = i + 1 /\ pc' = "inspect" /\ at' = 0 /\ matches' = {} /\ err' = err
      /\ tree' = tree /\ sources' = sources
    BY DEF Resolved
<1>3. Len(sources) \in Nat /\ \A l \in 1 .. Len(sources) : sources[l].pattern \in Seq(STRING)
    BY <1>1, SourceTypes
<1>4. 1 .. i' - 1 = (1 .. i - 1) \cup {i} /\ i' \in 1 .. Len(sources) + 1
    BY <1>1, <1>2, <1>3
<1>5. resolved' = Wanted(i - 1)'
    <2>1. Wanted(i' - 1) = Wanted(i - 1) \cup
             {[dir |-> d, settings |-> sources[i].settings] : d \in Reached(sources[i].pattern)}
        <3> DEFINE part(l) == {[dir |-> d, settings |-> sources[l].settings] :
                                  d \in Reached(sources[l].pattern)}
        <3>1. \A n : Wanted(n) = UNION {part(l) : l \in 1 .. n}
            BY DEF Wanted
        <3> HIDE DEF part
        <3>2. UNION {part(l) : l \in 1 .. i' - 1} = (UNION {part(l) : l \in 1 .. i - 1}) \cup part(i)
            BY <1>4
        <3> QED
            BY <3>1, <3>2 DEF part
    <2>2. Wanted(i - 1)' = Wanted(i' - 1)
        BY <1>2, MeaningKept
    <2> QED
        BY <2>1, <2>2, <1>1, <1>2 DEF pattern
<1>6. (\A l \in 1 .. i - 1 : Good(sources[l].pattern))'
    <2>1. \A l \in 1 .. i' - 1 : Good(sources[l].pattern)
        BY <1>1, <1>4 DEF pattern
    <2> QED
        BY <2>1, <1>2, MeaningKept
<1>7. ASSUME i' <= Len(sources') PROVE Looked'
    <2>1. pattern' \in Seq(STRING)
        BY <1>2, <1>3, <1>4, <1>7 DEF pattern
    <2>2. Len(FixedPart(pattern')) \in Nat
        BY <2>1, FixedPartOf
    <2>3. 0 \in 0 .. Len(FixedPart(pattern'))
        BY <2>2
    <2> QED
        BY <2>3, <1>2 DEF Looked, FixedPart, Recursive, Wildcard
<1> QED
    BY <1>1, <1>2, <1>4, <1>5, <1>6, <1>7 DEF TreeInv

(* resolveManifestTargets gives up, for a reason.                          *)
LEMMA FailStep ==
    ASSUME TreeInv, pc # "done", i <= Len(sources), NEW e, Fail(e), UNCHANGED <<tree, sources>>,
           \/ e = "canceled"
           \/ e \in {"ErrManifestNotFound", "ErrInvalidManifest", "other"} /\ ~Good(pattern)
    PROVE  TreeInv'
<1>1. /\ tree \in TreePool /\ sources \in SourcePool /\ i \in 1 .. Len(sources) + 1
      /\ resolved = Wanted(i - 1) /\ \A l \in 1 .. i - 1 : Good(sources[l].pattern)
    BY DEF TreeInv
<1>2. /\ pc' = "done" /\ err' = e /\ i' = i /\ resolved' = resolved
      /\ tree' = tree /\ sources' = sources
    BY DEF Fail
<1>3. Wanted(i - 1)' = Wanted(i - 1)
    BY <1>2, MeaningKept
<1>4. (\A l \in 1 .. i - 1 : Good(sources[l].pattern))'
    BY <1>1, <1>2, MeaningKept
<1>5. Good(pattern)' <=> Good(pattern)
    BY <1>2 DEF Good, Passable, Reached, KindOf, pattern
<1>6. Ended'
    BY <1>2, <1>5 DEF Ended
<1> QED
    BY <1>1, <1>2, <1>3, <1>4, <1>6 DEF TreeInv

(* The fixed part was inspected to its end.                                *)
LEMMA InspectedStep ==
    ASSUME TreeInv, pc = "inspect", i <= Len(sources), Passable(pattern), Inspected,
           UNCHANGED <<tree, sources>>
    PROVE  TreeInv'
<1> DEFINE r == FixedPart(pattern)
<1>1. /\ tree \in TreePool /\ sources \in SourcePool /\ i \in 1 .. Len(sources) + 1 /\ matches = {}
      /\ resolved = Wanted(i - 1) /\ err = "none" /\ \A l \in 1 .. i - 1 : Good(sources[l].pattern)
    BY DEF TreeInv
<1>2. pattern \in Seq(STRING)
    BY <1>1, SourceTypes DEF pattern
<1>3. r \in Seq(STRING) /\ Len(r) \in Nat
    BY <1>2, FixedPartOf
<1>4. CASE ~Recursive(pattern) /\ Resolved({pattern})
    <2>1. Reached(pattern) = {pattern}
        BY <1>4 DEF Reached
    <2>2. Good(pattern) /\ Resolved(Reached(pattern))
        BY <2>1, <1>4 DEF Good
    <2> QED
        BY <2>2, ResolvedStep
<1>5. CASE Recursive(pattern) /\ KindOf(r) = "absent" /\ Fail("ErrManifestNotFound")
    <2>1. Reached(pattern) = {}
        <3> SUFFICES ASSUME NEW d \in Reached(pattern) PROVE FALSE
            OBVIOUS
        <3> QED
            BY <1>1, <1>2, <1>5, FixedPartThere
    <2>2. ~Good(pattern)
        BY <2>1 DEF Good
    <2> QED
        BY <2>2, <1>5, FailStep
<1>6. CASE /\ Recursive(pattern) /\ KindOf(r) # "absent" /\ pc' = "walk" /\ todo' = {r}
           /\ UNCHANGED <<i, at, matches, resolved, err>>
    <2>1. tree' = tree /\ sources' = sources /\ i' = i /\ resolved' = resolved /\ err' = err /\ matches' = {}
        BY <1>1, <1>6
    <2>2. Wanted(i - 1)' = Wanted(i - 1)
        BY <2>1, MeaningKept
    <2>3. (\A l \in 1 .. i - 1 : Good(sources[l].pattern))'
        BY <1>1, <2>1, MeaningKept
    <2>4. r \in Paths /\ tree[r] # "absent"
        BY <1>6 DEF KindOf
    <2>5. \A d \in Reached(pattern) :
             \E k \in Len(r) .. Len(d) + 1 : SubSeq(Append(d, FileName), 1, k) \in todo'
        <3> SUFFICES ASSUME NEW d \in Reached(pattern)
                     PROVE  \E k \in Len(r) .. Len(d) + 1 : SubSeq(Append(d, FileName), 1, k) \in todo'
            OBVIOUS
        <3>1. SubSeq(Append(d, FileName), 1, Len(r)) = r
            BY <1>1, <1>2, <1>6, FixedPartThere
        <3>2. Len(r) \in 0 .. Len(d) /\ Len(d) \in Nat
            BY <1>1, <1>2, <1>6, BelowFixedPart
        <3>3. Len(r) \in Len(r) .. Len(d) + 1
            BY <3>2
        <3> QED
            BY <3>1, <3>3, <1>6
    <2>6. \A k \in 1 .. Len(r) - 1 : k >= Len(r) => r[k] # GitDir
        BY <1>3
    <2>7. \A p \in todo' : /\ p \in Paths /\ tree[p] # "absent"
                           /\ \A k \in 1 .. Len(p) - 1 : k >= Len(r) => p[k] # GitDir
        BY <2>4, <2>6, <1>6
    <2>8. Reached(pattern)' = Reached(pattern) /\ Passable(pattern)'
        BY <2>1 DEF Passable, Reached, KindOf, pattern
    <2>9. FixedPart(pattern)' = r /\ Recursive(pattern)'
        BY <2>1, <1>6 DEF pattern
    <2>10. WalkInv'
        BY <2>1, <2>5, <2>7, <2>8, <2>9 DEF WalkInv
    <2> QED
        BY <2>1, <2>2, <2>3, <2>10, <1>1, <1>6 DEF TreeInv
<1> QED
    BY <1>4, <1>5, <1>6 DEF Inspected

(* One iteration of rejectSymlinkPath.                                    *)
LEMMA InspectStep == ASSUME TreeInv, Inspect PROVE TreeInv'
<1> DEFINE r == FixedPart(pattern)
           next == SubSeq(r, 1, at + 1)
<1>1. pc = "inspect" /\ i <= Len(sources) /\ tree' = tree /\ sources' = sources
    BY DEF Inspect
<1>2. /\ tree \in TreePool /\ sources \in SourcePool /\ i \in 1 .. Len(sources) + 1 /\ matches = {}
      /\ resolved = Wanted(i - 1) /\ err = "none" /\ \A l \in 1 .. i - 1 : Good(sources[l].pattern)
      /\ at \in 0 .. Len(r) /\ \A k \in 1 .. at : KindOf(SubSeq(r, 1, k)) \in {"dir", "file"}
    BY <1>1 DEF TreeInv, Looked
<1>3. pattern \in Seq(STRING)
    BY <1>1, <1>2, SourceTypes DEF pattern
<1>4. r \in Seq(STRING) /\ Len(r) \in Nat
    BY <1>3, FixedPartOf
<1>5. ASSUME at < Len(r)
      PROVE  /\ Parent(next) = SubSeq(r, 1, at) /\ next \in Steps(r)
             /\ at \in 0 .. Len(r) - 1
    <2>1. at + 1 \in 0 .. Len(r) /\ at \in 0 .. at + 1 /\ at + 1 \in 1 .. Len(r) /\ (at + 1) - 1 = at
        BY <1>2, <1>4, <1>5
    <2> HIDE DEF r
    <2>2. Len(next) = at + 1 /\ SubSeq(next, 1, at) = SubSeq(r, 1, at)
        BY <2>1, <1>4, BeginningOf, BeginningOfBeginning
    <2>3. Parent(next) = SubSeq(r, 1, at)
        BY <2>1, <2>2 DEF Parent
    <2> QED
        BY <2>1, <2>3, <1>2, <1>4, <1>5 DEF Steps
<1>6. CASE at = Len(r) /\ Inspected
    <2>1. Passable(pattern)
        BY <1>2, <1>3, <1>6, LookedThrough
    <2> QED
        BY <2>1, <1>1, <1>6, InspectedStep
<1>7. CASE at < Len(r) /\ KindOf(Parent(next)) = "file" /\ Fail("other")
    <2>1. KindOf(SubSeq(r, 1, at)) = "file" /\ at \in 0 .. Len(r) - 1
        BY <1>5, <1>7
    <2>2. at # 0
        <3>1. SubSeq(r, 1, 0) = <<>>
            <4> HIDE DEF r
            <4>1. 1 \in Int /\ 0 \in Int /\ 0 < 1
                OBVIOUS
            <4> QED
                BY <4>1, SubSeqEmpty
        <3>2. <<>> \in Paths /\ tree[<<>>] = "dir"
            BY <1>2, CheckoutTrees
        <3>3. KindOf(<<>>) = "dir"
            BY <3>2 DEF KindOf
        <3> QED
            BY <3>1, <3>3, <2>1
    <2>3. SubSeq(r, 1, at) # r
        <3>1. Len(SubSeq(r, 1, at)) = at
            BY <1>2, <1>4, BeginningOf
        <3>2. at # Len(r)
            BY <1>2, <1>4, <1>7
        <3> QED
            BY ONLY <3>1, <3>2
    <2>4. SubSeq(r, 1, at) \in Steps(r) \ {r}
        BY <2>1, <2>2, <2>3, <1>2, <1>4 DEF Steps
    <2>5. ~Good(pattern)
        BY <2>1, <2>4 DEF Good, Passable
    <2> QED
        BY <2>5, <1>1, <1>7, FailStep
<1>8. CASE /\ at < Len(r) /\ KindOf(Parent(next)) # "file" /\ KindOf(next) = "absent"
           /\ Inspected
    <2>1. KindOf(SubSeq(r, 1, at)) # "file" /\ at \in 0 .. Len(r) - 1
        BY <1>5, <1>8
    <2>2. Passable(pattern)
        BY <2>1, <1>2, <1>3, <1>8, LookedUntil
    <2> QED
        BY <2>2, <1>1, <1>8, InspectedStep
<1>9. CASE at < Len(r) /\ KindOf(next) = "link" /\ Fail("ErrInvalidManifest")
    <2>1. ~Good(pattern)
        BY <1>5, <1>9 DEF Good, Passable
    <2> QED
        BY <2>1, <1>1, <1>9, FailStep
<1>10. CASE /\ at < Len(r) /\ KindOf(next) \in {"dir", "file"} /\ at' = at + 1
            /\ UNCHANGED <<i, pc, todo, matches, resolved, err>>
    <2>1. /\ i' = i /\ pc' = pc /\ matches' = matches /\ resolved' = resolved /\ err' = err
          /\ at + 1 \in 0 .. Len(r)
        BY <1>2, <1>4, <1>10
    <2>2. Wanted(i - 1)' = Wanted(i - 1)
        BY <2>1, <1>1, MeaningKept
    <2>3. (\A l \in 1 .. i - 1 : Good(sources[l].pattern))'
        BY <1>1, <1>2, <2>1, MeaningKept
    <2>4. \A k \in 1 .. at + 1 : KindOf(SubSeq(r, 1, k)) \in {"dir", "file"}
        <3>1. \A k \in 1 .. at + 1 : k = at + 1 \/ k \in 1 .. at
            BY <1>2
        <3> QED
            BY <3>1, <1>2, <1>10
    <2>5. Looked'
        BY <2>1, <2>4, <1>1, <1>10 DEF Looked, pattern, KindOf
    <2> QED
        BY <2>1, <2>2, <2>3, <2>5, <1>1, <1>2 DEF TreeInv
<1> QED
    BY <1>1, <1>6, <1>7, <1>8, <1>9, <1>10 DEF Inspect

(* The way from the root to a file that is there.                          *)
LEMMA OnTheWay ==
    ASSUME tree \in TreePool, NEW f \in Paths, tree[f] = "file", NEW k \in 0 .. Len(f)
    PROVE  /\ f \in Seq(STRING) /\ Len(f) \in Nat
           /\ tree[SubSeq(f, 1, k)] = IF k = Len(f) THEN "file" ELSE "dir"
           /\ Len(SubSeq(f, 1, k)) = k
           /\ k < Len(f) => SubSeq(f, 1, k + 1) \in Children(SubSeq(f, 1, k))
<1>1. f \in Seq(STRING) /\ Len(f) \in Nat /\ KindOf(f) # "absent"
    BY CheckoutTrees DEF KindOf
<1>2. \A n \in 0 .. Len(f) : SubSeq(f, 1, n) \in Paths
    BY CheckoutTrees
<1>3. ASSUME NEW n \in 0 .. Len(f) PROVE tree[SubSeq(f, 1, n)] = IF n = Len(f) THEN "file" ELSE "dir"
    <2>1. CASE n = Len(f)
        BY <2>1, <1>1, WholePath
    <2>2. CASE n # Len(f)
        <3>1. n \in 0 .. Len(f) - 1
            BY <2>2, <1>1
        <3> QED
            BY <2>2, <3>1, <1>1, DirAbove
    <2> QED
        BY <2>1, <2>2
<1>4. Len(SubSeq(f, 1, k)) = k
    BY <1>1, BeginningOf
<1>5. ASSUME k < Len(f) PROVE SubSeq(f, 1, k + 1) \in Children(SubSeq(f, 1, k))
    <2> DEFINE q == SubSeq(f, 1, k + 1)
    <2>1. k + 1 \in 0 .. Len(f) /\ k \in 0 .. k + 1 /\ (k + 1) - 1 = k /\ k + 1 # 0
        BY <1>1, <1>5
    <2>2. Len(q) = k + 1 /\ SubSeq(q, 1, k) = SubSeq(f, 1, k)
        BY <2>1, <1>1, BeginningOf, BeginningOfBeginning
    <2>3. q \in Paths /\ tree[q] # "absent"
        BY <2>1, <1>2, <1>3
    <2> HIDE DEF q
    <2>4. Parent(q) = SubSeq(f, 1, k)
        BY <2>1, <2>2 DEF Parent
    <2>5. q # <<>>
        BY <2>1, <2>2
    <2> QED
        BY <2>3, <2>4, <2>5 DEF Children, q
<1> QED
    BY <1>1, <1>3, <1>4, <1>5

(* One path of the walk.                                                   *)
LEMMA VisitStep == ASSUME TreeInv, NEW p \in todo, Visit(p) PROVE TreeInv'
<1> DEFINE r == FixedPart(pattern)
           name == IF p = <<>> THEN "" ELSE Last(p)
           clean(q) == \A k \in 1 .. Len(q) - 1 : k >= Len(r) => q[k] # GitDir
           way(d, k) == SubSeq(Append(d, FileName), 1, k)
           hit == name = FileName /\ tree[p] = "file" /\ matchesRecursiveManifestPath(pattern, Parent(p))
<1>1. pc = "walk" /\ UNCHANGED <<tree, sources, i, pc, at, resolved, err>>
    BY DEF Visit
<1>2. /\ tree \in TreePool /\ sources \in SourcePool /\ i \in 1 .. Len(sources) + 1
      /\ resolved = Wanted(i - 1) /\ err = "none" /\ \A l \in 1 .. i - 1 : Good(sources[l].pattern)
      /\ WalkInv
    BY <1>1 DEF TreeInv
<1>3. /\ i <= Len(sources) /\ Recursive(pattern) /\ Passable(pattern)
      /\ \A q \in todo : q \in Paths /\ tree[q] # "absent" /\ clean(q)
      /\ matches \subseteq Reached(pattern)
      /\ \A d \in Reached(pattern) \ matches : \E k \in Len(r) .. Len(d) + 1 : way(d, k) \in todo
    BY <1>2 DEF WalkInv
<1>4. pattern \in Seq(STRING)
    BY <1>2, <1>3, SourceTypes DEF pattern
<1>5. r \in Seq(STRING) /\ Len(r) \in Nat
    BY <1>4, FixedPartOf
<1>6. p \in Paths /\ p \in Seq(STRING) /\ tree[p] # "absent" /\ clean(p) /\ Len(p) \in Nat
    BY <1>3, CheckoutTrees
<1>7. ASSUME NEW d \in Reached(pattern)
      PROVE  /\ d \in Seq(STRING) /\ Len(d) \in Nat
             /\ Append(d, FileName) \in Paths /\ tree[Append(d, FileName)] = "file"
             /\ Append(d, FileName) \in Seq(STRING) /\ Len(Append(d, FileName)) = Len(d) + 1
             /\ Append(d, FileName)[Len(d) + 1] = FileName /\ Parent(Append(d, FileName)) = d
             /\ \A k \in DOMAIN d : k >= Len(r) => d[k] # GitDir
    <2>1. /\ d \in Seq(STRING) /\ Len(d) \in Nat
          /\ Append(d, FileName) \in Paths /\ tree[Append(d, FileName)] = "file"
        BY <1>2, <1>3, <1>4, BelowFixedPart
    <2>2. /\ Append(d, FileName) \in Seq(STRING) /\ Len(Append(d, FileName)) = Len(d) + 1
          /\ Append(d, FileName)[Len(d) + 1] = FileName /\ Parent(Append(d, FileName)) = d
        BY <2>1, Names, FileOf
    <2>3. \A k \in DOMAIN d : k >= Len(r) => d[k] # GitDir
        BY <1>3 DEF Reached
    <2> QED
        BY <2>1, <2>2, <2>3
<1> HIDE DEF r
<1>8. CASE /\ tree[p] = "dir" /\ matches' = matches
           /\ todo' = (todo \ {p}) \cup (IF name = GitDir THEN {} ELSE Children(p))
    <2>1. ASSUME NEW q \in Children(p), name # GitDir PROVE q \in Paths /\ tree[q] # "absent" /\ clean(q)
        <3>1. q \in Paths /\ q # <<>> /\ Parent(q) = p /\ tree[q] # "absent"
            BY DEF Children
        <3>2. q \in Seq(STRING)
            BY <3>1, CheckoutTrees
        <3>3. Len(p) = Len(q) - 1 /\ \A k \in 1 .. Len(q) - 1 : p[k] = q[k]
            BY <3>1, <3>2, ParentOf
        <3>4. ASSUME NEW k \in 1 .. Len(q) - 1, k >= Len(r) PROVE q[k] # GitDir
            <4>1. p[k] = q[k] /\ k \in 1 .. Len(p)
                BY <3>3
            <4>2. CASE k = Len(p)
                <5>1. p # <<>>
                    BY <4>1, <4>2
                <5>2. name = p[k]
                    BY <5>1, <4>2 DEF Last
                <5> QED
                    BY <5>2, <4>1, <2>1
            <4>3. CASE k # Len(p)
                <5>1. k \in 1 .. Len(p) - 1
                    BY <4>1, <4>3, <1>6
                <5> QED
                    BY <5>1, <4>1, <3>4, <1>6
            <4> QED
                BY <4>2, <4>3
        <3> QED
            BY <3>1, <3>4
    <2>2. ASSUME NEW d \in Reached(pattern) \ matches
          PROVE  \E k \in Len(r) .. Len(d) + 1 : way(d, k) \in todo'
        <3> DEFINE f == Append(d, FileName)
        <3>1. PICK k \in Len(r) .. Len(d) + 1 : way(d, k) \in todo
            BY <1>3
        <3>2. CASE way(d, k) # p
            BY <3>1, <3>2, <1>8
        <3>3. CASE way(d, k) = p
            <4>1. /\ d \in Seq(STRING) /\ Len(d) \in Nat /\ f \in Paths /\ tree[f] = "file"
                  /\ f \in Seq(STRING) /\ Len(f) = Len(d) + 1 /\ DOMAIN d = 1 .. Len(d)
                BY <1>7
            <4>2. k \in 0 .. Len(f) /\ k \in Nat
                BY <3>1, <4>1, <1>5
            <4>3. /\ tree[SubSeq(f, 1, k)] = IF k = Len(f) THEN "file" ELSE "dir"
                  /\ Len(SubSeq(f, 1, k)) = k
                  /\ k < Len(f) => SubSeq(f, 1, k + 1) \in Children(SubSeq(f, 1, k))
                BY <4>1, <4>2, <1>2, OnTheWay
            <4>4. k # Len(f)
                BY <4>3, <3>3, <1>8
            <4>5. k < Len(f) /\ k \in 0 .. Len(d) /\ k + 1 \in Len(r) .. Len(d) + 1
                BY <4>1, <4>2, <4>4, <3>1, <1>5
            <4>6. way(d, k + 1) \in Children(p)
                BY <4>3, <4>5, <3>3
            <4>7. name # GitDir
                <5>1. CASE k = 0
                    <6>1. Len(p) = 0
                        BY <5>1, <4>3, <3>3
                    <6>2. p = <<>>
                        BY <6>1, <1>6, EmptySeq
                    <6> QED
                        BY <6>2, Names
                <5>2. CASE k # 0
                    <6>1. Len(p) = k /\ k \in DOMAIN d /\ k >= Len(r)
                        BY <5>2, <4>1, <4>2, <4>3, <4>5, <3>1, <3>3, <1>5
                    <6>2. p[k] = d[k]
                        <7>1. SubSeq(f, 1, k) = SubSeq(d, 1, k)
                            BY <4>1, <4>5, Names, FileOf
                        <7>2. SubSeq(d, 1, k)[k] = d[k]
                            BY <4>1, <4>5, <6>1, BeginningOf
                        <7> QED
                            BY <7>1, <7>2, <3>3
                    <6>3. p # <<>>
                        BY <6>1, <5>2
                    <6>4. name = p[k]
                        BY <6>1, <6>3 DEF Last
                    <6> QED
                        BY <6>1, <6>2, <6>4, <1>7
                <5> QED
                    BY <5>1, <5>2
            <4>8. way(d, k + 1) \in todo'
                BY <4>6, <4>7, <1>8
            <4> QED
                BY <4>5, <4>8
        <3> QED
            BY <3>2, <3>3
    <2>3. \A q \in todo' : q \in Paths /\ tree[q] # "absent" /\ clean(q)
        BY <2>1, <1>3, <1>8
    <2>4. WalkInv'
        <3>1. Reached(pattern)' = Reached(pattern) /\ Passable(pattern)'
            BY <1>1, <1>3 DEF Passable, Reached, KindOf, pattern
        <3>2. FixedPart(pattern)' = r /\ Recursive(pattern)'
            BY <1>1, <1>3 DEF pattern, r
        <3> QED
            BY <3>1, <3>2, <2>2, <2>3, <1>1, <1>3, <1>8 DEF WalkInv
    <2>5. Wanted(i - 1)' = Wanted(i - 1) /\ (\A l \in 1 .. i - 1 : Good(sources[l].pattern))'
        BY <1>1, <1>2, MeaningKept
    <2> QED
        BY <2>4, <2>5, <1>1, <1>2 DEF TreeInv
<1>9. CASE /\ tree[p] # "dir" /\ todo' = todo \ {p}
           /\ \/ hit /\ matches' = matches \cup {Parent(p)}
              \/ ~hit /\ matches' = matches
    <2>1. p # <<>>
        BY <1>2, <1>9, CheckoutTrees
    <2>2. name = Last(p)
        BY <2>1
    <2>3. /\ Len(p) >= 1 /\ Parent(p) \in Seq(STRING) /\ Len(Parent(p)) = Len(p) - 1
          /\ Parent(p) = SubSeq(p, 1, Len(p) - 1)
          /\ \A k \in 1 .. Len(p) - 1 : Parent(p)[k] = p[k]
          /\ Append(Parent(p), Last(p)) = p
        BY <2>1, <1>6, ParentOf
    <2>4. ASSUME hit PROVE Parent(p) \in Reached(pattern)
        <3> DEFINE d == Parent(p)
        <3>1. d \in Paths
            <4>1. Len(p) - 1 \in 0 .. Len(p)
                BY <2>3, <1>6
            <4> QED
                BY <4>1, <2>3, <1>6, CheckoutTrees
        <3>2. Fits(pattern, d)
            BY <2>3, <2>4, <1>3, <1>4, MatchIsFit
        <3>3. KindOf(Append(d, FileName)) = "file"
            BY <2>2, <2>3, <2>4, <1>6 DEF KindOf
        <3>4. \A k \in DOMAIN d : k >= Len(r) => d[k] # GitDir
            <4>1. DOMAIN d = 1 .. Len(p) - 1
                BY <2>3
            <4> QED
                BY <4>1, <2>3, <1>6
        <3> HIDE DEF d
        <3> QED
            BY <3>1, <3>2, <3>3, <3>4, <1>3 DEF Reached, r, d
    <2>5. ASSUME NEW d \in Reached(pattern) \ matches'
          PROVE  \E k \in Len(r) .. Len(d) + 1 : way(d, k) \in todo'
        <3> DEFINE f == Append(d, FileName)
        <3>1. d \in Reached(pattern) \ matches
            BY <1>9, <2>5
        <3>2. PICK k \in Len(r) .. Len(d) + 1 : way(d, k) \in todo
            BY <3>1, <1>3
        <3>3. way(d, k) # p
            <4> SUFFICES ASSUME way(d, k) = p PROVE FALSE
                OBVIOUS
            <4>1. /\ d \in Seq(STRING) /\ Len(d) \in Nat /\ f \in Paths /\ tree[f] = "file"
                  /\ f \in Seq(STRING) /\ Len(f) = Len(d) + 1 /\ f[Len(d) + 1] = FileName /\ Parent(f) = d
                BY <1>7
            <4>2. k \in 0 .. Len(f)
                BY <3>2, <4>1, <1>5
            <4>3. k = Len(f)
                BY <4>1, <4>2, <1>2, <1>9, OnTheWay
            <4>4. p = f
                BY <4>1, <4>3, WholePath
            <4>5. name = FileName /\ tree[p] = "file" /\ Parent(p) = d
                BY <4>1, <4>4, <2>2 DEF Last
            <4>6. matchesRecursiveManifestPath(pattern, d)
                <5>1. Fits(pattern, d)
                    BY <3>1, <1>3 DEF Reached
                <5> QED
                    BY <5>1, <4>1, <1>3, <1>4, MatchIsFit
            <4> QED
                BY <4>5, <4>6, <1>9, <2>5
        <3> QED
            BY <3>2, <3>3, <1>9
    <2>6. matches' \subseteq Reached(pattern)
        BY <2>4, <1>3, <1>9
    <2>7. WalkInv'
        <3>1. Reached(pattern)' = Reached(pattern) /\ Passable(pattern)'
            BY <1>1, <1>3 DEF Passable, Reached, KindOf, pattern
        <3>2. FixedPart(pattern)' = r /\ Recursive(pattern)'
            BY <1>1, <1>3 DEF pattern, r
        <3>3. \A q \in todo' : q \in Paths /\ tree[q] # "absent" /\ clean(q)
            BY <1>3, <1>9
        <3> QED
            BY <3>1, <3>2, <3>3, <2>5, <2>6, <1>1, <1>3 DEF WalkInv
    <2>8. Wanted(i - 1)' = Wanted(i - 1) /\ (\A l \in 1 .. i - 1 : Good(sources[l].pattern))'
        BY <1>1, <1>2, MeaningKept
    <2> QED
        BY <2>7, <2>8, <1>1, <1>2 DEF TreeInv
<1> QED
    BY <1>8, <1>9 DEF Visit

(* Nothing is left to visit: all that the pattern describes was found.     *)
LEMMA WalkEndStep == ASSUME TreeInv, WalkEnd PROVE TreeInv'
<1>1. pc = "walk" /\ todo = {} /\ UNCHANGED <<tree, sources>> /\ WalkInv
    BY DEF WalkEnd, TreeInv
<1>2. i <= Len(sources) /\ Passable(pattern) /\ matches = Reached(pattern)
    BY <1>1 DEF WalkInv
<1>3. CASE matches = {} /\ Fail("ErrManifestNotFound")
    <2>1. ~Good(pattern)
        BY <1>2, <1>3 DEF Good
    <2> QED
        BY <2>1, <1>1, <1>2, <1>3, FailStep
<1>4. CASE matches # {} /\ Resolved(matches)
    <2>1. Good(pattern) /\ Resolved(Reached(pattern))
        BY <1>2, <1>4 DEF Good
    <2> QED
        BY <2>1, <1>1, <1>2, ResolvedStep
<1> QED
    BY <1>3, <1>4 DEF WalkEnd

(* The context ends.                                                       *)
LEMMA InterruptStep == ASSUME TreeInv, Interrupt PROVE TreeInv'
<1>1. pc = "walk" /\ Fail("canceled") /\ UNCHANGED <<tree, sources>> /\ i <= Len(sources)
    BY DEF Interrupt, TreeInv, WalkInv
<1> QED
    BY <1>1, FailStep

(* Every source is resolved, and directories reached twice are compared.   *)
LEMMA NormalizeStep == ASSUME TreeInv, Normalize PROVE TreeInv'
<1>1. /\ pc = "inspect" /\ i > Len(sources) /\ tree' = tree /\ sources' = sources
      /\ i' = i /\ resolved' = resolved /\ pc' = "done"
      /\ err' = IF Conflict THEN "ErrIncompleteRule" ELSE err
    BY DEF Normalize, Fail
<1>2. /\ tree \in TreePool /\ sources \in SourcePool /\ i \in 1 .. Len(sources) + 1
      /\ resolved = Wanted(i - 1) /\ err = "none" /\ \A l \in 1 .. i - 1 : Good(sources[l].pattern)
    BY <1>1 DEF TreeInv
<1>3. i = Len(sources) + 1
    BY <1>1, <1>2, SourceTypes
<1>4. Wanted(i - 1)' = Wanted(i - 1) /\ (\A l \in 1 .. i - 1 : Good(sources[l].pattern))'
    BY <1>1, <1>2, MeaningKept
<1>5. Conflict' <=> Conflict
    BY <1>1 DEF Conflict
<1>6. Ended'
    BY <1>1, <1>2, <1>3, <1>5 DEF Ended
<1> QED
    BY <1>1, <1>2, <1>4, <1>6 DEF TreeInv

(* Nothing happens.                                                        *)
LEMMA NoStep == ASSUME TreeInv, UNCHANGED vars PROVE TreeInv'
<1>1. /\ tree' = tree /\ sources' = sources /\ i' = i /\ pc' = pc /\ at' = at /\ todo' = todo
      /\ matches' = matches /\ resolved' = resolved /\ err' = err
    BY DEF vars
<1>2. Wanted(i - 1)' = Wanted(i - 1)
    BY <1>1, MeaningKept
<1>3. (\A l \in 1 .. i - 1 : Good(sources[l].pattern))' <=> \A l \in 1 .. i - 1 : Good(sources[l].pattern)
    BY <1>1, MeaningKept
<1>4. Looked' <=> Looked
    BY <1>1 DEF Looked, KindOf, pattern
<1>5. (Reached(pattern)' = Reached(pattern)) /\ (Passable(pattern)' <=> Passable(pattern))
    BY <1>1 DEF Passable, Reached, KindOf, pattern
<1>6. FixedPart(pattern)' = FixedPart(pattern) /\ (Recursive(pattern)' <=> Recursive(pattern))
    BY <1>1 DEF pattern
<1>7. WalkInv' <=> WalkInv
    BY <1>1, <1>5, <1>6 DEF WalkInv
<1>8. (Good(pattern)' <=> Good(pattern)) /\ (Conflict' <=> Conflict)
    BY <1>1, <1>5 DEF Good, Conflict
<1>9. Ended' <=> Ended
    BY <1>1, <1>8 DEF Ended
<1> QED
    BY <1>1, <1>2, <1>3, <1>4, <1>7, <1>9 DEF TreeInv

(* Every step keeps the invariant.                                        *)
LEMMA NextTree == TreeInv /\ [Next]_vars => TreeInv'
<1> SUFFICES ASSUME TreeInv, [Next]_vars PROVE TreeInv'
    OBVIOUS
<1>1. CASE Inspect
    BY <1>1, InspectStep
<1>2. CASE WalkEnd
    BY <1>2, WalkEndStep
<1>3. CASE Interrupt
    BY <1>3, InterruptStep
<1>4. CASE Normalize
    BY <1>4, NormalizeStep
<1>5. CASE \E p \in todo : Visit(p)
    BY <1>5, VisitStep
<1>6. CASE UNCHANGED vars
    BY <1>6, NoStep
<1> QED
    BY <1>1, <1>2, <1>3, <1>4, <1>5, <1>6 DEF Next

-----------------------------------------------------------------------------
(* The theorems *)

(* What resolveManifestTargets returns follows from the invariant.         *)
LEMMA TreeInvExact == TreeInv => ExactlyMatching
<1> SUFFICES ASSUME TreeInv, pc = "done", err # "canceled" PROVE ExactlyMatching
    BY DEF ExactlyMatching
<1> DEFINE n == Len(sources)
           part(s) == {[dir |-> d, settings |-> s.settings] : d \in Reached(s.pattern)}
           wanted == UNION {part(s) : s \in Range(sources)}
           found  == \A s \in Range(sources) : Passable(s.pattern) /\ Reached(s.pattern) # {}
           clash  == \E t, u \in wanted : t.dir = u.dir /\ t.settings # u.settings
<1>1. /\ sources \in SourcePool /\ i \in 1 .. n + 1 /\ resolved = Wanted(i - 1) /\ Ended
      /\ \A l \in 1 .. i - 1 : Good(sources[l].pattern)
    BY DEF TreeInv
<1>2. n \in Nat /\ DOMAIN sources = 1 .. n
    BY <1>1, SourceTypes
<1>3. Range(sources) = {sources[l] : l \in 1 .. n}
    BY <1>2 DEF Range
<1>4. wanted = Wanted(n)
    <2>1. Wanted(n) = UNION {part(sources[l]) : l \in 1 .. n}
        BY DEF Wanted
    <2> HIDE DEF part
    <2> QED
        BY <2>1, <1>3
<1>5. found <=> \A l \in 1 .. n : Good(sources[l].pattern)
    BY <1>3 DEF Good
<1> HIDE DEF wanted, found
<1>6. ASSUME i = n + 1 PROVE found /\ resolved = wanted /\ (clash <=> Conflict)
    <2>1. i - 1 = n
        BY <1>2, <1>6
    <2>2. resolved = wanted
        BY <2>1, <1>1, <1>4
    <2> QED
        BY <2>1, <2>2, <1>1, <1>5 DEF Conflict
<1>7. ASSUME i <= n, ~Good(pattern) PROVE ~found
    BY <1>1, <1>2, <1>5, <1>7 DEF pattern
<1> HIDE DEF clash
<1>8. /\ err = "none" <=> found /\ ~clash
      /\ err = "ErrIncompleteRule" <=> found /\ clash
      /\ err = "none" => resolved = wanted
    <2>1. CASE /\ err \in {"ErrManifestNotFound", "ErrInvalidManifest", "other"}
               /\ i <= n /\ ~Good(pattern)
        BY <2>1, <1>7
    <2>2. CASE err = "ErrIncompleteRule" /\ i = n + 1 /\ Conflict
        BY <2>2, <1>6
    <2>3. CASE err = "none" /\ i = n + 1 /\ ~Conflict
        BY <2>3, <1>6
    <2> QED
        BY <2>1, <2>2, <2>3, <1>1 DEF Ended
<1> QED
    BY <1>8 DEF ExactlyMatching, wanted, found, clash

(* Resolve returns what the patterns describe, for every checkout and      *)
(* every list of patterns, in whatever order the tree is walked: the       *)
(* directories with a kustomization.yaml that fit, all of them and no      *)
(* other, or the error that there is no such directory, that the way to it *)
(* is no directory, or that two patterns disagree about one.               *)
THEOREM ResolvesExactly == Spec => []ExactlyMatching
<1>1. Init => TreeInv
    BY InitTree
<1>2. TreeInv /\ [Next]_vars => TreeInv'
    BY NextTree
<1>3. TreeInv => ExactlyMatching
    BY TreeInvExact
<1> QED
    BY <1>1, <1>2, <1>3, PTL DEF Spec

(* The way to a directory that was resolved.                               *)
LEMMA TreeInvInside == TreeInv => NothingOutside
<1> SUFFICES ASSUME TreeInv, NEW t \in resolved, NEW q \in Steps(t.dir) PROVE KindOf(q) # "link"
    BY DEF NothingOutside
<1>1. /\ tree \in TreePool /\ sources \in SourcePool /\ i \in 1 .. Len(sources) + 1
      /\ resolved = Wanted(i - 1) /\ \A l \in 1 .. i - 1 : Good(sources[l].pattern)
    BY DEF TreeInv
<1>2. PICK l \in 1 .. i - 1 : t.dir \in Reached(sources[l].pattern)
    BY <1>1 DEF Wanted
<1> DEFINE p == sources[l].pattern
           d == t.dir
<1>3. p \in Seq(STRING) /\ Passable(p)
    <2>1. l \in 1 .. Len(sources)
        BY <1>1, SourceTypes
    <2> QED
        BY <2>1, <1>1, SourceTypes DEF Good
<1> HIDE DEF p, d
<1>4. d \in Reached(p) /\ q \in Steps(d)
    BY <1>2 DEF p, d
<1>5. CASE ~Recursive(p)
    BY <1>3, <1>4, <1>5 DEF Reached, Passable, FixedPart
<1>6. CASE Recursive(p)
    <2> DEFINE f == Append(d, FileName)
    <2>1. d \in Seq(STRING) /\ Len(d) \in Nat /\ KindOf(f) = "file"
        BY <1>1, <1>3, <1>4, <1>6, BelowFixedPart
    <2>2. Len(f) = Len(d) + 1 /\ \A k \in 0 .. Len(d) : SubSeq(f, 1, k) = SubSeq(d, 1, k)
        BY <2>1, Names, FileOf
    <2>3. PICK k \in 1 .. Len(d) : q = SubSeq(d, 1, k)
        BY <1>4 DEF Steps
    <2>4. k \in 0 .. Len(d) /\ k \in 0 .. Len(f) - 1
        BY <2>1, <2>2, <2>3
    <2>5. KindOf(SubSeq(f, 1, k)) = "dir"
        BY <2>1, <2>4, <1>1, DirAbove
    <2> QED
        BY <2>2, <2>3, <2>4, <2>5
<1> QED
    BY <1>5, <1>6

(* What is resolved lies in the checkout: no component of a target that    *)
(* Patch will write below is a symlink, at any time, for every checkout    *)
(* and every list of patterns.                                             *)
THEOREM StaysInside == Spec => []NothingOutside
<1>1. Init => TreeInv
    BY InitTree
<1>2. TreeInv /\ [Next]_vars => TreeInv'
    BY NextTree
<1>3. TreeInv => NothingOutside
    BY TreeInvInside
<1> QED
    BY <1>1, <1>2, <1>3, PTL DEF Spec

=============================================================================
