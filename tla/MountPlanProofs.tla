--------------------------- MODULE MountPlanProofs ---------------------------
(***************************************************************************)
(* Proofs about MountPlan, for every file system, mount table and set of   *)
(* options that its assumptions allow.                                     *)
(***************************************************************************)
EXTENDS MountPlan, SequenceTheorems, Induction

(***************************************************************************)
(* Paths.                                                                  *)
(***************************************************************************)

\* A path continued by another one is below it, and what it was continued by is
\* the rest.
LEMMA PathJoin ==
  ASSUME NEW a \in Paths, NEW c \in Paths
  PROVE  Join(a, c) \in Paths /\ IsPrefix(a, Join(a, c)) /\ Rest(a, Join(a, c)) = c
<1> DEFINE b == Join(a, c)
<1>1. /\ b \in Seq(STRING) /\ Len(b) = Len(a) + Len(c)
      /\ \A i \in 1 .. Len(a) + Len(c) : b[i] = IF i <= Len(a) THEN a[i] ELSE c[i - Len(a)]
  BY ConcatProperties DEF Paths, Join
<1>2. Len(a) \in Nat /\ Len(c) \in Nat
  BY LenProperties DEF Paths
<1> HIDE DEF b
<1>3. IsPrefix(a, b)
  <2>1. \A i \in 1 .. Len(a) : b[i] = a[i] /\ a[i] \in STRING /\ b[i] \in STRING
    BY <1>1, <1>2, ElementOfSeq DEF Paths
  <2>2. /\ SubSeq(a, 1, Len(a)) \in Seq(STRING) /\ SubSeq(b, 1, Len(a)) \in Seq(STRING)
        /\ Len(SubSeq(a, 1, Len(a))) = Len(SubSeq(b, 1, Len(a)))
        /\ Len(SubSeq(a, 1, Len(a))) = Len(a)
        /\ \A i \in 1..Len(a) : SubSeq(a, 1, Len(a))[i] = a[i] /\ SubSeq(b, 1, Len(a))[i] = b[i]
    BY <1>2, <2>1, SubSeqProperties
  <2>3. SubSeq(a, 1, Len(a)) = SubSeq(b, 1, Len(a))
    BY <2>1, <2>2, SeqEqual
  <2>4. QED
    BY <1>1, <1>2, <2>3 DEF IsPrefix
<1>4. Rest(a, b) = c
  <2>1. \A i \in (Len(a) + 1) .. Len(b) : b[i] \in STRING
    BY <1>1, <1>2, ElementOfSeq
  <2>2. /\ Rest(a, b) \in Seq(STRING) /\ Len(Rest(a, b)) = Len(c)
        /\ \A i \in 1 .. Len(c) : Rest(a, b)[i] = b[Len(a) + i]
    BY <1>1, <1>2, <2>1, SubSeqProperties DEF Rest
  <2>3. \A i \in 1 .. Len(c) : b[Len(a) + i] = c[i]
    BY <1>1, <1>2
  <2>4. QED
    BY <2>2, <2>3, SeqEqual DEF Paths
<1>5. QED
  BY <1>1, <1>3, <1>4 DEF b, Paths

\* A path below another one is that one continued by the rest.
LEMMA PathSplit ==
  ASSUME NEW a \in Paths, NEW b \in Paths, IsPrefix(a, b)
  PROVE  Rest(a, b) \in Paths /\ b = Join(a, Rest(a, b))
<1>1. Len(a) \in Nat /\ Len(b) \in Nat /\ Len(a) <= Len(b)
  BY LenProperties DEF Paths, IsPrefix
<1>2. SubSeq(b, 1, Len(a)) = a
  BY SubSeqFull DEF IsPrefix, Paths
<1>3. SubSeq(b, 1, Len(a)) \o SubSeq(b, Len(a) + 1, Len(b)) = SubSeq(b, 1, Len(b))
  <2>1. 1 \in 1 .. Len(b) + 1 /\ Len(a) \in 1 - 1 .. Len(b) /\ Len(b) \in Len(a) .. Len(b)
    BY <1>1
  <2>2. b \in Seq(STRING)
    BY DEF Paths
  <2>3. QED
    BY <2>1, <2>2, ConcatAdjacentSubSeq
<1>4. SubSeq(b, 1, Len(b)) = b
  BY SubSeqFull DEF Paths
<1>5. Rest(a, b) \in Paths
  <2>1. \A i \in (Len(a) + 1) .. Len(b) : b[i] \in STRING
    BY <1>1, ElementOfSeq DEF Paths
  <2>2. QED
    BY <1>1, <2>1, SubSeqProperties DEF Rest, Paths
<1>6. QED
  BY <1>2, <1>3, <1>4, <1>5 DEF Rest, Join

\* Continuing is associative, and the root directory changes nothing.
LEMMA PathAssociative ==
  ASSUME NEW a \in Paths, NEW b \in Paths, NEW c \in Paths
  PROVE  Join(Join(a, b), c) = Join(a, Join(b, c))
  BY ConcatAssociative DEF Paths, Join

\* What a path is continued by is determined by the whole.
LEMMA PathCancel ==
  ASSUME NEW a \in Paths, NEW b \in Paths, NEW c \in Paths, Join(a, b) = Join(a, c)
  PROVE  b = c
<1>1. Rest(a, Join(a, b)) = b /\ Rest(a, Join(a, c)) = c
  BY PathJoin
<1>2. QED
  BY <1>1

\* The root directory is above every path, and continues none.
LEMMA PathRoot ==
  /\ <<>> \in Paths
  /\ \A a \in Paths : /\ Join(a, <<>>) = a /\ Join(<<>>, a) = a
                      /\ IsPrefix(<<>>, a) /\ IsPrefix(a, a)
<1>1. <<>> \in Paths
  BY EmptySeq DEF Paths
<1>2. ASSUME NEW a \in Paths PROVE Join(a, <<>>) = a /\ Join(<<>>, a) = a
  BY ConcatEmptySeq DEF Paths, Join
<1>3. ASSUME NEW a \in Paths PROVE IsPrefix(<<>>, a) /\ IsPrefix(a, a)
  <2>1. IsPrefix(<<>>, Join(<<>>, a)) /\ IsPrefix(a, Join(a, <<>>))
    BY <1>1, PathJoin
  <2>2. QED
    BY <1>2, <2>1
<1>4. QED
  BY <1>1, <1>2, <1>3

\* Being below is a partial order, and what is above one path is a chain.
LEMMA PathTransitive ==
  ASSUME NEW a \in Paths, NEW b \in Paths, NEW c \in Paths, IsPrefix(a, b), IsPrefix(b, c)
  PROVE  IsPrefix(a, c) /\ Rest(a, c) = Join(Rest(a, b), Rest(b, c))
<1> DEFINE x == Rest(a, b)
           y == Rest(b, c)
<1>1. x \in Paths /\ b = Join(a, x) /\ y \in Paths /\ c = Join(b, y)
  BY PathSplit
<1> HIDE DEF x, y
<1>2. Join(Join(a, x), y) = Join(a, Join(x, y))
  BY <1>1, PathAssociative
<1>3. c = Join(a, Join(x, y))
  BY <1>1, <1>2
<1>4. Join(x, y) \in Paths
  BY <1>1, PathJoin
<1>5. QED
  BY <1>3, <1>4, PathJoin DEF x, y

\* Two paths above each other are one.
LEMMA PathAntisymmetric ==
  ASSUME NEW a \in Paths, NEW b \in Paths, IsPrefix(a, b), IsPrefix(b, a)
  PROVE  a = b
<1>1. Len(a) = Len(b)
  BY LenProperties DEF Paths, IsPrefix
<1>2. SubSeq(a, 1, Len(a)) = a /\ SubSeq(b, 1, Len(b)) = b
  BY SubSeqFull DEF Paths
<1>3. QED
  BY <1>1, <1>2 DEF IsPrefix

\* Of two paths above a third one, one is above the other.
LEMMA PathChain ==
  ASSUME NEW a \in Paths, NEW b \in Paths, NEW c \in Paths, IsPrefix(a, c), IsPrefix(b, c)
  PROVE  IsPrefix(a, b) \/ IsPrefix(b, a)
<1>1. Len(a) \in Nat /\ Len(b) \in Nat /\ Len(c) \in Nat /\ Len(a) <= Len(c) /\ Len(b) <= Len(c)
  BY LenProperties DEF Paths, IsPrefix
<1>2. SubSeq(c, 1, Len(a)) = a /\ SubSeq(c, 1, Len(b)) = b
  BY SubSeqFull DEF Paths, IsPrefix
<1>3. ASSUME NEW x \in Paths, NEW y \in Paths, Len(x) \in Nat, Len(y) \in Nat,
             Len(x) <= Len(y), Len(y) <= Len(c),
             SubSeq(c, 1, Len(x)) = x, SubSeq(c, 1, Len(y)) = y
      PROVE  IsPrefix(x, y)
  <2>1. SubSeq(c, 1, Len(x)) \o SubSeq(c, Len(x) + 1, Len(y)) = SubSeq(c, 1, Len(y))
    <3>1. /\ 1 \in 1 .. Len(c) + 1 /\ Len(x) \in 1 - 1 .. Len(c)
          /\ Len(y) \in Len(x) .. Len(c)
      BY <1>1, <1>3
    <3>2. c \in Seq(STRING)
      BY DEF Paths
    <3>3. QED
      BY <3>1, <3>2, ConcatAdjacentSubSeq
  <2>2. SubSeq(c, Len(x) + 1, Len(y)) \in Paths
    <3>1. \A i \in (Len(x) + 1) .. Len(y) : c[i] \in STRING
      BY <1>1, <1>3, ElementOfSeq DEF Paths
    <3>2. QED
      BY <1>3, <3>1, SubSeqProperties DEF Paths
  <2>3. Join(x, SubSeq(c, Len(x) + 1, Len(y))) = y
    BY <1>3, <2>1 DEF Join
  <2>4. QED
    BY <2>2, <2>3, PathJoin
<1>4. QED
  BY <1>1, <1>2, <1>3

\* Paths continued by the same one are below each other as they were.
LEMMA PathJoinBelow ==
  ASSUME NEW a \in Paths, NEW b \in Paths, NEW c \in Paths
  PROVE  IsPrefix(Join(a, b), Join(a, c)) <=> IsPrefix(b, c)
<1>0. Join(a, b) \in Paths /\ Join(a, c) \in Paths
  BY PathJoin
<1>1. ASSUME IsPrefix(b, c) PROVE IsPrefix(Join(a, b), Join(a, c))
  <2> DEFINE r == Rest(b, c)
  <2>1. r \in Paths /\ c = Join(b, r)
    BY <1>1, PathSplit
  <2> HIDE DEF r
  <2>2. Join(Join(a, b), r) = Join(a, Join(b, r))
    BY <2>1, PathAssociative
  <2>3. IsPrefix(Join(a, b), Join(Join(a, b), r))
    BY <1>0, <2>1, PathJoin
  <2>4. QED
    BY <2>1, <2>2, <2>3
<1>2. ASSUME IsPrefix(Join(a, b), Join(a, c)) PROVE IsPrefix(b, c)
  <2> DEFINE r == Rest(Join(a, b), Join(a, c))
  <2>1. r \in Paths /\ Join(a, c) = Join(Join(a, b), r)
    BY <1>0, <1>2, PathSplit
  <2> HIDE DEF r
  <2>2. Join(Join(a, b), r) = Join(a, Join(b, r)) /\ Join(b, r) \in Paths
    BY <2>1, PathAssociative, PathJoin
  <2>3. c = Join(b, r)
    BY <2>1, <2>2, PathCancel
  <2>4. QED
    BY <2>1, <2>3, PathJoin
<1>3. QED
  BY <1>1, <1>2

(***************************************************************************)
(* The mount table.                                                        *)
(***************************************************************************)

\* A set of numbers up to n that is not empty has a largest one, and a least.
LEMMA LargestNumber ==
  ASSUME NEW n \in Nat, NEW I \in SUBSET (1..n), I # {}
  PROVE  Max(I) \in I /\ \A j \in I : Max(I) >= j
<1> DEFINE T == {k \in Nat : n - k \in I}
<1>1. T # {}
  <2>1. PICK i \in I : TRUE
    OBVIOUS
  <2>2. n - i \in Nat /\ n - (n - i) = i
    BY <2>1
  <2>3. QED
    BY <2>1, <2>2
<1>2. PICK k \in T : \A l \in T : ~(l < k)
  BY <1>1, LeastElement
<1>3. n - k \in I
  BY <1>2
<1>4. ASSUME NEW j \in I PROVE n - k >= j
  <2>1. n - j \in Nat /\ n - (n - j) = j
    OBVIOUS
  <2>2. n - j \in T
    BY <2>1
  <2>3. ~(n - j < k)
    BY <1>2, <2>2
  <2>4. QED
    BY <2>1, <2>3
<1> HIDE DEF T
<1>5. \E x \in I : \A j \in I : x >= j
  BY <1>3, <1>4
<1>6. QED
  BY <1>5 DEF Max

\* A set of numbers that is not empty has a least one.
LEMMA LeastNumber ==
  ASSUME NEW n \in Nat, NEW I \in SUBSET (1..n), I # {}
  PROVE  Min(I) \in I /\ \A j \in I : Min(I) <= j
<1>1. \E x \in I : \A y \in I : ~(y < x)
  BY LeastElement
<1>2. \E x \in I : \A j \in I : x <= j
  BY <1>1
<1>3. QED
  BY <1>2 DEF Min

\* The number of mounts of a table.
Count(m) == Len(m)

Tables == Seq(MountRecord)

\* The mounts of a table.
LEMMA TableMounts ==
  ASSUME NEW m \in Tables
  PROVE  Count(m) \in Nat /\ DOMAIN m = 1..Count(m) /\ \A i \in 1..Count(m) : m[i] \in MountRecord
  BY LenProperties, ElementOfSeq DEF Tables, Count

\* A mount table with one more mount.
LEMMA TableAppend ==
  ASSUME NEW m \in Tables, NEW x \in MountRecord
  PROVE  /\ Append(m, x) \in Tables /\ Count(Append(m, x)) = Count(m) + 1
         /\ \A i \in 1..Count(m) : Append(m, x)[i] = m[i]
         /\ Append(m, x)[Count(m) + 1] = x
  BY AppendProperties DEF Tables, Count

\* Two mount tables one after the other.
LEMMA TableJoin ==
  ASSUME NEW m \in Tables, NEW t \in Tables
  PROVE  /\ Join(m, t) \in Tables /\ Count(Join(m, t)) = Count(m) + Count(t)
         /\ \A i \in 1..Count(m) : Join(m, t)[i] = m[i]
         /\ \A i \in 1..Count(t) : Join(m, t)[Count(m) + i] = t[i]
<1> DEFINE b == Join(m, t)
<1>1. /\ b \in Seq(MountRecord) /\ Len(b) = Len(m) + Len(t)
      /\ \A i \in 1 .. Len(m) + Len(t) : b[i] = IF i <= Len(m) THEN m[i] ELSE t[i - Len(m)]
  BY ConcatProperties DEF Tables, Join
<1>2. Len(m) \in Nat /\ Len(t) \in Nat
  BY LenProperties DEF Tables
<1> HIDE DEF b
<1>3. /\ \A i \in 1..Len(m) : b[i] = m[i]
      /\ \A i \in 1..Len(t) : b[Len(m) + i] = t[i]
  BY <1>1, <1>2
<1>4. QED
  BY <1>1, <1>3 DEF b, Tables, Count

\* A function from 1..n to mounts is a table.
LEMMA TableMade ==
  ASSUME NEW n \in Nat, NEW t \in [1..n -> MountRecord]
  PROVE  t \in Tables /\ Count(t) = n
<1>1. t \in Seq(MountRecord)
  BY SeqDef DEF Tables
<1>2. QED
  BY <1>1, LenProperties DEF Tables, Count

\* The mounts a table keeps are those of I, in their order: g says which.
KeptBy(t, L, g, m, I, n) ==
  /\ L \in Nat /\ g \in [1..L -> 1..n]
  /\ \A k \in 1..L : g[k] \in I /\ t[k] = m[g[k]]
  /\ \A k \in 1..L, l \in 1..L : k < l => g[k] < g[l]
  /\ \A i \in 1..n : i \in I => \E k \in 1..L : g[k] = i
  /\ t \in Tables /\ Count(t) = L

KeepStep(m, I, n, t) == IF n \in I THEN Append(t, m[n]) ELSE t

\* One more mount is kept or left out.
LEMMA KeptStep ==
  ASSUME NEW m \in Tables, NEW I, NEW n \in 1..Count(m), NEW t, NEW L, NEW g,
         KeptBy(t, L, g, m, I, n - 1)
  PROVE  \E M, h : KeptBy(KeepStep(m, I, n, t), M, h, m, I, n)
<1>0. Count(m) \in Nat /\ n \in Nat /\ n - 1 \in Nat /\ m[n] \in MountRecord
  BY TableMounts
<1>1. CASE n \notin I
  <2>1. g \in [1..L -> 1..n]
    <3>1. 1..(n - 1) \subseteq 1..n
      BY <1>0
    <3>2. QED
      BY <3>1 DEF KeptBy
  <2>2. \A i \in 1..n : i \in I => i \in 1..(n - 1)
    BY <1>0, <1>1
  <2>3. KeptBy(t, L, g, m, I, n)
    BY <2>1, <2>2 DEF KeptBy
  <2>4. QED
    BY <1>1, <2>3 DEF KeepStep
<1>2. CASE n \in I
  <2> DEFINE h == [k \in 1..(L + 1) |-> IF k = L + 1 THEN n ELSE g[k]]
             u == Append(t, m[n])
  <2>1. L \in Nat /\ L + 1 \in Nat /\ t \in Tables /\ Count(t) = L
    BY DEF KeptBy
  <2>2. /\ u \in Tables /\ Count(u) = L + 1
        /\ \A k \in 1..L : u[k] = t[k]
        /\ u[L + 1] = m[n]
    BY <1>0, <2>1, TableAppend
  <2>3. \A k \in 1..L : g[k] \in 1..(n - 1) /\ g[k] \in 1..n /\ g[k] < n
    BY <1>0, <2>1 DEF KeptBy
  <2>4. /\ h \in [1..(L + 1) -> 1..n]
        /\ \A k \in 1..L : h[k] = g[k]
        /\ h[L + 1] = n
    BY <1>0, <2>1, <2>3
  <2>5. \A k \in 1..(L + 1) : k \in 1..L \/ k = L + 1
    BY <2>1
  <2>6. L + 1 \in 1..(L + 1) /\ 1..L \subseteq 1..(L + 1)
    BY <2>1
  <2> HIDE DEF h, u
  <2>7. \A k \in 1..(L + 1) : h[k] \in I /\ u[k] = m[h[k]]
    BY <1>2, <2>2, <2>4, <2>5 DEF KeptBy
  <2>8. ASSUME NEW k \in 1..(L + 1), NEW l \in 1..(L + 1), k < l PROVE h[k] < h[l]
    <3>1. k \in 1..L
      BY <2>1, <2>8
    <3>2. CASE l = L + 1
      BY <2>3, <2>4, <3>1, <3>2
    <3>3. CASE l \in 1..L
      BY <2>4, <2>8, <3>1, <3>3 DEF KeptBy
    <3>4. QED
      BY <2>5, <3>2, <3>3
  <2>9. ASSUME NEW i \in 1..n, i \in I PROVE \E k \in 1..(L + 1) : h[k] = i
    <3>1. CASE i = n
      BY <2>4, <2>6, <3>1
    <3>2. CASE i # n
      <4>1. i \in 1..(n - 1)
        BY <1>0, <3>2
      <4>2. PICK k \in 1..L : g[k] = i
        BY <2>9, <4>1 DEF KeptBy
      <4>3. QED
        BY <2>4, <2>6, <4>2
    <3>3. QED
      BY <3>1, <3>2
  <2>10. KeptBy(u, L + 1, h, m, I, n)
    BY <2>1, <2>2, <2>4, <2>7, <2>8, <2>9 DEF KeptBy
  <2>11. QED
    BY <1>2, <2>10 DEF KeepStep, u
<1>3. QED
  BY <1>1, <1>2

\* The mounts that are kept are those asked for, in their order.
LEMMA KeptIs ==
  ASSUME NEW m \in Tables, NEW I
  PROVE  \E L, g : KeptBy(Kept(m, I), L, g, m, I, Count(m))
<1> DEFINE N == Count(m)
           IsKept(t) == t = [n \in 0..N |-> IF n = 0 THEN <<>>
                                            ELSE IF n \in I THEN Append(t[n - 1], m[n])
                                            ELSE t[n - 1]]
           F == [n \in 1..N |-> [t \in Tables |-> KeepStep(m, I, n, t)]]
<1>1. Kept(m, I) = (CHOOSE t : IsKept(t))[N]
  BY DEF Kept, Count
<1>2. N \in Nat /\ \A n \in 1..N : m[n] \in MountRecord
  BY TableMounts
<1> HIDE DEF N
<1>3. ASSUME NEW n \in 1..N, NEW t \in Tables PROVE KeepStep(m, I, n, t) \in Tables
  BY <1>2, TableAppend DEF KeepStep
<1>4. F \in [1..N -> [Tables -> Tables]]
  BY <1>3
<1>5. <<>> \in Tables
  BY EmptySeq DEF Tables
<1>6. PICK t \in [0..N -> Tables] : Iterates(t, <<>>, N, F)
  <2> HIDE DEF F
  <2>1. N \in Nat
    BY <1>2
  <2>2. QED
    BY <1>4, <1>5, <2>1, Iteration, Zenon
<1>7. \A n \in 1..N : t[n] = KeepStep(m, I, n, t[n - 1])
  <2> TAKE n \in 1..N
  <2>1. n - 1 \in 0..N
    BY <1>2
  <2>2. t[n - 1] \in Tables
    BY <1>6, <2>1
  <2>3. QED
    BY <1>6, <2>2 DEF Iterates
<1>8. IsKept(t)
  <2>1. \A n \in 0..N : n = 0 \/ n \in 1..N
    BY <1>2
  <2>2. t[0] = <<>>
    BY <1>6 DEF Iterates
  <2>3. \A n \in 0..N : t[n] = IF n = 0 THEN <<>>
                               ELSE IF n \in I THEN Append(t[n - 1], m[n])
                               ELSE t[n - 1]
    BY <1>7, <2>1, <2>2 DEF KeepStep
  <2>4. QED
    BY <1>6, <2>3
<1> DEFINE k == CHOOSE u : IsKept(u)
<1>9. IsKept(k)
  <2> HIDE DEF IsKept
  <2> QED
    BY <1>8
<1> HIDE DEF k
<1>10. k[0] = <<>> /\ \A n \in 1..N : k[n] = KeepStep(m, I, n, k[n - 1])
  <2>1. 0 \in 0..N /\ \A n \in 1..N : n \in 0..N /\ n # 0
    BY <1>2
  <2>2. QED
    BY <1>9, <2>1 DEF KeepStep
<1> HIDE DEF IsKept
<1> DEFINE S == {n \in 0..N : \E L, g : KeptBy(k[n], L, g, m, I, n)}
<1>11. 0 \in S
  <2> DEFINE g == [i \in 1..0 |-> i]
  <2>1. 1..0 = {} /\ g \in [1..0 -> 1..0] /\ 0 \in Nat /\ 0 \in 0..N
    BY <1>2
  <2>2. Count(<<>>) = 0
    BY EmptySeq DEF Count
  <2> HIDE DEF g
  <2>3. KeptBy(<<>>, 0, g, m, I, 0)
    BY <1>5, <2>1, <2>2 DEF KeptBy
  <2>4. QED
    BY <1>10, <2>1, <2>3
<1>12. ASSUME NEW n \in 1..N, n - 1 \in S PROVE n \in S
  <2>1. PICK L, g : KeptBy(k[n - 1], L, g, m, I, n - 1)
    BY <1>12
  <2>2. \E M, h : KeptBy(KeepStep(m, I, n, k[n - 1]), M, h, m, I, n)
    BY <2>1, KeptStep DEF N
  <2>3. k[n] = KeepStep(m, I, n, k[n - 1]) /\ n \in 0..N
    BY <1>2, <1>10
  <2>4. QED
    BY <2>2, <2>3
<1>13. N \in S
  <2> HIDE DEF S
  <2>1. 0..N \subseteq S
    BY <1>2, <1>11, <1>12, IntervalInduction
  <2>2. QED
    BY <1>2, <2>1
<1>14. QED
  BY <1>1, <1>13 DEF k, N

\* The last mount at or above a path.
Covers(m, k, p) ==
  /\ k \in 1..Count(m) /\ IsPrefix(m[k].at, p)
  /\ \A j \in 1..Count(m) : j > k => ~IsPrefix(m[j].at, p)

\* If some mount is at or above p, MountOf finds the last one of them.
LEMMA MountOfIs ==
  ASSUME NEW m, Count(m) \in Nat, NEW p, NEW i \in 1..Count(m), IsPrefix(m[i].at, p)
  PROVE  Covers(m, MountOf(m, p), p)
<1> DEFINE I == {j \in 1..Count(m) : IsPrefix(m[j].at, p)}
<1>1. I \in SUBSET (1..Count(m)) /\ I # {}
  OBVIOUS
<1>2. MountOf(m, p) = Max(I)
  BY <1>1 DEF MountOf, SelectLastInSeq, Count
<1>3. Max(I) \in I /\ \A j \in I : Max(I) >= j
  <2> HIDE DEF I
  <2> QED
    BY <1>1, LargestNumber
<1>4. MountOf(m, p) \in 1..Count(m) /\ IsPrefix(m[MountOf(m, p)].at, p)
  BY <1>2, <1>3
<1>5. ASSUME NEW j \in 1..Count(m), j > MountOf(m, p), IsPrefix(m[j].at, p) PROVE FALSE
  <2>1. j \in I
    BY <1>5
  <2>2. MountOf(m, p) >= j
    BY <1>2, <1>3, <2>1
  <2>3. QED
    BY <1>4, <1>5, <2>2
<1>6. QED
  BY <1>4, <1>5 DEF Covers

\* No other mount is the last one at or above p.
LEMMA CoversUnique ==
  ASSUME NEW m, Count(m) \in Nat, NEW p, NEW k, Covers(m, k, p)
  PROVE  MountOf(m, p) = k
<1>1. Covers(m, MountOf(m, p), p)
  BY MountOfIs DEF Covers
<1>2. QED
  BY <1>1 DEF Covers

\* A table that begins with the root directory's mount: every path is in a mount.
Rooted(m) == m \in Tables /\ Count(m) >= 1 /\ m[1].at = <<>>

Cover(m, p) == m[MountOf(m, p)]

\* In a table with the root directory, every path is on a mount.
LEMMA RootCovers ==
  ASSUME NEW m, Rooted(m), NEW p \in Paths
  PROVE  Covers(m, MountOf(m, p), p) /\ Cover(m, p) \in MountRecord
<1>1. Count(m) \in Nat /\ 1 \in 1..Count(m) /\ \A i \in 1..Count(m) : m[i] \in MountRecord
  BY TableMounts DEF Rooted
<1>2. IsPrefix(m[1].at, p)
  BY PathRoot DEF Rooted
<1>3. Covers(m, MountOf(m, p), p)
  BY <1>1, <1>2, MountOfIs
<1>4. QED
  BY <1>1, <1>3 DEF Covers, Cover

\* Mounts and what the system calls make of them.
Moved(x, at, dir) == [x EXCEPT !.at = at, !.dir = dir, !.carried = FALSE]
Layered(x, at, dir) == [x EXCEPT !.at = at, !.dir = dir, !.cow = TRUE, !.ro = FALSE,
                                 !.locked = FALSE, !.carried = FALSE]
Copy(x, at) == [x EXCEPT !.at = at, !.carried = TRUE]
Flagged(x, ro) == IF x.locked THEN x ELSE [x EXCEPT !.ro = @ \/ ro]

\* The fields of a mount.
LEMMA RecordFields ==
  ASSUME NEW x \in MountRecord
  PROVE  /\ x.at \in Paths /\ x.dir \in Paths
         /\ x.fs \in {"host", "tmpfs", "proc", "sysfs"}
         /\ x.cow \in BOOLEAN /\ x.ro \in BOOLEAN /\ x.net \in BOOLEAN /\ x.carried \in BOOLEAN
         /\ x.locked \in BOOLEAN
  BY DEF MountRecord

Mounted(y, at, fs, dir) == y \in MountRecord /\ y.at = at /\ y.fs = fs /\ y.dir = dir
HasFlags(y, cow, ro, carried) == (y.cow <=> cow) /\ (y.ro <=> ro) /\ (y.carried <=> carried)

\* The mount a bind makes of the one its source is on.
LEMMA MovedIs ==
  ASSUME NEW x \in MountRecord, NEW at \in Paths, NEW dir \in Paths
  PROVE  /\ Mounted(Moved(x, at, dir), at, x.fs, dir)
         /\ HasFlags(Moved(x, at, dir), x.cow, x.ro, FALSE)
         /\ Moved(x, at, dir).locked <=> x.locked
  BY DEF MountRecord, Moved, Mounted, HasFlags

\* The mount an overlay makes of the one its directory is on.
LEMMA LayeredIs ==
  ASSUME NEW x \in MountRecord, NEW at \in Paths, NEW dir \in Paths
  PROVE  /\ Mounted(Layered(x, at, dir), at, x.fs, dir)
         /\ HasFlags(Layered(x, at, dir), TRUE, FALSE, FALSE)
  BY DEF MountRecord, Layered, Mounted, HasFlags

\* The copy that a recursive bind makes of a mount below its source.
LEMMA CopyIs ==
  ASSUME NEW x \in MountRecord, NEW at \in Paths
  PROVE  /\ Mounted(Copy(x, at), at, x.fs, x.dir)
         /\ HasFlags(Copy(x, at), x.cow, x.ro, TRUE)
  BY DEF MountRecord, Copy, Mounted, HasFlags

\* A remount changes nothing but the read-only flag, and that only if it may.
LEMMA FlaggedIs ==
  ASSUME NEW x \in MountRecord, NEW ro \in BOOLEAN
  PROVE  /\ Mounted(Flagged(x, ro), x.at, x.fs, x.dir)
         /\ HasFlags(Flagged(x, ro), x.cow, x.ro \/ (ro /\ ~x.locked), x.carried)
         /\ Flagged(x, ro).locked <=> x.locked
<1>1. CASE x.locked
  BY <1>1 DEF Flagged, Mounted, HasFlags
<1>2. CASE ~x.locked
  <2>1. Flagged(x, ro) = [x EXCEPT !.ro = @ \/ ro]
    BY <1>2 DEF Flagged
  <2>2. ASSUME NEW y, y = [x EXCEPT !.ro = @ \/ ro]
        PROVE  /\ Mounted(y, x.at, x.fs, x.dir) /\ HasFlags(y, x.cow, x.ro \/ ro, x.carried)
               /\ y.locked <=> x.locked
    BY <2>2 DEF MountRecord, Mounted, HasFlags
  <2>3. QED
    BY <1>2, <2>1, <2>2
<1>3. QED
  BY <1>1, <1>2

\* A new file system is mounted writable, and no overlay.
LEMMA MountIs ==
  ASSUME NEW at \in Paths, NEW dir \in Paths, NEW fs \in {"host", "tmpfs", "proc", "sysfs"}
  PROVE  /\ Mounted(Mount(at, fs, dir), at, fs, dir)
         /\ HasFlags(Mount(at, fs, dir), FALSE, FALSE, FALSE)
  BY DEF MountRecord, Mount, Mounted, HasFlags

\* What a path names.
LEMMA LocateIs ==
  ASSUME NEW m, Rooted(m), NEW p \in Paths
  PROVE  /\ Locate(m, p).fs = Cover(m, p).fs
         /\ Locate(m, p).path = Join(Cover(m, p).dir, Rest(Cover(m, p).at, p))
         /\ Locate(m, p).path \in Paths /\ Cover(m, p).fs \in {"host", "tmpfs", "proc", "sysfs"}
         /\ IsPrefix(Cover(m, p).at, p) /\ IsPrefix(Cover(m, p).dir, Locate(m, p).path)
         /\ Cover(m, p).dir = Cover(m, p).at => Locate(m, p).path = p
<1>1. /\ Cover(m, p) \in MountRecord /\ IsPrefix(Cover(m, p).at, p)
      /\ Cover(m, p).at \in Paths /\ Cover(m, p).dir \in Paths
      /\ Cover(m, p).fs \in {"host", "tmpfs", "proc", "sysfs"}
  BY RootCovers, RecordFields DEF Covers, Cover
<1>2. /\ Locate(m, p).fs = Cover(m, p).fs
      /\ Locate(m, p).path = Join(Cover(m, p).dir, Rest(Cover(m, p).at, p))
  BY DEF Locate, Cover
<1>3. Rest(Cover(m, p).at, p) \in Paths /\ p = Join(Cover(m, p).at, Rest(Cover(m, p).at, p))
  BY <1>1, PathSplit
<1>4. QED
  BY <1>1, <1>2, <1>3, PathJoin

\* What is left of a path below another stays when both are moved.
LEMMA PathRestJoin ==
  ASSUME NEW a \in Paths, NEW b \in Paths, NEW c \in Paths, IsPrefix(b, c)
  PROVE  Rest(Join(a, b), Join(a, c)) = Rest(b, c)
<1> DEFINE r == Rest(b, c)
<1>1. r \in Paths /\ c = Join(b, r)
  BY PathSplit
<1> HIDE DEF r
<1>2. Join(a, c) = Join(Join(a, b), r) /\ Join(a, b) \in Paths
  BY <1>1, PathAssociative, PathJoin
<1>3. Rest(Join(a, b), Join(Join(a, b), r)) = r
  BY <1>1, <1>2, PathJoin
<1>4. QED
  BY <1>2, <1>3 DEF r

\* A bind: one mount more.
Bound(m, src, dst) == Moved(Cover(m, src), dst, Locate(m, src).path)

\* A bind shows what its source names, with the flags of the mount it is on.
LEMMA BoundIs ==
  ASSUME NEW m, Rooted(m), NEW src \in Paths, NEW dst \in Paths
  PROVE  /\ Mounted(Bound(m, src, dst), dst, Cover(m, src).fs, Locate(m, src).path)
         /\ HasFlags(Bound(m, src, dst), Cover(m, src).cow, Cover(m, src).ro, FALSE)
         /\ Bound(m, src, dst).locked <=> Cover(m, src).locked
<1>1. Cover(m, src) \in MountRecord /\ Locate(m, src).path \in Paths
  BY RootCovers, LocateIs
<1>2. QED
  BY <1>1, MovedIs DEF Bound

\* A bind adds one mount.
LEMMA BindIs ==
  ASSUME NEW m, NEW src, NEW dst
  PROVE  Bind(m, src, dst) = Append(m, Bound(m, src, dst))
  BY DEF Bind, Bound, Moved, Cover

\* A recursive bind: the mounts below the source come with it.
Below(m, src, i) == i > MountOf(m, src) /\ IsStrictPrefix(src, m[i].at)
Brought(m, src, dst, i) == Copy(m[i], Join(dst, Rest(src, m[i].at)))

BoundBy(b, L, g, m, src, dst) ==
  /\ L \in Nat /\ g \in [1..L -> 1..Count(m)]
  /\ b \in Tables /\ Count(b) = Count(m) + 1 + L
  /\ \A i \in 1..Count(m) : b[i] = m[i]
  /\ b[Count(m) + 1] = Bound(m, src, dst)
  /\ \A k \in 1..L : Below(m, src, g[k]) /\ b[Count(m) + 1 + k] = Brought(m, src, dst, g[k])
  /\ \A k \in 1..L, l \in 1..L : k < l => g[k] < g[l]
  /\ \A i \in 1..Count(m) : Below(m, src, i) => \E k \in 1..L : g[k] = i

\* Where a mount below the source arrives with a recursive bind.
LEMMA BroughtIs ==
  ASSUME NEW m, Rooted(m), NEW src \in Paths, NEW dst \in Paths,
         NEW i \in 1..Count(m), Below(m, src, i)
  PROVE  /\ Rest(src, m[i].at) \in Paths /\ m[i].at = Join(src, Rest(src, m[i].at))
         /\ Mounted(Brought(m, src, dst, i), Join(dst, Rest(src, m[i].at)), m[i].fs, m[i].dir)
         /\ HasFlags(Brought(m, src, dst, i), m[i].cow, m[i].ro, TRUE)
         /\ Brought(m, src, dst, i).at \in Paths
         /\ IsStrictPrefix(dst, Brought(m, src, dst, i).at)
<1> DEFINE r == Rest(src, m[i].at)
<1>1. m[i] \in MountRecord /\ m[i].at \in Paths /\ IsPrefix(src, m[i].at) /\ src # m[i].at
  BY TableMounts, RecordFields DEF Rooted, Below, IsStrictPrefix
<1>2. r \in Paths /\ m[i].at = Join(src, r)
  BY <1>1, PathSplit
<1>3. Join(dst, r) \in Paths /\ IsPrefix(dst, Join(dst, r))
  BY <1>2, PathJoin
<1>4. /\ Mounted(Brought(m, src, dst, i), Join(dst, r), m[i].fs, m[i].dir)
      /\ HasFlags(Brought(m, src, dst, i), m[i].cow, m[i].ro, TRUE)
  BY <1>1, <1>3, CopyIs DEF Brought
<1>5. dst # Join(dst, r)
  <2>1. SUFFICES ASSUME dst = Join(dst, r) PROVE FALSE
    OBVIOUS
  <2>2. dst = Join(dst, <<>>) /\ <<>> \in Paths /\ src = Join(src, <<>>)
    BY PathRoot
  <2>3. r = <<>>
    BY <1>2, <2>1, <2>2, PathCancel
  <2>4. QED
    BY <1>1, <1>2, <2>2, <2>3
<1>6. QED
  BY <1>2, <1>3, <1>4, <1>5 DEF IsStrictPrefix, Mounted

\* The table after a recursive bind: the old one, the bind, the copies.
LEMMA BindRecIs ==
  ASSUME NEW m, Rooted(m), NEW src \in Paths, NEW dst \in Paths
  PROVE  \E L, g : BoundBy(BindRec(m, src, dst), L, g, m, src, dst)
<1> DEFINE N == Count(m)
           I == {i \in 1..N : Below(m, src, i)}
           t == Kept(m, I)
           c == [k \in DOMAIN t |-> Copy(t[k], Join(dst, Rest(src, t[k].at)))]
           b == BindRec(m, src, dst)
           a == Bind(m, src, dst)
<1>1. m \in Tables /\ N \in Nat /\ DOMAIN m = 1..N
  BY TableMounts DEF Rooted
<1>2. b = Join(a, c)
  <2>1. I = {i \in DOMAIN m : i > MountOf(m, src) /\ IsStrictPrefix(src, m[i].at)}
    BY <1>1 DEF Below
  <2>2. QED
    BY <2>1 DEF BindRec, Copy, Join
<1>3. PICK L, g : KeptBy(t, L, g, m, I, N)
  BY <1>1, KeptIs
<1>4. Bound(m, src, dst) \in MountRecord
  BY BoundIs DEF Mounted
<1>5. /\ a \in Tables /\ Count(a) = N + 1
      /\ \A i \in 1..N : a[i] = m[i]
      /\ a[N + 1] = Bound(m, src, dst)
  BY <1>1, <1>4, BindIs, TableAppend
<1> HIDE DEF a, b
<1>6. L \in Nat /\ DOMAIN t = 1..L
  BY <1>3, TableMounts DEF KeptBy
<1>7. \A k \in 1..L : g[k] \in 1..N /\ Below(m, src, g[k]) /\ t[k] = m[g[k]]
  BY <1>3 DEF KeptBy
<1> HIDE DEF t, I
<1>8. \A k \in 1..L : c[k] = Brought(m, src, dst, g[k]) /\ c[k] \in MountRecord
  <2> TAKE k \in 1..L
  <2>1. c[k] = Brought(m, src, dst, g[k])
    BY <1>6, <1>7 DEF Brought
  <2>2. Brought(m, src, dst, g[k]) \in MountRecord
    BY <1>7, BroughtIs DEF N, Mounted
  <2>3. QED
    BY <2>1, <2>2
<1>9. c \in [1..L -> MountRecord]
  BY <1>6, <1>8
<1> HIDE DEF c, N
<1>10. c \in Tables /\ Count(c) = L
  BY <1>6, <1>9, TableMade
<1>11. /\ b \in Tables /\ Count(b) = (N + 1) + L
       /\ \A i \in 1..(N + 1) : b[i] = a[i]
       /\ \A k \in 1..L : b[(N + 1) + k] = c[k]
  BY <1>2, <1>5, <1>10, TableJoin
<1>12. /\ \A i \in 1..N : b[i] = m[i]
       /\ b[N + 1] = Bound(m, src, dst)
  <2>1. 1..N \subseteq 1..(N + 1) /\ N + 1 \in 1..(N + 1)
    BY <1>1
  <2>2. QED
    BY <1>5, <1>11, <2>1
<1>13. /\ g \in [1..L -> 1..N]
       /\ \A k \in 1..L, l \in 1..L : k < l => g[k] < g[l]
       /\ \A i \in 1..N : Below(m, src, i) => \E k \in 1..L : g[k] = i
  BY <1>3 DEF KeptBy, I
<1>14. BoundBy(b, L, g, m, src, dst)
  BY <1>6, <1>7, <1>8, <1>11, <1>12, <1>13 DEF BoundBy, N
<1>15. QED
  BY <1>14 DEF b

\* What a table looks like after a recursive bind.
AfterBind(b, N, m, src, dst) ==
  /\ Rooted(b) /\ N \in Nat /\ Count(b) \in Nat /\ Count(b) >= N + 1
  /\ \A i \in 1..N : b[i] = m[i]
  /\ b[N + 1] = Bound(m, src, dst)
  /\ \A j \in 1..Count(b) :
       j > N + 1 => \E i \in 1..N : Below(m, src, i) /\ b[j] = Brought(m, src, dst, i)
  /\ MountOf(b, dst) = N + 1

\* The same without the numbering of the copies.
LEMMA BindRecTable ==
  ASSUME NEW m, Rooted(m), NEW src \in Paths, NEW dst \in Paths
  PROVE  AfterBind(BindRec(m, src, dst), Count(m), m, src, dst)
<1> DEFINE b == BindRec(m, src, dst)
           N == Count(m)
<1>1. PICK L, g : BoundBy(b, L, g, m, src, dst)
  BY BindRecIs
<1>2. N \in Nat /\ N >= 1 /\ m[1].at = <<>>
  BY TableMounts DEF Rooted
<1> HIDE DEF b
<1>3. /\ L \in Nat /\ b \in Tables /\ Count(b) = N + 1 + L
      /\ \A i \in 1..N : b[i] = m[i]
      /\ b[N + 1] = Bound(m, src, dst)
  BY <1>1 DEF BoundBy
<1>4. ASSUME NEW j \in 1..Count(b), j > N + 1
      PROVE  \E i \in 1..N : Below(m, src, i) /\ b[j] = Brought(m, src, dst, i)
  <2> DEFINE k == j - (N + 1)
  <2>1. k \in 1..L /\ j = N + 1 + k
    BY <1>2, <1>3, <1>4
  <2> HIDE DEF k
  <2>2. g[k] \in 1..N /\ Below(m, src, g[k]) /\ b[N + 1 + k] = Brought(m, src, dst, g[k])
    BY <1>1, <2>1 DEF BoundBy
  <2>3. QED
    BY <2>1, <2>2
<1>5. Rooted(b) /\ Count(b) >= N + 1
  BY <1>2, <1>3 DEF Rooted
<1>6. MountOf(b, dst) = N + 1
  <2>1. Bound(m, src, dst).at = dst /\ IsPrefix(dst, dst)
    BY BoundIs, PathRoot DEF Mounted
  <2>2. N + 1 \in 1..Count(b) /\ Count(b) \in Nat
    BY <1>2, <1>3
  <2>3. ASSUME NEW j \in 1..Count(b), j > N + 1, IsPrefix(b[j].at, dst) PROVE FALSE
    <3>1. PICK i \in 1..N : Below(m, src, i) /\ b[j] = Brought(m, src, dst, i)
      BY <1>4, <2>3
    <3>2. IsStrictPrefix(dst, b[j].at) /\ b[j].at \in Paths
      BY <3>1, BroughtIs
    <3>3. QED
      BY <2>3, <3>2, PathAntisymmetric DEF IsStrictPrefix
  <2>4. Covers(b, N + 1, dst)
    BY <1>3, <2>1, <2>2, <2>3 DEF Covers
  <2>5. QED
    BY <2>2, <2>4, CoversUnique
<1>7. N \in Nat /\ Count(b) \in Nat
  BY <1>2, <1>3
<1>8. AfterBind(b, N, m, src, dst)
  BY <1>3, <1>4, <1>5, <1>6, <1>7 DEF AfterBind
<1>9. QED
  BY <1>8 DEF b

\* What is not below the target of a bind is where it was.
LEMMA BindElsewhere ==
  ASSUME NEW m, Rooted(m), NEW src \in Paths, NEW dst \in Paths, NEW p \in Paths,
         ~IsPrefix(dst, p)
  PROVE  MountOf(BindRec(m, src, dst), p) = MountOf(m, p)
<1> DEFINE b == BindRec(m, src, dst)
           N == Count(m)
           k == MountOf(m, p)
<1>1. AfterBind(b, N, m, src, dst)
  BY BindRecTable
<1>2. Covers(m, k, p) /\ N \in Nat /\ Count(b) \in Nat /\ Count(b) >= N + 1
  BY <1>1, RootCovers DEF AfterBind
<1> HIDE DEF b
<1>3. ASSUME NEW j \in 1..Count(b), j > N, IsPrefix(b[j].at, p) PROVE FALSE
  <2>1. IsPrefix(dst, b[j].at) /\ b[j].at \in Paths
    <3>1. CASE j = N + 1
      <4>1. b[j] = Bound(m, src, dst)
        BY <1>1, <3>1 DEF AfterBind
      <4>2. Bound(m, src, dst).at = dst
        BY BoundIs DEF Mounted
      <4>3. IsPrefix(dst, dst)
        BY PathRoot
      <4>4. QED
        BY <4>1, <4>2, <4>3
    <3>2. CASE j # N + 1
      <4>1. PICK i \in 1..N : Below(m, src, i) /\ b[j] = Brought(m, src, dst, i)
        BY <1>1, <1>2, <1>3, <3>2 DEF AfterBind
      <4>2. /\ Brought(m, src, dst, i).at \in Paths
            /\ IsStrictPrefix(dst, Brought(m, src, dst, i).at)
        BY <4>1, BroughtIs
      <4>3. QED
        BY <4>1, <4>2 DEF IsStrictPrefix
    <3>3. QED
      BY <3>1, <3>2
  <2>2. QED
    BY <1>3, <2>1, PathTransitive
<1>4. Covers(b, k, p)
  <2>1. k \in 1..N /\ k \in 1..Count(b) /\ IsPrefix(b[k].at, p)
    BY <1>1, <1>2 DEF Covers, AfterBind
  <2>2. ASSUME NEW j \in 1..Count(b), j > k PROVE ~IsPrefix(b[j].at, p)
    <3>1. CASE j <= N
      BY <1>1, <1>2, <2>2, <3>1 DEF Covers, AfterBind
    <3>2. CASE ~(j <= N)
      BY <1>2, <1>3, <3>2
    <3>3. QED
      BY <3>1, <3>2
  <2>3. QED
    BY <2>1, <2>2 DEF Covers
<1>5. QED
  BY <1>2, <1>4, CoversUnique DEF b

\* A recursive bind shows in the target what is in the source, mounts included.
LEMMA BindShows ==
  ASSUME NEW m, Rooted(m), NEW src \in Paths, NEW dst \in Paths, NEW r \in Paths
  PROVE  /\ Locate(BindRec(m, src, dst), Join(dst, r)).fs = Locate(m, Join(src, r)).fs
         /\ Locate(BindRec(m, src, dst), Join(dst, r)).path = Locate(m, Join(src, r)).path
<1> DEFINE b == BindRec(m, src, dst)
           N == Count(m)
           p == Join(src, r)
           q == Join(dst, r)
           k == MountOf(m, p)
           k0 == MountOf(m, src)
<1>1. PICK L, g : BoundBy(b, L, g, m, src, dst)
  BY BindRecIs
<1>2. AfterBind(b, N, m, src, dst)
  BY BindRecTable
<1>3. /\ p \in Paths /\ q \in Paths /\ IsPrefix(src, p) /\ IsPrefix(dst, q)
      /\ Rest(src, p) = r /\ Rest(dst, q) = r
  BY PathJoin
<1> HIDE DEF b, N, p, q
<1>4. Covers(m, k, p) /\ m[k] \in MountRecord /\ m[k].at \in Paths /\ m[k].dir \in Paths
  BY <1>3, RootCovers, RecordFields DEF Cover
<1>5. Covers(m, k0, src) /\ m[k0] \in MountRecord /\ m[k0].at \in Paths /\ m[k0].dir \in Paths
  BY RootCovers, RecordFields DEF Cover
<1> HIDE DEF k, k0
<1>6. k \in 1..N /\ k0 \in 1..N /\ N \in Nat /\ L \in Nat /\ Count(b) = N + 1 + L /\ Count(b) \in Nat
  BY <1>1, <1>2, <1>4, <1>5 DEF Covers, AfterBind, BoundBy, N
<1>7. IsPrefix(m[k].at, p) /\ IsPrefix(m[k0].at, src) /\ IsPrefix(m[k0].at, p)
  <2>1. IsPrefix(m[k].at, p) /\ IsPrefix(m[k0].at, src)
    BY <1>4, <1>5 DEF Covers
  <2>2. QED
    BY <1>3, <1>5, <2>1, PathTransitive
<1>8. k >= k0
  BY <1>4, <1>6, <1>7 DEF Covers, N
<1>9. \A l \in 1..L : g[l] \in 1..N /\ Below(m, src, g[l])
                      /\ b[N + 1 + l] = Brought(m, src, dst, g[l])
  BY <1>1 DEF BoundBy, N
\* A mount of the source that is above p is brought above q, and conversely.
<1>10. ASSUME NEW i \in 1..N, Below(m, src, i)
       PROVE  /\ Brought(m, src, dst, i).at \in Paths
              /\ IsPrefix(Brought(m, src, dst, i).at, q) <=> IsPrefix(m[i].at, p)
              /\ IsPrefix(m[i].at, p) =>
                   Rest(Brought(m, src, dst, i).at, q) = Rest(m[i].at, p)
  <2> DEFINE s == Rest(src, m[i].at)
  <2>1. /\ s \in Paths /\ m[i].at = Join(src, s) /\ Brought(m, src, dst, i).at = Join(dst, s)
        /\ Brought(m, src, dst, i).at \in Paths
    <3>1. /\ s \in Paths /\ m[i].at = Join(src, s)
          /\ Mounted(Brought(m, src, dst, i), Join(dst, s), m[i].fs, m[i].dir)
          /\ Brought(m, src, dst, i).at \in Paths
      BY <1>10, BroughtIs DEF N
    <3>2. QED
      BY <3>1 DEF Mounted
  <2> HIDE DEF s
  <2>2. /\ IsPrefix(Join(dst, s), q) <=> IsPrefix(s, r)
        /\ IsPrefix(Join(src, s), p) <=> IsPrefix(s, r)
    BY <2>1, PathJoinBelow DEF p, q
  <2>3. IsPrefix(s, r) => /\ Rest(Join(dst, s), q) = Rest(s, r)
                          /\ Rest(Join(src, s), p) = Rest(s, r)
    BY <2>1, PathRestJoin DEF p, q
  <2>4. QED
    BY <2>1, <2>2, <2>3
<1>11. Rooted(b) /\ k0 = MountOf(m, src) /\ k = MountOf(m, p)
  BY <1>2 DEF AfterBind, k, k0
<1>12. /\ Locate(m, p).fs = m[k].fs /\ Locate(m, p).path = Join(m[k].dir, Rest(m[k].at, p))
  BY <1>3, <1>11, LocateIs DEF Cover
<1>13. CASE IsPrefix(m[k].at, src)
  <2>1. k = k0
    <3>1. ~(k > k0)
      BY <1>5, <1>6, <1>13 DEF Covers, N
    <3>2. QED
      BY <1>6, <1>8, <3>1
  <2>2. MountOf(b, q) = N + 1
    <3>1. N + 1 \in 1..Count(b) /\ b[N + 1].at = dst
      <4>1. b[N + 1] = Bound(m, src, dst) /\ Bound(m, src, dst).at = dst
        BY <1>2, BoundIs DEF AfterBind, Mounted
      <4>2. QED
        BY <1>6, <4>1
    <3>2. ASSUME NEW j \in 1..Count(b), j > N + 1, IsPrefix(b[j].at, q) PROVE FALSE
      <4>1. PICK i \in 1..N : Below(m, src, i) /\ b[j] = Brought(m, src, dst, i)
        BY <1>2, <3>2 DEF AfterBind
      <4>2. IsPrefix(m[i].at, p)
        BY <1>10, <3>2, <4>1
      <4>3. i > k0
        BY <1>11, <4>1 DEF Below
      <4>4. QED
        BY <1>4, <2>1, <4>2, <4>3 DEF Covers, N
    <3>3. Covers(b, N + 1, q)
      BY <1>3, <3>1, <3>2 DEF Covers
    <3>4. QED
      BY <1>6, <3>3, CoversUnique
  <2>3. /\ Locate(b, q).fs = m[k].fs
        /\ Locate(b, q).path = Join(Locate(m, src).path, r)
    <3>1. b[N + 1] = Bound(m, src, dst)
      BY <1>2 DEF AfterBind
    <3>2. /\ Bound(m, src, dst).fs = m[k].fs
          /\ Bound(m, src, dst).dir = Locate(m, src).path
          /\ Bound(m, src, dst).at = dst
      <4>1. Cover(m, src) = m[k]
        BY <1>11, <2>1 DEF Cover
      <4>2. Mounted(Bound(m, src, dst), dst, Cover(m, src).fs, Locate(m, src).path)
        BY BoundIs
      <4>3. QED
        BY <4>1, <4>2 DEF Mounted
    <3>3. Cover(b, q) = Bound(m, src, dst)
      BY <2>2, <3>1 DEF Cover
    <3>4. QED
      BY <1>3, <1>11, <3>2, <3>3, LocateIs
  <2>4. /\ Locate(m, src).path = Join(m[k].dir, Rest(m[k].at, src))
    <3>1. Cover(m, src) = m[k]
      BY <1>11, <2>1 DEF Cover
    <3>2. QED
      BY <3>1, LocateIs
  <2>5. Rest(m[k].at, src) \in Paths
    BY <1>4, <1>13, PathSplit
  <2>6. Rest(m[k].at, p) = Join(Rest(m[k].at, src), r)
    BY <1>3, <1>4, <1>13, PathTransitive
  <2>7. Join(Join(m[k].dir, Rest(m[k].at, src)), r) = Join(m[k].dir, Join(Rest(m[k].at, src), r))
    BY <1>4, <2>5, PathAssociative
  <2>8. QED
    BY <1>12, <2>3, <2>4, <2>6, <2>7 DEF b, p, q
<1>14. CASE ~IsPrefix(m[k].at, src)
  <2>1. IsPrefix(src, m[k].at) /\ src # m[k].at
    <3>1. IsPrefix(src, m[k].at)
      BY <1>3, <1>4, <1>7, <1>14, PathChain
    <3>2. QED
      BY <1>14, <3>1, PathRoot
  <2>2. k # k0
    BY <1>7, <1>14
  <2>3. Below(m, src, k)
    BY <1>6, <1>8, <1>11, <2>1, <2>2 DEF Below, IsStrictPrefix
  <2>4. PICK l \in 1..L : g[l] = k
    BY <1>1, <1>6, <2>3 DEF BoundBy, N
  <2>5. b[N + 1 + l] = Brought(m, src, dst, k) /\ N + 1 + l \in 1..Count(b)
    BY <1>6, <1>9, <2>4
  <2>6. /\ IsPrefix(Brought(m, src, dst, k).at, q)
        /\ Rest(Brought(m, src, dst, k).at, q) = Rest(m[k].at, p)
    BY <1>6, <1>7, <1>10, <2>3
  <2>7. ASSUME NEW j \in 1..Count(b), j > N + 1 + l, IsPrefix(b[j].at, q) PROVE FALSE
    <3> DEFINE h == j - (N + 1)
    <3>1. h \in 1..L /\ l < h /\ j = N + 1 + h
      BY <1>6, <2>7
    <3> HIDE DEF h
    <3>2. g[h] \in 1..N /\ Below(m, src, g[h]) /\ b[j] = Brought(m, src, dst, g[h])
      BY <1>9, <3>1
    <3>3. IsPrefix(m[g[h]].at, p)
      BY <1>10, <2>7, <3>2
    <3>4. g[l] < g[h]
      BY <1>1, <3>1 DEF BoundBy
    <3>5. QED
      BY <1>4, <1>6, <2>4, <3>2, <3>3, <3>4 DEF Covers, N
  <2>8. Covers(b, N + 1 + l, q)
    BY <2>5, <2>6, <2>7 DEF Covers
  <2>9. Cover(b, q) = Brought(m, src, dst, k)
    BY <1>6, <2>5, <2>8, CoversUnique DEF Cover
  <2>10. Brought(m, src, dst, k).fs = m[k].fs /\ Brought(m, src, dst, k).dir = m[k].dir
    BY <1>6, <2>3, BroughtIs DEF Mounted, N
  <2>11. /\ Locate(b, q).fs = m[k].fs
         /\ Locate(b, q).path = Join(m[k].dir, Rest(Brought(m, src, dst, k).at, q))
    BY <1>3, <1>11, <2>9, <2>10, LocateIs
  <2>12. QED
    BY <1>12, <2>6, <2>11 DEF b, p, q
<1>15. QED
  BY <1>13, <1>14

\* One mount more.
LEMMA AppendCovers ==
  ASSUME NEW m, Rooted(m), NEW x \in MountRecord
  PROVE  /\ Rooted(Append(m, x))
         /\ \A p \in Paths : Cover(Append(m, x), p) = IF IsPrefix(x.at, p) THEN x ELSE Cover(m, p)
<1> DEFINE b == Append(m, x)
           N == Count(m)
<1>1. /\ b \in Tables /\ Count(b) = N + 1 /\ N \in Nat /\ N >= 1
      /\ \A i \in 1..N : b[i] = m[i]
      /\ b[N + 1] = x /\ m[1].at = <<>>
  BY TableAppend, TableMounts DEF Rooted
<1> HIDE DEF b, N
<1>2. Rooted(b)
  BY <1>1 DEF Rooted
<1>3. ASSUME NEW p \in Paths, IsPrefix(x.at, p) PROVE Cover(b, p) = x
  <2>1. N + 1 \in 1..Count(b) /\ Count(b) \in Nat /\ \A j \in 1..Count(b) : ~(j > N + 1)
    BY <1>1
  <2>2. Covers(b, N + 1, p)
    BY <1>1, <1>3, <2>1 DEF Covers
  <2>3. QED
    BY <1>1, <2>1, <2>2, CoversUnique DEF Cover
<1>4. ASSUME NEW p \in Paths, ~IsPrefix(x.at, p) PROVE Cover(b, p) = Cover(m, p)
  <2> DEFINE k == MountOf(m, p)
  <2>1. Covers(m, k, p)
    BY RootCovers
  <2>2. Count(b) \in Nat /\ k \in 1..N /\ k \in 1..Count(b) /\ b[k] = m[k]
    BY <1>1, <2>1 DEF Covers, N
  <2>3. ASSUME NEW j \in 1..Count(b), j > k PROVE ~IsPrefix(b[j].at, p)
    <3>1. CASE j \in 1..N
      BY <1>1, <2>1, <2>3, <3>1 DEF Covers, N
    <3>2. CASE j = N + 1
      BY <1>1, <1>4, <3>2
    <3>3. QED
      BY <1>1, <3>1, <3>2
  <2>4. Covers(b, k, p)
    BY <2>1, <2>2, <2>3 DEF Covers
  <2>5. QED
    BY <2>2, <2>4, CoversUnique DEF Cover
<1>5. QED
  BY <1>2, <1>3, <1>4 DEF b

\* A remount changes the flag of one mount.
LEMMA RemountIs ==
  ASSUME NEW m, Rooted(m), NEW q \in Paths, NEW ro \in BOOLEAN
  PROVE  /\ Rooted(Remount(m, q, ro)) /\ Count(Remount(m, q, ro)) = Count(m)
         /\ \A i \in 1..Count(m) :
              Remount(m, q, ro)[i] = IF i = MountOf(m, q) /\ m[i].at = q
                                     THEN Flagged(m[i], ro) ELSE m[i]
<1> DEFINE k == MountOf(m, q)
           b == Remount(m, q, ro)
           N == Count(m)
<1>1. m \in Tables /\ N \in Nat /\ N >= 1 /\ DOMAIN m = 1..N /\ m[1].at = <<>>
      /\ \A i \in 1..N : m[i] \in MountRecord
  BY TableMounts DEF Rooted
<1>2. k \in 1..N /\ m[k] \in MountRecord
  BY RootCovers DEF Covers, Cover
<1>3. Mounted(Flagged(m[k], ro), m[k].at, m[k].fs, m[k].dir)
  BY <1>2, FlaggedIs
<1>4. b = IF m[k].at = q THEN [m EXCEPT ![k] = Flagged(m[k], ro)] ELSE m
  <2>1. CASE ~m[k].locked
    BY <2>1 DEF Remount, Flagged
  <2>2. CASE m[k].locked
    <3>1. b = m /\ Flagged(m[k], ro) = m[k]
      BY <2>2 DEF Remount, Flagged
    <3>2. m \in [1..N -> MountRecord]
      <4>1. m \in Seq(MountRecord)
        BY <1>1 DEF Tables
      <4>2. QED
        BY <4>1, LenProperties DEF Count
    <3>3. [m EXCEPT ![k] = m[k]] = m
      <4> HIDE DEF k, N
      <4> QED
        BY <1>2, <3>2
    <3>4. QED
      BY <3>1, <3>3
  <2>3. QED
    BY <2>1, <2>2
<1> HIDE DEF b, k, N
<1>5. CASE m[k].at # q
  BY <1>1, <1>4, <1>5 DEF Rooted, k, b, N
<1>6. CASE m[k].at = q
  <2>1. m \in [1..N -> MountRecord]
    <3>1. m \in Seq(MountRecord)
      BY <1>1 DEF Tables
    <3>2. QED
      BY <3>1, LenProperties DEF Count, N
  <2>2. Flagged(m[k], ro) \in MountRecord /\ Flagged(m[k], ro).at = m[k].at
    BY <1>3 DEF Mounted
  <2>3. /\ b \in [1..N -> MountRecord]
        /\ \A i \in 1..N : b[i] = IF i = k THEN Flagged(m[k], ro) ELSE m[i]
    BY <1>2, <1>4, <1>6, <2>1, <2>2
  <2>4. b \in Tables /\ Count(b) = N
    BY <1>1, <2>3, TableMade
  <2>5. 1 \in 1..N
    BY <1>1
  <2>6. b[1].at = <<>>
    BY <1>1, <2>2, <2>3, <2>5
  <2>7. Rooted(b)
    BY <1>1, <2>4, <2>6 DEF Rooted
  <2>8. \A i \in 1..N : b[i] = IF i = k /\ m[i].at = q THEN Flagged(m[i], ro) ELSE m[i]
    BY <1>6, <2>3
  <2>9. QED
    BY <2>4, <2>7, <2>8 DEF b, k, N
<1>7. QED
  BY <1>5, <1>6

\* A remount leaves every path on the mount that it was on.
LEMMA RemountCovers ==
  ASSUME NEW m, Rooted(m), NEW q \in Paths, NEW ro \in BOOLEAN, NEW p \in Paths
  PROVE  /\ MountOf(Remount(m, q, ro), p) = MountOf(m, p)
         /\ Cover(Remount(m, q, ro), p).fs = Cover(m, p).fs
         /\ Cover(Remount(m, q, ro), p).at = Cover(m, p).at
         /\ Cover(Remount(m, q, ro), p).dir = Cover(m, p).dir
<1> DEFINE k == MountOf(m, p)
           b == Remount(m, q, ro)
           N == Count(m)
<1>1. m \in Tables /\ N \in Nat /\ \A i \in 1..N : m[i] \in MountRecord
  BY TableMounts DEF Rooted
<1>2. /\ Count(b) = N
      /\ \A i \in 1..N : b[i] = Flagged(m[i], ro) \/ b[i] = m[i]
  BY RemountIs
<1> HIDE DEF b, N
<1>3. \A i \in 1..N : b[i].at = m[i].at /\ b[i].fs = m[i].fs /\ b[i].dir = m[i].dir
  <2> TAKE i \in 1..N
  <2>1. /\ Flagged(m[i], ro).at = m[i].at /\ Flagged(m[i], ro).fs = m[i].fs
        /\ Flagged(m[i], ro).dir = m[i].dir
    BY <1>1, FlaggedIs DEF Mounted
  <2>2. b[i] = Flagged(m[i], ro) \/ b[i] = m[i]
    BY <1>2
  <2>3. QED
    BY <2>1, <2>2
<1>4. Covers(m, k, p) /\ k \in 1..N
  BY RootCovers DEF Covers, N
<1>5. Covers(b, k, p)
  BY <1>2, <1>3, <1>4 DEF Covers, N
<1>6. MountOf(b, p) = k
  BY <1>1, <1>2, <1>5, CoversUnique
<1>7. QED
  BY <1>3, <1>4, <1>6 DEF Cover, b

(***************************************************************************)
(* Lists of paths, the machine and the options.                            *)
(***************************************************************************)

Lists == Seq(Paths)

\* The items of a list of paths.
LEMMA ListItems ==
  ASSUME NEW s \in Lists
  PROVE  /\ Count(s) \in Nat /\ DOMAIN s = 1..Count(s)
         /\ \A i \in 1..Count(s) : s[i] \in Paths /\ s[i] \in ToSet(s)
         /\ \A p \in ToSet(s) : p \in Paths /\ \E i \in 1..Count(s) : s[i] = p
<1>1. Count(s) \in Nat /\ DOMAIN s = 1..Count(s) /\ \A i \in 1..Count(s) : s[i] \in Paths
  BY LenProperties, ElementOfSeq DEF Lists, Count
<1>2. QED
  BY <1>1 DEF ToSet

\* Two lists of paths one after the other.
LEMMA ListJoin ==
  ASSUME NEW s \in Lists, NEW t \in Lists
  PROVE  Join(s, t) \in Lists /\ ToSet(Join(s, t)) = ToSet(s) \cup ToSet(t)
<1> DEFINE b == Join(s, t)
           N == Count(s)
           M == Count(t)
<1>1. /\ b \in Seq(Paths) /\ Len(b) = Len(s) + Len(t)
      /\ \A i \in 1 .. Len(s) + Len(t) : b[i] = IF i <= Len(s) THEN s[i] ELSE t[i - Len(s)]
  BY ConcatProperties DEF Lists, Join
<1>2. /\ N \in Nat /\ DOMAIN s = 1..N /\ M \in Nat /\ DOMAIN t = 1..M
  BY ListItems
<1> HIDE DEF b
<1>3. b \in Lists /\ Count(b) = N + M
  BY <1>1 DEF Lists, Count
<1>4. DOMAIN b = 1..(N + M)
  BY <1>3, ListItems
<1>5. \A i \in 1 .. N + M : b[i] = IF i <= N THEN s[i] ELSE t[i - N]
  BY <1>1 DEF Count
<1> HIDE DEF N, M
<1>6. \A i \in 1..(N + M) : i \in 1..N \/ (i - N \in 1..M /\ ~(i <= N))
  BY <1>2
<1>7. ToSet(b) \subseteq ToSet(s) \cup ToSet(t)
  BY <1>2, <1>4, <1>5, <1>6 DEF ToSet
<1>8. /\ \A i \in 1..N : i \in 1..(N + M) /\ i <= N
      /\ \A i \in 1..M : N + i \in 1..(N + M) /\ ~(N + i <= N) /\ (N + i) - N = i
  BY <1>2
<1>9. \A i \in 1..N : b[i] = s[i]
  BY <1>5, <1>8
<1>10. \A i \in 1..M : b[N + i] = t[i]
  BY <1>5, <1>8
<1>11. ToSet(s) \subseteq ToSet(b) /\ ToSet(t) \subseteq ToSet(b)
  BY <1>2, <1>4, <1>8, <1>9, <1>10 DEF ToSet
<1>12. QED
  BY <1>3, <1>7, <1>11 DEF b

\* The empty list and a list of one path.
LEMMA ListOne ==
  ASSUME NEW p \in Paths
  PROVE  <<p>> \in Lists /\ ToSet(<<p>>) = {p} /\ <<>> \in Lists /\ ToSet(<<>>) = {}
<1>1. <<p>> \in Lists /\ <<>> \in Lists
  BY DEF Lists
<1>2. QED
  BY <1>1 DEF ToSet

\* A list with one more path.
LEMMA ListAppend ==
  ASSUME NEW s \in Lists, NEW p \in Paths
  PROVE  Append(s, p) \in Lists /\ ToSet(Append(s, p)) = ToSet(s) \cup {p}
<1>1. Append(s, p) = Join(s, <<p>>)
  BY AppendIsConcat DEF Lists, Join
<1>2. QED
  BY <1>1, ListOne, ListJoin

\* The fields of the options.
LEMMA OptionFields ==
  ASSUME NEW o \in Option
  PROVE  /\ o.mode \in {"default", "custom", "hermetic", "readonly"} /\ o.working_dir \in Paths
         /\ o.sources \in Lists /\ o.targets \in Lists /\ o.writable_files \in Lists
         /\ o.tmpfs_dirs \in Lists /\ o.overlayfsmount \in Lists
         /\ o.parents_writable \in BOOLEAN /\ o.netns \in BOOLEAN
  BY DEF Option, Lists

\* What pid1 changes in the options.
SameBut(o, q) ==
  /\ q \in Option
  /\ q.mode = o.mode /\ q.working_dir = o.working_dir /\ q.sources = o.sources
  /\ q.targets = o.targets /\ q.tmpfs_dirs = o.tmpfs_dirs

WithWritables(o, w) == [o EXCEPT !.writable_files = w]
WithOverlays(o, l) == [o EXCEPT !.overlayfsmount = l]

\* Options with another list of writable paths.
LEMMA WithWritablesIs ==
  ASSUME NEW o \in Option, NEW w \in Lists
  PROVE  /\ SameBut(o, WithWritables(o, w)) /\ WithWritables(o, w).writable_files = w
         /\ WithWritables(o, w).overlayfsmount = o.overlayfsmount
  BY DEF Option, Lists, SameBut, WithWritables

\* Options with another list of overlays.
LEMMA WithOverlaysIs ==
  ASSUME NEW o \in Option, NEW l \in Lists
  PROVE  /\ SameBut(o, WithOverlays(o, l)) /\ WithOverlays(o, l).overlayfsmount = l
         /\ WithOverlays(o, l).writable_files = o.writable_files
  BY DEF Option, Lists, SameBut, WithOverlays

\* The names the code knows are paths.
LEMMA PathsHere ==
  /\ Dirs \subseteq Paths /\ Files \subseteq Paths
  /\ <<>> \in Paths /\ TMP \in Paths /\ DEV \in Paths /\ PROC \in Paths /\ SYS \in Paths
  /\ NULL \in Paths /\ MINI_SBX_TMP \in Paths /\ MINISBX_TMP_INIT \in Paths
  /\ sandbox_root \in Paths /\ tmp_overlayfs \in Paths /\ home_dir \in Paths
  BY MountAssumption

\* A path in the sandbox root is below it.
LEMMA InRootPath ==
  ASSUME NEW p \in Paths
  PROVE  InRoot(p) \in Paths /\ IsPrefix(sandbox_root, InRoot(p)) /\ Rest(sandbox_root, InRoot(p)) = p
  BY PathsHere, PathJoin DEF InRoot

HostMounts == Seq([at : Paths, dev : Nat, ro : BOOLEAN, net : BOOLEAN, locked : BOOLEAN])

\* The mounts of the host.
LEMMA MachineMounts ==
  ASSUME NEW h \in Machine
  PROVE  /\ Count(h.mounts) \in Nat /\ DOMAIN h.mounts = 1..Count(h.mounts)
         /\ \A i \in 1..Count(h.mounts) : h.mounts[i].at \in Paths
<1>1. h.mounts \in HostMounts
  BY DEF Machine, HostMounts
<1> DEFINE T == [at : Paths, dev : Nat, ro : BOOLEAN, net : BOOLEAN, locked : BOOLEAN]
<1>2. h.mounts \in Seq(T)
  BY <1>1 DEF HostMounts
<1>3. \A x \in T : x.at \in Paths
  OBVIOUS
<1> HIDE DEF T
<1>4. /\ Count(h.mounts) \in Nat /\ DOMAIN h.mounts = 1..Count(h.mounts)
      /\ \A i \in 1..Count(h.mounts) : h.mounts[i] \in T
  BY <1>2, LenProperties, ElementOfSeq DEF Count
<1>5. QED
  BY <1>3, <1>4

\* The mount point of a directory is above it.
LEMMA MountPointAbove ==
  ASSUME machine \in Machine, NEW p \in Paths, Count(machine.mounts) >= 1,
         machine.mounts[1].at = <<>>
  PROVE  GetMountPointOf(p) \in Paths /\ IsPrefix(GetMountPointOf(p), p)
<1> DEFINE M == machine.mounts
           N == Count(M)
           k == MountOf(M, p)
           fit == {i \in DOMAIN M : isSubpath(M[i].at, p) /\ M[i].dev = M[k].dev}
           longer == {i \in fit : Len(M[i].at) > Len(M[Min(fit)].at)}
           j == IF longer = {} THEN Min(fit) ELSE Max(longer)
<1>1. N \in Nat /\ DOMAIN M = 1..N /\ \A i \in 1..N : M[i].at \in Paths
  BY MachineMounts
<1>2. GetMountPointOf(p) = M[j].at
  BY DEF GetMountPointOf
<1> HIDE DEF M, N
<1>3. 1 \in 1..N /\ IsPrefix(M[1].at, p)
  BY <1>1, PathRoot DEF M, N
<1>4. Covers(M, k, p)
  BY <1>1, <1>3, MountOfIs DEF N
<1>5. fit \in SUBSET (1..N) /\ longer \in SUBSET (1..N) /\ k \in fit
  BY <1>1, <1>4 DEF Covers, isSubpath, N
<1>6. \A i \in fit : i \in 1..N /\ IsPrefix(M[i].at, p)
  BY <1>1 DEF isSubpath
<1>7. longer \subseteq fit
  OBVIOUS
<1> HIDE DEF fit, longer
<1>8. j \in fit
  <2>1. CASE longer = {}
    BY <1>1, <1>5, <2>1, LeastNumber
  <2>2. CASE longer # {}
    <3>1. Max(longer) \in longer
      BY <1>1, <1>5, <2>2, LargestNumber
    <3>2. QED
      BY <1>7, <2>2, <3>1
  <2>3. QED
    BY <2>1, <2>2
<1> HIDE DEF j
<1>9. QED
  BY <1>1, <1>2, <1>6, <1>8

(***************************************************************************)
(* What the actions do to the table.                                       *)
(***************************************************************************)

IsState(s) == s = [mnt |-> s.mnt, made |-> s.made, ok |-> s.ok]
SetMnt(s, m) == [s EXCEPT !.mnt = m]

\* s has table m; if pid1 goes on, it would have gone on with ok.
Has(s, m, ok) == IsState(s) /\ s.mnt = m /\ (s.ok => ok)

\* Before a step, pid1 has not died.
LEMMA NowIs == Has(Now, mnt, TRUE) /\ Now.ok
  BY DEF Has, IsState, Now

\* What a step has after its mounts are replaced.
LEMMA SetMntIs ==
  ASSUME NEW s, NEW m, NEW ok \in BOOLEAN, Has(s, m, ok), NEW b
  PROVE  Has(SetMnt(s, b), b, ok) /\ (SetMnt(s, b).ok <=> s.ok)
  BY DEF Has, IsState, SetMnt

\* Dying leaves the mounts alone.
LEMMA DieUnlessIs ==
  ASSUME NEW s, NEW m, NEW ok \in BOOLEAN, Has(s, m, ok), NEW cond \in BOOLEAN
  PROVE  Has(DieUnless(cond, s), m, ok /\ cond)
  BY DEF Has, IsState, DieUnless, Dies

\* Creating files leaves the mounts alone.
LEMMA CreatedIs ==
  ASSUME NEW s, NEW m, NEW ok \in BOOLEAN, Has(s, m, ok), NEW p
  PROVE  Has(Created(s, p), m, ok)
  BY DEF Has, IsState, Created

\* The conditions of a step are Booleans.
LEMMA CanCreateBoolean ==
  ASSUME NEW s, NEW p
  PROVE  CanCreate(s, p) \in BOOLEAN /\ Exists(s, p) \in BOOLEAN /\ FileAt(s, p) \in BOOLEAN
<1>1. CanCreate(s, p) \in BOOLEAN
  <2> HIDE DEF Missing
  <2> QED
    BY DEF CanCreate
<1>2. Exists(s, p) \in BOOLEAN
  BY DEF Exists
<1>3. FileAt(s, p) \in BOOLEAN
  BY DEF FileAt
<1>4. QED
  BY <1>1, <1>2, <1>3

\* Creating a target leaves the mounts alone.
LEMMA CreateTargetIs ==
  ASSUME NEW s, NEW m, NEW ok \in BOOLEAN, Has(s, m, ok), NEW p, NEW dir
  PROVE  Has(CreateTarget(s, p, dir), m, ok) /\ Has(TryCreateTarget(s, p), m, ok)
<1>1. Has(Created(s, p), m, ok)
  BY CreatedIs
<1>2. Has(CreateTarget(s, p, dir), m, ok)
  <2> DEFINE c == CanCreate(s, p) /\ ~WrongType(s, p, dir)
  <2>1. CreateTarget(s, p, dir) = DieUnless(c, Created(s, p)) /\ c \in BOOLEAN
    BY DEF CreateTarget
  <2> HIDE DEF c
  <2>2. QED
    BY <1>1, <2>1, DieUnlessIs DEF Has
<1>3. Has(TryCreateTarget(s, p), m, ok)
  <2> DEFINE c == Cardinality(Missing(s, p)) = 1 \/ FileAt(s, Parent(s, p))
  <2>1. /\ TryCreateTarget(s, p) = IF CanCreate(s, p) THEN Created(s, p) ELSE DieUnless(c, s)
        /\ c \in BOOLEAN
    BY DEF TryCreateTarget
  <2> HIDE DEF c
  <2>2. Has(DieUnless(c, s), m, ok)
    BY <2>1, DieUnlessIs DEF Has
  <2>3. QED
    BY <1>1, <2>1, <2>2
<1>4. QED
  BY <1>2, <1>3

\* A tmpfs adds one mount.
LEMMA MountTmpfsIs ==
  ASSUME NEW s, NEW m, NEW ok \in BOOLEAN, Has(s, m, ok), NEW d
  PROVE  Has(MountTmpfs(s, d), Append(m, Mount(d, "tmpfs", d)), ok)
<1> DEFINE c == Exists(s, d) /\ ~FileAt(s, d)
<1>1. MountTmpfs(s, d) = DieUnless(c, SetMnt(s, Append(s.mnt, Mount(d, "tmpfs", d))))
  BY DEF MountTmpfs, SetMnt
<1>2. Has(SetMnt(s, Append(m, Mount(d, "tmpfs", d))), Append(m, Mount(d, "tmpfs", d)), ok)
  BY SetMntIs
<1>3. s.mnt = m /\ c \in BOOLEAN
  BY DEF Has
<1> HIDE DEF c
<1>4. QED
  BY <1>1, <1>2, <1>3, DieUnlessIs DEF Has

\* A bind in place is a recursive bind.
LEMMA BindOntoIs ==
  ASSUME NEW s, NEW m, NEW ok \in BOOLEAN, Has(s, m, ok), NEW src, NEW dst
  PROVE  Has(BindOnto(s, src, dst), BindRec(m, src, dst), ok)
<1> DEFINE c == Exists(s, src) /\ Exists(s, dst)
<1>1. BindOnto(s, src, dst) = DieUnless(c, SetMnt(s, BindRec(s.mnt, src, dst)))
  BY DEF BindOnto, SetMnt
<1>2. Has(SetMnt(s, BindRec(m, src, dst)), BindRec(m, src, dst), ok)
  BY SetMntIs
<1>3. s.mnt = m
  BY DEF Has
<1>4. c \in BOOLEAN
  OBVIOUS
<1> HIDE DEF c
<1>5. QED
  BY <1>1, <1>2, <1>3, <1>4, DieUnlessIs DEF Has

\* MountAndRemountRO binds, then makes the target read-only.
LEMMA MountAndRemountIs ==
  ASSUME NEW s, NEW m, NEW ok \in BOOLEAN, Has(s, m, ok), NEW item, NEW target
  PROVE  Has(MountAndRemountRO(s, item, target),
             Remount(BindRec(m, item, target), target,
                     ~ShouldBeWritable(item) /\ ~ShouldBeWritable(target)), ok)
<1> DEFINE t == DieUnless(Exists(s, item), CreateTarget(s, target, ~FileAt(s, item)))
           ro == ~ShouldBeWritable(item) /\ ~ShouldBeWritable(target)
           c == ~(ro /\ s.mnt[MountOf(s.mnt, item)].locked)
           b(n) == Remount(BindRec(n, item, target), target, ro)
<1>1. MountAndRemountRO(s, item, target) = DieUnless(c, SetMnt(t, b(t.mnt))) /\ c \in BOOLEAN
  BY DEF MountAndRemountRO, SetMnt
<1>2. Has(CreateTarget(s, target, ~FileAt(s, item)), m, ok)
  BY CreateTargetIs
<1>3. Has(t, m, ok)
  BY <1>2, CanCreateBoolean, DieUnlessIs DEF Has
<1> HIDE DEF t, c, ro
<1>4. t.mnt = m
  BY <1>3 DEF Has
<1>5. Has(SetMnt(t, b(m)), b(m), ok)
  BY <1>3, SetMntIs
<1> DEFINE r == b(m)
<1>6. MountAndRemountRO(s, item, target) = DieUnless(c, SetMnt(t, r)) /\ Has(SetMnt(t, r), r, ok)
  BY <1>1, <1>4, <1>5
<1> HIDE DEF r
<1>7. Has(MountAndRemountRO(s, item, target), r, ok)
  BY <1>1, <1>6, DieUnlessIs DEF Has
<1>8. QED
  BY <1>7 DEF r, ro

\* A writable path is bound to its place in the root.
LEMMA BindInRootIs ==
  ASSUME NEW s, NEW m, NEW ok \in BOOLEAN, Has(s, m, ok), NEW p
  PROVE  Has(BindInRoot(s, p), BindRec(m, p, InRoot(p)), ok)
<1> DEFINE t == TryCreateTarget(s, InRoot(p))
           c == /\ t.ok /\ Exists(t, p) /\ Exists(t, InRoot(p))
                /\ OnHost(t.mnt, InRoot(p)) => (FileAt(t, p) <=> FileAt(t, InRoot(p)))
<1>1. BindInRoot(s, p) = DieUnless(c, SetMnt(t, BindRec(t.mnt, p, InRoot(p))))
  BY DEF BindInRoot, SetMnt
<1>2. Has(t, m, ok)
  BY CreateTargetIs
<1> HIDE DEF t
<1>3. t.mnt = m
  BY <1>2 DEF Has
<1>4. Has(SetMnt(t, BindRec(m, p, InRoot(p))), BindRec(m, p, InRoot(p)), ok)
  BY <1>2, SetMntIs
<1>5. c \in BOOLEAN
  OBVIOUS
<1> HIDE DEF c
<1>6. QED
  BY <1>1, <1>3, <1>4, <1>5, DieUnlessIs DEF Has

\* A step that becomes s.
Quiet == machine' = machine /\ asked' = asked /\ fault' = fault

\* After a step pid1 is at the next one, or has died.
LEMMA BecomeIs ==
  ASSUME NEW s, NEW m, NEW ok \in BOOLEAN, Has(s, m, ok), NEW after, Become(s, after)
  PROVE  Quiet /\ mnt' = m /\ (pc' = after \/ pc' = "died") /\ (pc' # "died" => ok)
  BY DEF Has, Become, Quiet

\* A step that changes no mount.
LEMMA StayIs ==
  ASSUME NEW after, Become(Now, after)
  PROVE  Quiet /\ mnt' = mnt /\ pc' = after
  BY NowIs DEF Has, Become, Quiet

\* A turn of a loop, and its end.
Turn(n, m, after) ==
  \/ /\ next <= n /\ next' = next + 1 /\ mnt' = m /\ pc' \in {pc, "died"}
  \/ /\ ~(next <= n) /\ next' = 1 /\ mnt' = mnt /\ pc' = after

\* A turn of a loop.
LEMMA ForEachIs ==
  ASSUME NEW s, NEW m, Has(s, m, TRUE), NEW n, NEW after, ForEach(n, s, after)
  PROVE  Quiet /\ Turn(n, m, after)
<1>1. CASE next <= n
  <2>1. Become(s, pc) /\ next' = next + 1
    BY <1>1 DEF ForEach
  <2>2. QED
    BY <1>1, <2>1, BecomeIs DEF Turn
<1>2. CASE ~(next <= n)
  <2>1. Become(Now, after) /\ next' = 1
    BY <1>2 DEF ForEach
  <2>2. QED
    BY <1>2, <2>1, StayIs DEF Turn
<1>3. QED
  BY <1>1, <1>2

RemountedBind(item, target) ==
  Remount(BindRec(mnt, item, target), target,
          ~ShouldBeWritable(item) /\ ~ShouldBeWritable(target))

\* What MountOverlayDirAsTmpfs does to the mounts and to what comes next.
LEMMA StartStep ==
  ASSUME MountOverlayDirAsTmpfs
  PROVE  /\ pc = "start" /\ pc' = FirstStep /\ Quiet /\ UNCHANGED fixed
         /\ mnt' = IF machine.privileged /\ use_overlayfs
                   THEN Append(mnt, Mount(tmp_overlayfs, "tmpfs", tmp_overlayfs)) ELSE mnt
<1> DEFINE m == IF machine.privileged /\ use_overlayfs
                THEN Append(mnt, Mount(tmp_overlayfs, "tmpfs", tmp_overlayfs)) ELSE mnt
<1>1. Become(SetMnt(Now, m), FirstStep)
  <2>1. Now.mnt = mnt
    BY DEF Now
  <2>2. QED
    BY <2>1 DEF MountOverlayDirAsTmpfs, SetMnt
<1> HIDE DEF m
<1>2. SetMnt(Now, m).ok /\ SetMnt(Now, m).mnt = m
  BY NowIs, SetMntIs DEF Has
<1>3. pc' = FirstStep /\ mnt' = m /\ Quiet
  BY <1>1, <1>2 DEF Become, Quiet
<1>4. QED
  BY <1>3 DEF MountOverlayDirAsTmpfs, m

\* What MountFilesystems does to the mounts and to what comes next.
LEMMA FilesystemsStep ==
  ASSUME MountFilesystems
  PROVE  /\ pc = "filesystems" /\ pc' \in {"inplacebinds", "died"} /\ mnt' = mnt
         /\ Quiet /\ UNCHANGED fixed
<1> DEFINE c == ~\E i \in DOMAIN opt.tmpfs_dirs : starts_with(opt.working_dir, opt.tmpfs_dirs[i])
<1>1. Become(DieUnless(c, Now), "inplacebinds") /\ pc = "filesystems" /\ UNCHANGED fixed
  BY DEF MountFilesystems
<1>2. c \in BOOLEAN
  OBVIOUS
<1> HIDE DEF c
<1>3. Has(DieUnless(c, Now), mnt, TRUE /\ c)
  BY <1>2, NowIs, DieUnlessIs
<1>4. Quiet /\ mnt' = mnt /\ (pc' = "inplacebinds" \/ pc' = "died")
  <2>1. Has(DieUnless(c, Now), mnt, TRUE)
    BY <1>3 DEF Has
  <2>2. QED
    BY <1>1, <2>1, BecomeIs
<1>5. QED
  BY <1>1, <1>4

\* What BindInPlace does to the mounts and to what comes next.
LEMMA BindInPlaceStep ==
  ASSUME BindInPlace
  PROVE  /\ pc = "inplacebinds" /\ Quiet /\ UNCHANGED <<policy, todo>>
         /\ Turn(Count(opt.sources), BindRec(mnt, opt.sources[next], opt.targets[next]),
                 "inplacetmpfs")
<1>1. Has(BindOnto(Now, opt.sources[next], opt.targets[next]),
          BindRec(mnt, opt.sources[next], opt.targets[next]), TRUE)
  BY NowIs, BindOntoIs
<1>2. QED
  BY <1>1, ForEachIs DEF BindInPlace, Count

\* What TmpfsInPlace does to the mounts and to what comes next.
LEMMA TmpfsInPlaceStep ==
  ASSUME TmpfsInPlace
  PROVE  /\ pc = "inplacetmpfs" /\ Quiet /\ UNCHANGED <<policy, todo>>
         /\ Turn(Count(opt.tmpfs_dirs),
                 Append(mnt, Mount(opt.tmpfs_dirs[next], "tmpfs", opt.tmpfs_dirs[next])),
                 "inplacewritables")
<1>1. Has(MountTmpfs(Now, opt.tmpfs_dirs[next]),
          Append(mnt, Mount(opt.tmpfs_dirs[next], "tmpfs", opt.tmpfs_dirs[next])), TRUE)
  BY NowIs, MountTmpfsIs
<1>2. QED
  BY <1>1, ForEachIs DEF TmpfsInPlace, Count

\* What WritableInPlace does to the mounts and to what comes next.
LEMMA WritableInPlaceStep ==
  ASSUME WritableInPlace
  PROVE  /\ pc = "inplacewritables" /\ Quiet /\ UNCHANGED <<policy, todo>>
         /\ \/ Turn(Count(opt.writable_files), mnt, "inplacecwd")
            \/ Turn(Count(opt.writable_files),
                    BindRec(mnt, opt.writable_files[next], opt.writable_files[next]), "inplacecwd")
<1> DEFINE w == opt.writable_files[next]
           s == IF w \in ToSet(opt.sources) THEN Now ELSE BindOnto(Now, w, w)
<1>1. ForEach(Count(opt.writable_files), s, "inplacecwd")
  BY DEF WritableInPlace, Count
<1>2. Has(Now, mnt, TRUE) /\ Has(BindOnto(Now, w, w), BindRec(mnt, w, w), TRUE)
  BY NowIs, BindOntoIs
<1>3. Has(s, mnt, TRUE) \/ Has(s, BindRec(mnt, w, w), TRUE)
  BY <1>2
<1> HIDE DEF s
<1>4. Quiet /\ (Turn(Count(opt.writable_files), mnt, "inplacecwd")
                \/ Turn(Count(opt.writable_files), BindRec(mnt, w, w), "inplacecwd"))
  BY <1>1, <1>3, ForEachIs
<1>5. QED
  BY <1>4 DEF WritableInPlace

\* What WorkingDirInPlace does to the mounts and to what comes next.
LEMMA WorkingDirInPlaceStep ==
  ASSUME WorkingDirInPlace
  PROVE  /\ pc = "inplacecwd" /\ pc' \in {"remount", "died"} /\ Quiet /\ UNCHANGED fixed
         /\ \/ mnt' = mnt /\ (pc' # "died" => Cover(mnt, opt.working_dir).at = opt.working_dir)
            \/ mnt' = Bind(mnt, opt.working_dir, opt.working_dir)
<1> DEFINE wd == opt.working_dir
           refused == \E i \in DOMAIN machine.mounts : IsStrictPrefix(wd, machine.mounts[i].at)
           c == mnt[MountOf(mnt, wd)].at = wd /\ ~mnt[MountOf(mnt, wd)].locked
           s == DieUnless(c, Now)
           t == DieUnless(Exists(Now, wd), SetMnt(Now, Bind(mnt, wd, wd)))
<1>1. Become(IF refused THEN s ELSE t, "remount")
  <2>1. Now.mnt = mnt
    BY DEF Now
  <2>2. QED
    BY <2>1 DEF WorkingDirInPlace, SetMnt
<1>2. Has(s, mnt, TRUE /\ c)
  BY NowIs, DieUnlessIs
<1>3. Has(SetMnt(Now, Bind(mnt, wd, wd)), Bind(mnt, wd, wd), TRUE)
  BY NowIs, SetMntIs
<1>4. Has(t, Bind(mnt, wd, wd), TRUE)
  <2>1. Has(t, Bind(mnt, wd, wd), TRUE /\ Exists(Now, wd))
    BY <1>3, CanCreateBoolean, DieUnlessIs
  <2>2. QED
    BY <2>1 DEF Has
<1> HIDE DEF s, t, c
<1>5. CASE refused
  <2>1. Become(s, "remount")
    BY <1>1, <1>5
  <2>2. Has(s, mnt, c) /\ c \in BOOLEAN
    BY <1>2 DEF Has, c
  <2>3. Quiet /\ mnt' = mnt /\ (pc' = "remount" \/ pc' = "died") /\ (pc' # "died" => c)
    BY <2>1, <2>2, BecomeIs
  <2>4. QED
    BY <2>3 DEF WorkingDirInPlace, c, Cover
<1>6. CASE ~refused
  <2>1. Become(t, "remount")
    BY <1>1, <1>6
  <2>2. Quiet /\ mnt' = Bind(mnt, wd, wd) /\ (pc' = "remount" \/ pc' = "died")
    BY <1>4, <2>1, BecomeIs
  <2>3. QED
    BY <2>2 DEF WorkingDirInPlace
<1>7. QED
  BY <1>5, <1>6

\* What MakeFilesystemPartiallyReadOnly does to the mounts and to what comes next.
LEMMA RemountStep ==
  ASSUME MakeFilesystemPartiallyReadOnly
  PROVE  /\ pc = "remount" /\ Quiet /\ UNCHANGED <<policy, todo>>
         /\ Turn(Count(mnt),
                 IF ends_with(mnt[next].at, "proc") THEN mnt
                 ELSE Remount(mnt, mnt[next].at, ~ShouldBeWritable(mnt[next].at)), "proc")
<1> DEFINE m == IF ends_with(mnt[next].at, "proc") THEN mnt
                ELSE Remount(mnt, mnt[next].at, ~ShouldBeWritable(mnt[next].at))
<1>1. ForEach(Count(mnt), SetMnt(Now, m), "proc")
  <2>1. Now.mnt = mnt
    BY DEF Now
  <2>2. QED
    BY <2>1 DEF MakeFilesystemPartiallyReadOnly, SetMnt, Count
<1> HIDE DEF m
<1>2. Has(SetMnt(Now, m), m, TRUE)
  BY NowIs, SetMntIs
<1>3. Quiet /\ Turn(Count(mnt), m, "proc")
  BY <1>1, <1>2, ForEachIs
<1>4. QED
  BY <1>3 DEF MakeFilesystemPartiallyReadOnly, m

\* What MountSandboxAndGoThere does to the mounts and to what comes next.
LEMMA RootStep ==
  ASSUME MountSandboxAndGoThere
  PROVE  /\ pc = "root" /\ pc' \in {"dev", "died"} /\ Quiet /\ UNCHANGED fixed
         /\ mnt' = Bind(mnt, sandbox_root, sandbox_root)
<1> DEFINE m == Bind(mnt, sandbox_root, sandbox_root)
           s == CreateTarget(SetMnt(Now, m), InRoot(EMPTY_FILE), FALSE)
<1>1. Become(s, "dev")
  <2>1. Now.mnt = mnt
    BY DEF Now
  <2>2. QED
    BY <2>1 DEF MountSandboxAndGoThere, SetMnt
<1> HIDE DEF m
<1>2. Has(SetMnt(Now, m), m, TRUE)
  BY NowIs, SetMntIs
<1>3. Has(s, m, TRUE)
  BY <1>2, CreateTargetIs
<1> HIDE DEF s
<1>4. Quiet /\ mnt' = m /\ (pc' = "dev" \/ pc' = "died")
  BY <1>1, <1>3, BecomeIs
<1>5. QED
  BY <1>4 DEF MountSandboxAndGoThere, m

\* What MountDev does to the mounts and to what comes next.
LEMMA DevStep ==
  ASSUME MountDev
  PROVE  /\ pc = "dev" /\ pc' \in {"proc", "died"} /\ Quiet /\ UNCHANGED fixed
         /\ mnt' = Bind(mnt, NULL, InRoot(NULL))
<1> DEFINE s == CreateTarget(Now, InRoot(NULL), FALSE)
           m == Bind(mnt, NULL, InRoot(NULL))
<1>1. Has(s, mnt, TRUE)
  BY NowIs, CreateTargetIs
<1> HIDE DEF s
<1>2. s.mnt = mnt
  BY <1>1 DEF Has
<1>3. Become(SetMnt(s, m), "proc")
  BY <1>2 DEF MountDev, SetMnt, s
<1> HIDE DEF m
<1>4. Has(SetMnt(s, m), m, TRUE)
  BY <1>1, SetMntIs
<1>5. Quiet /\ mnt' = m /\ (pc' = "proc" \/ pc' = "died")
  BY <1>3, <1>4, BecomeIs
<1>6. QED
  BY <1>5 DEF MountDev, m

ProcMount == Mount(PROC, "proc", PROC)
SysMount == [Mount(SYS, "sysfs", SYS) EXCEPT !.ro = TRUE]

\* What MountProcAndSys does to the mounts and to what comes next.
LEMMA ProcStep ==
  ASSUME MountProcAndSys, mnt \in Tables
  PROVE  /\ pc = "proc" /\ pc' = PolicyStep /\ Quiet /\ UNCHANGED fixed
         /\ mnt' = IF opt.netns THEN Append(Append(mnt, ProcMount), SysMount)
                   ELSE Append(mnt, ProcMount)
<1> DEFINE m == mnt \o <<ProcMount>> \o (IF opt.netns THEN <<SysMount>> ELSE <<>>)
<1>1. Become(SetMnt(Now, m), PolicyStep)
  <2>1. Now.mnt = mnt
    BY DEF Now
  <2>2. QED
    BY <2>1 DEF MountProcAndSys, SetMnt, ProcMount, SysMount
<1>2. SetMnt(Now, m).ok /\ SetMnt(Now, m).mnt = m
  <2> HIDE DEF m
  <2> QED
    BY NowIs, SetMntIs DEF Has
<1>3. pc' = PolicyStep /\ mnt' = m /\ Quiet
  <2> HIDE DEF m
  <2> QED
    BY <1>1, <1>2 DEF Become, Quiet
<1>4. ProcMount \in MountRecord /\ SysMount \in MountRecord
  <2>1. PROC \in Paths /\ SYS \in Paths
    BY PathsHere
  <2>2. QED
    BY <2>1 DEF ProcMount, SysMount, Mount, MountRecord
<1>5. /\ \A x \in MountRecord, b \in Tables : b \o <<x>> = Append(b, x)
      /\ \A b \in Tables : b \o <<>> = b
  BY AppendIsConcat, ConcatEmptySeq DEF Tables
<1>6. mnt \o <<ProcMount>> = Append(mnt, ProcMount) /\ Append(mnt, ProcMount) \in Tables
  BY <1>4, <1>5, TableAppend
<1>7. m = IF opt.netns THEN Append(Append(mnt, ProcMount), SysMount) ELSE Append(mnt, ProcMount)
  <2> DEFINE a == Append(mnt, ProcMount)
  <2>1. m = a \o (IF opt.netns THEN <<SysMount>> ELSE <<>>)
    BY <1>6, Zenon
  <2>2. a \o <<SysMount>> = Append(a, SysMount) /\ a \o <<>> = a
    BY <1>4, <1>5, <1>6
  <2>3. CASE opt.netns
    BY <2>1, <2>2, <2>3, Zenon
  <2>4. CASE ~opt.netns
    BY <2>1, <2>2, <2>4, Zenon
  <2>5. QED
    BY <2>3, <2>4
<1>8. QED
  BY <1>3, <1>7 DEF MountProcAndSys

\* What MountAllTmpfs does to the mounts and to what comes next.
LEMMA TmpfsStep ==
  ASSUME MountAllTmpfs
  PROVE  /\ pc = "tmpfs" /\ Quiet /\ UNCHANGED <<policy, todo>>
         /\ \/ /\ mnt' = mnt /\ pc' = "died" /\ next' = next + 1
            \/ Turn(Count(opt.tmpfs_dirs),
                    Append(mnt, Mount(opt.tmpfs_dirs[next], "tmpfs", opt.tmpfs_dirs[next])), "binds")
<1> DEFINE d == opt.tmpfs_dirs[next]
           t == TryCreateTarget(Now, InRoot(d))
           s == IF t.ok THEN MountTmpfs(t, d) ELSE t
           m == Append(mnt, Mount(d, "tmpfs", d))
<1>1. ForEach(Count(opt.tmpfs_dirs), s, "binds") /\ pc = "tmpfs" /\ UNCHANGED <<policy, todo>>
  BY DEF MountAllTmpfs, Count
<1>2. Has(t, mnt, TRUE)
  BY NowIs, CreateTargetIs
<1> HIDE DEF t
<1>3. Has(MountTmpfs(t, d), m, TRUE)
  BY <1>2, MountTmpfsIs
<1> HIDE DEF m
<1>4. CASE t.ok
  <2>1. Has(s, m, TRUE)
    BY <1>3, <1>4
  <2> HIDE DEF s
  <2>2. QED
    BY <1>1, <2>1, ForEachIs DEF m
<1>5. CASE ~t.ok
  <2>1. s = t
    BY <1>5
  <2> HIDE DEF s
  <2>2. CASE next <= Count(opt.tmpfs_dirs)
    <3>1. Become(t, pc) /\ next' = next + 1
      BY <1>1, <2>1, <2>2 DEF ForEach
    <3>2. mnt' = mnt /\ pc' = "died" /\ Quiet
      BY <1>2, <1>5, <3>1 DEF Become, Has, Quiet
    <3>3. QED
      BY <1>1, <3>1, <3>2
  <2>3. CASE ~(next <= Count(opt.tmpfs_dirs))
    <3>1. Become(Now, "binds") /\ next' = 1
      BY <1>1, <2>3 DEF ForEach
    <3>2. QED
      BY <1>1, <2>3, <3>1, StayIs DEF Turn
  <2>4. QED
    BY <2>2, <2>3
<1>6. QED
  BY <1>4, <1>5

\* What MountBinds does to the mounts and to what comes next.
LEMMA BindsStep ==
  ASSUME MountBinds
  PROVE  /\ pc = "binds" /\ Quiet /\ UNCHANGED policy
         /\ todo' = IF next <= Count(opt.sources) THEN {} ELSE ReadOnlyPaths
         /\ Turn(Count(opt.sources), RemountedBind(opt.sources[next], InRoot(opt.targets[next])),
                 "readonly")
<1>1. Has(MountAndRemountRO(Now, opt.sources[next], InRoot(opt.targets[next])),
          RemountedBind(opt.sources[next], InRoot(opt.targets[next])), TRUE)
  BY NowIs, MountAndRemountIs DEF RemountedBind
<1>2. QED
  BY <1>1, ForEachIs DEF MountBinds, Count

\* What MountReadOnly does to the mounts and to what comes next.
LEMMA ReadOnlyStep ==
  ASSUME MountReadOnly
  PROVE  /\ pc = "readonly" /\ Quiet /\ UNCHANGED <<policy, next>>
         /\ \/ todo = {} /\ mnt' = mnt /\ pc' = "overlays" /\ todo' = todo
            \/ \E p : /\ todo # {} /\ mnt' = RemountedBind(p, InRoot(p)) /\ pc' \in {pc, "died"}
                      /\ p = CHOOSE q \in todo : ~\E r \in todo : IsStrictPrefix(r, q)
                      /\ todo' = todo \ {p}
<1> DEFINE p == CHOOSE q \in todo : ~\E r \in todo : IsStrictPrefix(r, q)
<1>1. /\ pc = "readonly" /\ UNCHANGED <<policy, next>>
      /\ IF todo = {} THEN Become(Now, "overlays") /\ UNCHANGED todo
         ELSE Become(MountAndRemountRO(Now, p, InRoot(p)), pc) /\ todo' = todo \ {p}
  BY DEF MountReadOnly
<1>2. Has(MountAndRemountRO(Now, p, InRoot(p)), RemountedBind(p, InRoot(p)), TRUE)
  BY NowIs, MountAndRemountIs DEF RemountedBind
<1>3. p = CHOOSE q \in todo : ~\E r \in todo : IsStrictPrefix(r, q)
  OBVIOUS
<1> HIDE DEF p
<1>4. CASE todo = {}
  BY <1>1, <1>4, StayIs
<1>5. CASE todo # {}
  <2>1. Become(MountAndRemountRO(Now, p, InRoot(p)), pc) /\ todo' = todo \ {p}
    BY <1>1, <1>5
  <2>2. Quiet /\ mnt' = RemountedBind(p, InRoot(p)) /\ (pc' = pc \/ pc' = "died")
    BY <1>2, <2>1, BecomeIs
  <2>3. QED
    BY <1>1, <1>3, <1>5, <2>1, <2>2
<1>6. QED
  BY <1>4, <1>5

Layer(d) == Layered(Cover(mnt, d), InRoot(d), Locate(mnt, d).path)

\* The directory that the loop over the overlays comes to.
Here == IF todo = {} THEN opt.overlayfsmount[next] ELSE CHOOSE e \in todo : TRUE

\* MountOverlayFs adds an overlay unless the kernel refuses it.
LEMMA OverlayFsIs ==
  ASSUME NEW d
  PROVE  Has(MountOverlayFs(Now, d), IF Refuses(d) THEN mnt ELSE Append(mnt, Layer(d)), TRUE)
<1> DEFINE t == TryCreateTarget(Now, InRoot(d))
           c == /\ Exists(Now, d) /\ ~FileAt(Now, d) /\ Exists(t, InRoot(d))
                /\ Refuses(d) \/ ~FileAt(t, InRoot(d))
           u == IF Refuses(d) THEN t
                ELSE SetMnt(t, Append(t.mnt, Layered(Cover(t.mnt, d), InRoot(d), Locate(t.mnt, d).path)))
           m == IF Refuses(d) THEN mnt ELSE Append(mnt, Layer(d))
<1>1. Has(t, mnt, TRUE)
  BY NowIs, CreateTargetIs
<1>2. MountOverlayFs(Now, d) = DieUnless(c, u)
  BY DEF MountOverlayFs, SetMnt, Overlay, Layered, Cover
<1>3. c \in BOOLEAN
  OBVIOUS
<1> HIDE DEF t, c
<1>4. t.mnt = mnt
  BY <1>1 DEF Has
<1>5. Has(SetMnt(t, Append(mnt, Layer(d))), Append(mnt, Layer(d)), TRUE)
  BY <1>1, SetMntIs
<1>6. Has(u, m, TRUE)
  BY <1>1, <1>4, <1>5 DEF Layer
<1> HIDE DEF u
<1>7. Has(DieUnless(c, u), m, TRUE /\ c)
  <2> HIDE DEF m
  <2> QED
    BY <1>3, <1>6, DieUnlessIs
<1>8. QED
  BY <1>2, <1>7 DEF Has

\* What MountAllOverlayFs does to the mounts and to what comes next.
LEMMA OverlaysStep ==
  ASSUME MountAllOverlayFs
  PROVE  /\ pc \in {"overlayfirst", "overlays"} /\ Quiet /\ UNCHANGED <<opt, mounts>>
         /\ \/ /\ next <= Count(opt.overlayfsmount) /\ pc' \in {pc, "died"}
               /\ mnt' = IF Refuses(Here) THEN mnt ELSE Append(mnt, Layer(Here))
               /\ todo' \subseteq (todo \ {Here}) \cup list_directories(Here)
               /\ ~Refuses(Here) => todo' = todo \ {Here}
               /\ next' = IF todo' = {} THEN next + 1 ELSE next
               /\ ReadOnlyPaths' \subseteq ReadOnlyPaths \cup {Here}
               /\ ReadOnlyPaths' # ReadOnlyPaths =>
                    Len(Here) >= Len(opt.overlayfsmount[next]) + OVELAY_DEPTH_THRESHOLD
            \/ /\ ~(next <= Count(opt.overlayfsmount)) /\ mnt' = mnt /\ next' = 1
               /\ pc' = (IF pc = "overlays" THEN "writables" ELSE "tmpfs")
               /\ UNCHANGED <<todo, ReadOnlyPaths>>
<1> DEFINE top == opt.overlayfsmount[next]
           d == Here
           deep == Len(d) >= Len(top) + OVELAY_DEPTH_THRESHOLD
           left(E) == (todo \ {d}) \cup E
           all == {{}} \cup (IF Refuses(d) /\ ~deep THEN {list_directories(d)} ELSE {})
<1>1. /\ pc \in {"overlayfirst", "overlays"} /\ UNCHANGED <<opt, mounts>>
      /\ IF next <= Count(opt.overlayfsmount)
         THEN /\ Become(MountOverlayFs(Now, d), pc)
              /\ \E E \in all : todo' = left(E)
              /\ next' = IF todo' = {} THEN next + 1 ELSE next
              /\ ReadOnlyPaths' = ReadOnlyPaths \cup (IF Refuses(d) /\ deep THEN {d} ELSE {})
         ELSE /\ Become(Now, IF pc = "overlays" THEN "writables" ELSE "tmpfs")
              /\ next' = 1
              /\ UNCHANGED <<todo, ReadOnlyPaths>>
  BY DEF MountAllOverlayFs, Here, Count
<1> HIDE DEF d
<1>2. CASE next <= Count(opt.overlayfsmount)
  <2>1. /\ Become(MountOverlayFs(Now, d), pc) /\ \E E \in all : todo' = left(E)
        /\ next' = IF todo' = {} THEN next + 1 ELSE next
        /\ ReadOnlyPaths' = ReadOnlyPaths \cup (IF Refuses(d) /\ deep THEN {d} ELSE {})
    BY <1>1, <1>2
  <2>2. todo' \subseteq (todo \ {d}) \cup list_directories(d) /\ (~Refuses(d) => todo' = todo \ {d})
    <3>1. PICK E \in all : todo' = left(E)
      BY <2>1
    <3>2. E \subseteq list_directories(d) /\ (~Refuses(d) => E = {})
      OBVIOUS
    <3>3. QED
      BY <3>1, <3>2
  <2>3. /\ ReadOnlyPaths' \subseteq ReadOnlyPaths \cup {d}
        /\ ReadOnlyPaths' # ReadOnlyPaths => deep
    BY <2>1
  <2> HIDE DEF left, all
  <2>4. /\ Quiet /\ (pc' = pc \/ pc' = "died")
        /\ mnt' = IF Refuses(d) THEN mnt ELSE Append(mnt, Layer(d))
    <3> DEFINE m == IF Refuses(d) THEN mnt ELSE Append(mnt, Layer(d))
    <3>1. Has(MountOverlayFs(Now, d), m, TRUE)
      BY OverlayFsIs
    <3> HIDE DEF m
    <3>2. Quiet /\ mnt' = m /\ (pc' = pc \/ pc' = "died")
      BY <2>1, <3>1, BecomeIs
    <3>3. QED
      BY <3>2 DEF m
  <2>5. QED
    BY <1>1, <1>2, <2>1, <2>2, <2>3, <2>4 DEF d
<1>3. CASE ~(next <= Count(opt.overlayfsmount))
  <2>1. /\ Become(Now, IF pc = "overlays" THEN "writables" ELSE "tmpfs")
        /\ next' = 1 /\ UNCHANGED <<todo, ReadOnlyPaths>>
    BY <1>1, <1>3
  <2>2. Quiet /\ mnt' = mnt /\ pc' = (IF pc = "overlays" THEN "writables" ELSE "tmpfs")
    BY <2>1, StayIs
  <2>3. QED
    BY <1>1, <1>3, <2>1, <2>2
<1>4. QED
  BY <1>2, <1>3

\* What MountWritables does to the mounts and to what comes next.
LEMMA WritablesStep ==
  ASSUME MountWritables
  PROVE  /\ pc = "writables" /\ Quiet /\ UNCHANGED <<policy, todo>>
         /\ \/ Turn(Count(opt.writable_files), mnt, "cwd")
            \/ Turn(Count(opt.writable_files),
                    BindRec(mnt, opt.writable_files[next], InRoot(opt.writable_files[next])), "cwd")
<1> DEFINE w == opt.writable_files[next]
           s == IF Exists(Now, w) THEN BindInRoot(Now, w) ELSE Now
<1>1. ForEach(Count(opt.writable_files), s, "cwd")
  BY DEF MountWritables, Count
<1>2. Has(Now, mnt, TRUE) /\ Has(BindInRoot(Now, w), BindRec(mnt, w, InRoot(w)), TRUE)
  BY NowIs, BindInRootIs
<1>3. Has(s, mnt, TRUE) \/ Has(s, BindRec(mnt, w, InRoot(w)), TRUE)
  BY <1>2
<1> HIDE DEF s
<1>4. Quiet /\ (Turn(Count(opt.writable_files), mnt, "cwd")
                \/ Turn(Count(opt.writable_files), BindRec(mnt, w, InRoot(w)), "cwd"))
  BY <1>1, <1>3, ForEachIs
<1>5. QED
  BY <1>4 DEF MountWritables

\* What MountWorkingDir does to the mounts and to what comes next.
LEMMA WorkingDirStep ==
  ASSUME MountWorkingDir
  PROVE  /\ pc = "cwd" /\ Quiet /\ UNCHANGED fixed
         /\ mnt' = BindRec(mnt, opt.working_dir, InRoot(opt.working_dir))
         /\ \/ pc' = "died"
            \/ pc' = CASE opt.mode = "default" -> "rest"
                       [] opt.mode = "custom" -> "home"
                       [] opt.mode = "hermetic" -> "pivot"
<1> DEFINE after == CASE opt.mode = "default" -> "rest"
                      [] opt.mode = "custom" -> "home"
                      [] opt.mode = "hermetic" -> "pivot"
           s == BindInRoot(Now, opt.working_dir)
<1>1. Become(s, after) /\ pc = "cwd" /\ UNCHANGED fixed
  BY DEF MountWorkingDir
<1>2. Has(s, BindRec(mnt, opt.working_dir, InRoot(opt.working_dir)), TRUE)
  BY NowIs, BindInRootIs
<1> HIDE DEF s, after
<1>3. /\ Quiet /\ mnt' = BindRec(mnt, opt.working_dir, InRoot(opt.working_dir))
      /\ pc' = after \/ pc' = "died"
  BY <1>1, <1>2, BecomeIs
<1>4. QED
  BY <1>1, <1>3 DEF after

\* What MountRest does to the mounts and to what comes next.
LEMMA RestStep ==
  ASSUME MountRest
  PROVE  /\ pc = "rest" /\ Quiet /\ UNCHANGED <<policy, todo>>
         /\ \/ Turn(mounts + 1, mnt, "home")
            \/ /\ Turn(mounts + 1,
                       Remount(BindRec(mnt, mnt[next].at, InRoot(mnt[next].at)), InRoot(mnt[next].at),
                               ~ShouldBeWritable(mnt[next].at)), "home")
               /\ Cover(mnt, InRoot(mnt[next].at)).at # InRoot(mnt[next].at)
<1> DEFINE x == mnt[next]
           t == TryCreateTarget(Now, InRoot(x.at))
           skipped == \/ ends_with(x.at, "proc") \/ x.net
                      \/ isSubpath(sandbox_root, x.at) \/ Exists(Now, InRoot(x.at))
           bound == CanCreate(Now, InRoot(x.at)) /\ Exists(t, x.at) /\ ~FileAt(t, x.at)
           b(m) == Remount(BindRec(m, x.at, InRoot(x.at)), InRoot(x.at), ~ShouldBeWritable(x.at))
           s == IF skipped THEN Now
                ELSE IF ~bound THEN t ELSE SetMnt(t, b(t.mnt))
<1>1. ForEach(mounts + 1, s, "home")
  BY DEF MountRest, SetMnt
<1>2. Has(Now, mnt, TRUE) /\ Has(t, mnt, TRUE)
  BY NowIs, CreateTargetIs
<1>3. Has(SetMnt(t, b(t.mnt)), b(mnt), TRUE)
  <2> HIDE DEF t
  <2>1. t.mnt = mnt
    BY <1>2 DEF Has
  <2>2. Has(SetMnt(t, b(mnt)), b(mnt), TRUE)
    BY <1>2, SetMntIs
  <2>3. QED
    BY <2>1, <2>2
<1>4. Has(s, mnt, TRUE) \/ (~skipped /\ Has(s, b(mnt), TRUE))
  BY <1>2, <1>3
<1> HIDE DEF s
<1>5. ~skipped => Cover(mnt, InRoot(x.at)).at # InRoot(x.at)
  BY DEF Exists, Now, Cover
<1> HIDE DEF skipped
<1>6. Quiet /\ (Turn(mounts + 1, mnt, "home") \/ (~skipped /\ Turn(mounts + 1, b(mnt), "home")))
  BY <1>1, <1>4, ForEachIs
<1>7. QED
  BY <1>5, <1>6 DEF MountRest

\* What MakeEmptyHome does to the mounts and to what comes next.
LEMMA HomeStep ==
  ASSUME MakeEmptyHome
  PROVE  pc = "home" /\ pc' \in {"pivot", "died"} /\ mnt' = mnt /\ Quiet /\ UNCHANGED fixed
<1>1. Has(CreateTarget(Now, InRoot(home_dir), TRUE), mnt, TRUE)
  BY NowIs, CreateTargetIs
<1>2. Become(CreateTarget(Now, InRoot(home_dir), TRUE), "pivot") /\ pc = "home" /\ UNCHANGED fixed
  BY DEF MakeEmptyHome
<1>3. QED
  BY <1>1, <1>2, BecomeIs

Stripped(x) == [x EXCEPT !.at = Rest(sandbox_root, @)]
OnTop(m, i) == \E j, k \in 1..Count(m) :
                 m[j].at = sandbox_root /\ m[k].at = sandbox_root /\ j < k /\ k <= i
InTheRoot(m) == {i \in 1..Count(m) : IsPrefix(sandbox_root, m[i].at) /\ ~OnTop(m, i)}
Pivoted(t) == [i \in DOMAIN t |-> Stripped(t[i])]

\* What ChangeRoot does to the mounts and to what comes next.
LEMMA PivotStep ==
  ASSUME ChangeRoot, mnt \in Tables
  PROVE  /\ pc = "pivot" /\ pc' = "chdir" /\ Quiet /\ UNCHANGED fixed
         /\ mnt' = Pivoted(Kept(mnt, InTheRoot(mnt)))
<1> DEFINE m == Pivoted(Kept(mnt, InTheRoot(mnt)))
           roots == {i \in DOMAIN mnt : mnt[i].at = sandbox_root}
           Covered(i) == \E j, k \in roots : j < k /\ k <= i
<1>1. {i \in DOMAIN mnt : isSubpath(sandbox_root, mnt[i].at) /\ ~Covered(i)} = InTheRoot(mnt)
  BY TableMounts DEF InTheRoot, OnTop, isSubpath
<1>2. Become(SetMnt(Now, m), "chdir") /\ pc = "pivot" /\ UNCHANGED fixed
  BY <1>1 DEF ChangeRoot, SetMnt, Pivoted, Stripped
<1> HIDE DEF m
<1>3. SetMnt(Now, m).ok /\ SetMnt(Now, m).mnt = m
  BY NowIs, SetMntIs DEF Has
<1>4. pc' = "chdir" /\ mnt' = m /\ Quiet
  BY <1>2, <1>3 DEF Become, Quiet
<1>5. QED
  BY <1>2, <1>4 DEF m

\* What EnterWorkingDirectory does to the mounts and to what comes next.
LEMMA ChdirStep ==
  ASSUME EnterWorkingDirectory
  PROVE  pc = "chdir" /\ pc' \in {"init", "died"} /\ mnt' = mnt /\ Quiet /\ UNCHANGED fixed
<1> DEFINE s == DieUnless(Exists(Now, opt.working_dir), Now)
<1>1. Has(s, mnt, TRUE)
  <2>1. Has(s, mnt, TRUE /\ Exists(Now, opt.working_dir))
    BY NowIs, CanCreateBoolean, DieUnlessIs
  <2>2. QED
    BY <2>1 DEF Has
<1>2. Become(s, "init") /\ pc = "chdir" /\ UNCHANGED fixed
  BY DEF EnterWorkingDirectory
<1> HIDE DEF s
<1>3. QED
  BY <1>1, <1>2, BecomeIs

\* What InitDone does to the mounts and to what comes next.
LEMMA InitStep ==
  ASSUME InitDone
  PROVE  /\ pc = "init" /\ pc' \in {"done", "died"} /\ Quiet /\ UNCHANGED fixed
         /\ \/ mnt' = mnt
            \/ /\ ~Cover(mnt, MINISBX_TMP_INIT).locked
               /\ mnt' = Remount(Bind(mnt, MINISBX_TMP_INIT, MINISBX_TMP_INIT), MINISBX_TMP_INIT, TRUE)
<1> DEFINE s == Created(Now, MINISBX_TMP_INIT)
           b(m) == Remount(Bind(m, MINISBX_TMP_INIT, MINISBX_TMP_INIT), MINISBX_TMP_INIT, TRUE)
           locked == mnt[MountOf(mnt, MINISBX_TMP_INIT)].locked
           t == IF ~CanCreate(Now, MINISBX_TMP_INIT) THEN Now
                ELSE IF locked THEN s ELSE SetMnt(s, b(s.mnt))
<1>1. Become(t, "done") /\ pc = "init" /\ UNCHANGED fixed
  BY DEF InitDone, SetMnt
<1>2. Has(Now, mnt, TRUE) /\ Has(s, mnt, TRUE)
  BY NowIs, CreatedIs
<1>3. Has(SetMnt(s, b(s.mnt)), b(mnt), TRUE)
  <2> HIDE DEF s
  <2>1. s.mnt = mnt
    BY <1>2 DEF Has
  <2>2. Has(SetMnt(s, b(mnt)), b(mnt), TRUE)
    BY <1>2, SetMntIs
  <2>3. QED
    BY <2>1, <2>2
<1>4. Has(t, mnt, TRUE) \/ (~locked /\ Has(t, b(mnt), TRUE))
  BY <1>2, <1>3
<1> HIDE DEF t
<1>5. Quiet /\ (mnt' = mnt \/ (~locked /\ mnt' = b(mnt))) /\ (pc' = "done" \/ pc' = "died")
  BY <1>1, <1>4, BecomeIs
<1>6. QED
  BY <1>1, <1>5 DEF Cover

(***************************************************************************)
(* Tables that grow, and the sandbox's root.                               *)
(***************************************************************************)

\* What TypeOK says of the mounts.
LEMMA RootedIs ==
  ASSUME NEW m
  PROVE  (m \in Seq(MountRecord) /\ m # <<>> /\ m[1].at = <<>>) <=> Rooted(m)
<1>1. ASSUME m \in Seq(MountRecord) PROVE m # <<>> <=> Count(m) >= 1
  <2>1. Len(m) \in Nat /\ (Len(m) = 0 <=> m = <<>>)
    BY <1>1, LenProperties, EmptySeq
  <2>2. QED
    BY <2>1 DEF Count
<1>2. QED
  BY <1>1 DEF Rooted, Tables

Grows(m, b) == Rooted(b) /\ Count(b) >= Count(m) /\ \A i \in 1..Count(m) : b[i] = m[i]
New(m, b) == {b[j] : j \in (Count(m) + 1)..Count(b)}

\* A table that stays has no new mount.
LEMMA GrowsNot ==
  ASSUME NEW m, Rooted(m)
  PROVE  Grows(m, m) /\ New(m, m) = {}
<1>1. Count(m) \in Nat
  BY TableMounts DEF Rooted
<1>2. QED
  BY <1>1 DEF Grows, New

\* The new mount of a table with one more.
LEMMA GrowsByOne ==
  ASSUME NEW m, Rooted(m), NEW x \in MountRecord
  PROVE  Grows(m, Append(m, x)) /\ New(m, Append(m, x)) = {x}
<1> DEFINE b == Append(m, x)
           N == Count(m)
<1>1. /\ b \in Tables /\ Count(b) = N + 1 /\ N \in Nat
      /\ \A i \in 1..N : b[i] = m[i]
      /\ b[N + 1] = x
  BY TableAppend, TableMounts DEF Rooted
<1>2. Rooted(b)
  BY AppendCovers
<1> HIDE DEF b
<1>3. (N + 1)..Count(b) = {N + 1}
  BY <1>1
<1>4. New(m, b) = {x}
  BY <1>1, <1>3 DEF New
<1>5. Grows(m, b)
  BY <1>1, <1>2 DEF Grows
<1>6. QED
  BY <1>4, <1>5 DEF b

\* The new mounts of a table with two more.
LEMMA GrowsAgain ==
  ASSUME NEW m, Rooted(m), NEW x \in MountRecord, NEW y \in MountRecord
  PROVE  /\ Grows(m, Append(Append(m, x), y))
         /\ New(m, Append(Append(m, x), y)) = {x, y}
<1> DEFINE b == Append(m, x)
           c == Append(b, y)
           N == Count(m)
<1>1. /\ b \in Tables /\ Count(b) = N + 1 /\ N \in Nat /\ Rooted(b)
      /\ \A i \in 1..N : b[i] = m[i]
      /\ b[N + 1] = x
  BY TableAppend, TableMounts, AppendCovers DEF Rooted
<1> HIDE DEF b
<1>2. /\ Count(c) = N + 2 /\ Rooted(c)
      /\ \A i \in 1..(N + 1) : c[i] = b[i]
      /\ c[N + 2] = y
  <2>1. /\ Count(c) = Count(b) + 1
        /\ \A i \in 1..Count(b) : c[i] = b[i]
        /\ c[Count(b) + 1] = y
    BY <1>1, TableAppend
  <2>2. Rooted(c)
    BY <1>1, AppendCovers
  <2>3. Count(b) + 1 = N + 2
    BY <1>1
  <2>4. QED
    BY <1>1, <2>1, <2>2, <2>3
<1> HIDE DEF c
<1>3. (N + 1)..Count(c) = {N + 1, N + 2} /\ 1..N \subseteq 1..(N + 1) /\ N + 1 \in 1..(N + 1)
  BY <1>1, <1>2
<1>4. New(m, c) = {x, y}
  BY <1>1, <1>2, <1>3 DEF New
<1>5. Grows(m, c)
  BY <1>1, <1>2, <1>3 DEF Grows
<1>6. QED
  BY <1>4, <1>5 DEF c, b

\* The mounts a recursive bind adds.
LEMMA GrowsByBind ==
  ASSUME NEW m, Rooted(m), NEW src \in Paths, NEW dst \in Paths
  PROVE  /\ Grows(m, BindRec(m, src, dst)) /\ Count(BindRec(m, src, dst)) >= Count(m) + 1
         /\ \A x \in New(m, BindRec(m, src, dst)) :
              \/ x = Bound(m, src, dst)
              \/ \E i \in 1..Count(m) : Below(m, src, i) /\ x = Brought(m, src, dst, i)
<1> DEFINE b == BindRec(m, src, dst)
           N == Count(m)
<1>1. AfterBind(b, N, m, src, dst)
  BY BindRecTable
<1> HIDE DEF b
<1>2. Grows(m, b) /\ Count(b) >= N + 1
  BY <1>1 DEF AfterBind, Grows
<1>3. ASSUME NEW x \in New(m, b)
      PROVE  \/ x = Bound(m, src, dst)
             \/ \E i \in 1..N : Below(m, src, i) /\ x = Brought(m, src, dst, i)
  <2>1. PICK j \in (N + 1)..Count(b) : x = b[j]
    BY <1>3 DEF New
  <2>2. CASE j = N + 1
    BY <1>1, <2>1, <2>2 DEF AfterBind
  <2>3. CASE j # N + 1
    <3>1. j \in 1..Count(b) /\ j > N + 1
      BY <1>1, <2>1, <2>3 DEF AfterBind
    <3>2. QED
      BY <1>1, <2>1, <3>1 DEF AfterBind
  <2>4. QED
    BY <2>2, <2>3
<1>4. QED
  BY <1>2, <1>3 DEF b

\* The same if the mount at the target, but not those below, is remounted.
LEMMA GrowsByRemount ==
  ASSUME NEW m, Rooted(m), NEW src \in Paths, NEW dst \in Paths, NEW ro \in BOOLEAN
  PROVE  /\ Grows(m, Remount(BindRec(m, src, dst), dst, ro))
         /\ Count(Remount(BindRec(m, src, dst), dst, ro)) >= Count(m) + 1
         /\ \A x \in New(m, Remount(BindRec(m, src, dst), dst, ro)) :
              \/ x = Flagged(Bound(m, src, dst), ro)
              \/ \E i \in 1..Count(m) : Below(m, src, i) /\ x = Brought(m, src, dst, i)
<1> DEFINE b == BindRec(m, src, dst)
           c == Remount(b, dst, ro)
           N == Count(m)
<1>1. AfterBind(b, N, m, src, dst)
  BY BindRecTable
<1>2. Bound(m, src, dst).at = dst
  BY BoundIs DEF Mounted
<1> HIDE DEF b
<1>3. Rooted(b) /\ MountOf(b, dst) = N + 1 /\ b[N + 1] = Bound(m, src, dst) /\ N \in Nat
      /\ Count(b) \in Nat /\ Count(b) >= N + 1
  BY <1>1 DEF AfterBind
<1>4. /\ Rooted(c) /\ Count(c) = Count(b)
      /\ \A i \in 1..Count(b) : c[i] = IF i = N + 1 /\ b[i].at = dst THEN Flagged(b[i], ro) ELSE b[i]
  BY <1>3, RemountIs
<1> HIDE DEF c
<1>5. \A i \in 1..N : c[i] = m[i]
  <2> TAKE i \in 1..N
  <2>1. i \in 1..Count(b) /\ i # N + 1
    BY <1>3
  <2>2. c[i] = b[i]
    BY <1>4, <2>1
  <2>3. QED
    BY <1>1, <2>2 DEF AfterBind
<1>6. ASSUME NEW x \in New(m, c)
      PROVE  \/ x = Flagged(Bound(m, src, dst), ro)
             \/ \E i \in 1..N : Below(m, src, i) /\ x = Brought(m, src, dst, i)
  <2>1. PICK j \in (N + 1)..Count(b) : x = c[j]
    BY <1>4, <1>6 DEF New
  <2>2. j \in 1..Count(b)
    BY <1>3
  <2>3. CASE j = N + 1
    BY <1>2, <1>3, <1>4, <2>1, <2>2, <2>3
  <2>4. CASE j # N + 1
    <3>1. j > N + 1 /\ c[j] = b[j]
      BY <1>3, <1>4, <2>2, <2>4
    <3>2. QED
      BY <1>1, <2>1, <2>2, <3>1 DEF AfterBind
  <2>5. QED
    BY <2>3, <2>4
<1>7. Grows(m, c) /\ Count(c) >= N + 1
  BY <1>3, <1>4, <1>5 DEF Grows
<1>8. QED
  BY <1>6, <1>7 DEF b, c

\* What is above no new mount is where it was.
LEMMA GrowsElsewhere ==
  ASSUME NEW m, Rooted(m), NEW b, Grows(m, b), NEW p \in Paths,
         \A x \in New(m, b) : ~IsPrefix(x.at, p)
  PROVE  MountOf(b, p) = MountOf(m, p) /\ Cover(b, p) = Cover(m, p)
<1> DEFINE k == MountOf(m, p)
           N == Count(m)
<1>1. Covers(m, k, p) /\ N \in Nat /\ Count(b) \in Nat /\ Count(b) >= N
  BY RootCovers, TableMounts DEF Grows, Rooted
<1>2. k \in 1..N /\ k \in 1..Count(b) /\ b[k] = m[k]
  BY <1>1 DEF Covers, Grows
<1>3. ASSUME NEW j \in 1..Count(b), j > k PROVE ~IsPrefix(b[j].at, p)
  <2>1. CASE j \in 1..N
    BY <1>1, <1>3, <2>1 DEF Covers, Grows
  <2>2. CASE j \notin 1..N
    <3>1. j \in (N + 1)..Count(b)
      BY <1>1, <2>2
    <3>2. b[j] \in New(m, b)
      BY <3>1 DEF New
    <3>3. QED
      BY <3>2
  <2>3. QED
    BY <2>1, <2>2
<1>4. Covers(b, k, p)
  BY <1>1, <1>2, <1>3 DEF Covers
<1>5. MountOf(b, p) = k
  BY <1>1, <1>4, CoversUnique
<1>6. QED
  BY <1>2, <1>5 DEF Cover

\* What a path is in is an old mount, the one it was in, or a new one.
LEMMA GrowsCover ==
  ASSUME NEW m, Rooted(m), NEW b, Grows(m, b), NEW p \in Paths
  PROVE  \/ MountOf(b, p) = MountOf(m, p) /\ Cover(b, p) = Cover(m, p)
         \/ Cover(b, p) \in New(m, b)
<1> DEFINE k == MountOf(b, p)
           N == Count(m)
<1>1. Covers(b, k, p) /\ N \in Nat /\ Count(b) \in Nat /\ Count(b) >= N
  BY RootCovers, TableMounts DEF Grows, Rooted
<1>2. CASE k \in 1..N
  <2>1. b[k] = m[k] /\ IsPrefix(m[k].at, p)
    BY <1>1, <1>2 DEF Covers, Grows
  <2>2. \A j \in 1..N : j > k => ~IsPrefix(m[j].at, p)
    BY <1>1 DEF Covers, Grows
  <2>3. Covers(m, k, p)
    BY <1>2, <2>1, <2>2 DEF Covers
  <2>4. MountOf(m, p) = k
    BY <1>1, <2>3, CoversUnique
  <2>5. QED
    BY <2>1, <2>4 DEF Cover
<1>3. CASE k \notin 1..N
  <2>1. k \in (N + 1)..Count(b)
    BY <1>1, <1>3 DEF Covers
  <2>2. QED
    BY <2>1 DEF New, Cover
<1>4. QED
  BY <1>2, <1>3

\* The sandbox's root is mounted, nothing above it has been mounted since, and
\* before it nothing was mounted in it.
RootMounted(m) ==
  /\ Cover(m, sandbox_root).at = sandbox_root
  /\ \E k \in 1..Count(m) :
       m[k].at = sandbox_root /\ \A j \in 1..(k - 1) : ~IsPrefix(sandbox_root, m[j].at)

\* The mount of the sandbox root stays in sight while nothing is mounted above.
LEMMA RootStaysMounted ==
  ASSUME NEW m, Rooted(m), RootMounted(m), NEW b, Grows(m, b),
         \A x \in New(m, b) : IsPrefix(x.at, sandbox_root) => x.at = sandbox_root
  PROVE  RootMounted(b)
<1>1. sandbox_root \in Paths /\ Count(m) \in Nat /\ Rooted(b) /\ Count(b) \in Nat /\ Count(b) >= Count(m)
  BY PathsHere, TableMounts DEF Rooted, Grows
<1>2. Cover(b, sandbox_root).at = sandbox_root
  <2>1. IsPrefix(Cover(b, sandbox_root).at, sandbox_root)
    BY <1>1, LocateIs
  <2>2. Cover(b, sandbox_root) = Cover(m, sandbox_root) \/ Cover(b, sandbox_root) \in New(m, b)
    BY <1>1, GrowsCover
  <2>3. QED
    BY <2>1, <2>2 DEF RootMounted
<1>3. PICK k \in 1..Count(m) :
        m[k].at = sandbox_root /\ \A j \in 1..(k - 1) : ~IsPrefix(sandbox_root, m[j].at)
  BY DEF RootMounted
<1>4. k \in 1..Count(b) /\ \A j \in 1..k : j \in 1..Count(m) /\ b[j] = m[j]
  BY <1>1 DEF Grows
<1>5. k \in 1..k /\ \A j \in 1..(k - 1) : j \in 1..k
  BY <1>1
<1>6. b[k].at = sandbox_root /\ \A j \in 1..(k - 1) : ~IsPrefix(sandbox_root, b[j].at)
  BY <1>3, <1>4, <1>5
<1>7. QED
  BY <1>2, <1>4, <1>6 DEF RootMounted

\* A mount in the sandbox's root is not above it.
LEMMA InRootIsBelow ==
  ASSUME NEW x \in MountRecord, IsPrefix(sandbox_root, x.at), IsPrefix(x.at, sandbox_root)
  PROVE  x.at = sandbox_root
  BY PathsHere, RecordFields, PathAntisymmetric

\* The table after pivot_root.
LEMMA StrippedIs ==
  ASSUME NEW x \in MountRecord, IsPrefix(sandbox_root, x.at)
  PROVE  /\ Rest(sandbox_root, x.at) \in Paths
         /\ x.at = InRoot(Rest(sandbox_root, x.at))
         /\ Mounted(Stripped(x), Rest(sandbox_root, x.at), x.fs, x.dir)
         /\ HasFlags(Stripped(x), x.cow, x.ro, x.carried)
         /\ Stripped(x).locked <=> x.locked
<1> DEFINE r == Rest(sandbox_root, x.at)
<1>1. r \in Paths /\ x.at = InRoot(r)
  BY PathsHere, RecordFields, PathSplit DEF InRoot
<1> HIDE DEF r
<1>2. Stripped(x) = [x EXCEPT !.at = r]
  BY DEF Stripped, r
<1>3. ASSUME NEW y, y = [x EXCEPT !.at = r]
      PROVE  /\ Mounted(y, r, x.fs, x.dir) /\ HasFlags(y, x.cow, x.ro, x.carried)
             /\ y.locked <=> x.locked
  BY <1>1, <1>3 DEF MountRecord, Mounted, HasFlags
<1>4. QED
  BY <1>1, <1>2, <1>3 DEF r

\* After the change of root: the mounts below the sandbox root, each where it is below it.
LEMMA PivotIs ==
  ASSUME NEW m, Rooted(m), RootMounted(m)
  PROVE  /\ Rooted(Pivoted(Kept(m, InTheRoot(m))))
         /\ \E L, g : /\ KeptBy(Kept(m, InTheRoot(m)), L, g, m, InTheRoot(m), Count(m))
                      /\ Count(Pivoted(Kept(m, InTheRoot(m)))) = L
                      /\ \A k \in 1..L : Pivoted(Kept(m, InTheRoot(m)))[k] = Stripped(m[g[k]])
<1> DEFINE I == InTheRoot(m)
           t == Kept(m, I)
           c == Pivoted(t)
           N == Count(m)
<1>1. m \in Tables /\ N \in Nat /\ \A i \in 1..N : m[i] \in MountRecord
  BY TableMounts DEF Rooted
<1>2. PICK L, g : KeptBy(t, L, g, m, I, N)
  BY <1>1, KeptIs
<1>3. L \in Nat /\ DOMAIN t = 1..L
  BY <1>2, TableMounts DEF KeptBy
<1>4. \A k \in 1..L : g[k] \in 1..N /\ IsPrefix(sandbox_root, m[g[k]].at) /\ t[k] = m[g[k]]
  BY <1>2 DEF KeptBy, InTheRoot
<1> HIDE DEF t
<1>5. \A k \in 1..L : c[k] = Stripped(m[g[k]])
  BY <1>3, <1>4 DEF Pivoted
<1>6. \A k \in 1..L : c[k] \in MountRecord /\ c[k].at = Rest(sandbox_root, m[g[k]].at)
  <2> TAKE k \in 1..L
  <2>1. Mounted(Stripped(m[g[k]]), Rest(sandbox_root, m[g[k]].at), m[g[k]].fs, m[g[k]].dir)
    BY <1>1, <1>4, StrippedIs
  <2>2. QED
    BY <1>5, <2>1 DEF Mounted
<1>7. c \in [1..L -> MountRecord]
  BY <1>3, <1>6 DEF Pivoted
<1>8. c \in Tables /\ Count(c) = L
  BY <1>3, <1>7, TableMade
<1> HIDE DEF c
<1>9. PICK k \in 1..N : m[k].at = sandbox_root /\ \A j \in 1..(k - 1) : ~IsPrefix(sandbox_root, m[j].at)
  BY DEF RootMounted
<1>10. IsPrefix(sandbox_root, sandbox_root) /\ Rest(sandbox_root, sandbox_root) = <<>>
  <2>1. sandbox_root \in Paths /\ <<>> \in Paths /\ Join(sandbox_root, <<>>) = sandbox_root
    BY PathsHere, PathRoot
  <2>2. /\ IsPrefix(sandbox_root, Join(sandbox_root, <<>>))
        /\ Rest(sandbox_root, Join(sandbox_root, <<>>)) = <<>>
    BY <2>1, PathJoin
  <2>3. QED
    BY <2>1, <2>2
<1>11. k \in I
  <2>1. ASSUME NEW i \in 1..N, NEW j \in 1..N, m[i].at = sandbox_root, i < j, j <= k PROVE FALSE
    <3>1. i \in 1..(k - 1)
      BY <1>1, <2>1
    <3>2. QED
      BY <1>9, <1>10, <2>1, <3>1
  <2>2. ~OnTop(m, k)
    BY <2>1 DEF OnTop
  <2>3. QED
    BY <1>9, <1>10, <2>2 DEF InTheRoot
<1>12. PICK l \in 1..L : g[l] = k
  BY <1>2, <1>11 DEF KeptBy
<1>13. 1 \in 1..L /\ L >= 1
  BY <1>3, <1>12
<1>14. g[1] = k
  <2>1. g[1] <= g[l]
    <3>1. CASE l = 1
      BY <1>4, <1>13, <3>1
    <3>2. CASE l # 1
      <4>1. 1 < l
        BY <3>2
      <4>2. g[1] < g[l]
        BY <1>2, <1>13, <4>1 DEF KeptBy
      <4>3. QED
        BY <1>4, <1>12, <1>13, <4>2
    <3>3. QED
      BY <3>1, <3>2
  <2>2. g[1] \in 1..N /\ IsPrefix(sandbox_root, m[g[1]].at)
    BY <1>4, <1>13
  <2>3. ~(g[1] \in 1..(k - 1))
    BY <1>9, <2>2
  <2>4. QED
    BY <1>1, <1>12, <2>1, <2>2, <2>3
<1>15. c[1].at = <<>>
  BY <1>6, <1>9, <1>10, <1>13, <1>14
<1>16. Rooted(c)
  BY <1>8, <1>13, <1>15 DEF Rooted
<1>17. QED
  BY <1>2, <1>5, <1>8, <1>16 DEF t, c

\* What is bound in the sandbox's root is in it, and so are the mounts below.
LEMMA BoundInSandbox ==
  ASSUME NEW m, Rooted(m), NEW src \in Paths, NEW d \in Paths, NEW ro \in BOOLEAN
  PROVE  /\ \A x \in New(m, BindRec(m, src, InRoot(d))) :
              x \in MountRecord /\ IsPrefix(sandbox_root, x.at)
         /\ \A x \in New(m, Remount(BindRec(m, src, InRoot(d)), InRoot(d), ro)) :
              x \in MountRecord /\ IsPrefix(sandbox_root, x.at)
<1> DEFINE dst == InRoot(d)
<1>1. dst \in Paths /\ IsPrefix(sandbox_root, dst) /\ sandbox_root \in Paths
  BY InRootPath, PathsHere
<1> HIDE DEF dst
<1>2. Bound(m, src, dst) \in MountRecord /\ Bound(m, src, dst).at = dst
  BY <1>1, BoundIs DEF Mounted
<1>3. Flagged(Bound(m, src, dst), ro) \in MountRecord /\ Flagged(Bound(m, src, dst), ro).at = dst
  BY <1>2, FlaggedIs DEF Mounted
<1>4. ASSUME NEW i \in 1..Count(m), Below(m, src, i)
      PROVE  /\ Brought(m, src, dst, i) \in MountRecord
             /\ IsPrefix(sandbox_root, Brought(m, src, dst, i).at)
  <2>1. /\ Mounted(Brought(m, src, dst, i), Join(dst, Rest(src, m[i].at)), m[i].fs, m[i].dir)
        /\ Brought(m, src, dst, i).at \in Paths
        /\ IsStrictPrefix(dst, Brought(m, src, dst, i).at)
    BY <1>1, <1>4, BroughtIs
  <2>2. Brought(m, src, dst, i) \in MountRecord
    BY <2>1 DEF Mounted
  <2>3. IsPrefix(sandbox_root, Brought(m, src, dst, i).at)
    BY <1>1, <2>1, PathTransitive DEF IsStrictPrefix
  <2>4. QED
    BY <2>2, <2>3
<1>5. ASSUME NEW x \in New(m, BindRec(m, src, dst))
      PROVE  x \in MountRecord /\ IsPrefix(sandbox_root, x.at)
  <2>1. \/ x = Bound(m, src, dst)
        \/ \E i \in 1..Count(m) : Below(m, src, i) /\ x = Brought(m, src, dst, i)
    BY <1>1, <1>5, GrowsByBind
  <2>2. QED
    BY <1>1, <1>2, <1>4, <2>1
<1>6. ASSUME NEW x \in New(m, Remount(BindRec(m, src, dst), dst, ro))
      PROVE  x \in MountRecord /\ IsPrefix(sandbox_root, x.at)
  <2>1. \/ x = Flagged(Bound(m, src, dst), ro)
        \/ \E i \in 1..Count(m) : Below(m, src, i) /\ x = Brought(m, src, dst, i)
    BY <1>1, <1>6, GrowsByRemount
  <2>2. QED
    BY <1>1, <1>3, <1>4, <2>1
<1>7. QED
  BY <1>5, <1>6 DEF dst

\* Among some paths there is one that is below no other.
LEMMA FirstPath ==
  ASSUME NEW S, S \subseteq Paths, S # {}
  PROVE  (CHOOSE q \in S : ~\E r \in S : IsStrictPrefix(r, q)) \in S
<1> DEFINE T == {Len(q) : q \in S}
<1>1. \A q \in S : Len(q) \in Nat
  BY LenProperties DEF Paths
<1>2. T \subseteq Nat /\ T # {}
  BY <1>1
<1>3. PICK n \in T : \A k \in T : ~(k < n)
  <2> HIDE DEF T
  <2> QED
    BY <1>2, LeastElement
<1>4. PICK q \in S : n = Len(q)
  BY <1>3
<1>5. ASSUME NEW r \in S, IsStrictPrefix(r, q) PROVE FALSE
  <2>1. ~(Len(r) < Len(q))
    BY <1>3, <1>4
  <2>2. r \in Paths /\ q \in Paths /\ IsPrefix(r, q) /\ r # q
    BY <1>5 DEF IsStrictPrefix
  <2>3. Len(r) <= Len(q)
    BY <2>2 DEF IsPrefix
  <2>4. Len(r) = Len(q)
    BY <1>1, <2>1, <2>3
  <2>5. SubSeq(r, 1, Len(r)) = r /\ SubSeq(q, 1, Len(q)) = q
    BY <2>2, SubSeqFull DEF Paths
  <2>6. QED
    BY <2>2, <2>4, <2>5 DEF IsPrefix
<1>6. QED
  BY <1>4, <1>5

(***************************************************************************)
(* The first invariant: types, the phases, and the sandbox's root.         *)
(***************************************************************************)

InRootPhase ==
  {"dev", "proc", "workingdir", "leftover", "overlayfirst", "tmpfs", "binds", "readonly",
   "overlays", "writables", "cwd", "rest", "home", "pivot"}
InPlacePhase ==
  {"light", "filesystems", "inplacebinds", "inplacetmpfs", "inplacewritables", "inplacecwd",
   "remount"}
LastPhase == {"chdir", "init", "done"}

\* With a root of its own pid1 goes one way, and without it another.
OnItsWay ==
  /\ Chroots => pc \in {"start", "root", "died"} \cup InRootPhase \cup LastPhase
  /\ ~Chroots => pc \in {"start", "proc", "died"} \cup InPlacePhase \cup LastPhase

\* The options are those that were asked for, but for what pid1 adds.
SameOptions == machine \in Machines /\ asked \in Options /\ SameBut(asked, opt)

RootFirst ==
  Chroots =>
    /\ pc \in {"start", "root"} =>
         \A i \in 1..Count(mnt) : ~IsPrefix(sandbox_root, mnt[i].at)
    /\ pc \in InRootPhase => RootMounted(mnt)

\* MountRest finds the mounts it looks for.
MountsKept ==
  Chroots =>
    /\ pc \in {"start", "root"} => mounts = 0
    /\ pc \in InRootPhase => mounts <= Count(mnt)
    /\ pc = "rest" => mounts + 1 <= Count(mnt)

Shape == TypeOK /\ SameOptions /\ OnItsWay /\ RootFirst /\ MountsKept

\* The mount table begins with the root directory.
LEMMA ShapeRooted ==
  ASSUME TypeOK
  PROVE  Rooted(mnt) /\ mnt \in Tables
<1>1. mnt \in Seq(MountRecord) /\ mnt # <<>> /\ mnt[1].at = <<>>
  BY DEF TypeOK
<1>2. Rooted(mnt)
  BY <1>1, RootedIs
<1>3. QED
  BY <1>2 DEF Rooted

\* The part of the state that has types.
Typed ==
  /\ ReadOnlyPaths \subseteq Dirs /\ todo \subseteq Dirs
  /\ mounts \in Nat /\ next \in Nat \ {0}

\* A step that changes neither machine nor mode keeps the types.
LEMMA TypeFrame ==
  ASSUME Shape, Quiet, SameBut(opt, opt'), Rooted(mnt'), Typed'
  PROVE  TypeOK' /\ SameOptions' /\ (Chroots' <=> Chroots)
<1>1. /\ (mnt \in Seq(MountRecord))' /\ (mnt # <<>>)' /\ (mnt[1].at = <<>>)'
  BY RootedIs
<1>2. opt' \in Option /\ opt'.mode = opt.mode
  BY DEF SameBut
<1>3. TypeOK'
  BY <1>1, <1>2 DEF Shape, TypeOK, Quiet, Typed
<1>4. SameOptions'
  BY DEF Shape, SameOptions, Quiet, SameBut
<1>5. Chroots' <=> Chroots
  BY <1>2 DEF Chroots, Quiet
<1>6. QED
  BY <1>3, <1>4, <1>5

\* Steps without a root of one's own.
LEMMA PlaceShape ==
  ASSUME Shape, Quiet, SameBut(opt, opt'), Rooted(mnt'), Typed', ~Chroots,
         pc' \in {"start", "proc", "died"} \cup InPlacePhase \cup LastPhase
  PROVE  Shape'
<1>1. TypeOK' /\ SameOptions' /\ ~Chroots'
  BY TypeFrame
<1>2. OnItsWay' /\ RootFirst' /\ MountsKept'
  BY <1>1 DEF OnItsWay, RootFirst, MountsKept, InPlacePhase, LastPhase
<1>3. QED
  BY <1>1, <1>2 DEF Shape

\* Steps in the sandbox's root.
LEMMA RootShape ==
  ASSUME Shape, Quiet, SameBut(opt, opt'), Grows(mnt, mnt'), Typed', Chroots,
         mounts' = mounts, pc \in InRootPhase, pc' \in {"died"} \cup InRootPhase,
         pc' = "rest" => pc = "rest" \/ Count(mnt') >= Count(mnt) + 1,
         \A x \in New(mnt, mnt') : IsPrefix(x.at, sandbox_root) => x.at = sandbox_root
  PROVE  Shape'
<1>1. Rooted(mnt) /\ Rooted(mnt') /\ Count(mnt') >= Count(mnt)
  BY ShapeRooted DEF Shape, Grows
<1>2. Count(mnt) \in Nat /\ Count(mnt') \in Nat /\ mounts \in Nat
  BY <1>1, TableMounts DEF Shape, TypeOK, Rooted
<1>3. TypeOK' /\ SameOptions' /\ Chroots'
  BY <1>1, TypeFrame
<1>4. OnItsWay'
  BY <1>3 DEF OnItsWay, InRootPhase
<1>5. RootMounted(mnt)
  BY DEF Shape, RootFirst
<1>6. RootMounted(mnt')
  BY <1>1, <1>5, RootStaysMounted
<1>7. RootFirst'
  BY <1>6 DEF RootFirst, InRootPhase
<1>8. mounts <= Count(mnt) /\ (pc = "rest" => mounts + 1 <= Count(mnt))
  BY DEF Shape, MountsKept
<1>9. MountsKept'
  BY <1>1, <1>2, <1>8 DEF MountsKept, InRootPhase
<1>10. QED
  BY <1>3, <1>4, <1>7, <1>9 DEF Shape

\* The last steps.
LEMMA LastShape ==
  ASSUME Shape, Quiet, SameBut(opt, opt'), Rooted(mnt'), Typed',
         pc' \in {"died"} \cup LastPhase
  PROVE  Shape'
<1>1. TypeOK' /\ SameOptions' /\ (Chroots' <=> Chroots)
  BY TypeFrame
<1>2. OnItsWay' /\ RootFirst' /\ MountsKept'
  BY <1>1 DEF OnItsWay, RootFirst, MountsKept, InRootPhase, LastPhase
<1>3. QED
  BY <1>1, <1>2 DEF Shape

\* A mount of the host shows its own directory.
LEMMA HostMountIs ==
  ASSUME NEW h \in [at : Paths, dev : Nat, ro : BOOLEAN, net : BOOLEAN, locked : BOOLEAN]
  PROVE  Mounted(HostMount(h), h.at, "host", h.at)
  BY DEF HostMount, Mount, Mounted, MountRecord

\* The machine's mounts, as pid1 finds them.
LEMMA FirstMounts ==
  ASSUME NEW h \in Machines
  PROVE  /\ h \in Machine /\ Count(h.mounts) >= 1 /\ h.mounts[1].at = <<>>
         /\ Rooted([i \in DOMAIN h.mounts |-> HostMount(h.mounts[i])])
         /\ Count([i \in DOMAIN h.mounts |-> HostMount(h.mounts[i])]) = Count(h.mounts)
         /\ \A i \in 1..Count(h.mounts) :
              /\ Mounted([j \in DOMAIN h.mounts |-> HostMount(h.mounts[j])][i], h.mounts[i].at,
                         "host", h.mounts[i].at)
              /\ ~IsPrefix(sandbox_root, h.mounts[i].at)
<1> DEFINE T == [at : Paths, dev : Nat, ro : BOOLEAN, net : BOOLEAN, locked : BOOLEAN]
           M == h.mounts
           m == [i \in DOMAIN M |-> HostMount(M[i])]
<1>1. h \in Machine /\ M # <<>> /\ M[1].at = <<>>
  BY MountAssumption
<1>2. \A i \in DOMAIN M : ~IsPrefix(sandbox_root, M[i].at)
  BY MountAssumption DEF isSubpath
<1>3. M \in Seq(T)
  BY <1>1 DEF Machine
<1>4. \A x \in T : Mounted(HostMount(x), x.at, "host", x.at)
  BY HostMountIs
<1> HIDE DEF T, M
<1>5. /\ Count(M) \in Nat /\ DOMAIN M = 1..Count(M)
      /\ \A i \in 1..Count(M) : M[i] \in T
  BY <1>3, LenProperties, ElementOfSeq DEF Count
<1>6. Count(M) >= 1
  <2>1. Len(M) \in Nat /\ (Len(M) = 0 <=> M = <<>>)
    BY <1>3, LenProperties, EmptySeq
  <2>2. QED
    BY <1>1, <2>1 DEF Count, M
<1>7. \A i \in 1..Count(M) : m[i] = HostMount(M[i])
  BY <1>5
<1>8. \A i \in 1..Count(M) : Mounted(HostMount(M[i]), M[i].at, "host", M[i].at)
  BY <1>4, <1>5
<1>9. m \in [1..Count(M) -> MountRecord]
  BY <1>5, <1>8 DEF Mounted
<1>10. \A i \in 1..Count(M) : Mounted(m[i], M[i].at, "host", M[i].at)
  BY <1>7, <1>8
<1>11. m \in Tables /\ Count(m) = Count(M)
  BY <1>5, <1>9, TableMade
<1>12. m[1].at = <<>>
  BY <1>1, <1>5, <1>6, <1>10 DEF Mounted, M
<1> HIDE DEF m
<1>13. Rooted(m)
  BY <1>6, <1>11, <1>12 DEF Rooted
<1>14. \A i \in 1..Count(M) : ~IsPrefix(sandbox_root, M[i].at)
  BY <1>2, <1>5 DEF M
<1>15. QED
  BY <1>1, <1>6, <1>10, <1>11, <1>13, <1>14 DEF m, M

\* Shape holds when pid1 starts.
LEMMA InitShape ==
  ASSUME Init
  PROVE  Shape
<1>1. /\ machine \in Machines /\ asked \in Options /\ opt = asked /\ pc = "start"
      /\ ReadOnlyPaths = {} /\ todo = {} /\ mounts = 0 /\ next = 1 /\ fault = FALSE
  BY DEF Init
<1>2. mnt = [i \in DOMAIN machine.mounts |-> HostMount(machine.mounts[i])]
  BY DEF Init
<1>3. machine \in Machine /\ Rooted(mnt) /\ Count(mnt) = Count(machine.mounts)
  BY <1>1, <1>2, FirstMounts
<1>4. \A i \in 1..Count(mnt) : /\ Mounted(mnt[i], machine.mounts[i].at, "host", machine.mounts[i].at)
                               /\ ~IsPrefix(sandbox_root, machine.mounts[i].at)
  BY <1>1, <1>2, <1>3, FirstMounts
<1>5. asked \in Option
  BY <1>1, MountAssumption
<1>6. SameOptions
  BY <1>1, <1>5 DEF SameOptions, SameBut
<1>7. TypeOK
  <2>1. mnt \in Seq(MountRecord) /\ mnt # <<>> /\ mnt[1].at = <<>>
    BY <1>3, RootedIs
  <2>2. machine \in Machine /\ asked \in Option /\ opt \in Option
    BY <1>1, <1>3, <1>5
  <2>3. /\ ReadOnlyPaths \subseteq Dirs /\ todo \subseteq Dirs
        /\ mounts \in Nat /\ next \in Nat \ {0}
    BY <1>1
  <2>4. fault \in BOOLEAN
    BY <1>1, Zenon
  <2>5. QED
    BY <2>1, <2>2, <2>3, <2>4 DEF TypeOK
<1>8. RootFirst
  BY <1>1, <1>4 DEF RootFirst, InRootPhase, Mounted
<1>9. OnItsWay /\ MountsKept
  BY <1>1 DEF OnItsWay, MountsKept, InRootPhase
<1>10. QED
  BY <1>6, <1>7, <1>8, <1>9 DEF Shape

\* What the invariant says of the options.
LEMMA ShapeOptions ==
  ASSUME Shape
  PROVE  /\ opt \in Option /\ SameBut(opt, opt) /\ machine \in Machine
         /\ opt.mode \in {"default", "custom", "hermetic", "readonly"}
         /\ opt.working_dir \in Dirs /\ opt.working_dir \in Paths
         /\ opt.sources \in Lists /\ opt.targets \in Lists /\ opt.writable_files \in Lists
         /\ opt.tmpfs_dirs \in Lists /\ opt.overlayfsmount \in Lists
         /\ Count(opt.sources) = Count(opt.targets)
         /\ ~IsPrefix(sandbox_root, opt.working_dir)
         /\ \A t \in ToSet(opt.tmpfs_dirs) :
              t \in Dirs /\ ~IsPrefix(t, sandbox_root) /\ ~IsPrefix(sandbox_root, t)
<1>1. /\ asked \in Options /\ SameBut(asked, opt)
  BY DEF Shape, SameOptions
<1>2. opt \in Option /\ machine \in Machine /\ Typed
  BY DEF Shape, TypeOK, Typed
<1>3. SameBut(opt, opt)
  BY <1>2 DEF SameBut
<1>4. /\ asked.working_dir \in Dirs /\ Count(asked.sources) = Count(asked.targets)
      /\ \A p \in {asked.working_dir} \cup ToSet(asked.tmpfs_dirs) : ~IsPrefix(sandbox_root, p)
      /\ \A t \in ToSet(asked.tmpfs_dirs) : t \in Dirs /\ ~IsPrefix(t, sandbox_root)
  BY <1>1, MountAssumption DEF isSubpath, Count
<1>5. QED
  BY <1>1, <1>2, <1>3, <1>4, OptionFields DEF SameBut

\* A step that leaves the policy alone keeps the types.
LEMMA FixedIs ==
  ASSUME Shape
  PROVE  /\ UNCHANGED fixed => Typed' /\ SameBut(opt, opt') /\ mounts' = mounts
         /\ UNCHANGED <<policy, todo>> /\ next' \in Nat \ {0} =>
              Typed' /\ SameBut(opt, opt') /\ mounts' = mounts
  BY ShapeOptions DEF fixed, policy, Shape, TypeOK, Typed

\* MountOverlayDirAsTmpfs keeps Shape.
LEMMA StartShape ==
  ASSUME Shape, MountOverlayDirAsTmpfs
  PROVE  Shape'
<1> DEFINE x == Mount(tmp_overlayfs, "tmpfs", tmp_overlayfs)
<1>1. /\ pc = "start" /\ pc' = FirstStep /\ Quiet /\ UNCHANGED fixed
      /\ mnt' = IF machine.privileged /\ use_overlayfs THEN Append(mnt, x) ELSE mnt
  BY StartStep
<1>2. Rooted(mnt)
  BY ShapeRooted DEF Shape
<1>3. Mounted(x, tmp_overlayfs, "tmpfs", tmp_overlayfs)
  BY PathsHere, MountIs
<1> HIDE DEF x
<1>4. /\ Rooted(mnt')
      /\ \A i \in 1..Count(mnt') :
           (i \in 1..Count(mnt) /\ mnt'[i] = mnt[i]) \/ mnt'[i] = x
  <2>1. Rooted(Append(mnt, x))
    BY <1>2, <1>3, AppendCovers DEF Mounted
  <2>2. \A i \in 1..Count(Append(mnt, x)) :
           (i \in 1..Count(mnt) /\ Append(mnt, x)[i] = mnt[i]) \/ Append(mnt, x)[i] = x
    BY <1>2, <1>3, TableAppend, TableMounts DEF Rooted, Mounted
  <2>3. QED
    BY <1>1, <1>2, <2>1, <2>2
<1>5. Typed' /\ SameBut(opt, opt')
  BY <1>1, FixedIs
<1>6. CASE ~Chroots
  <2>1. pc' = "light"
    BY <1>1, <1>6 DEF FirstStep
  <2>2. QED
    BY <1>1, <1>4, <1>5, <1>6, <2>1, PlaceShape DEF InPlacePhase
<1>7. CASE Chroots
  <2>1. pc' = "root"
    BY <1>1, <1>7 DEF FirstStep
  <2>2. TypeOK' /\ SameOptions' /\ Chroots'
    BY <1>1, <1>4, <1>5, <1>7, TypeFrame
  <2>3. \A i \in 1..Count(mnt) : ~IsPrefix(sandbox_root, mnt[i].at)
    BY <1>1, <1>7 DEF Shape, RootFirst
  <2>4. ~IsPrefix(sandbox_root, x.at)
    BY <1>3, MountAssumption DEF Mounted, isSubpath
  <2>5. \A i \in 1..Count(mnt') : ~IsPrefix(sandbox_root, mnt'[i].at)
    BY <1>4, <2>3, <2>4
  <2>6. mounts' = mounts /\ mounts = 0
    BY <1>1, <1>7 DEF Shape, MountsKept, fixed, policy
  <2>8. RootFirst' /\ OnItsWay' /\ MountsKept'
    BY <2>1, <2>2, <2>5, <2>6 DEF RootFirst, OnItsWay, MountsKept, InRootPhase
  <2>9. QED
    BY <2>2, <2>8 DEF Shape
<1>8. QED
  BY <1>6, <1>7

\* The directories that the symbolic links lead to.
LinkTargets == {machine.links[i].to : i \in 1..Count(machine.links)}
HostLinks == Seq([from : Paths, to : Paths])

\* The symbolic links lead to paths.
LEMMA MachineLinks ==
  ASSUME machine \in Machine
  PROVE  /\ Count(machine.links) \in Nat /\ DOMAIN machine.links = 1..Count(machine.links)
         /\ LinkTargets \subseteq Paths
<1>1. machine.links \in HostLinks
  BY DEF Machine, HostLinks
<1> DEFINE T == [from : Paths, to : Paths]
<1>2. machine.links \in Seq(T)
  BY <1>1 DEF HostLinks
<1>3. \A x \in T : x.to \in Paths
  OBVIOUS
<1> HIDE DEF T
<1>4. /\ Count(machine.links) \in Nat /\ DOMAIN machine.links = 1..Count(machine.links)
      /\ \A i \in 1..Count(machine.links) : machine.links[i] \in T
  BY <1>2, LenProperties, ElementOfSeq DEF Count
<1>5. QED
  BY <1>3, <1>4 DEF LinkTargets

\* And outside the sandbox root.
LEMMA LinksOutside ==
  ASSUME machine \in Machines
  PROVE  machine \in Machine /\ \A p \in LinkTargets : ~IsPrefix(sandbox_root, p)
<1>1. machine \in Machine
  BY MountAssumption
<1>2. \A i \in DOMAIN machine.links : ~IsPrefix(sandbox_root, machine.links[i].to)
  BY MountAssumption DEF isSubpath
<1>3. QED
  BY <1>1, <1>2, MachineLinks DEF LinkTargets

\* The lists that have the paths of list S, and beyond them only those of set A.
Extended(S, A) == {l \in Lists : ToSet(S) \subseteq ToSet(l) /\ ToSet(l) \subseteq ToSet(S) \cup A}

\* A list is extended by one more path of the set.
LEMMA ExtendedByOne ==
  ASSUME NEW S \in Lists, NEW A \in SUBSET Paths, NEW l \in Extended(S, A), NEW p \in A
  PROVE  Append(l, p) \in Extended(S, A) /\ addIfNotPresent(l, p) \in Extended(S, A)
<1>1. l \in Lists /\ p \in Paths
  BY DEF Extended
<1>2. Append(l, p) \in Lists /\ ToSet(Append(l, p)) = ToSet(l) \cup {p}
  BY <1>1, ListAppend
<1>3. Append(l, p) \in Extended(S, A)
  BY <1>2 DEF Extended
<1>4. QED
  BY <1>3 DEF addIfNotPresent

\* MountHomeSymlinks adds directories that links lead to.
LEMMA SymlinksIs ==
  ASSUME machine \in Machine, NEW S \in Lists, NEW A \in SUBSET Paths, LinkTargets \subseteq A,
         NEW l \in Extended(S, A), NEW d
  PROVE  MountHomeSymlinks(l, d) \in Extended(S, A)
<1> DEFINE N == Count(machine.links)
           X == Extended(S, A)
           Add(n, y) == IF machine.links[n].from = d THEN addIfNotPresent(y, machine.links[n].to) ELSE y
           F == [n \in 1..N |-> [y \in X |-> Add(n, y)]]
           IsTable(u) == u = [n \in 0..N |-> IF n = 0 THEN l ELSE Add(n, u[n - 1])]
           t == CHOOSE u : IsTable(u)
<1>1. MountHomeSymlinks(l, d) = t[N]
  BY DEF MountHomeSymlinks, Count
<1>2. N \in Nat /\ \A n \in 1..N : machine.links[n].to \in A
  BY MachineLinks DEF LinkTargets
<1> HIDE DEF N
<1>3. ASSUME NEW n \in 1..N, NEW y \in X PROVE Add(n, y) \in X
  BY <1>2, ExtendedByOne
<1>4. F \in [1..N -> [X -> X]] /\ l \in X
  BY <1>3
<1> HIDE DEF X, Add
<1>5. PICK g \in [0..N -> X] : Iterates(g, l, N, F)
  <2> HIDE DEF F
  <2>1. N \in Nat
    BY <1>2
  <2>2. QED
    BY <1>4, <2>1, Iteration, Zenon
<1>6. \A n \in 1..N : g[n] = Add(n, g[n - 1])
  <2> TAKE n \in 1..N
  <2>1. n - 1 \in 0..N
    BY <1>2
  <2>2. g[n - 1] \in X
    BY <1>5, <2>1
  <2>3. QED
    BY <1>5, <2>2 DEF Iterates
<1>7. IsTable(g)
  <2>1. \A n \in 0..N : n = 0 \/ n \in 1..N
    BY <1>2
  <2>2. \A n \in 0..N : g[n] = IF n = 0 THEN l ELSE Add(n, g[n - 1])
    BY <1>5, <1>6, <2>1 DEF Iterates
  <2>3. QED
    BY <1>5, <2>2
<1>8. IsTable(t)
  <2> HIDE DEF IsTable
  <2> QED
    BY <1>7
<1> HIDE DEF t
<1>9. t[0] = l /\ \A n \in 1..N : t[n] = Add(n, t[n - 1])
  <2>1. 0 \in 0..N /\ \A n \in 1..N : n \in 0..N /\ n # 0
    BY <1>2
  <2>2. QED
    BY <1>8, <2>1
<1> HIDE DEF IsTable
<1> DEFINE Good == {n \in 0..N : t[n] \in X}
<1>10. 0 \in Good
  BY <1>2, <1>4, <1>9
<1>11. ASSUME NEW n \in 1..N, n - 1 \in Good PROVE n \in Good
  BY <1>2, <1>3, <1>9, <1>11
<1>12. 0..N \subseteq Good
  <2> HIDE DEF Good
  <2> QED
    BY <1>2, <1>10, <1>11, IntervalInduction
<1>13. QED
  BY <1>1, <1>2, <1>12 DEF X

\* One directory after the other, each with where its links lead.
LEMMA AddsTo ==
  ASSUME machine \in Machine, NEW S \in Lists, NEW ds \in Lists, NEW A \in SUBSET Paths,
         ToSet(ds) \cup LinkTargets \subseteq A
  PROVE  Added(S, ds) \in Extended(S, A)
<1> DEFINE N == Count(ds)
           X == Extended(S, A)
           Add(n, y) == MountHomeSymlinks(Append(y, ds[n]), ds[n])
           F == [n \in 1..N |-> [y \in X |-> Add(n, y)]]
           IsTable(u) == u = [n \in 0..N |-> IF n = 0 THEN S ELSE Add(n, u[n - 1])]
           t == CHOOSE u : IsTable(u)
<1>1. Added(S, ds) = t[N]
  BY DEF Added, Count
<1>2. N \in Nat /\ \A n \in 1..N : ds[n] \in A
  BY ListItems
<1> HIDE DEF N
<1>3. ASSUME NEW n \in 1..N, NEW y \in X PROVE Add(n, y) \in X
  <2>1. Append(y, ds[n]) \in X
    BY <1>2, ExtendedByOne
  <2>2. QED
    BY <2>1, SymlinksIs
<1>4. F \in [1..N -> [X -> X]] /\ S \in X
  BY <1>3 DEF Extended
<1> HIDE DEF X, Add
<1>5. PICK g \in [0..N -> X] : Iterates(g, S, N, F)
  <2> HIDE DEF F
  <2>1. N \in Nat
    BY <1>2
  <2>2. QED
    BY <1>4, <2>1, Iteration, Zenon
<1>6. \A n \in 1..N : g[n] = Add(n, g[n - 1])
  <2> TAKE n \in 1..N
  <2>1. n - 1 \in 0..N
    BY <1>2
  <2>2. g[n - 1] \in X
    BY <1>5, <2>1
  <2>3. QED
    BY <1>5, <2>2 DEF Iterates
<1>7. IsTable(g)
  <2>1. \A n \in 0..N : n = 0 \/ n \in 1..N
    BY <1>2
  <2>2. \A n \in 0..N : g[n] = IF n = 0 THEN S ELSE Add(n, g[n - 1])
    BY <1>5, <1>6, <2>1 DEF Iterates
  <2>3. QED
    BY <1>5, <2>2
<1>8. IsTable(t)
  <2> HIDE DEF IsTable
  <2> QED
    BY <1>7
<1> HIDE DEF t
<1>9. t[0] = S /\ \A n \in 1..N : t[n] = Add(n, t[n - 1])
  <2>1. 0 \in 0..N /\ \A n \in 1..N : n \in 0..N /\ n # 0
    BY <1>2
  <2>2. QED
    BY <1>8, <2>1
<1> HIDE DEF IsTable
<1> DEFINE Good == {n \in 0..N : t[n] \in X}
<1>10. 0 \in Good
  BY <1>2, <1>4, <1>9
<1>11. ASSUME NEW n \in 1..N, n - 1 \in Good PROVE n \in Good
  BY <1>2, <1>3, <1>9, <1>11
<1>12. 0..N \subseteq Good
  <2> HIDE DEF Good
  <2> QED
    BY <1>2, <1>10, <1>11, IntervalInduction
<1>13. QED
  BY <1>1, <1>2, <1>12 DEF X

\* The paths of the list stay; new ones are the directories, and where links lead.
LEMMA AddedIs ==
  ASSUME machine \in Machine, NEW S \in Lists, NEW ds \in Lists
  PROVE  /\ Added(S, ds) \in Lists /\ ToSet(S) \subseteq ToSet(Added(S, ds))
         /\ ToSet(Added(S, ds)) \subseteq ToSet(S) \cup ToSet(ds) \cup LinkTargets
<1> DEFINE A == ToSet(ds) \cup LinkTargets
<1>1. A \in SUBSET Paths
  BY ListItems, MachineLinks
<1>2. ToSet(ds) \cup LinkTargets \subseteq A
  OBVIOUS
<1> HIDE DEF A
<1>3. Added(S, ds) \in Extended(S, A)
  BY <1>1, <1>2, AddsTo
<1>4. QED
  BY <1>3 DEF Extended, A

\* What LightMode does to the options.
LEMMA LightOptions ==
  ASSUME Shape, LightMode
  PROVE  /\ pc = "light" /\ pc' = "filesystems" /\ Quiet /\ mnt' = mnt /\ SameBut(opt, opt')
         /\ next' = next /\ todo' = todo /\ ReadOnlyPaths' = ReadOnlyPaths /\ mounts' = mounts
         /\ opt'.overlayfsmount = opt.overlayfsmount
         /\ ToSet(opt.writable_files) \subseteq ToSet(opt'.writable_files)
<1> DEFINE wd == opt.working_dir
           point == GetMountPointOf(wd)
           w(a) == Added(opt.writable_files, Join(a, <<TMP>>))
<1>1. /\ pc = "light" /\ pc' = "filesystems" /\ Quiet /\ mnt' = mnt
      /\ next' = next /\ todo' = todo /\ ReadOnlyPaths' = ReadOnlyPaths /\ mounts' = mounts
  BY DEF LightMode, Quiet
<1>2. PICK a \in {<<>>, <<point>>} : opt' = WithWritables(opt, w(a))
  BY DEF LightMode, WithWritables, Join
<1>3. opt.writable_files \in Lists /\ opt \in Option /\ machine \in Machine
  BY ShapeOptions
<1>4. a \in Lists
  <2>1. machine \in Machines /\ wd \in Paths
    BY ShapeOptions DEF Shape, SameOptions
  <2>2. point \in Paths
    BY <2>1, FirstMounts, MountPointAbove
  <2> HIDE DEF point
  <2>3. QED
    BY <1>2, <2>2, ListOne
<1> HIDE DEF point
<1>5. w(a) \in Lists /\ ToSet(opt.writable_files) \subseteq ToSet(w(a))
  <2>1. Join(a, <<TMP>>) \in Lists
    BY <1>4, PathsHere, ListOne, ListJoin
  <2>2. QED
    BY <1>3, <2>1, AddedIs
<1> HIDE DEF w
<1>6. SameBut(opt, opt') /\ opt'.overlayfsmount = opt.overlayfsmount /\ opt'.writable_files = w(a)
  BY <1>2, <1>3, <1>5, WithWritablesIs
<1>7. QED
  BY <1>1, <1>5, <1>6

\* The steps in place are taken without a root of its own,
LEMMA NotChroots ==
  ASSUME Shape, pc \in InPlacePhase
  PROVE  ~Chroots
  BY DEF Shape, OnItsWay, InPlacePhase, InRootPhase, LastPhase

\* and the others with one.
LEMMA InRootChroots ==
  ASSUME Shape, pc \in {"root", "dev", "workingdir", "leftover", "overlayfirst", "tmpfs", "binds",
                        "readonly", "overlays", "writables", "cwd", "rest", "home", "pivot"}
  PROVE  Chroots
  BY DEF Shape, OnItsWay, InPlacePhase, InRootPhase, LastPhase

\* LightMode keeps Shape.
LEMMA LightShape ==
  ASSUME Shape, LightMode
  PROVE  Shape'
<1>1. /\ pc = "light" /\ pc' = "filesystems" /\ Quiet /\ mnt' = mnt /\ SameBut(opt, opt')
      /\ next' = next /\ todo' = todo /\ ReadOnlyPaths' = ReadOnlyPaths /\ mounts' = mounts
  BY LightOptions
<1>2. ~Chroots
  BY <1>1, NotChroots DEF InPlacePhase
<1>3. Typed'
  BY <1>1 DEF Shape, TypeOK, Typed
<1>4. Rooted(mnt')
  BY <1>1, ShapeRooted DEF Shape
<1>5. QED
  BY <1>1, <1>2, <1>3, <1>4, PlaceShape DEF InPlacePhase

\* One item of a list of the options.
LEMMA Item ==
  ASSUME NEW s \in Lists, next \in Nat \ {0}, next <= Count(s)
  PROVE  next \in 1..Count(s) /\ s[next] \in Paths /\ s[next] \in ToSet(s)
  BY ListItems

\* The counters are numbers, and the mounts a table.
LEMMA NextNumber ==
  ASSUME Shape
  PROVE  next \in Nat \ {0} /\ mounts \in Nat /\ Rooted(mnt) /\ mnt \in Tables
  BY ShapeRooted DEF Shape, TypeOK

\* A loop without a root of one's own, whose turns leave a table behind.
LEMMA PlaceTurn ==
  ASSUME Shape, NEW n, NEW m, next <= n => Rooted(m), NEW after, Quiet, Turn(n, m, after),
         UNCHANGED <<policy, todo>>, pc \in InPlacePhase, after \in InPlacePhase \cup {"proc"}
  PROVE  Shape'
<1>1. Rooted(mnt') /\ next' \in Nat \ {0} /\ pc' \in {pc, after, "died"}
  BY NextNumber DEF Turn
<1>2. Typed' /\ SameBut(opt, opt')
  BY <1>1, FixedIs
<1>3. ~Chroots
  BY NotChroots
<1>4. QED
  BY <1>1, <1>2, <1>3, PlaceShape

\* BindInPlace keeps Shape.
LEMMA BindInPlaceShape ==
  ASSUME Shape, BindInPlace
  PROVE  Shape'
<1>1. /\ pc = "inplacebinds" /\ Quiet /\ UNCHANGED <<policy, todo>>
      /\ Turn(Count(opt.sources), BindRec(mnt, opt.sources[next], opt.targets[next]),
              "inplacetmpfs")
  BY BindInPlaceStep
<1>2. ASSUME next <= Count(opt.sources) PROVE Rooted(BindRec(mnt, opt.sources[next], opt.targets[next]))
  <2>1. opt.sources[next] \in Paths /\ opt.targets[next] \in Paths
    BY <1>2, Item, NextNumber, ShapeOptions
  <2>2. QED
    BY <2>1, NextNumber, GrowsByBind DEF Grows
<1>3. QED
  BY <1>1, <1>2, PlaceTurn DEF InPlacePhase

\* TmpfsInPlace keeps Shape.
LEMMA TmpfsInPlaceShape ==
  ASSUME Shape, TmpfsInPlace
  PROVE  Shape'
<1> DEFINE x == Mount(opt.tmpfs_dirs[next], "tmpfs", opt.tmpfs_dirs[next])
<1>1. /\ pc = "inplacetmpfs" /\ Quiet /\ UNCHANGED <<policy, todo>>
      /\ Turn(Count(opt.tmpfs_dirs), Append(mnt, x), "inplacewritables")
  BY TmpfsInPlaceStep
<1>2. ASSUME next <= Count(opt.tmpfs_dirs) PROVE Rooted(Append(mnt, x))
  <2>1. opt.tmpfs_dirs[next] \in Paths
    BY <1>2, Item, NextNumber, ShapeOptions
  <2>2. x \in MountRecord
    BY <2>1, MountIs DEF Mounted
  <2> HIDE DEF x
  <2>3. QED
    BY <2>2, NextNumber, AppendCovers
<1> HIDE DEF x
<1>3. QED
  BY <1>1, <1>2, PlaceTurn DEF InPlacePhase

\* WritableInPlace keeps Shape.
LEMMA WritableInPlaceShape ==
  ASSUME Shape, WritableInPlace
  PROVE  Shape'
<1> DEFINE w == opt.writable_files[next]
<1>1. /\ pc = "inplacewritables" /\ Quiet /\ UNCHANGED <<policy, todo>>
      /\ \/ Turn(Count(opt.writable_files), mnt, "inplacecwd")
         \/ Turn(Count(opt.writable_files), BindRec(mnt, w, w), "inplacecwd")
  BY WritableInPlaceStep
<1>2. ASSUME next <= Count(opt.writable_files) PROVE Rooted(BindRec(mnt, w, w))
  <2>1. w \in Paths
    BY <1>2, Item, NextNumber, ShapeOptions
  <2> HIDE DEF w
  <2>2. QED
    BY <2>1, NextNumber, GrowsByBind DEF Grows
<1> HIDE DEF w
<1>3. Rooted(mnt)
  BY NextNumber
<1>4. QED
  BY <1>1, <1>2, <1>3, PlaceTurn DEF InPlacePhase

\* WorkingDirInPlace keeps Shape.
LEMMA WorkingDirInPlaceShape ==
  ASSUME Shape, WorkingDirInPlace
  PROVE  Shape'
<1>1. /\ pc = "inplacecwd" /\ pc' \in {"remount", "died"} /\ Quiet /\ UNCHANGED fixed
      /\ mnt' = mnt \/ mnt' = Bind(mnt, opt.working_dir, opt.working_dir)
  BY WorkingDirInPlaceStep
<1>2. Rooted(mnt) /\ opt.working_dir \in Paths
  BY NextNumber, ShapeOptions
<1>3. Rooted(Bind(mnt, opt.working_dir, opt.working_dir))
  BY <1>2, BindIs, BoundIs, AppendCovers DEF Mounted
<1>4. Typed' /\ SameBut(opt, opt')
  BY <1>1, FixedIs
<1>5. ~Chroots
  BY <1>1, NotChroots DEF InPlacePhase
<1>6. QED
  BY <1>1, <1>2, <1>3, <1>4, <1>5, PlaceShape DEF InPlacePhase

\* MountFilesystems keeps Shape.
LEMMA FilesystemsShape ==
  ASSUME Shape, MountFilesystems
  PROVE  Shape'
<1>1. /\ pc = "filesystems" /\ pc' \in {"inplacebinds", "died"} /\ mnt' = mnt
      /\ Quiet /\ UNCHANGED fixed
  BY FilesystemsStep
<1>2. Typed' /\ SameBut(opt, opt') /\ Rooted(mnt')
  BY <1>1, FixedIs, NextNumber
<1>3. ~Chroots
  BY <1>1, NotChroots DEF InPlacePhase
<1>4. QED
  BY <1>1, <1>2, <1>3, PlaceShape DEF InPlacePhase

\* Whether a path is to stay writable is a Boolean.
LEMMA WritableBoolean ==
  ASSUME NEW p
  PROVE  ShouldBeWritable(p) \in BOOLEAN
  BY DEF ShouldBeWritable, LooselyNamed, ends_with, starts_with

\* MakeFilesystemPartiallyReadOnly keeps Shape.
LEMMA RemountShape ==
  ASSUME Shape, MakeFilesystemPartiallyReadOnly
  PROVE  Shape'
<1> DEFINE at == mnt[next].at
           m == IF ends_with(at, "proc") THEN mnt ELSE Remount(mnt, at, ~ShouldBeWritable(at))
<1>1. /\ pc = "remount" /\ Quiet /\ UNCHANGED <<policy, todo>> /\ Turn(Count(mnt), m, "proc")
  BY RemountStep
<1>2. ASSUME next <= Count(mnt) PROVE Rooted(m)
  <2>1. at \in Paths
    BY <1>2, NextNumber, TableMounts, RecordFields
  <2> HIDE DEF at
  <2>2. (~ShouldBeWritable(at)) \in BOOLEAN
    BY WritableBoolean
  <2>3. Rooted(Remount(mnt, at, ~ShouldBeWritable(at)))
    BY <2>1, <2>2, NextNumber, RemountIs
  <2>4. QED
    BY <2>3, NextNumber
<1> HIDE DEF m
<1>3. QED
  BY <1>1, <1>2, PlaceTurn DEF InPlacePhase

\* The sandbox's root becomes a mount.
LEMMA RootMountedFirst ==
  ASSUME NEW m, Rooted(m), NEW x \in MountRecord, x.at = sandbox_root,
         \A i \in 1..Count(m) : ~IsPrefix(sandbox_root, m[i].at)
  PROVE  RootMounted(Append(m, x))
<1>1. sandbox_root \in Paths /\ IsPrefix(sandbox_root, sandbox_root)
  BY PathsHere, PathRoot
<1>2. Cover(Append(m, x), sandbox_root) = x
  BY <1>1, AppendCovers
<1>3. /\ Count(m) \in Nat /\ Count(Append(m, x)) = Count(m) + 1
      /\ \A i \in 1..Count(m) : Append(m, x)[i] = m[i]
      /\ Append(m, x)[Count(m) + 1] = x
  BY TableAppend, TableMounts DEF Rooted
<1> DEFINE k == Count(m) + 1
<1>4. k \in 1..Count(Append(m, x)) /\ Append(m, x)[k].at = sandbox_root
  BY <1>3
<1>5. \A j \in 1..(k - 1) : ~IsPrefix(sandbox_root, Append(m, x)[j].at)
  <2>1. k - 1 = Count(m)
    BY <1>3
  <2>2. QED
    BY <1>3, <2>1
<1> HIDE DEF k
<1>6. QED
  BY <1>2, <1>4, <1>5 DEF RootMounted

\* MountSandboxAndGoThere keeps Shape.
LEMMA RootDirShape ==
  ASSUME Shape, MountSandboxAndGoThere
  PROVE  Shape'
<1> DEFINE x == Bound(mnt, sandbox_root, sandbox_root)
<1>1. /\ pc = "root" /\ pc' \in {"dev", "died"} /\ Quiet /\ UNCHANGED fixed
      /\ mnt' = Append(mnt, x)
  BY RootStep, BindIs
<1>2. Rooted(mnt) /\ sandbox_root \in Paths /\ Chroots
  BY <1>1, NextNumber, PathsHere, InRootChroots
<1>3. x \in MountRecord /\ x.at = sandbox_root
  BY <1>2, BoundIs DEF Mounted
<1> HIDE DEF x
<1>4. \A i \in 1..Count(mnt) : ~IsPrefix(sandbox_root, mnt[i].at)
  BY <1>1, <1>2 DEF Shape, RootFirst
<1>5. Rooted(mnt') /\ RootMounted(mnt')
  BY <1>1, <1>2, <1>3, <1>4, RootMountedFirst, AppendCovers
<1>6. Typed' /\ SameBut(opt, opt')
  BY <1>1, FixedIs
<1>7. TypeOK' /\ SameOptions' /\ Chroots'
  BY <1>1, <1>2, <1>5, <1>6, TypeFrame
<1>8. RootFirst' /\ OnItsWay'
  BY <1>1, <1>5, <1>7 DEF RootFirst, OnItsWay, InRootPhase
<1>9. MountsKept'
  <2>1. mounts' = mounts /\ Count(mnt') = Count(mnt) + 1 /\ mounts \in Nat /\ Count(mnt) \in Nat
    BY <1>1, <1>2, <1>3, NextNumber, TableAppend, TableMounts DEF Rooted, fixed, policy
  <2>2. mounts = 0
    BY <1>1, <1>2 DEF Shape, MountsKept
  <2>3. QED
    BY <1>1, <2>1, <2>2 DEF MountsKept, InRootPhase
<1>10. QED
  BY <1>7, <1>8, <1>9 DEF Shape

\* A loop in the sandbox's root, whose turns add mounts and leave the root's own.
LEMMA RootTurn ==
  ASSUME Shape, NEW n, NEW m, NEW after, Quiet, Turn(n, m, after), UNCHANGED policy,
         todo' \subseteq Dirs, pc \in InRootPhase, Chroots, after \in InRootPhase, after # "rest",
         next <= n => /\ Grows(mnt, m)
                      /\ \A x \in New(mnt, m) : IsPrefix(x.at, sandbox_root) => x.at = sandbox_root
  PROVE  Shape'
<1>1. next \in Nat \ {0} /\ Rooted(mnt)
  BY NextNumber
<1>2. Grows(mnt, mnt) /\ New(mnt, mnt) = {}
  BY <1>1, GrowsNot
<1>3. /\ Grows(mnt, mnt') /\ next' \in Nat \ {0}
      /\ \A x \in New(mnt, mnt') : IsPrefix(x.at, sandbox_root) => x.at = sandbox_root
  <2>1. CASE next <= n
    BY <1>1, <2>1 DEF Turn
  <2>2. CASE ~(next <= n)
    BY <1>1, <1>2, <2>2 DEF Turn
  <2>3. QED
    BY <2>1, <2>2
<1>4. Typed' /\ SameBut(opt, opt') /\ mounts' = mounts
  BY <1>3, ShapeOptions DEF policy, Shape, TypeOK, Typed
<1>5. pc' \in {"died"} \cup InRootPhase /\ (pc' = "rest" => pc = "rest")
  BY DEF Turn
<1>6. QED
  BY <1>3, <1>4, <1>5, RootShape

\* One more mount in the sandbox's root, or none that is above it.
LEMMA MoreInRoot ==
  ASSUME NEW m, Rooted(m), NEW x \in MountRecord,
         IsPrefix(sandbox_root, x.at) \/ ~IsPrefix(x.at, sandbox_root)
  PROVE  /\ Grows(m, Append(m, x)) /\ New(m, Append(m, x)) = {x}
         /\ \A y \in New(m, Append(m, x)) : IsPrefix(y.at, sandbox_root) => y.at = sandbox_root
<1>1. Grows(m, Append(m, x)) /\ New(m, Append(m, x)) = {x}
  BY GrowsByOne
<1>2. IsPrefix(x.at, sandbox_root) => x.at = sandbox_root
  BY InRootIsBelow
<1>3. QED
  BY <1>1, <1>2

\* A bind to a place in the root adds mounts in the root only.
LEMMA BindInRootGrows ==
  ASSUME NEW m, Rooted(m), NEW src \in Paths, NEW d \in Paths, NEW ro \in BOOLEAN
  PROVE  /\ Grows(m, BindRec(m, src, InRoot(d)))
         /\ Count(BindRec(m, src, InRoot(d))) >= Count(m) + 1
         /\ \A y \in New(m, BindRec(m, src, InRoot(d))) :
              IsPrefix(y.at, sandbox_root) => y.at = sandbox_root
         /\ Grows(m, Remount(BindRec(m, src, InRoot(d)), InRoot(d), ro))
         /\ \A y \in New(m, Remount(BindRec(m, src, InRoot(d)), InRoot(d), ro)) :
              IsPrefix(y.at, sandbox_root) => y.at = sandbox_root
<1>1. InRoot(d) \in Paths
  BY InRootPath
<1>2. /\ Grows(m, BindRec(m, src, InRoot(d)))
      /\ Count(BindRec(m, src, InRoot(d))) >= Count(m) + 1
      /\ Grows(m, Remount(BindRec(m, src, InRoot(d)), InRoot(d), ro))
  BY <1>1, GrowsByBind, GrowsByRemount
<1>3. \A x \in MountRecord : IsPrefix(sandbox_root, x.at) /\ IsPrefix(x.at, sandbox_root) =>
                               x.at = sandbox_root
  BY InRootIsBelow
<1>4. /\ \A x \in New(m, BindRec(m, src, InRoot(d))) :
           x \in MountRecord /\ IsPrefix(sandbox_root, x.at)
      /\ \A x \in New(m, Remount(BindRec(m, src, InRoot(d)), InRoot(d), ro)) :
           x \in MountRecord /\ IsPrefix(sandbox_root, x.at)
  BY BoundInSandbox
<1>5. QED
  BY <1>2, <1>3, <1>4

\* MountDev keeps Shape.
LEMMA DevShape ==
  ASSUME Shape, MountDev
  PROVE  Shape'
<1> DEFINE x == Bound(mnt, NULL, InRoot(NULL))
<1>1. /\ pc = "dev" /\ pc' \in {"proc", "died"} /\ Quiet /\ UNCHANGED fixed
      /\ mnt' = Append(mnt, x)
  BY DevStep, BindIs
<1>2. /\ Rooted(mnt) /\ NULL \in Paths /\ InRoot(NULL) \in Paths /\ Chroots
      /\ IsPrefix(sandbox_root, InRoot(NULL))
  BY <1>1, NextNumber, PathsHere, InRootPath, InRootChroots
<1>3. x \in MountRecord /\ x.at = InRoot(NULL)
  BY <1>2, BoundIs DEF Mounted
<1> HIDE DEF x
<1>4. /\ Grows(mnt, mnt')
      /\ \A y \in New(mnt, mnt') : IsPrefix(y.at, sandbox_root) => y.at = sandbox_root
  BY <1>1, <1>2, <1>3, MoreInRoot
<1>5. Typed' /\ SameBut(opt, opt') /\ mounts' = mounts
  BY <1>1, FixedIs
<1>6. QED
  BY <1>1, <1>2, <1>4, <1>5, RootShape DEF InRootPhase

\* /proc and /sys are mounted on the host, not over the root.
LEMMA ProcMounts ==
  /\ Mounted(ProcMount, PROC, "proc", PROC) /\ Mounted(SysMount, SYS, "sysfs", SYS)
  /\ ~IsPrefix(PROC, sandbox_root) /\ ~IsPrefix(SYS, sandbox_root)
<1>1. Mounted(ProcMount, PROC, "proc", PROC)
  BY PathsHere, MountIs DEF ProcMount
<1>2. SYS \in Paths
  BY PathsHere
<1>3. Mounted(SysMount, SYS, "sysfs", SYS)
  BY <1>2 DEF SysMount, Mounted, Mount, MountRecord
<1>4. ~IsPrefix(PROC, sandbox_root) /\ ~IsPrefix(SYS, sandbox_root)
  BY MountAssumption DEF isSubpath
<1>5. QED
  BY <1>1, <1>3, <1>4

\* MountProcAndSys adds nothing else.
LEMMA ProcGrows ==
  ASSUME Shape, MountProcAndSys
  PROVE  /\ Grows(mnt, mnt')
         /\ \A x \in New(mnt, mnt') : x = ProcMount \/ x = SysMount
<1>1. mnt' = IF opt.netns THEN Append(Append(mnt, ProcMount), SysMount) ELSE Append(mnt, ProcMount)
  BY ProcStep, NextNumber
<1>2. ProcMount \in MountRecord /\ SysMount \in MountRecord /\ Rooted(mnt)
  BY ProcMounts, NextNumber DEF Mounted
<1>3. /\ Grows(mnt, Append(mnt, ProcMount)) /\ New(mnt, Append(mnt, ProcMount)) = {ProcMount}
      /\ Grows(mnt, Append(Append(mnt, ProcMount), SysMount))
      /\ New(mnt, Append(Append(mnt, ProcMount), SysMount)) = {ProcMount, SysMount}
  BY <1>2, GrowsByOne, GrowsAgain
<1>4. CASE opt.netns
  BY <1>1, <1>3, <1>4
<1>5. CASE ~opt.netns
  BY <1>1, <1>3, <1>5
<1>6. QED
  BY <1>4, <1>5

\* MountProcAndSys keeps Shape.
LEMMA ProcShape ==
  ASSUME Shape, MountProcAndSys
  PROVE  Shape'
<1>1. pc = "proc" /\ pc' = PolicyStep /\ Quiet /\ UNCHANGED fixed
  BY ProcStep, NextNumber
<1>2. Grows(mnt, mnt') /\ \A x \in New(mnt, mnt') : x = ProcMount \/ x = SysMount
  BY ProcGrows
<1>3. \A x \in New(mnt, mnt') : IsPrefix(x.at, sandbox_root) => x.at = sandbox_root
  BY <1>2, ProcMounts DEF Mounted
<1>4. Typed' /\ SameBut(opt, opt') /\ mounts' = mounts
  BY <1>1, FixedIs
<1>5. CASE ~Chroots
  <2>1. pc' = "chdir" /\ Rooted(mnt')
    BY <1>1, <1>2, <1>5 DEF PolicyStep, Grows
  <2>2. QED
    BY <1>1, <1>4, <1>5, <2>1, PlaceShape DEF LastPhase
<1>6. CASE Chroots
  <2>1. pc' \in {"workingdir", "overlayfirst", "tmpfs"}
    BY <1>1, <1>6 DEF PolicyStep, Chroots
  <2>2. QED
    BY <1>1, <1>2, <1>3, <1>4, <1>6, <2>1, RootShape DEF InRootPhase
<1>7. QED
  BY <1>5, <1>6

\* The first names of a path.
LEMMA PathPart ==
  ASSUME NEW a \in Paths, NEW n \in Nat, n <= Len(a)
  PROVE  SubSeq(a, 1, n) \in Paths /\ IsPrefix(SubSeq(a, 1, n), a)
<1>1. a \in Seq(STRING) /\ Len(a) \in Nat
  BY LenProperties DEF Paths
<1>2. \A i \in 1..n : a[i] \in STRING
  BY <1>1, ElementOfSeq
<1>3. SubSeq(a, 1, n) \in Seq(STRING) /\ Len(SubSeq(a, 1, n)) = n
  BY <1>1, <1>2, SubSeqProperties
<1>4. SubSeq(SubSeq(a, 1, n), 1, n) = SubSeq(a, 1, n)
  BY <1>3, SubSeqFull
<1>5. QED
  BY <1>3, <1>4 DEF Paths, IsPrefix

\* What is above a path outside the sandbox root is outside too.
LEMMA PathOutside ==
  ASSUME NEW a \in Paths, NEW b \in Paths, IsPrefix(a, b), ~IsPrefix(sandbox_root, b)
  PROVE  ~IsPrefix(sandbox_root, a)
  BY PathsHere, PathTransitive

\* The directory that brings the working directory is not in the sandbox's root.
LEMMA TopOutside ==
  ASSUME NEW base \in Paths, NEW wd \in Paths, wd # base, ~IsPrefix(sandbox_root, wd),
         ~IsPrefix(sandbox_root, base)
  PROVE  /\ TopLevelRelativeFolder(base, wd) \in Paths
         /\ ~IsPrefix(sandbox_root, TopLevelRelativeFolder(base, wd))
<1>1. Len(base) \in Nat /\ Len(wd) \in Nat
  BY LenProperties DEF Paths
<1>2. CASE IsStrictPrefix(base, wd)
  <2>1. IsPrefix(base, wd) /\ Len(base) <= Len(wd)
    BY <1>2 DEF IsStrictPrefix, IsPrefix
  <2>2. Len(base) # Len(wd)
    <3>1. SubSeq(base, 1, Len(base)) = base /\ SubSeq(wd, 1, Len(wd)) = wd
      BY SubSeqFull DEF Paths
    <3>2. QED
      BY <2>1, <3>1 DEF IsPrefix
  <2>3. Len(base) + 1 \in Nat /\ Len(base) + 1 <= Len(wd)
    BY <1>1, <2>1, <2>2
  <2>4. TopLevelRelativeFolder(base, wd) = SubSeq(wd, 1, Len(base) + 1)
    BY <1>2 DEF TopLevelRelativeFolder
  <2> DEFINE n == Len(base) + 1
  <2>5. n \in Nat /\ n <= Len(wd)
    BY <2>3
  <2> HIDE DEF n
  <2>6. SubSeq(wd, 1, n) \in Paths /\ IsPrefix(SubSeq(wd, 1, n), wd)
    BY <2>5, PathPart
  <2>7. ~IsPrefix(sandbox_root, SubSeq(wd, 1, n))
    BY <2>6, PathOutside
  <2>8. QED
    BY <2>4, <2>6, <2>7 DEF n
<1>3. CASE ~IsStrictPrefix(base, wd)
  <2>1. TopLevelRelativeFolder(base, wd) = Front(base)
    BY <1>3 DEF TopLevelRelativeFolder
  <2>2. Len(base) # 0
    <3>1. ASSUME Len(base) = 0 PROVE FALSE
      <4>1. base = <<>>
        BY <3>1, EmptySeq DEF Paths
      <4>2. IsPrefix(base, wd)
        BY <4>1, PathRoot
      <4>3. QED
        BY <1>3, <4>2 DEF IsStrictPrefix
    <3>2. QED
      BY <3>1
  <2> DEFINE n == Len(base) - 1
  <2>3. n \in Nat /\ n <= Len(base)
    BY <1>1, <2>2
  <2>4. Front(base) = SubSeq(base, 1, n)
    BY DEF Front
  <2> HIDE DEF n
  <2>5. SubSeq(base, 1, n) \in Paths /\ IsPrefix(SubSeq(base, 1, n), base)
    BY <2>3, PathPart
  <2>6. ~IsPrefix(sandbox_root, SubSeq(base, 1, n))
    BY <2>5, PathOutside
  <2>7. QED
    BY <2>1, <2>4, <2>5, <2>6
<1>4. QED
  BY <1>2, <1>3

\* MountOverlaySubfolders gives a list of paths.
LEMMA SubfoldersList ==
  ASSUME NEW top \in Paths, NEW dir \in Paths
  PROVE  MountOverlaySubfolders(top, dir) \in Lists
<1>1. Len(top) \in Nat /\ Len(dir) \in Nat
  BY LenProperties DEF Paths
<1>2. CASE isSubpath(top, dir)
  <2>1. Len(top) <= Len(dir)
    BY <1>2 DEF isSubpath, IsPrefix
  <2> DEFINE n == Len(dir) - Len(top)
             f == [i \in 1..n |-> SubSeq(dir, 1, Len(top) + i - 1)]
  <2>2. n \in Nat
    BY <1>1, <2>1
  <2>3. MountOverlaySubfolders(top, dir) = f
    BY <1>2 DEF MountOverlaySubfolders
  <2>4. ASSUME NEW i \in 1..n PROVE SubSeq(dir, 1, Len(top) + i - 1) \in Paths
    <3> DEFINE k == Len(top) + i - 1
    <3>1. k \in Nat /\ k <= Len(dir)
      BY <1>1, <2>1, <2>4
    <3> HIDE DEF k
    <3>2. SubSeq(dir, 1, k) \in Paths
      BY <3>1, PathPart
    <3>3. QED
      BY <3>2 DEF k
  <2> HIDE DEF n
  <2>5. f \in [1..n -> Paths]
    BY <2>4
  <2> HIDE DEF f
  <2>6. f \in Seq(Paths)
    BY <2>2, <2>5, IsASeq
  <2>7. QED
    BY <2>3, <2>6 DEF Lists
<1>3. CASE ~isSubpath(top, dir)
  <2>1. MountOverlaySubfolders(top, dir) = <<>>
    BY <1>3 DEF MountOverlaySubfolders
  <2>2. QED
    BY <2>1, ListOne
<1>4. QED
  BY <1>2, <1>3

\* The options with the directories above the working directory.
LEMMA WithParentsIs ==
  ASSUME machine \in Machine, NEW o \in Option, NEW top \in Paths
  PROVE  /\ SameBut(o, WithParents(o, top))
         /\ ToSet(o.writable_files) \subseteq ToSet(WithParents(o, top).writable_files)
         /\ ToSet(WithParents(o, top).writable_files)
              \subseteq ToSet(o.writable_files) \cup {top} \cup LinkTargets
         /\ ToSet(o.overlayfsmount) \subseteq ToSet(WithParents(o, top).overlayfsmount)
<1>1. o.writable_files \in Lists /\ o.overlayfsmount \in Lists /\ o.working_dir \in Paths
  BY OptionFields
<1>2. CASE o.parents_writable
  <2> DEFINE w == Added(o.writable_files, <<top>>)
  <2>1. WithParents(o, top) = WithWritables(o, w)
    BY <1>2 DEF WithParents, WithWritables
  <2>2. /\ w \in Lists /\ ToSet(o.writable_files) \subseteq ToSet(w)
        /\ ToSet(w) \subseteq ToSet(o.writable_files) \cup {top} \cup LinkTargets
    <3>1. <<top>> \in Lists /\ ToSet(<<top>>) = {top}
      BY ListOne
    <3>2. QED
      BY <1>1, <3>1, AddedIs
  <2> HIDE DEF w
  <2>3. QED
    BY <2>1, <2>2, WithWritablesIs
<1>3. CASE ~o.parents_writable
  <2> DEFINE b == IF machine.xfs THEN MountOverlaySubfolders(top, o.working_dir) ELSE <<top>>
             l == Added(o.overlayfsmount, b)
  <2>1. WithParents(o, top) = WithOverlays(o, l)
    BY <1>3 DEF WithParents, WithOverlays
  <2>2. b \in Lists
    BY <1>1, SubfoldersList, ListOne
  <2> HIDE DEF b
  <2>3. l \in Lists /\ ToSet(o.overlayfsmount) \subseteq ToSet(l)
    BY <1>1, <2>2, AddedIs
  <2> HIDE DEF l
  <2>4. QED
    BY <2>1, <2>3, WithOverlaysIs
<1>4. QED
  BY <1>2, <1>3

\* What MountWorkingDirMountPoint does to the options: both lists only grow.
LEMMA ParentsOptions ==
  ASSUME Shape, MountWorkingDirMountPoint
  PROVE  /\ pc = "workingdir" /\ pc' = "leftover" /\ Quiet /\ mnt' = mnt /\ mounts' = Count(mnt)
         /\ next' = next /\ todo' = todo /\ ReadOnlyPaths' = ReadOnlyPaths /\ SameBut(opt, opt')
         /\ ToSet(opt.writable_files) \subseteq ToSet(opt'.writable_files)
         /\ \A p \in ToSet(opt'.writable_files) :
              p \in ToSet(opt.writable_files) \/ ~IsPrefix(sandbox_root, p)
         /\ ToSet(opt.overlayfsmount) \subseteq ToSet(opt'.overlayfsmount)
<1> DEFINE wd == opt.working_dir
           point == GetMountPointOf(wd)
           base == IF isSubpath(TopLevelRelativeFolder(point, wd), home_dir) THEN home_dir ELSE point
           top == TopLevelRelativeFolder(base, wd)
<1>1. /\ pc = "workingdir" /\ pc' = "leftover" /\ Quiet /\ mnt' = mnt /\ mounts' = Count(mnt)
      /\ next' = next /\ todo' = todo /\ ReadOnlyPaths' = ReadOnlyPaths
  BY DEF MountWorkingDirMountPoint, Quiet, Count
<1>2. opt' = opt \/ (wd \notin {point, base} /\ opt' = WithParents(opt, top))
  BY DEF MountWorkingDirMountPoint
<1>3. /\ opt \in Option /\ machine \in Machine /\ wd \in Paths /\ ~IsPrefix(sandbox_root, wd)
      /\ SameBut(opt, opt) /\ machine \in Machines
  BY ShapeOptions DEF Shape, SameOptions
<1>4. point \in Paths /\ IsPrefix(point, wd)
  BY <1>3, FirstMounts, MountPointAbove
<1> HIDE DEF wd, point
<1>5. base \in Paths /\ ~IsPrefix(sandbox_root, base)
  <2>1. ~IsPrefix(sandbox_root, point)
    BY <1>3, <1>4, PathOutside
  <2>2. home_dir \in Paths /\ ~IsPrefix(sandbox_root, home_dir)
    BY PathsHere, MountAssumption DEF isSubpath
  <2>3. QED
    BY <1>4, <2>1, <2>2
<1> HIDE DEF base
<1>6. CASE opt' = opt
  BY <1>1, <1>3, <1>6
<1>7. CASE wd \notin {point, base} /\ opt' = WithParents(opt, top)
  <2>1. opt' = WithParents(opt, top) /\ wd # base
    BY <1>7
  <2>2. top \in Paths /\ ~IsPrefix(sandbox_root, top)
    BY <1>3, <1>5, <2>1, TopOutside
  <2> HIDE DEF top
  <2>3. /\ SameBut(opt, opt')
        /\ ToSet(opt.writable_files) \subseteq ToSet(opt'.writable_files)
        /\ ToSet(opt'.writable_files) \subseteq ToSet(opt.writable_files) \cup {top} \cup LinkTargets
        /\ ToSet(opt.overlayfsmount) \subseteq ToSet(opt'.overlayfsmount)
    BY <1>3, <2>1, <2>2, WithParentsIs
  <2>4. QED
    BY <1>1, <1>3, <2>2, <2>3, LinksOutside
<1>8. QED
  BY <1>2, <1>6, <1>7

\* MountWorkingDirMountPoint keeps Shape.
LEMMA ParentsShape ==
  ASSUME Shape, MountWorkingDirMountPoint
  PROVE  Shape'
<1>1. /\ pc = "workingdir" /\ pc' = "leftover" /\ Quiet /\ mnt' = mnt /\ mounts' = Count(mnt)
      /\ next' = next /\ todo' = todo /\ ReadOnlyPaths' = ReadOnlyPaths /\ SameBut(opt, opt')
  BY ParentsOptions
<1>2. Rooted(mnt) /\ Chroots /\ Count(mnt) \in Nat
  BY <1>1, NextNumber, InRootChroots, TableMounts DEF Rooted
<1>3. Typed'
  BY <1>1, <1>2 DEF Shape, TypeOK, Typed
<1>4. TypeOK' /\ SameOptions' /\ Chroots'
  BY <1>1, <1>2, <1>3, TypeFrame
<1>5. RootMounted(mnt)
  BY <1>1, <1>2 DEF Shape, RootFirst, InRootPhase
<1>6. OnItsWay' /\ RootFirst'
  BY <1>1, <1>4, <1>5 DEF OnItsWay, RootFirst, InRootPhase
<1>7. MountsKept'
  BY <1>1, <1>2 DEF MountsKept, InRootPhase
<1>8. QED
  BY <1>4, <1>6, <1>7 DEF Shape

\* What AddLeftoverFoldersToReadOnlyPaths does to the mounts and to what comes next.
LEMMA LeftoverStep ==
  ASSUME AddLeftoverFoldersToReadOnlyPaths
  PROVE  /\ pc = "leftover" /\ pc' = "tmpfs" /\ Quiet /\ mnt' = mnt /\ mounts' = mounts
         /\ next' = next /\ todo' = todo /\ ReadOnlyPaths' \subseteq Dirs /\ opt' = opt
  BY DEF AddLeftoverFoldersToReadOnlyPaths, Quiet

\* AddLeftoverFoldersToReadOnlyPaths keeps Shape.
LEMMA LeftoverShape ==
  ASSUME Shape, AddLeftoverFoldersToReadOnlyPaths
  PROVE  Shape'
<1>1. /\ pc = "leftover" /\ pc' = "tmpfs" /\ Quiet /\ mnt' = mnt /\ mounts' = mounts
      /\ next' = next /\ todo' = todo /\ ReadOnlyPaths' \subseteq Dirs /\ opt' = opt
  BY LeftoverStep
<1>2. Rooted(mnt) /\ Chroots /\ SameBut(opt, opt')
  BY <1>1, NextNumber, InRootChroots, ShapeOptions
<1>3. Typed'
  BY <1>1 DEF Shape, TypeOK, Typed
<1>4. Grows(mnt, mnt') /\ New(mnt, mnt') = {}
  BY <1>1, <1>2, GrowsNot
<1>5. QED
  BY <1>1, <1>2, <1>3, <1>4, RootShape DEF InRootPhase

\* MountAllTmpfs keeps Shape.
LEMMA TmpfsShape ==
  ASSUME Shape, MountAllTmpfs
  PROVE  Shape'
<1> DEFINE d == opt.tmpfs_dirs[next]
           x == Mount(d, "tmpfs", d)
<1>1. /\ pc = "tmpfs" /\ Quiet /\ UNCHANGED <<policy, todo>>
      /\ \/ mnt' = mnt /\ pc' = "died" /\ next' = next + 1
         \/ Turn(Count(opt.tmpfs_dirs), Append(mnt, x), "binds")
  BY TmpfsStep
<1>2. Rooted(mnt) /\ next \in Nat \ {0} /\ Chroots
  BY <1>1, NextNumber, InRootChroots
<1>3. ASSUME next <= Count(opt.tmpfs_dirs)
      PROVE  /\ Grows(mnt, Append(mnt, x))
             /\ \A y \in New(mnt, Append(mnt, x)) : IsPrefix(y.at, sandbox_root) => y.at = sandbox_root
  <2>1. d \in Paths /\ d \in ToSet(opt.tmpfs_dirs)
    BY <1>2, <1>3, Item, ShapeOptions
  <2>2. ~IsPrefix(d, sandbox_root)
    BY <2>1, ShapeOptions
  <2>3. x \in MountRecord /\ x.at = d
    BY <2>1, MountIs DEF Mounted
  <2> HIDE DEF d, x
  <2>4. QED
    BY <1>2, <2>2, <2>3, MoreInRoot
<1> HIDE DEF x
<1>4. CASE mnt' = mnt /\ pc' = "died" /\ next' = next + 1
  <2>1. next' \in Nat \ {0}
    BY <1>2, <1>4
  <2>2. Typed' /\ SameBut(opt, opt') /\ mounts' = mounts
    BY <1>1, <2>1, FixedIs
  <2>3. QED
    BY <1>1, <1>2, <1>4, <2>2, LastShape
<1>5. CASE Turn(Count(opt.tmpfs_dirs), Append(mnt, x), "binds")
  <2>1. todo' \subseteq Dirs /\ UNCHANGED policy
    BY <1>1 DEF Shape, TypeOK
  <2>2. QED
    BY <1>1, <1>2, <1>3, <1>5, <2>1, RootTurn DEF InRootPhase
<1>6. QED
  BY <1>1, <1>4, <1>5

\* A remounted bind adds mounts in the root only.
LEMMA RemountedBindGrows ==
  ASSUME Rooted(mnt), NEW item \in Paths, NEW d \in Paths
  PROVE  /\ Grows(mnt, RemountedBind(item, InRoot(d)))
         /\ \A y \in New(mnt, RemountedBind(item, InRoot(d))) :
              IsPrefix(y.at, sandbox_root) => y.at = sandbox_root
<1> DEFINE ro == ~ShouldBeWritable(item) /\ ~ShouldBeWritable(InRoot(d))
<1>1. ro \in BOOLEAN
  OBVIOUS
<1>2. RemountedBind(item, InRoot(d)) = Remount(BindRec(mnt, item, InRoot(d)), InRoot(d), ro)
  BY DEF RemountedBind
<1> HIDE DEF ro
<1>3. QED
  BY <1>1, <1>2, BindInRootGrows

\* MountBinds keeps Shape.
LEMMA BindsShape ==
  ASSUME Shape, MountBinds
  PROVE  Shape'
<1> DEFINE m == RemountedBind(opt.sources[next], InRoot(opt.targets[next]))
<1>1. /\ pc = "binds" /\ Quiet /\ UNCHANGED policy
      /\ todo' = IF next <= Count(opt.sources) THEN {} ELSE ReadOnlyPaths
      /\ Turn(Count(opt.sources), m, "readonly")
  BY BindsStep
<1>2. Rooted(mnt) /\ next \in Nat \ {0} /\ Chroots
  BY <1>1, NextNumber, InRootChroots
<1>3. ASSUME next <= Count(opt.sources)
      PROVE  /\ Grows(mnt, m)
             /\ \A y \in New(mnt, m) : IsPrefix(y.at, sandbox_root) => y.at = sandbox_root
  <2>1. opt.sources[next] \in Paths /\ opt.targets[next] \in Paths
    BY <1>2, <1>3, Item, ShapeOptions
  <2>2. QED
    BY <1>2, <2>1, RemountedBindGrows
<1> HIDE DEF m
<1>4. todo' \subseteq Dirs
  BY <1>1 DEF Shape, TypeOK
<1>5. QED
  BY <1>1, <1>2, <1>3, <1>4, RootTurn DEF InRootPhase

\* MountReadOnly keeps Shape.
LEMMA ReadOnlyShape ==
  ASSUME Shape, MountReadOnly
  PROVE  Shape'
<1>1. /\ pc = "readonly" /\ Quiet /\ UNCHANGED <<policy, next>>
      /\ \/ todo = {} /\ mnt' = mnt /\ pc' = "overlays" /\ todo' = todo
         \/ \E p : /\ todo # {} /\ mnt' = RemountedBind(p, InRoot(p)) /\ pc' \in {pc, "died"}
                   /\ p = CHOOSE q \in todo : ~\E r \in todo : IsStrictPrefix(r, q)
                   /\ todo' = todo \ {p}
  BY ReadOnlyStep
<1>2. Rooted(mnt) /\ Chroots /\ todo \subseteq Dirs /\ todo \subseteq Paths
  BY <1>1, NextNumber, InRootChroots, PathsHere DEF Shape, TypeOK
<1>3. todo' \subseteq Dirs
  BY <1>1, <1>2
<1>4. Typed' /\ SameBut(opt, opt') /\ mounts' = mounts
  BY <1>1, <1>3, ShapeOptions DEF policy, Shape, TypeOK, Typed
<1>5. CASE todo = {} /\ mnt' = mnt /\ pc' = "overlays" /\ todo' = todo
  <2>1. Grows(mnt, mnt') /\ New(mnt, mnt') = {}
    BY <1>2, <1>5, GrowsNot
  <2>2. QED
    BY <1>1, <1>2, <1>4, <1>5, <2>1, RootShape DEF InRootPhase
<1>6. ASSUME NEW p, todo # {}, mnt' = RemountedBind(p, InRoot(p)), pc' \in {pc, "died"},
             p = CHOOSE q \in todo : ~\E r \in todo : IsStrictPrefix(r, q)
      PROVE  Shape'
  <2>1. p \in Paths
    BY <1>2, <1>6, FirstPath
  <2>2. /\ Grows(mnt, mnt')
        /\ \A y \in New(mnt, mnt') : IsPrefix(y.at, sandbox_root) => y.at = sandbox_root
    BY <1>2, <1>6, <2>1, RemountedBindGrows
  <2>3. pc \in InRootPhase /\ pc' \in {"died"} \cup InRootPhase /\ pc' # "rest"
    BY <1>1, <1>6 DEF InRootPhase
  <2>4. QED
    BY <1>1, <1>2, <1>4, <2>2, <2>3, RootShape
<1>7. QED
  BY <1>1, <1>5, <1>6

\* The mount of an overlay.
LEMMA LayerIs ==
  ASSUME Rooted(mnt), NEW d \in Paths
  PROVE  /\ Mounted(Layer(d), InRoot(d), Cover(mnt, d).fs, Locate(mnt, d).path)
         /\ HasFlags(Layer(d), TRUE, FALSE, FALSE) /\ IsPrefix(sandbox_root, Layer(d).at)
<1>1. Cover(mnt, d) \in MountRecord /\ Locate(mnt, d).path \in Paths
  BY RootCovers, LocateIs
<1>2. InRoot(d) \in Paths /\ IsPrefix(sandbox_root, InRoot(d))
  BY InRootPath
<1>3. /\ Mounted(Layer(d), InRoot(d), Cover(mnt, d).fs, Locate(mnt, d).path)
      /\ HasFlags(Layer(d), TRUE, FALSE, FALSE)
  BY <1>1, <1>2, LayeredIs DEF Layer
<1>4. Layer(d).at = InRoot(d)
  BY <1>3 DEF Mounted
<1>5. QED
  BY <1>2, <1>3, <1>4

\* The directory that MountAllOverlayFs comes to.
LEMMA HereIs ==
  ASSUME Shape, next <= Count(opt.overlayfsmount)
  PROVE  /\ opt.overlayfsmount[next] \in Paths /\ opt.overlayfsmount[next] \in ToSet(opt.overlayfsmount)
         /\ Here \in Paths /\ (Here \in todo \/ (todo = {} /\ Here = opt.overlayfsmount[next]))
<1>1. opt.overlayfsmount[next] \in Paths /\ opt.overlayfsmount[next] \in ToSet(opt.overlayfsmount)
  BY Item, NextNumber, ShapeOptions
<1>2. todo \subseteq Paths
  BY PathsHere DEF Shape, TypeOK
<1>3. CASE todo = {}
  BY <1>1, <1>3 DEF Here
<1>4. CASE todo # {}
  <2>1. Here \in todo
    BY <1>4 DEF Here
  <2>2. QED
    BY <1>1, <1>2, <2>1
<1>5. QED
  BY <1>3, <1>4

\* MountAllOverlayFs keeps Shape.
LEMMA OverlaysShape ==
  ASSUME Shape, MountAllOverlayFs
  PROVE  Shape'
<1>1. /\ pc \in {"overlayfirst", "overlays"} /\ Quiet /\ UNCHANGED <<opt, mounts>>
      /\ \/ /\ next <= Count(opt.overlayfsmount) /\ pc' \in {pc, "died"}
            /\ mnt' = IF Refuses(Here) THEN mnt ELSE Append(mnt, Layer(Here))
            /\ todo' \subseteq (todo \ {Here}) \cup list_directories(Here)
            /\ next' = IF todo' = {} THEN next + 1 ELSE next
            /\ ReadOnlyPaths' \subseteq ReadOnlyPaths \cup {Here}
            /\ ReadOnlyPaths' # ReadOnlyPaths =>
                 Len(Here) >= Len(opt.overlayfsmount[next]) + OVELAY_DEPTH_THRESHOLD
         \/ /\ ~(next <= Count(opt.overlayfsmount)) /\ mnt' = mnt /\ next' = 1
            /\ pc' = (IF pc = "overlays" THEN "writables" ELSE "tmpfs")
            /\ UNCHANGED <<todo, ReadOnlyPaths>>
  BY OverlaysStep
<1>2. Rooted(mnt) /\ next \in Nat \ {0} /\ Chroots
  BY <1>1, NextNumber, InRootChroots
<1>3. todo \subseteq Dirs /\ ReadOnlyPaths \subseteq Dirs /\ mounts \in Nat
  BY DEF Shape, TypeOK
<1>4. SameBut(opt, opt') /\ mounts' = mounts
  BY <1>1, ShapeOptions
<1>5. CASE /\ next <= Count(opt.overlayfsmount) /\ pc' \in {pc, "died"}
           /\ mnt' = IF Refuses(Here) THEN mnt ELSE Append(mnt, Layer(Here))
           /\ todo' \subseteq (todo \ {Here}) \cup list_directories(Here)
           /\ next' = IF todo' = {} THEN next + 1 ELSE next
           /\ ReadOnlyPaths' \subseteq ReadOnlyPaths \cup {Here}
           /\ ReadOnlyPaths' # ReadOnlyPaths =>
                Len(Here) >= Len(opt.overlayfsmount[next]) + OVELAY_DEPTH_THRESHOLD
  <2>1. /\ opt.overlayfsmount[next] \in Paths /\ Here \in Paths
        /\ (Here \in todo \/ (todo = {} /\ Here = opt.overlayfsmount[next]))
    BY <1>5, HereIs
  <2>2. list_directories(Here) \subseteq Dirs
    BY DEF list_directories
  <2>3. todo' \subseteq Dirs /\ next' \in Nat \ {0}
    BY <1>2, <1>3, <1>5, <2>2
  <2>4. ReadOnlyPaths' \subseteq Dirs
    <3>1. CASE Here \in todo
      BY <1>3, <1>5, <3>1
    <3>2. CASE Here = opt.overlayfsmount[next]
      <4>1. Len(Here) \in Nat
        BY <2>1, LenProperties DEF Paths
      <4>2. ReadOnlyPaths' = ReadOnlyPaths
        BY <1>5, <3>2, <4>1 DEF OVELAY_DEPTH_THRESHOLD
      <4>3. QED
        BY <1>3, <4>2
    <3>3. QED
      BY <2>1, <3>1, <3>2
  <2>5. Typed'
    BY <1>3, <1>4, <2>3, <2>4 DEF Typed
  <2>6. Layer(Here) \in MountRecord /\ IsPrefix(sandbox_root, Layer(Here).at)
    BY <1>2, <2>1, LayerIs DEF Mounted
  <2>7. /\ Grows(mnt, Append(mnt, Layer(Here)))
        /\ \A y \in New(mnt, Append(mnt, Layer(Here))) :
             IsPrefix(y.at, sandbox_root) => y.at = sandbox_root
    BY <1>2, <2>6, MoreInRoot
  <2>8. /\ Grows(mnt, mnt')
        /\ \A y \in New(mnt, mnt') : IsPrefix(y.at, sandbox_root) => y.at = sandbox_root
    <3>1. CASE Refuses(Here)
      BY <1>2, <1>5, <3>1, GrowsNot
    <3>2. CASE ~Refuses(Here)
      BY <1>5, <2>7, <3>2
    <3>3. QED
      BY <3>1, <3>2
  <2>9. pc \in InRootPhase /\ pc' \in {"died"} \cup InRootPhase /\ pc' # "rest"
    BY <1>1, <1>5 DEF InRootPhase
  <2>10. QED
    BY <1>1, <1>2, <1>4, <2>5, <2>8, <2>9, RootShape
<1>6. CASE /\ mnt' = mnt /\ next' = 1
           /\ pc' = (IF pc = "overlays" THEN "writables" ELSE "tmpfs")
           /\ UNCHANGED <<todo, ReadOnlyPaths>>
  <2>1. Typed'
    BY <1>3, <1>4, <1>6 DEF Typed
  <2>2. Grows(mnt, mnt') /\ New(mnt, mnt') = {}
    BY <1>2, <1>6, GrowsNot
  <2>3. pc \in InRootPhase /\ pc' \in {"died"} \cup InRootPhase /\ pc' # "rest"
    BY <1>1, <1>6 DEF InRootPhase
  <2>4. QED
    BY <1>1, <1>2, <1>4, <2>1, <2>2, <2>3, RootShape
<1>7. QED
  BY <1>1, <1>5, <1>6

\* MountWritables keeps Shape.
LEMMA WritablesShape ==
  ASSUME Shape, MountWritables
  PROVE  Shape'
<1> DEFINE w == opt.writable_files[next]
<1>1. /\ pc = "writables" /\ Quiet /\ UNCHANGED <<policy, todo>>
      /\ \/ Turn(Count(opt.writable_files), mnt, "cwd")
         \/ Turn(Count(opt.writable_files), BindRec(mnt, w, InRoot(w)), "cwd")
  BY WritablesStep
<1>2. Rooted(mnt) /\ next \in Nat \ {0} /\ Chroots
  BY <1>1, NextNumber, InRootChroots
<1>3. ASSUME next <= Count(opt.writable_files)
      PROVE  /\ Grows(mnt, BindRec(mnt, w, InRoot(w)))
             /\ \A y \in New(mnt, BindRec(mnt, w, InRoot(w))) :
                  IsPrefix(y.at, sandbox_root) => y.at = sandbox_root
  <2>1. w \in Paths
    BY <1>2, <1>3, Item, ShapeOptions
  <2> HIDE DEF w
  <2>2. QED
    BY <1>2, <2>1, BindInRootGrows
<1> HIDE DEF w
<1>4. todo' \subseteq Dirs /\ UNCHANGED policy
  BY <1>1 DEF Shape, TypeOK
<1>5. Grows(mnt, mnt) /\ New(mnt, mnt) = {}
  BY <1>2, GrowsNot
<1>6. CASE Turn(Count(opt.writable_files), mnt, "cwd")
  BY <1>1, <1>2, <1>4, <1>5, <1>6, RootTurn DEF InRootPhase
<1>7. CASE Turn(Count(opt.writable_files), BindRec(mnt, w, InRoot(w)), "cwd")
  BY <1>1, <1>2, <1>3, <1>4, <1>7, RootTurn DEF InRootPhase
<1>8. QED
  BY <1>1, <1>6, <1>7

\* MountWorkingDir keeps Shape.
LEMMA WorkingDirShape ==
  ASSUME Shape, MountWorkingDir
  PROVE  Shape'
<1> DEFINE wd == opt.working_dir
<1>1. /\ pc = "cwd" /\ Quiet /\ UNCHANGED fixed /\ mnt' = BindRec(mnt, wd, InRoot(wd))
      /\ \/ pc' = "died"
         \/ pc' = CASE opt.mode = "default" -> "rest"
                    [] opt.mode = "custom" -> "home"
                    [] opt.mode = "hermetic" -> "pivot"
  BY WorkingDirStep
<1>2. Rooted(mnt) /\ Chroots /\ wd \in Paths
  BY <1>1, NextNumber, InRootChroots, ShapeOptions
<1>3. pc' \in {"died", "rest", "home", "pivot"}
  BY <1>1, <1>2 DEF Chroots
<1> HIDE DEF wd
<1>4. /\ Grows(mnt, mnt') /\ Count(mnt') >= Count(mnt) + 1
      /\ \A y \in New(mnt, mnt') : IsPrefix(y.at, sandbox_root) => y.at = sandbox_root
  BY <1>1, <1>2, BindInRootGrows
<1>5. Typed' /\ SameBut(opt, opt') /\ mounts' = mounts
  BY <1>1, FixedIs
<1>6. pc \in InRootPhase /\ pc' \in {"died"} \cup InRootPhase
  BY <1>1, <1>3 DEF InRootPhase
<1>7. QED
  BY <1>1, <1>2, <1>4, <1>5, <1>6, RootShape

\* MountRest keeps Shape.
LEMMA RestShape ==
  ASSUME Shape, MountRest
  PROVE  Shape'
<1> DEFINE at == mnt[next].at
           m == Remount(BindRec(mnt, at, InRoot(at)), InRoot(at), ~ShouldBeWritable(at))
<1>1. /\ pc = "rest" /\ Quiet /\ UNCHANGED <<policy, todo>>
      /\ Turn(mounts + 1, mnt, "home") \/ Turn(mounts + 1, m, "home")
  BY RestStep
<1>2. Rooted(mnt) /\ next \in Nat \ {0} /\ Chroots /\ mounts \in Nat
  BY <1>1, NextNumber, InRootChroots
<1>3. mounts + 1 <= Count(mnt) /\ Count(mnt) \in Nat
  BY <1>1, <1>2, TableMounts DEF Shape, MountsKept, Rooted
<1>4. ASSUME next <= mounts + 1
      PROVE  /\ Grows(mnt, m)
             /\ \A y \in New(mnt, m) : IsPrefix(y.at, sandbox_root) => y.at = sandbox_root
  <2>1. next \in 1..Count(mnt)
    BY <1>2, <1>3, <1>4
  <2>2. at \in Paths
    BY <1>2, <2>1, TableMounts, RecordFields DEF Rooted
  <2> HIDE DEF at
  <2>3. (~ShouldBeWritable(at)) \in BOOLEAN
    OBVIOUS
  <2>4. QED
    BY <1>2, <2>2, <2>3, BindInRootGrows
<1> HIDE DEF m
<1>5. todo' \subseteq Dirs /\ UNCHANGED policy
  BY <1>1 DEF Shape, TypeOK
<1>6. Grows(mnt, mnt) /\ New(mnt, mnt) = {}
  BY <1>2, GrowsNot
<1>7. CASE Turn(mounts + 1, mnt, "home")
  BY <1>1, <1>2, <1>5, <1>6, <1>7, RootTurn DEF InRootPhase
<1>8. CASE Turn(mounts + 1, m, "home")
  BY <1>1, <1>2, <1>4, <1>5, <1>8, RootTurn DEF InRootPhase
<1>9. QED
  BY <1>1, <1>7, <1>8

\* MakeEmptyHome keeps Shape.
LEMMA HomeShape ==
  ASSUME Shape, MakeEmptyHome
  PROVE  Shape'
<1>1. pc = "home" /\ pc' \in {"pivot", "died"} /\ mnt' = mnt /\ Quiet /\ UNCHANGED fixed
  BY HomeStep
<1>2. Rooted(mnt) /\ Chroots
  BY <1>1, NextNumber, InRootChroots
<1>3. Grows(mnt, mnt') /\ New(mnt, mnt') = {}
  BY <1>1, <1>2, GrowsNot
<1>4. Typed' /\ SameBut(opt, opt') /\ mounts' = mounts
  BY <1>1, FixedIs
<1>5. QED
  BY <1>1, <1>2, <1>3, <1>4, RootShape DEF InRootPhase

\* ChangeRoot keeps Shape.
LEMMA PivotShape ==
  ASSUME Shape, ChangeRoot
  PROVE  Shape'
<1>1. /\ pc = "pivot" /\ pc' = "chdir" /\ Quiet /\ UNCHANGED fixed
      /\ mnt' = Pivoted(Kept(mnt, InTheRoot(mnt)))
  BY PivotStep, NextNumber
<1>2. Rooted(mnt) /\ Chroots /\ RootMounted(mnt)
  BY <1>1, NextNumber, InRootChroots DEF Shape, RootFirst, InRootPhase
<1>3. Rooted(mnt')
  BY <1>1, <1>2, PivotIs
<1>4. Typed' /\ SameBut(opt, opt')
  BY <1>1, FixedIs
<1>5. QED
  BY <1>1, <1>3, <1>4, LastShape DEF LastPhase

\* EnterWorkingDirectory keeps Shape.
LEMMA ChdirShape ==
  ASSUME Shape, EnterWorkingDirectory
  PROVE  Shape'
<1>1. pc' \in {"init", "died"} /\ mnt' = mnt /\ Quiet /\ UNCHANGED fixed
  BY ChdirStep
<1>2. Rooted(mnt') /\ Typed' /\ SameBut(opt, opt')
  BY <1>1, NextNumber, FixedIs
<1>3. QED
  BY <1>1, <1>2, LastShape DEF LastPhase

\* InitDone keeps Shape.
LEMMA InitFileShape ==
  ASSUME Shape, InitDone
  PROVE  Shape'
<1> DEFINE p == MINISBX_TMP_INIT
           m == Append(mnt, Bound(mnt, p, p))
<1>1. /\ pc' \in {"done", "died"} /\ Quiet /\ UNCHANGED fixed
      /\ mnt' = mnt \/ mnt' = Remount(m, p, TRUE)
  BY InitStep, BindIs
<1>2. Rooted(mnt) /\ p \in Paths
  BY NextNumber, PathsHere
<1> HIDE DEF p
<1>3. Rooted(m)
  BY <1>2, BoundIs, AppendCovers DEF Mounted
<1> HIDE DEF m
<1>4. Rooted(Remount(m, p, TRUE))
  BY <1>2, <1>3, RemountIs
<1>5. Rooted(mnt') /\ Typed' /\ SameBut(opt, opt')
  BY <1>1, <1>2, <1>4, FixedIs
<1>6. QED
  BY <1>1, <1>5, LastShape DEF LastPhase

\* SystemCallFails keeps Shape.
LEMMA FailsShape ==
  ASSUME Shape, SystemCallFails
  PROVE  Shape'
<1>1. /\ pc' = "died" /\ fault' = TRUE
      /\ UNCHANGED <<machine, asked, opt, mnt, made, ReadOnlyPaths, mounts, next, todo>>
  BY DEF SystemCallFails
<1>2. fault' \in BOOLEAN
  BY <1>1, Zenon
<1>3. TypeOK'
  BY <1>1, <1>2 DEF Shape, TypeOK
<1>4. SameOptions'
  BY <1>1 DEF Shape, SameOptions, SameBut
<1>5. OnItsWay' /\ RootFirst' /\ MountsKept'
  BY <1>1 DEF OnItsWay, RootFirst, MountsKept, InRootPhase
<1>6. QED
  BY <1>3, <1>4, <1>5 DEF Shape

\* Nothing changes.
LEMMA StutterShape ==
  ASSUME Shape, UNCHANGED vars
  PROVE  Shape'
<1>1. (Chroots' <=> Chroots)
  BY DEF vars, Chroots
<1>2. /\ UNCHANGED <<machine, asked, opt, pc, mnt, ReadOnlyPaths, mounts, next, todo, fault>>
  BY DEF vars
<1>3. TypeOK' /\ SameOptions'
  BY <1>2 DEF Shape, TypeOK, SameOptions, SameBut
<1>4. OnItsWay' /\ MountsKept'
  BY <1>1, <1>2 DEF Shape, OnItsWay, MountsKept
<1>5. RootFirst'
  BY <1>1, <1>2 DEF Shape, RootFirst, RootMounted, Cover
<1>6. QED
  BY <1>3, <1>4, <1>5 DEF Shape

\* Every step keeps Shape.
LEMMA StepShape ==
  ASSUME Shape, [Next]_vars
  PROVE  Shape'
<1>1. CASE MountOverlayDirAsTmpfs
  BY <1>1, StartShape
<1>2. CASE LightMode
  BY <1>2, LightShape
<1>3. CASE MountFilesystems
  BY <1>3, FilesystemsShape
<1>4. CASE BindInPlace
  BY <1>4, BindInPlaceShape
<1>5. CASE TmpfsInPlace
  BY <1>5, TmpfsInPlaceShape
<1>6. CASE WritableInPlace
  BY <1>6, WritableInPlaceShape
<1>7. CASE WorkingDirInPlace
  BY <1>7, WorkingDirInPlaceShape
<1>8. CASE MakeFilesystemPartiallyReadOnly
  BY <1>8, RemountShape
<1>9. CASE MountSandboxAndGoThere
  BY <1>9, RootDirShape
<1>10. CASE MountDev
  BY <1>10, DevShape
<1>11. CASE MountProcAndSys
  BY <1>11, ProcShape
<1>12. CASE MountWorkingDirMountPoint
  BY <1>12, ParentsShape
<1>13. CASE AddLeftoverFoldersToReadOnlyPaths
  BY <1>13, LeftoverShape
<1>14. CASE MountAllTmpfs
  BY <1>14, TmpfsShape
<1>15. CASE MountBinds
  BY <1>15, BindsShape
<1>16. CASE MountReadOnly
  BY <1>16, ReadOnlyShape
<1>17. CASE MountAllOverlayFs
  BY <1>17, OverlaysShape
<1>18. CASE MountWritables
  BY <1>18, WritablesShape
<1>19. CASE MountWorkingDir
  BY <1>19, WorkingDirShape
<1>20. CASE MountRest
  BY <1>20, RestShape
<1>21. CASE MakeEmptyHome
  BY <1>21, HomeShape
<1>22. CASE ChangeRoot
  BY <1>22, PivotShape
<1>23. CASE EnterWorkingDirectory
  BY <1>23, ChdirShape
<1>24. CASE InitDone
  BY <1>24, InitFileShape
<1>25. CASE SystemCallFails
  BY <1>25, FailsShape
<1>26. CASE UNCHANGED vars
  BY <1>26, StutterShape
<1>27. QED
  BY <1>1, <1>2, <1>3, <1>4, <1>5, <1>6, <1>7, <1>8, <1>9, <1>10, <1>11, <1>12, <1>13,
     <1>14, <1>15, <1>16, <1>17, <1>18, <1>19, <1>20, <1>21, <1>22, <1>23, <1>24, <1>25,
     <1>26 DEF Next, Finished

\* Whatever pid1 mounts, in whatever mode and order, the root directory stays the
\* first mount of a well-formed table, and only directories are queued to be
\* mounted read-only: what MountAllOverlayFs puts aside is never the file or the
\* missing path an option may name.
THEOREM TypeCorrect == Spec => []TypeOK
<1>1. Init => Shape
  BY InitShape
<1>2. Shape /\ [Next]_vars => Shape'
  BY StepShape
<1>3. Shape => TypeOK
  BY DEF Shape
<1>4. QED
  BY <1>1, <1>2, <1>3, PTL DEF Spec

(***************************************************************************)
(* The second invariant, with a root of one's own: what is mounted in it   *)
(* is safe, and nothing outside shows a directory elsewhere.               *)
(***************************************************************************)

\* No write through the mount x, at the sandbox's path at, reaches the host, or the
\* grants G, the name, the kernel's copy or its lock explain it.
Safe(G, x, at) ==
  \/ x.fs # "host" \/ x.cow \/ x.ro \/ x.carried \/ x.locked
  \/ \E g \in G : IsPrefix(g, x.dir)
  \/ LooselyNamed(at) \/ LooselyNamed(x.dir)

InSandbox(x) == IsPrefix(sandbox_root, x.at)

\* A mount before the root is changed.
Fits(G, x) ==
  /\ ~InSandbox(x) /\ x.fs = "host" => x.dir = x.at
  /\ InSandbox(x) => Safe(G, x, Rest(sandbox_root, x.at))

BeforePivot == {"start", "root"} \cup InRootPhase

GrantsOutside == Chroots => \A p \in ToSet(opt.writable_files) : ~IsPrefix(sandbox_root, p)

SafeInRoot ==
  Chroots =>
    /\ pc \in BeforePivot => \A i \in 1..Count(mnt) : Fits(Granted, mnt[i])
    /\ pc \in LastPhase => \A i \in 1..Count(mnt) : Safe(Granted, mnt[i], mnt[i].at)

AfterTmpfs == {"binds", "readonly", "overlays", "writables", "cwd", "rest", "home", "pivot"}

\* The first tmpfs directories, as far as the loop has come, have their tmpfs.
TmpfsCover(m, l, n) == \A i \in 1..Count(l) : i < n => Cover(m, l[i]).fs # "host"

TmpfsOnHost ==
  Chroots =>
    /\ pc = "tmpfs" => TmpfsCover(mnt, opt.tmpfs_dirs, next)
    /\ pc \in AfterTmpfs => \A t \in ToSet(opt.tmpfs_dirs) : Cover(mnt, t).fs # "host"

\* Loosely named paths.
LEMMA NamedPaths ==
  /\ LooselyNamed(TMP) /\ LooselyNamed(NULL)
<1>1. LooselyNamed(TMP)
  BY DEF LooselyNamed, ends_with, TMP, Last
<1>2. starts_with(NULL, DEV)
  <2>1. Front(DEV) = <<>> /\ Len(DEV) = 1 /\ Last(DEV) = "dev" /\ Len(NULL) = 2 /\ NULL[1] = "dev"
    BY DEF Front, DEV, Last, NULL
  <2>2. IsPrefix(<<>>, NULL)
    BY PathsHere, PathRoot
  <2>3. QED
    BY <2>1, <2>2 DEF starts_with, isSubpath
<1>3. QED
  BY <1>1, <1>2 DEF LooselyNamed

\* In the sandbox's root a path has the end it has outside, and no other start than
\* the root's.
LEMMA NamedInRoot ==
  ASSUME NEW p \in Paths, LooselyNamed(InRoot(p))
  PROVE  LooselyNamed(p)
<1>1. sandbox_root \in Paths /\ sandbox_root # <<>> /\ ~LooselyNamed(sandbox_root)
  BY PathsHere, MountAssumption
<1>2. Len(sandbox_root) \in Nat /\ Len(sandbox_root) # 0 /\ Len(p) \in Nat
  BY <1>1, EmptySeq, LenProperties DEF Paths
<1>3. /\ Len(InRoot(p)) = Len(sandbox_root) + Len(p)
      /\ \A i \in 1..Len(sandbox_root) : InRoot(p)[i] = sandbox_root[i]
      /\ \A i \in 1..Len(p) : InRoot(p)[Len(sandbox_root) + i] = p[i]
  <2>1. sandbox_root \in Seq(STRING) /\ p \in Seq(STRING)
    BY <1>1 DEF Paths
  <2>2. QED
    BY <2>1, ConcatProperties DEF InRoot, Join
<1>4. ~starts_with(InRoot(p), DEV)
  <2>1. SUFFICES ASSUME starts_with(InRoot(p), DEV) PROVE FALSE
    OBVIOUS
  <2>2. Front(DEV) = <<>> /\ Len(DEV) = 1
    BY DEF Front, DEV
  <2>3. 1 \in 1..Len(sandbox_root) /\ 1 <= Len(sandbox_root)
    BY <1>2
  <2>4. InRoot(p)[1] = sandbox_root[1]
    BY <1>3, <2>3
  <2>5. Last(DEV) = sandbox_root[1] \/ <<Last(DEV), sandbox_root[1]>> \in NameStarts
    BY <2>1, <2>2, <2>4 DEF starts_with
  <2>6. IsPrefix(<<>>, sandbox_root)
    BY <1>1, PathRoot
  <2>7. starts_with(sandbox_root, DEV)
    BY <2>2, <2>3, <2>5, <2>6 DEF starts_with, isSubpath
  <2>8. QED
    BY <1>1, <2>7 DEF LooselyNamed
<1>5. PICK e \in {"tmp", "proc"} : ends_with(InRoot(p), e)
  BY <1>4 DEF LooselyNamed
<1>6. Last(InRoot(p)) = e
  BY <1>5 DEF ends_with
<1>7. CASE Len(p) = 0
  <2>1. p = <<>>
    BY <1>7, EmptySeq DEF Paths
  <2>2. InRoot(p) = sandbox_root
    BY <1>1, <2>1, PathRoot DEF InRoot
  <2>3. QED
    BY <1>1, <2>2
<1>8. CASE Len(p) # 0
  <2>1. Last(InRoot(p)) = InRoot(p)[Len(sandbox_root) + Len(p)] /\ Last(p) = p[Len(p)]
    BY <1>3 DEF Last
  <2>2. Len(p) \in 1..Len(p)
    BY <1>2, <1>8
  <2>3. Last(p) = e
    BY <1>3, <1>6, <2>1, <2>2
  <2>4. p # <<>>
    BY <1>8, EmptySeq DEF Paths
  <2>5. ends_with(p, e)
    BY <2>3, <2>4 DEF ends_with
  <2>6. QED
    BY <1>5, <2>5 DEF LooselyNamed
<1>9. QED
  BY <1>7, <1>8

AllFit(G, m) == \A i \in 1..Count(m) : Fits(G, m[i])

\* Outside the sandbox's root a path of the host is where its name says.
LEMMA HostOutside ==
  ASSUME NEW G, NEW m, Rooted(m), AllFit(G, m), NEW p \in Paths, ~IsPrefix(sandbox_root, p),
         Cover(m, p).fs = "host"
  PROVE  Locate(m, p).path = p
<1>1. Covers(m, MountOf(m, p), p) /\ Cover(m, p) \in MountRecord
  BY RootCovers
<1>2. MountOf(m, p) \in 1..Count(m) /\ IsPrefix(Cover(m, p).at, p)
  BY <1>1 DEF Covers, Cover
<1>3. Cover(m, p).at \in Paths
  BY <1>1, RecordFields
<1>4. ~InSandbox(Cover(m, p))
  BY <1>2, <1>3, PathOutside DEF InSandbox
<1>5. Fits(G, Cover(m, p))
  BY <1>2 DEF AllFit, Cover
<1>6. Cover(m, p).dir = Cover(m, p).at
  BY <1>4, <1>5 DEF Fits
<1>7. QED
  BY <1>6, LocateIs

\* What a bind brings into the root.
LEMMA BindFits ==
  ASSUME NEW G, NEW m, Rooted(m), NEW src \in Paths, NEW d \in Paths, NEW ro \in BOOLEAN,
         Cover(m, src).fs = "host" =>
           ro \/ LooselyNamed(d) \/ \E g \in G : IsPrefix(g, Locate(m, src).path)
  PROVE  /\ \A x \in New(m, Remount(BindRec(m, src, InRoot(d)), InRoot(d), ro)) : Fits(G, x)
         /\ ~ro => \A x \in New(m, BindRec(m, src, InRoot(d))) : Fits(G, x)
<1> DEFINE dst == InRoot(d)
           y == Bound(m, src, dst)
           z == Flagged(y, ro)
<1>1. dst \in Paths /\ IsPrefix(sandbox_root, dst) /\ Rest(sandbox_root, dst) = d
  BY InRootPath
<1>2. /\ Mounted(y, dst, Cover(m, src).fs, Locate(m, src).path)
      /\ HasFlags(y, Cover(m, src).cow, Cover(m, src).ro, FALSE)
  BY <1>1, BoundIs
<1> HIDE DEF y, dst
<1>3. /\ Mounted(z, y.at, y.fs, y.dir) /\ HasFlags(z, y.cow, y.ro \/ (ro /\ ~y.locked), y.carried)
      /\ z.locked <=> y.locked
  BY <1>2, FlaggedIs DEF Mounted
<1> HIDE DEF z
<1>4. /\ z.at = dst /\ z.fs = Cover(m, src).fs /\ z.dir = Locate(m, src).path
      /\ ro => z.ro \/ z.locked
  BY <1>2, <1>3 DEF Mounted, HasFlags
<1>5. Fits(G, z)
  <2>1. Safe(G, z, d)
    BY <1>4 DEF Safe
  <2>2. QED
    BY <1>1, <1>4, <2>1 DEF Fits, InSandbox
<1>6. ASSUME ~ro PROVE Fits(G, y)
  <2>1. y.at = dst /\ y.fs = Cover(m, src).fs /\ y.dir = Locate(m, src).path
    BY <1>2 DEF Mounted
  <2>2. Safe(G, y, d)
    BY <1>6, <2>1 DEF Safe
  <2>3. QED
    BY <1>1, <2>1, <2>2 DEF Fits, InSandbox
<1>7. ASSUME NEW i \in 1..Count(m), Below(m, src, i) PROVE Fits(G, Brought(m, src, dst, i))
  <2>1. /\ Mounted(Brought(m, src, dst, i), Join(dst, Rest(src, m[i].at)), m[i].fs, m[i].dir)
        /\ HasFlags(Brought(m, src, dst, i), m[i].cow, m[i].ro, TRUE)
        /\ Brought(m, src, dst, i).at \in Paths
        /\ IsStrictPrefix(dst, Brought(m, src, dst, i).at)
    BY <1>1, <1>7, BroughtIs
  <2>2. InSandbox(Brought(m, src, dst, i))
    BY <1>1, <2>1, PathsHere, PathTransitive DEF InSandbox, IsStrictPrefix
  <2>3. Brought(m, src, dst, i).carried
    BY <2>1 DEF HasFlags
  <2>4. QED
    BY <2>2, <2>3 DEF Fits, Safe
<1>8. ASSUME NEW x \in New(m, Remount(BindRec(m, src, dst), dst, ro)) PROVE Fits(G, x)
  <2>1. \/ x = z
        \/ \E i \in 1..Count(m) : Below(m, src, i) /\ x = Brought(m, src, dst, i)
    BY <1>1, <1>8, GrowsByRemount DEF z, y
  <2>2. QED
    BY <1>5, <1>7, <2>1
<1>9. ASSUME ~ro, NEW x \in New(m, BindRec(m, src, dst)) PROVE Fits(G, x)
  <2>1. \/ x = y
        \/ \E i \in 1..Count(m) : Below(m, src, i) /\ x = Brought(m, src, dst, i)
    BY <1>1, <1>9, GrowsByBind DEF y
  <2>2. QED
    BY <1>6, <1>7, <1>9, <2>1
<1>10. QED
  BY <1>8, <1>9 DEF dst

\* Mounts that are added all fit.
LEMMA AllFitGrows ==
  ASSUME NEW G, NEW m, Rooted(m), AllFit(G, m), NEW b, Grows(m, b), \A x \in New(m, b) : Fits(G, x)
  PROVE  AllFit(G, b)
<1>1. Count(m) \in Nat /\ Count(b) \in Nat
  BY TableMounts DEF Rooted, Grows
<1>2. ASSUME NEW i \in 1..Count(b) PROVE Fits(G, b[i])
  <2>1. CASE i \in 1..Count(m)
    BY <2>1 DEF AllFit, Grows
  <2>2. CASE i \notin 1..Count(m)
    <3>1. i \in (Count(m) + 1)..Count(b)
      BY <1>1, <1>2, <2>2
    <3>2. b[i] \in New(m, b)
      BY <3>1 DEF New
    <3>3. QED
      BY <3>2
  <2>3. QED
    BY <2>1, <2>2
<1>3. QED
  BY <1>2 DEF AllFit

SafeShape == Shape /\ GrantsOutside /\ SafeInRoot /\ TmpfsOnHost

\* What is granted.
LEMMA GrantsAre ==
  /\ \A p \in ToSet(opt.writable_files) : p \in Granted
  /\ opt.working_dir \in Granted
  /\ Chroots => sandbox_root \in Granted
  /\ opt.mode = "default" => MINI_SBX_TMP \in Granted
  BY DEF Granted

\* An in-root step that leaves the options and adds mounts in the root, or others
\* that are not of the host.
LEMMA SafeFrame ==
  ASSUME SafeShape, Shape', Quiet, opt' = opt, Chroots, pc \in BeforePivot, Grows(mnt, mnt'),
         pc' \in {"died", "root"} \cup InRootPhase, \A x \in New(mnt, mnt') : Fits(Granted, x)
  PROVE  GrantsOutside' /\ SafeInRoot'
<1>1. (Chroots' <=> Chroots) /\ Granted' = Granted
  BY DEF Quiet, Chroots, Granted
<1>2. GrantsOutside'
  BY <1>1 DEF SafeShape, GrantsOutside
<1>3. AllFit(Granted, mnt) /\ Rooted(mnt)
  BY NextNumber DEF SafeShape, SafeInRoot, AllFit
<1>4. AllFit(Granted, mnt')
  BY <1>3, AllFitGrows
<1>5. pc' \notin LastPhase
  BY DEF LastPhase, InRootPhase
<1>6. SafeInRoot'
  BY <1>1, <1>4, <1>5 DEF SafeInRoot, AllFit
<1>7. QED
  BY <1>2, <1>6

\* The tmpfs directories stay covered when only mounts in the root are added.
LEMMA TmpfsFrame ==
  ASSUME SafeShape, Shape', Quiet, opt' = opt, Chroots, pc \in AfterTmpfs, Grows(mnt, mnt'),
         pc' \in {"died"} \cup AfterTmpfs, \A x \in New(mnt, mnt') : InSandbox(x) /\ x \in MountRecord
  PROVE  TmpfsOnHost'
<1>1. ASSUME NEW t \in ToSet(opt.tmpfs_dirs) PROVE Cover(mnt', t).fs # "host"
  <2>1. t \in Paths /\ ~IsPrefix(sandbox_root, t)
    BY <1>1, ShapeOptions, PathsHere DEF SafeShape
  <2>2. \A x \in New(mnt, mnt') : ~IsPrefix(x.at, t)
    BY <2>1, PathsHere, RecordFields, PathTransitive DEF InSandbox
  <2>3. Rooted(mnt)
    BY NextNumber DEF SafeShape
  <2>4. Cover(mnt', t) = Cover(mnt, t)
    BY <2>1, <2>2, <2>3, GrowsElsewhere
  <2>5. QED
    BY <1>1, <2>4 DEF SafeShape, TmpfsOnHost
<1>2. pc' # "tmpfs"
  BY DEF AfterTmpfs
<1>3. QED
  BY <1>1, <1>2 DEF TmpfsOnHost, Cover

\* A step after the tmpfs directories are mounted.
LEMMA LateStep ==
  ASSUME SafeShape, Shape', Quiet, opt' = opt, Chroots, pc \in AfterTmpfs,
         pc' \in {"died"} \cup AfterTmpfs, Grows(mnt, mnt'),
         \A x \in New(mnt, mnt') : InSandbox(x) /\ x \in MountRecord /\ Fits(Granted, x)
  PROVE  SafeShape'
<1>1. pc \in BeforePivot /\ pc' \in {"died", "root"} \cup InRootPhase
  BY DEF AfterTmpfs, BeforePivot, InRootPhase
<1>2. GrantsOutside' /\ SafeInRoot'
  BY <1>1, SafeFrame
<1>3. TmpfsOnHost'
  BY TmpfsFrame
<1>4. QED
  BY <1>2, <1>3 DEF SafeShape

\* A turn of a loop that adds only what fits keeps SafeShape.
LEMMA LateTurn ==
  ASSUME SafeShape, Shape', Quiet, opt' = opt, Chroots, pc \in AfterTmpfs,
         NEW n, NEW m, NEW after \in AfterTmpfs, Turn(n, m, after),
         next <= n => /\ Grows(mnt, m)
                      /\ \A x \in New(mnt, m) : InSandbox(x) /\ x \in MountRecord /\ Fits(Granted, x)
  PROVE  SafeShape'
<1>1. Grows(mnt, mnt) /\ New(mnt, mnt) = {}
  BY NextNumber, GrowsNot DEF SafeShape
<1>2. /\ Grows(mnt, mnt') /\ pc' \in {"died"} \cup AfterTmpfs
      /\ \A x \in New(mnt, mnt') : InSandbox(x) /\ x \in MountRecord /\ Fits(Granted, x)
  <2>1. CASE next <= n
    BY <2>1 DEF Turn
  <2>2. CASE ~(next <= n)
    BY <1>1, <2>2 DEF Turn
  <2>3. QED
    BY <2>1, <2>2
<1>3. QED
  BY <1>2, LateStep

\* A writable path is not in the sandbox root.
LEMMA GrantOutside ==
  ASSUME SafeShape, Chroots, NEW p \in ToSet(opt.writable_files) \cup {opt.working_dir}
  PROVE  p \in Paths /\ p \in Granted /\ ~IsPrefix(sandbox_root, p)
<1>1. CASE p \in ToSet(opt.writable_files)
  <2>1. p \in Paths
    BY <1>1, ShapeOptions, ListItems DEF SafeShape
  <2>2. QED
    BY <1>1, <2>1, GrantsAre DEF SafeShape, GrantsOutside
<1>2. CASE p = opt.working_dir
  BY <1>2, ShapeOptions, GrantsAre DEF SafeShape
<1>3. QED
  BY <1>1, <1>2

\* The host's file at a writable path is in something granted.
LEMMA GrantShown ==
  ASSUME SafeShape, Chroots, pc \in BeforePivot,
         NEW p \in ToSet(opt.writable_files) \cup {opt.working_dir}, Cover(mnt, p).fs = "host"
  PROVE  \E g \in Granted : IsPrefix(g, Locate(mnt, p).path)
<1>1. p \in Paths /\ p \in Granted /\ ~IsPrefix(sandbox_root, p)
  BY GrantOutside
<1>2. Rooted(mnt) /\ AllFit(Granted, mnt)
  BY NextNumber DEF SafeShape, SafeInRoot, AllFit
<1>3. Locate(mnt, p).path = p
  BY <1>1, <1>2, HostOutside
<1>4. IsPrefix(p, p)
  BY <1>1, PathRoot
<1>5. QED
  BY <1>1, <1>3, <1>4

\* Why a path may stay writable.
LEMMA WritablePath ==
  ASSUME SafeShape, Chroots, pc \in AfterTmpfs, NEW p, ShouldBeWritable(p),
         Cover(mnt, p).fs = "host"
  PROVE  LooselyNamed(p) \/ \E g \in Granted : IsPrefix(g, Locate(mnt, p).path)
<1>1. pc \in BeforePivot
  BY DEF AfterTmpfs, BeforePivot, InRootPhase
<1>2. \/ LooselyNamed(p) \/ p \in ToSet(opt.writable_files) \cup {opt.working_dir}
      \/ p \in ToSet(opt.tmpfs_dirs)
  BY DEF ShouldBeWritable
<1>3. p \notin ToSet(opt.tmpfs_dirs)
  BY DEF SafeShape, TmpfsOnHost
<1>4. QED
  BY <1>1, <1>2, <1>3, GrantShown

\* A target in the root is left writable for its name only.
LEMMA WritableInRoot ==
  ASSUME SafeShape, Chroots, NEW p \in Paths, ShouldBeWritable(InRoot(p))
  PROVE  LooselyNamed(p)
<1>1. IsPrefix(sandbox_root, InRoot(p))
  BY InRootPath
<1>2. InRoot(p) \notin ToSet(opt.writable_files) \cup {opt.working_dir}
  BY <1>1, GrantOutside
<1>3. InRoot(p) \notin ToSet(opt.tmpfs_dirs)
  BY <1>1, ShapeOptions DEF SafeShape
<1>4. LooselyNamed(InRoot(p))
  BY <1>2, <1>3 DEF ShouldBeWritable
<1>5. QED
  BY <1>4, NamedInRoot

\* A bind in the root at the path it has outside, or the default mode's /tmp.
LEMMA RemountedFits ==
  ASSUME SafeShape, Chroots, pc \in AfterTmpfs, NEW item \in Paths, NEW d \in Paths,
         d = item \/ d = TMP
  PROVE  /\ Grows(mnt, RemountedBind(item, InRoot(d)))
         /\ \A x \in New(mnt, RemountedBind(item, InRoot(d))) :
              InSandbox(x) /\ x \in MountRecord /\ Fits(Granted, x)
<1> DEFINE ro == ~ShouldBeWritable(item) /\ ~ShouldBeWritable(InRoot(d))
           b == Remount(BindRec(mnt, item, InRoot(d)), InRoot(d), ro)
<1>1. ro \in BOOLEAN /\ RemountedBind(item, InRoot(d)) = b /\ Rooted(mnt)
  BY NextNumber DEF RemountedBind, SafeShape
<1>2. ASSUME Cover(mnt, item).fs = "host", ~ro
      PROVE  LooselyNamed(d) \/ \E g \in Granted : IsPrefix(g, Locate(mnt, item).path)
  <2>1. CASE d = TMP
    BY <2>1, NamedPaths
  <2>2. CASE d = item /\ ShouldBeWritable(item)
    BY <1>2, <2>2, WritablePath
  <2>3. CASE d = item /\ ShouldBeWritable(InRoot(d))
    BY <2>3, WritableInRoot
  <2>4. QED
    BY <1>2, <2>1, <2>2, <2>3
<1> HIDE DEF ro
<1>3. \A x \in New(mnt, b) : Fits(Granted, x)
  BY <1>1, <1>2, BindFits
<1>4. Grows(mnt, b)
  BY <1>1, BindInRootGrows
<1>5. \A x \in New(mnt, b) : x \in MountRecord /\ InSandbox(x)
  BY <1>1, BoundInSandbox DEF InSandbox
<1>6. QED
  BY <1>1, <1>3, <1>4, <1>5

\* Binding a writable path adds only what fits.
LEMMA GrantFits ==
  ASSUME SafeShape, Chroots, pc \in AfterTmpfs,
         NEW w \in ToSet(opt.writable_files) \cup {opt.working_dir}
  PROVE  /\ Grows(mnt, BindRec(mnt, w, InRoot(w)))
         /\ \A x \in New(mnt, BindRec(mnt, w, InRoot(w))) :
              InSandbox(x) /\ x \in MountRecord /\ Fits(Granted, x)
<1>1. Rooted(mnt) /\ w \in Paths /\ pc \in BeforePivot
  BY NextNumber, GrantOutside DEF SafeShape, AfterTmpfs, BeforePivot, InRootPhase
<1>2. Cover(mnt, w).fs = "host" => \E g \in Granted : IsPrefix(g, Locate(mnt, w).path)
  BY <1>1, GrantShown
<1>3. \A x \in New(mnt, BindRec(mnt, w, InRoot(w))) : Fits(Granted, x)
  BY <1>1, <1>2, BindFits
<1>4. Grows(mnt, BindRec(mnt, w, InRoot(w)))
  BY <1>1, BindInRootGrows
<1>5. \A x \in New(mnt, BindRec(mnt, w, InRoot(w))) : x \in MountRecord /\ InSandbox(x)
  BY <1>1, BoundInSandbox DEF InSandbox
<1>6. QED
  BY <1>3, <1>4, <1>5

\* A loop begins with its first item.
FreshPhase == {"start", "root", "dev", "proc", "workingdir", "leftover", "inplacecwd"}
Fresh == pc \in FreshPhase => next = 1

\* Every step keeps Fresh.
LEMMA StepFresh ==
  ASSUME Shape, Fresh, [Next]_vars
  PROVE  Fresh'
<1>1. CASE MountOverlayDirAsTmpfs
  BY <1>1, StartStep DEF Fresh, FreshPhase, fixed
<1>2. CASE LightMode
  BY <1>2 DEF LightMode, Fresh, FreshPhase
<1>3. CASE MountFilesystems
  BY <1>3, FilesystemsStep DEF Fresh, FreshPhase
<1>4. CASE BindInPlace
  BY <1>4, BindInPlaceStep DEF Turn, Fresh, FreshPhase
<1>5. CASE TmpfsInPlace
  BY <1>5, TmpfsInPlaceStep DEF Turn, Fresh, FreshPhase
<1>6. CASE WritableInPlace
  BY <1>6, WritableInPlaceStep DEF Turn, Fresh, FreshPhase
<1>7. CASE WorkingDirInPlace
  BY <1>7, WorkingDirInPlaceStep DEF Fresh, FreshPhase
<1>8. CASE MakeFilesystemPartiallyReadOnly
  BY <1>8, RemountStep DEF Turn, Fresh, FreshPhase
<1>9. CASE MountSandboxAndGoThere
  BY <1>9, RootStep DEF Fresh, FreshPhase, fixed
<1>10. CASE MountDev
  BY <1>10, DevStep DEF Fresh, FreshPhase, fixed
<1>11. CASE MountProcAndSys
  BY <1>11, ProcStep, NextNumber DEF Fresh, FreshPhase, fixed
<1>12. CASE MountWorkingDirMountPoint
  BY <1>12, ParentsOptions DEF Fresh, FreshPhase
<1>13. CASE AddLeftoverFoldersToReadOnlyPaths
  BY <1>13, LeftoverStep DEF Fresh, FreshPhase
<1>14. CASE MountAllTmpfs
  BY <1>14, TmpfsStep DEF Turn, Fresh, FreshPhase
<1>15. CASE MountBinds
  BY <1>15, BindsStep DEF Turn, Fresh, FreshPhase
<1>16. CASE MountReadOnly
  BY <1>16, ReadOnlyStep DEF Fresh, FreshPhase
<1>17. CASE MountAllOverlayFs
  BY <1>17, OverlaysStep DEF Fresh, FreshPhase
<1>18. CASE MountWritables
  BY <1>18, WritablesStep DEF Turn, Fresh, FreshPhase
<1>19. CASE MountWorkingDir
  <2>1. pc = "cwd" /\ Chroots
    BY <1>19, WorkingDirStep, InRootChroots
  <2>2. pc' \in {"died", "rest", "home", "pivot"}
    BY <1>19, <2>1, WorkingDirStep DEF Chroots
  <2>3. QED
    BY <2>2 DEF Fresh, FreshPhase
<1>20. CASE MountRest
  BY <1>20, RestStep DEF Turn, Fresh, FreshPhase
<1>21. CASE MakeEmptyHome
  BY <1>21, HomeStep DEF Fresh, FreshPhase
<1>22. CASE ChangeRoot
  BY <1>22, PivotStep, NextNumber DEF Fresh, FreshPhase
<1>23. CASE EnterWorkingDirectory
  BY <1>23, ChdirStep DEF Fresh, FreshPhase
<1>24. CASE InitDone
  BY <1>24, InitStep DEF Fresh, FreshPhase
<1>25. CASE SystemCallFails
  BY <1>25 DEF SystemCallFails, Fresh, FreshPhase
<1>26. CASE UNCHANGED vars
  BY <1>26 DEF vars, Fresh
<1>27. QED
  BY <1>1, <1>2, <1>3, <1>4, <1>5, <1>6, <1>7, <1>8, <1>9, <1>10, <1>11, <1>12, <1>13,
     <1>14, <1>15, <1>16, <1>17, <1>18, <1>19, <1>20, <1>21, <1>22, <1>23, <1>24, <1>25,
     <1>26 DEF Next, Finished

\* A step before the tmpfs directories are all mounted.
LEMMA EarlyStep ==
  ASSUME SafeShape, Shape', Quiet, opt' = opt, Chroots, pc \in BeforePivot, Grows(mnt, mnt'),
         pc' \in {"died", "root"} \cup (InRootPhase \ AfterTmpfs), pc' = "tmpfs" => next' = 1,
         \A x \in New(mnt, mnt') : Fits(Granted, x)
  PROVE  SafeShape'
<1>1. GrantsOutside' /\ SafeInRoot'
  BY SafeFrame
<1>2. TmpfsOnHost'
  <2>1. pc' \notin AfterTmpfs
    BY DEF AfterTmpfs
  <2>2. pc' = "tmpfs" => TmpfsCover(mnt', opt'.tmpfs_dirs, next')
    BY DEF TmpfsCover
  <2>3. QED
    BY <2>1, <2>2 DEF TmpfsOnHost
<1>3. QED
  BY <1>1, <1>2 DEF SafeShape

\* What is not of the host fits anywhere.
LEMMA OtherFits ==
  ASSUME NEW G, NEW x, x.fs # "host"
  PROVE  Fits(G, x)
  BY DEF Fits, Safe

\* MountOverlayDirAsTmpfs keeps SafeShape.
LEMMA StartSafe ==
  ASSUME SafeShape, Fresh, Chroots, Shape', MountOverlayDirAsTmpfs
  PROVE  SafeShape'
<1> DEFINE x == Mount(tmp_overlayfs, "tmpfs", tmp_overlayfs)
<1>1. /\ pc = "start" /\ pc' = FirstStep /\ Quiet /\ UNCHANGED fixed
      /\ mnt' = IF machine.privileged /\ use_overlayfs THEN Append(mnt, x) ELSE mnt
  BY StartStep
<1>2. Rooted(mnt)
  BY NextNumber DEF SafeShape
<1>3. Mounted(x, tmp_overlayfs, "tmpfs", tmp_overlayfs)
  BY PathsHere, MountIs
<1> HIDE DEF x
<1>4. x \in MountRecord /\ Fits(Granted, x)
  BY <1>3, OtherFits DEF Mounted
<1>5. Grows(mnt, mnt') /\ \A y \in New(mnt, mnt') : Fits(Granted, y)
  <2>1. Grows(mnt, mnt) /\ New(mnt, mnt) = {}
    BY <1>2, GrowsNot
  <2>2. Grows(mnt, Append(mnt, x)) /\ New(mnt, Append(mnt, x)) = {x}
    BY <1>2, <1>4, GrowsByOne
  <2>3. QED
    BY <1>1, <1>4, <2>1, <2>2
<1>6. pc' = "root" /\ opt' = opt
  BY <1>1 DEF FirstStep, fixed, policy
<1>7. QED
  BY <1>1, <1>5, <1>6, EarlyStep DEF BeforePivot

\* MountSandboxAndGoThere keeps SafeShape.
LEMMA RootSafe ==
  ASSUME SafeShape, Fresh, Shape', MountSandboxAndGoThere
  PROVE  SafeShape'
<1> DEFINE x == Bound(mnt, sandbox_root, sandbox_root)
<1>1. /\ pc = "root" /\ pc' \in {"dev", "died"} /\ Quiet /\ UNCHANGED fixed
      /\ mnt' = Append(mnt, x)
  BY RootStep, BindIs
<1>2. /\ Rooted(mnt) /\ Chroots /\ sandbox_root \in Paths /\ IsPrefix(sandbox_root, sandbox_root)
      /\ AllFit(Granted, mnt)
  BY <1>1, NextNumber, InRootChroots, PathsHere, PathRoot
     DEF SafeShape, SafeInRoot, BeforePivot, AllFit
<1>3. Mounted(x, sandbox_root, Cover(mnt, sandbox_root).fs, Locate(mnt, sandbox_root).path)
  BY <1>2, BoundIs
<1> HIDE DEF x
<1>4. x \in MountRecord /\ x.at = sandbox_root /\ x.dir = Locate(mnt, sandbox_root).path
      /\ x.fs = Cover(mnt, sandbox_root).fs
  BY <1>3 DEF Mounted
<1>5. ASSUME x.fs = "host" PROVE x.dir = sandbox_root
  <2>1. Covers(mnt, MountOf(mnt, sandbox_root), sandbox_root)
    BY <1>2, RootCovers
  <2>2. MountOf(mnt, sandbox_root) \in 1..Count(mnt)
    BY <2>1 DEF Covers
  <2>3. ~IsPrefix(sandbox_root, Cover(mnt, sandbox_root).at)
    BY <1>1, <1>2, <2>2 DEF SafeShape, Shape, RootFirst, Cover
  <2>4. Fits(Granted, Cover(mnt, sandbox_root))
    BY <1>2, <2>2 DEF AllFit, Cover
  <2>5. Cover(mnt, sandbox_root).dir = Cover(mnt, sandbox_root).at
    BY <1>4, <1>5, <2>3, <2>4 DEF Fits, InSandbox
  <2>6. QED
    BY <1>2, <1>4, <2>5, LocateIs
<1>6. Fits(Granted, x)
  <2>1. sandbox_root \in Granted
    BY <1>2, GrantsAre
  <2>2. QED
    BY <1>2, <1>4, <1>5, <2>1 DEF Fits, Safe, InSandbox
<1>7. Grows(mnt, mnt') /\ New(mnt, mnt') = {x}
  BY <1>1, <1>2, <1>4, GrowsByOne
<1>8. pc' \in {"died", "root"} \cup (InRootPhase \ AfterTmpfs) /\ pc' # "tmpfs" /\ opt' = opt
  BY <1>1 DEF InRootPhase, AfterTmpfs, fixed, policy
<1>9. QED
  BY <1>1, <1>2, <1>6, <1>7, <1>8, EarlyStep DEF BeforePivot

\* MountDev keeps SafeShape.
LEMMA DevSafe ==
  ASSUME SafeShape, Fresh, Shape', MountDev
  PROVE  SafeShape'
<1> DEFINE x == Bound(mnt, NULL, InRoot(NULL))
<1>1. /\ pc = "dev" /\ pc' \in {"proc", "died"} /\ Quiet /\ UNCHANGED fixed
      /\ mnt' = Append(mnt, x)
  BY DevStep, BindIs
<1>2. /\ Rooted(mnt) /\ NULL \in Paths /\ InRoot(NULL) \in Paths /\ Chroots
      /\ IsPrefix(sandbox_root, InRoot(NULL)) /\ Rest(sandbox_root, InRoot(NULL)) = NULL
  BY <1>1, NextNumber, PathsHere, InRootPath, InRootChroots DEF SafeShape
<1>3. x \in MountRecord /\ x.at = InRoot(NULL)
  BY <1>2, BoundIs DEF Mounted
<1> HIDE DEF x
<1>4. Fits(Granted, x)
  BY <1>2, <1>3, NamedPaths DEF Fits, Safe, InSandbox
<1>5. Grows(mnt, mnt') /\ New(mnt, mnt') = {x}
  BY <1>1, <1>2, <1>3, GrowsByOne
<1>6. pc' \in {"died", "root"} \cup (InRootPhase \ AfterTmpfs) /\ pc' # "tmpfs" /\ opt' = opt
  BY <1>1 DEF InRootPhase, AfterTmpfs, fixed, policy
<1>7. QED
  BY <1>1, <1>2, <1>4, <1>5, <1>6, EarlyStep DEF BeforePivot, InRootPhase

\* MountProcAndSys keeps SafeShape.
LEMMA ProcSafe ==
  ASSUME SafeShape, Fresh, Chroots, Shape', MountProcAndSys
  PROVE  SafeShape'
<1>1. pc = "proc" /\ pc' = PolicyStep /\ Quiet /\ UNCHANGED fixed
  BY ProcStep, NextNumber DEF SafeShape
<1>2. Grows(mnt, mnt') /\ \A x \in New(mnt, mnt') : x = ProcMount \/ x = SysMount
  BY ProcGrows DEF SafeShape
<1>3. \A x \in New(mnt, mnt') : Fits(Granted, x)
  BY <1>2, ProcMounts, OtherFits DEF Mounted
<1>4. pc' \in {"workingdir", "overlayfirst", "tmpfs"}
  BY <1>1 DEF PolicyStep, Chroots
<1>5. next' = 1 /\ opt' = opt
  BY <1>1 DEF Fresh, FreshPhase, fixed, policy
<1>6. pc' \in {"died", "root"} \cup (InRootPhase \ AfterTmpfs)
  BY <1>4 DEF InRootPhase, AfterTmpfs
<1>7. QED
  BY <1>1, <1>2, <1>3, <1>5, <1>6, EarlyStep DEF BeforePivot, InRootPhase

\* What fits still does when more is granted.
LEMMA SafeMore ==
  ASSUME NEW G, NEW H, G \subseteq H, NEW x, Fits(G, x)
  PROVE  Fits(H, x)
  BY DEF Fits, Safe

\* MountWorkingDirMountPoint keeps SafeShape.
LEMMA ParentsSafe ==
  ASSUME SafeShape, Fresh, Shape', MountWorkingDirMountPoint
  PROVE  SafeShape'
<1>1. /\ pc = "workingdir" /\ pc' = "leftover" /\ Quiet /\ mnt' = mnt /\ SameBut(opt, opt')
      /\ ToSet(opt.writable_files) \subseteq ToSet(opt'.writable_files)
      /\ \A p \in ToSet(opt'.writable_files) :
           p \in ToSet(opt.writable_files) \/ ~IsPrefix(sandbox_root, p)
  BY ParentsOptions DEF SafeShape
<1>2. Chroots
  BY <1>1, InRootChroots DEF SafeShape
<1>3. (Chroots' <=> Chroots) /\ Granted \subseteq Granted'
  BY <1>1 DEF Chroots, Granted, Quiet, SameBut
<1>4. GrantsOutside'
  BY <1>1, <1>2 DEF SafeShape, GrantsOutside
<1>5. \A i \in 1..Count(mnt) : Fits(Granted, mnt[i])
  BY <1>1, <1>2 DEF SafeShape, SafeInRoot, BeforePivot, InRootPhase
<1>6. \A i \in 1..Count(mnt) : Fits(Granted', mnt[i])
  BY <1>3, <1>5, SafeMore
<1>7. SafeInRoot'
  BY <1>1, <1>6 DEF SafeInRoot, LastPhase
<1>8. TmpfsOnHost'
  BY <1>1 DEF TmpfsOnHost, AfterTmpfs
<1>9. QED
  BY <1>4, <1>7, <1>8 DEF SafeShape

\* AddLeftoverFoldersToReadOnlyPaths keeps SafeShape.
LEMMA LeftoverSafe ==
  ASSUME SafeShape, Fresh, Shape', AddLeftoverFoldersToReadOnlyPaths
  PROVE  SafeShape'
<1>1. /\ pc = "leftover" /\ pc' = "tmpfs" /\ Quiet /\ mnt' = mnt /\ next' = next /\ opt' = opt
  BY LeftoverStep
<1>2. Rooted(mnt) /\ Chroots /\ next' = 1
  BY <1>1, NextNumber, InRootChroots DEF SafeShape, Fresh, FreshPhase
<1>3. Grows(mnt, mnt') /\ New(mnt, mnt') = {}
  BY <1>1, <1>2, GrowsNot
<1>4. pc \in BeforePivot /\ pc' \in {"died", "root"} \cup (InRootPhase \ AfterTmpfs)
  BY <1>1 DEF BeforePivot, InRootPhase, AfterTmpfs
<1>5. QED
  BY <1>1, <1>2, <1>3, <1>4, EarlyStep

\* A tmpfs directory more is covered.
LEMMA TmpfsCoverMore ==
  ASSUME NEW m, Rooted(m), NEW l \in Lists, NEW n \in 1..Count(l), TmpfsCover(m, l, n)
  PROVE  TmpfsCover(Append(m, Mount(l[n], "tmpfs", l[n])), l, n + 1)
<1> DEFINE d == l[n]
           x == Mount(d, "tmpfs", d)
<1>1. d \in Paths /\ \A i \in 1..Count(l) : l[i] \in Paths
  BY ListItems
<1>2. x \in MountRecord /\ x.at = d /\ x.fs = "tmpfs"
  BY <1>1, MountIs DEF Mounted
<1>3. IsPrefix(d, d)
  BY <1>1, PathRoot
<1> HIDE DEF x
<1>4. ASSUME NEW i \in 1..Count(l), i < n + 1 PROVE Cover(Append(m, x), l[i]).fs # "host"
  <2>1. Cover(Append(m, x), l[i]) = IF IsPrefix(d, l[i]) THEN x ELSE Cover(m, l[i])
    BY <1>1, <1>2, AppendCovers
  <2>2. CASE i = n
    BY <1>2, <1>3, <2>1, <2>2
  <2>3. CASE i # n
    <3>1. i < n
      <4>1. Count(l) \in Nat
        BY ListItems
      <4>2. QED
        BY <1>4, <2>3, <4>1
    <3>2. Cover(m, l[i]).fs # "host"
      BY <3>1 DEF TmpfsCover
    <3>3. QED
      BY <1>2, <2>1, <3>2
  <2>4. QED
    BY <2>2, <2>3
<1>5. QED
  BY <1>4 DEF TmpfsCover, x

\* After the loop, every tmpfs directory is covered.
LEMMA TmpfsCoverAll ==
  ASSUME NEW m, NEW l \in Lists, NEW n \in Nat, ~(n <= Count(l)), TmpfsCover(m, l, n)
  PROVE  \A t \in ToSet(l) : Cover(m, t).fs # "host"
<1>1. ASSUME NEW t \in ToSet(l) PROVE Cover(m, t).fs # "host"
  <2>1. PICK i \in 1..Count(l) : l[i] = t
    BY <1>1, ListItems
  <2>2. i < n
    BY <2>1, ListItems
  <2>3. QED
    BY <2>1, <2>2 DEF TmpfsCover
<1>2. QED
  BY <1>1

\* MountAllTmpfs keeps SafeShape.
LEMMA TmpfsSafe ==
  ASSUME SafeShape, Fresh, Shape', MountAllTmpfs
  PROVE  SafeShape'
<1> DEFINE l == opt.tmpfs_dirs
           x == Mount(l[next], "tmpfs", l[next])
<1>1. /\ pc = "tmpfs" /\ Quiet /\ UNCHANGED <<policy, todo>>
      /\ \/ mnt' = mnt /\ pc' = "died"
         \/ Turn(Count(l), Append(mnt, x), "binds")
  BY TmpfsStep
<1>2. /\ Rooted(mnt) /\ next \in Nat \ {0} /\ Chroots /\ l \in Lists /\ opt' = opt
      /\ pc \in BeforePivot /\ TmpfsCover(mnt, l, next) /\ Count(l) \in Nat
  BY <1>1, NextNumber, InRootChroots, ShapeOptions, ListItems
     DEF SafeShape, policy, BeforePivot, InRootPhase, TmpfsOnHost
<1> HIDE DEF l
<1>3. CASE mnt' = mnt /\ pc' = "died"
  <2>1. Grows(mnt, mnt') /\ New(mnt, mnt') = {}
    BY <1>2, <1>3, GrowsNot
  <2>2. QED
    BY <1>1, <1>2, <1>3, <2>1, EarlyStep
<1>4. CASE next <= Count(l) /\ next' = next + 1 /\ mnt' = Append(mnt, x) /\ pc' \in {pc, "died"}
  <2>1. next \in 1..Count(l)
    BY <1>2, <1>4
  <2>2. TmpfsCover(mnt', l, next')
    BY <1>2, <1>4, <2>1, TmpfsCoverMore
  <2>3. x \in MountRecord /\ x.fs = "tmpfs"
    <3>1. l[next] \in Paths
      BY <1>2, <2>1, ListItems
    <3>2. QED
      BY <3>1, MountIs DEF Mounted
  <2> HIDE DEF x
  <2>4. Grows(mnt, mnt') /\ New(mnt, mnt') = {x}
    BY <1>2, <1>4, <2>3, GrowsByOne
  <2>5. \A y \in New(mnt, mnt') : Fits(Granted, y)
    BY <2>3, <2>4, OtherFits
  <2>6. pc' \in {"died", "root"} \cup InRootPhase /\ pc' \notin AfterTmpfs
    BY <1>1, <1>4 DEF InRootPhase, AfterTmpfs
  <2>7. GrantsOutside' /\ SafeInRoot'
    BY <1>1, <1>2, <2>4, <2>5, <2>6, SafeFrame
  <2>8. TmpfsOnHost'
    BY <1>2, <2>2, <2>6 DEF TmpfsOnHost, l
  <2>9. QED
    BY <2>7, <2>8 DEF SafeShape
<1>5. CASE ~(next <= Count(l)) /\ mnt' = mnt /\ pc' = "binds"
  <2>1. \A t \in ToSet(l) : Cover(mnt, t).fs # "host"
    BY <1>2, <1>5, TmpfsCoverAll
  <2>2. Grows(mnt, mnt') /\ New(mnt, mnt') = {}
    BY <1>2, <1>5, GrowsNot
  <2>3. GrantsOutside' /\ SafeInRoot'
    BY <1>1, <1>2, <1>5, <2>2, SafeFrame DEF InRootPhase
  <2>4. TmpfsOnHost'
    BY <1>2, <1>5, <2>1 DEF TmpfsOnHost, Cover, l
  <2>5. QED
    BY <2>3, <2>4 DEF SafeShape
<1>6. QED
  BY <1>1, <1>3, <1>4, <1>5 DEF Turn

\* What is bound is bound to itself, but for the default mode's /tmp.
LEMMA SourcesTargets ==
  ASSUME Shape, NEW i \in 1..Count(opt.sources)
  PROVE  /\ opt.sources[i] \in Paths /\ opt.targets[i] \in Paths
         /\ \/ opt.targets[i] = opt.sources[i]
            \/ opt.mode = "default" /\ opt.sources[i] = MINI_SBX_TMP /\ opt.targets[i] = TMP
<1>1. opt.sources[i] \in Paths /\ opt.targets[i] \in Paths /\ i \in DOMAIN opt.sources
  BY ShapeOptions, ListItems
<1>2. /\ asked \in Options /\ opt.sources = asked.sources /\ opt.targets = asked.targets
      /\ opt.mode = asked.mode
  BY DEF Shape, SameOptions, SameBut
<1>3. \A j \in DOMAIN asked.sources :
        \/ asked.targets[j] = asked.sources[j]
        \/ asked.mode = "default" /\ asked.sources[j] = MINI_SBX_TMP /\ asked.targets[j] = TMP
  BY <1>2, MountAssumption
<1>4. QED
  BY <1>1, <1>2, <1>3

\* MountBinds keeps SafeShape.
LEMMA BindsSafe ==
  ASSUME SafeShape, Fresh, Shape', MountBinds
  PROVE  SafeShape'
<1> DEFINE src == opt.sources[next]
           dst == opt.targets[next]
           m == RemountedBind(src, InRoot(dst))
<1>1. /\ pc = "binds" /\ Quiet /\ UNCHANGED policy /\ Turn(Count(opt.sources), m, "readonly")
  BY BindsStep
<1>2. Chroots /\ next \in Nat \ {0} /\ pc \in AfterTmpfs /\ opt' = opt /\ "readonly" \in AfterTmpfs
  BY <1>1, NextNumber, InRootChroots DEF SafeShape, AfterTmpfs, policy
<1>3. ASSUME next <= Count(opt.sources)
      PROVE  /\ Grows(mnt, m)
             /\ \A x \in New(mnt, m) : InSandbox(x) /\ x \in MountRecord /\ Fits(Granted, x)
  <2>1. next \in 1..Count(opt.sources)
    BY <1>2, <1>3, Item, ShapeOptions DEF SafeShape
  <2>2. src \in Paths /\ dst \in Paths /\ (dst = src \/ dst = TMP)
    BY <2>1, SourcesTargets DEF SafeShape
  <2> HIDE DEF src, dst
  <2>3. QED
    BY <1>2, <2>2, RemountedFits
<1> HIDE DEF m
<1>4. QED
  BY <1>1, <1>2, <1>3, LateTurn

\* MountReadOnly keeps SafeShape.
LEMMA ReadOnlySafe ==
  ASSUME SafeShape, Fresh, Shape', MountReadOnly
  PROVE  SafeShape'
<1>1. /\ pc = "readonly" /\ Quiet /\ UNCHANGED <<policy, next>>
      /\ \/ todo = {} /\ mnt' = mnt /\ pc' = "overlays" /\ todo' = todo
         \/ \E p : /\ todo # {} /\ mnt' = RemountedBind(p, InRoot(p)) /\ pc' \in {pc, "died"}
                   /\ p = CHOOSE q \in todo : ~\E r \in todo : IsStrictPrefix(r, q)
                   /\ todo' = todo \ {p}
  BY ReadOnlyStep
<1>2. Rooted(mnt) /\ Chroots /\ todo \subseteq Paths /\ pc \in AfterTmpfs /\ opt' = opt
  BY <1>1, NextNumber, InRootChroots, PathsHere DEF SafeShape, Shape, TypeOK, AfterTmpfs, policy
<1>3. CASE mnt' = mnt /\ pc' = "overlays"
  <2>1. Grows(mnt, mnt') /\ New(mnt, mnt') = {}
    BY <1>2, <1>3, GrowsNot
  <2>2. QED
    BY <1>1, <1>2, <1>3, <2>1, LateStep DEF AfterTmpfs
<1>4. ASSUME NEW p, todo # {}, mnt' = RemountedBind(p, InRoot(p)), pc' \in {pc, "died"},
             p = CHOOSE q \in todo : ~\E r \in todo : IsStrictPrefix(r, q)
      PROVE  SafeShape'
  <2>1. p \in Paths
    BY <1>2, <1>4, FirstPath
  <2>2. /\ Grows(mnt, mnt')
        /\ \A x \in New(mnt, mnt') : InSandbox(x) /\ x \in MountRecord /\ Fits(Granted, x)
    BY <1>2, <1>4, <2>1, RemountedFits
  <2>3. pc' \in {"died"} \cup AfterTmpfs
    BY <1>1, <1>4 DEF AfterTmpfs
  <2>4. QED
    BY <1>1, <1>2, <2>2, <2>3, LateStep
<1>5. QED
  BY <1>1, <1>3, <1>4

\* An overlay fits: it is a copy on write.
LEMMA LayerFits ==
  ASSUME Rooted(mnt), NEW d \in Paths
  PROVE  /\ Grows(mnt, Append(mnt, Layer(d)))
         /\ \A x \in New(mnt, Append(mnt, Layer(d))) :
              InSandbox(x) /\ x \in MountRecord /\ Fits(Granted, x)
<1>1. Layer(d) \in MountRecord /\ Layer(d).cow /\ InSandbox(Layer(d))
  BY LayerIs DEF Mounted, HasFlags, InSandbox
<1>2. Fits(Granted, Layer(d))
  BY <1>1 DEF Fits, Safe
<1>3. QED
  BY <1>1, <1>2, GrowsByOne

\* MountAllOverlayFs keeps SafeShape.
LEMMA OverlaysSafe ==
  ASSUME SafeShape, Fresh, Shape', MountAllOverlayFs
  PROVE  SafeShape'
<1>1. /\ pc \in {"overlayfirst", "overlays"} /\ Quiet /\ UNCHANGED <<opt, mounts>>
      /\ \/ /\ next <= Count(opt.overlayfsmount) /\ pc' \in {pc, "died"}
            /\ mnt' = IF Refuses(Here) THEN mnt ELSE Append(mnt, Layer(Here))
         \/ /\ mnt' = mnt /\ next' = 1
            /\ pc' = (IF pc = "overlays" THEN "writables" ELSE "tmpfs")
  BY OverlaysStep
<1>2. Rooted(mnt) /\ Chroots /\ opt' = opt
  BY <1>1, NextNumber, InRootChroots DEF SafeShape
<1>3. Grows(mnt, mnt) /\ New(mnt, mnt) = {}
  BY <1>2, GrowsNot
<1>4. /\ Grows(mnt, mnt')
      /\ \A x \in New(mnt, mnt') : InSandbox(x) /\ x \in MountRecord /\ Fits(Granted, x)
  <2>1. CASE mnt' = mnt
    BY <1>3, <2>1
  <2>2. CASE next <= Count(opt.overlayfsmount) /\ mnt' = Append(mnt, Layer(Here))
    <3>1. Here \in Paths
      BY <2>2, HereIs DEF SafeShape
    <3>2. QED
      BY <1>2, <2>2, <3>1, LayerFits
  <2>3. QED
    BY <1>1, <2>1, <2>2
<1>5. CASE pc = "overlays"
  <2>1. pc \in AfterTmpfs /\ pc' \in {"died"} \cup AfterTmpfs
    BY <1>1, <1>5 DEF AfterTmpfs
  <2>2. QED
    BY <1>1, <1>2, <1>4, <2>1, LateStep
<1>6. CASE pc = "overlayfirst"
  <2>1. /\ pc \in BeforePivot /\ pc' \in {"died", "root"} \cup (InRootPhase \ AfterTmpfs)
        /\ (pc' = "tmpfs" => next' = 1)
    BY <1>1, <1>6 DEF BeforePivot, InRootPhase, AfterTmpfs
  <2>2. QED
    BY <1>1, <1>2, <1>4, <2>1, EarlyStep
<1>7. QED
  BY <1>1, <1>5, <1>6

\* MountWritables keeps SafeShape.
LEMMA WritablesSafe ==
  ASSUME SafeShape, Fresh, Shape', MountWritables
  PROVE  SafeShape'
<1> DEFINE w == opt.writable_files[next]
<1>1. /\ pc = "writables" /\ Quiet /\ UNCHANGED <<policy, todo>>
      /\ \/ Turn(Count(opt.writable_files), mnt, "cwd")
         \/ Turn(Count(opt.writable_files), BindRec(mnt, w, InRoot(w)), "cwd")
  BY WritablesStep
<1>2. /\ Rooted(mnt) /\ next \in Nat \ {0} /\ Chroots /\ pc \in AfterTmpfs /\ opt' = opt
      /\ "cwd" \in AfterTmpfs
  BY <1>1, NextNumber, InRootChroots DEF SafeShape, AfterTmpfs, policy
<1>3. ASSUME next <= Count(opt.writable_files)
      PROVE  /\ Grows(mnt, BindRec(mnt, w, InRoot(w)))
             /\ \A x \in New(mnt, BindRec(mnt, w, InRoot(w))) :
                  InSandbox(x) /\ x \in MountRecord /\ Fits(Granted, x)
  <2>1. w \in ToSet(opt.writable_files)
    BY <1>2, <1>3, Item, ShapeOptions DEF SafeShape
  <2> HIDE DEF w
  <2>2. QED
    BY <1>2, <2>1, GrantFits
<1> HIDE DEF w
<1>4. Grows(mnt, mnt) /\ New(mnt, mnt) = {}
  BY <1>2, GrowsNot
<1>5. CASE Turn(Count(opt.writable_files), mnt, "cwd")
  BY <1>1, <1>2, <1>4, <1>5, LateTurn
<1>6. CASE Turn(Count(opt.writable_files), BindRec(mnt, w, InRoot(w)), "cwd")
  BY <1>1, <1>2, <1>3, <1>6, LateTurn
<1>7. QED
  BY <1>1, <1>5, <1>6

\* MountWorkingDir keeps SafeShape.
LEMMA WorkingDirSafe ==
  ASSUME SafeShape, Fresh, Shape', MountWorkingDir
  PROVE  SafeShape'
<1> DEFINE wd == opt.working_dir
<1>1. /\ pc = "cwd" /\ Quiet /\ UNCHANGED fixed /\ mnt' = BindRec(mnt, wd, InRoot(wd))
      /\ \/ pc' = "died"
         \/ pc' = CASE opt.mode = "default" -> "rest"
                    [] opt.mode = "custom" -> "home"
                    [] opt.mode = "hermetic" -> "pivot"
  BY WorkingDirStep
<1>2. Chroots /\ pc \in AfterTmpfs /\ opt' = opt
  BY <1>1, InRootChroots DEF SafeShape, AfterTmpfs, fixed, policy
<1>3. pc' \in {"died"} \cup AfterTmpfs
  BY <1>1, <1>2 DEF Chroots, AfterTmpfs
<1>4. wd \in ToSet(opt.writable_files) \cup {opt.working_dir}
  OBVIOUS
<1> HIDE DEF wd
<1>5. /\ Grows(mnt, mnt')
      /\ \A x \in New(mnt, mnt') : InSandbox(x) /\ x \in MountRecord /\ Fits(Granted, x)
  BY <1>1, <1>2, <1>4, GrantFits
<1>6. QED
  BY <1>1, <1>2, <1>3, <1>5, LateStep

\* MountRest keeps SafeShape.
LEMMA RestSafe ==
  ASSUME SafeShape, Fresh, Shape', MountRest
  PROVE  SafeShape'
<1> DEFINE at == mnt[next].at
           ro == ~ShouldBeWritable(at)
           m == Remount(BindRec(mnt, at, InRoot(at)), InRoot(at), ro)
<1>1. /\ pc = "rest" /\ Quiet /\ UNCHANGED <<policy, todo>>
      /\ Turn(mounts + 1, mnt, "home") \/ Turn(mounts + 1, m, "home")
  BY RestStep
<1>2. /\ Rooted(mnt) /\ next \in Nat \ {0} /\ Chroots /\ mounts \in Nat /\ opt' = opt
      /\ pc \in AfterTmpfs /\ "home" \in AfterTmpfs
  BY <1>1, NextNumber, InRootChroots DEF SafeShape, policy, AfterTmpfs
<1>3. mounts + 1 <= Count(mnt) /\ Count(mnt) \in Nat
  BY <1>1, <1>2, TableMounts DEF SafeShape, Shape, MountsKept, Rooted
<1>4. ASSUME next <= mounts + 1
      PROVE  /\ Grows(mnt, m)
             /\ \A x \in New(mnt, m) : InSandbox(x) /\ x \in MountRecord /\ Fits(Granted, x)
  <2>1. next \in 1..Count(mnt)
    BY <1>2, <1>3, <1>4
  <2>2. at \in Paths
    BY <1>2, <2>1, TableMounts, RecordFields DEF Rooted
  <2> HIDE DEF at
  <2>3. ro \in BOOLEAN
    OBVIOUS
  <2>4. Cover(mnt, at).fs = "host" =>
          ro \/ LooselyNamed(at) \/ \E g \in Granted : IsPrefix(g, Locate(mnt, at).path)
    BY <1>2, WritablePath
  <2> HIDE DEF ro
  <2>5. \A x \in New(mnt, m) : Fits(Granted, x)
    BY <1>2, <2>2, <2>3, <2>4, BindFits
  <2>6. Grows(mnt, m)
    BY <1>2, <2>2, <2>3, BindInRootGrows
  <2>7. \A x \in New(mnt, m) : x \in MountRecord /\ InSandbox(x)
    BY <1>2, <2>2, <2>3, BoundInSandbox DEF InSandbox
  <2>8. QED
    BY <2>5, <2>6, <2>7
<1> HIDE DEF m
<1>5. Grows(mnt, mnt) /\ New(mnt, mnt) = {}
  BY <1>2, GrowsNot
<1>6. CASE Turn(mounts + 1, mnt, "home")
  BY <1>1, <1>2, <1>5, <1>6, LateTurn
<1>7. CASE Turn(mounts + 1, m, "home")
  BY <1>1, <1>2, <1>4, <1>7, LateTurn
<1>8. QED
  BY <1>1, <1>6, <1>7

\* MakeEmptyHome keeps SafeShape.
LEMMA HomeSafe ==
  ASSUME SafeShape, Fresh, Shape', MakeEmptyHome
  PROVE  SafeShape'
<1>1. pc = "home" /\ pc' \in {"pivot", "died"} /\ mnt' = mnt /\ Quiet /\ UNCHANGED fixed
  BY HomeStep
<1>2. Rooted(mnt) /\ Chroots /\ opt' = opt /\ pc \in AfterTmpfs /\ pc' \in {"died"} \cup AfterTmpfs
  BY <1>1, NextNumber, InRootChroots DEF SafeShape, fixed, policy, AfterTmpfs
<1>3. Grows(mnt, mnt') /\ New(mnt, mnt') = {}
  BY <1>1, <1>2, GrowsNot
<1>4. QED
  BY <1>1, <1>2, <1>3, LateStep

\* ChangeRoot keeps SafeShape.
LEMMA PivotSafe ==
  ASSUME SafeShape, Fresh, Shape', ChangeRoot
  PROVE  SafeShape'
<1> DEFINE t == Kept(mnt, InTheRoot(mnt))
<1>1. /\ pc = "pivot" /\ pc' = "chdir" /\ Quiet /\ UNCHANGED fixed /\ mnt' = Pivoted(t)
  BY PivotStep, NextNumber DEF SafeShape
<1>2. /\ Rooted(mnt) /\ Chroots /\ RootMounted(mnt) /\ opt' = opt
      /\ \A i \in 1..Count(mnt) : Fits(Granted, mnt[i])
  BY <1>1, NextNumber, InRootChroots
     DEF SafeShape, Shape, RootFirst, InRootPhase, SafeInRoot, BeforePivot, fixed, policy
<1>3. PICK L, g : /\ KeptBy(t, L, g, mnt, InTheRoot(mnt), Count(mnt)) /\ Count(Pivoted(t)) = L
                  /\ \A k \in 1..L : Pivoted(t)[k] = Stripped(mnt[g[k]])
  BY <1>2, PivotIs
<1>4. \A k \in 1..L : g[k] \in InTheRoot(mnt) /\ g[k] \in 1..Count(mnt)
  BY <1>3 DEF KeptBy, InTheRoot
<1> HIDE DEF t
<1>5. ASSUME NEW k \in 1..L PROVE Safe(Granted, mnt'[k], mnt'[k].at)
  <2> DEFINE x == mnt[g[k]]
  <2>1. x \in MountRecord /\ InSandbox(x) /\ Fits(Granted, x)
    BY <1>2, <1>4, <1>5, TableMounts DEF Rooted, InTheRoot, InSandbox
  <2>2. mnt'[k] = Stripped(x)
    BY <1>1, <1>3, <1>5
  <2> HIDE DEF x
  <2>3. /\ Mounted(Stripped(x), Rest(sandbox_root, x.at), x.fs, x.dir)
        /\ HasFlags(Stripped(x), x.cow, x.ro, x.carried)
        /\ Stripped(x).locked <=> x.locked
    BY <2>1, StrippedIs DEF InSandbox
  <2>4. Safe(Granted, x, Rest(sandbox_root, x.at))
    BY <2>1 DEF Fits
  <2>5. Safe(Granted, Stripped(x), Rest(sandbox_root, x.at))
    BY <2>3, <2>4 DEF Safe, Mounted, HasFlags
  <2>6. QED
    BY <2>2, <2>3, <2>5 DEF Mounted
<1>6. (Chroots' <=> Chroots) /\ Granted' = Granted
  BY <1>1, <1>2 DEF Quiet, Chroots, Granted
<1>7. SafeInRoot'
  <2>1. pc' \notin BeforePivot /\ Count(mnt') = L
    BY <1>1, <1>3 DEF BeforePivot, InRootPhase
  <2>2. QED
    BY <1>5, <1>6, <2>1 DEF SafeInRoot
<1>8. GrantsOutside' /\ TmpfsOnHost'
  BY <1>1, <1>2, <1>6 DEF SafeShape, GrantsOutside, TmpfsOnHost, AfterTmpfs
<1>9. QED
  BY <1>7, <1>8 DEF SafeShape

\* A mount that is made and remounted.
LEMMA RemountedNew ==
  ASSUME NEW m, Rooted(m), NEW p \in Paths, NEW y \in MountRecord, y.at = p, NEW ro \in BOOLEAN
  PROVE  /\ Grows(m, Remount(Append(m, y), p, ro))
         /\ New(m, Remount(Append(m, y), p, ro)) = {Flagged(y, ro)}
<1> DEFINE a == Append(m, y)
           b == Remount(a, p, ro)
           N == Count(m)
<1>1. /\ N \in Nat /\ a \in Tables /\ Count(a) = N + 1 /\ \A i \in 1..N : a[i] = m[i]
      /\ a[N + 1] = y /\ Rooted(a)
  BY TableAppend, TableMounts, AppendCovers DEF Rooted
<1> HIDE DEF a
<1>2. IsPrefix(p, p)
  BY PathRoot
<1>3. Covers(a, N + 1, p)
  BY <1>1, <1>2 DEF Covers
<1>4. MountOf(a, p) = N + 1
  BY <1>1, <1>3, CoversUnique
<1>5. /\ Rooted(b) /\ Count(b) = N + 1
      /\ \A i \in 1..(N + 1) : b[i] = IF i = MountOf(a, p) /\ a[i].at = p
                                      THEN Flagged(a[i], ro) ELSE a[i]
  BY <1>1, RemountIs
<1>6. \A i \in 1..N : b[i] = m[i]
  BY <1>1, <1>4, <1>5
<1>7. b[N + 1] = Flagged(y, ro)
  BY <1>1, <1>4, <1>5
<1> HIDE DEF b
<1>8. Grows(m, b)
  BY <1>1, <1>5, <1>6 DEF Grows
<1>9. New(m, b) = {Flagged(y, ro)}
  <2>1. (N + 1)..Count(b) = {N + 1}
    BY <1>1, <1>5
  <2>2. QED
    BY <1>7, <2>1 DEF New
<1>10. QED
  BY <1>8, <1>9 DEF b, a

\* What is added where the init file is.
InitMount == Flagged(Bound(mnt, MINISBX_TMP_INIT, MINISBX_TMP_INIT), TRUE)

\* The init file adds at most its own mount, read-only.
LEMMA InitGrows ==
  ASSUME Rooted(mnt), InitDone
  PROVE  /\ Grows(mnt, mnt') /\ (New(mnt, mnt') = {} \/ New(mnt, mnt') = {InitMount})
         /\ Mounted(InitMount, MINISBX_TMP_INIT, Cover(mnt, MINISBX_TMP_INIT).fs,
                    Locate(mnt, MINISBX_TMP_INIT).path)
         /\ New(mnt, mnt') = {InitMount} => InitMount.ro
<1> DEFINE p == MINISBX_TMP_INIT
           y == Bound(mnt, p, p)
<1>1. mnt' = mnt \/ (~Cover(mnt, p).locked /\ mnt' = Remount(Append(mnt, y), p, TRUE))
  BY InitStep, BindIs
<1>2. p \in Paths
  BY PathsHere
<1> HIDE DEF p
<1>3. /\ Mounted(y, p, Cover(mnt, p).fs, Locate(mnt, p).path)
      /\ y.locked <=> Cover(mnt, p).locked
  BY <1>2, BoundIs
<1> HIDE DEF y
<1>4. y \in MountRecord /\ y.at = p /\ y.fs = Cover(mnt, p).fs /\ y.dir = Locate(mnt, p).path
  BY <1>3 DEF Mounted
<1>5. /\ Mounted(Flagged(y, TRUE), y.at, y.fs, y.dir)
      /\ HasFlags(Flagged(y, TRUE), y.cow, y.ro \/ (TRUE /\ ~y.locked), y.carried)
  BY <1>4, FlaggedIs
<1>6. ~y.locked => Flagged(y, TRUE).ro
  BY <1>5 DEF HasFlags
<1>7. /\ Grows(mnt, Remount(Append(mnt, y), p, TRUE))
      /\ New(mnt, Remount(Append(mnt, y), p, TRUE)) = {Flagged(y, TRUE)}
  BY <1>2, <1>4, RemountedNew
<1>8. Grows(mnt, mnt) /\ New(mnt, mnt) = {}
  BY GrowsNot
<1>9. InitMount = Flagged(y, TRUE)
  BY DEF InitMount, y, p
<1>10. QED
  BY <1>1, <1>3, <1>4, <1>5, <1>6, <1>7, <1>8, <1>9 DEF p

\* InitDone keeps SafeShape.
LEMMA InitFileSafe ==
  ASSUME SafeShape, Shape', Chroots, InitDone
  PROVE  SafeShape'
<1>1. pc = "init" /\ pc' \in {"done", "died"} /\ Quiet /\ UNCHANGED fixed
  BY InitStep
<1>2. /\ Rooted(mnt) /\ opt' = opt /\ (Chroots' <=> Chroots) /\ Granted' = Granted
      /\ \A i \in 1..Count(mnt) : Safe(Granted, mnt[i], mnt[i].at)
  BY <1>1, NextNumber
     DEF SafeShape, SafeInRoot, LastPhase, fixed, policy, Quiet, Chroots, Granted
<1>3. /\ Grows(mnt, mnt') /\ (New(mnt, mnt') = {} \/ New(mnt, mnt') = {InitMount})
      /\ New(mnt, mnt') = {InitMount} => InitMount.ro
  BY <1>2, InitGrows
<1>4. \A x \in New(mnt, mnt') : Safe(Granted, x, x.at)
  BY <1>3 DEF Safe
<1>5. Count(mnt) \in Nat /\ Count(mnt') \in Nat
  BY <1>2, <1>3, TableMounts DEF Rooted, Grows
<1>6. ASSUME NEW i \in 1..Count(mnt') PROVE Safe(Granted, mnt'[i], mnt'[i].at)
  <2>1. CASE i \in 1..Count(mnt)
    <3>1. mnt'[i] = mnt[i]
      BY <1>3, <2>1 DEF Grows
    <3>2. QED
      BY <1>2, <2>1, <3>1
  <2>2. CASE i \notin 1..Count(mnt)
    <3>1. i \in (Count(mnt) + 1)..Count(mnt')
      BY <1>5, <1>6, <2>2
    <3>2. mnt'[i] \in New(mnt, mnt')
      BY <3>1 DEF New
    <3>3. QED
      BY <1>4, <3>2
  <2>3. QED
    BY <2>1, <2>2
<1>7. SafeInRoot'
  <2>1. pc' \notin BeforePivot
    BY <1>1 DEF BeforePivot, InRootPhase
  <2>2. QED
    BY <1>2, <1>6, <2>1 DEF SafeInRoot
<1>8. GrantsOutside' /\ TmpfsOnHost'
  BY <1>1, <1>2 DEF SafeShape, GrantsOutside, TmpfsOnHost, AfterTmpfs
<1>9. QED
  BY <1>7, <1>8 DEF SafeShape

\* EnterWorkingDirectory keeps SafeShape.
LEMMA ChdirSafe ==
  ASSUME SafeShape, Shape', Chroots, EnterWorkingDirectory
  PROVE  SafeShape'
<1>1. pc = "chdir" /\ pc' \in {"init", "died"} /\ mnt' = mnt /\ Quiet /\ UNCHANGED fixed
  BY ChdirStep
<1>2. /\ opt' = opt /\ (Chroots' <=> Chroots) /\ Granted' = Granted
      /\ \A i \in 1..Count(mnt) : Safe(Granted, mnt[i], mnt[i].at)
  BY <1>1 DEF SafeShape, SafeInRoot, LastPhase, fixed, policy, Quiet, Chroots, Granted
<1>3. SafeInRoot'
  <2>1. pc' \notin BeforePivot
    BY <1>1 DEF BeforePivot, InRootPhase
  <2>2. QED
    BY <1>1, <1>2, <2>1 DEF SafeInRoot
<1>4. GrantsOutside' /\ TmpfsOnHost'
  BY <1>1, <1>2 DEF SafeShape, GrantsOutside, TmpfsOnHost, AfterTmpfs
<1>5. QED
  BY <1>3, <1>4 DEF SafeShape

\* SystemCallFails keeps SafeShape.
LEMMA FailsSafe ==
  ASSUME SafeShape, Shape', Chroots, SystemCallFails
  PROVE  SafeShape'
<1>1. pc' = "died" /\ opt' = opt /\ machine' = machine
  BY DEF SystemCallFails
<1>2. GrantsOutside' /\ TmpfsOnHost' /\ SafeInRoot'
  BY <1>1 DEF SafeShape, GrantsOutside, TmpfsOnHost, SafeInRoot, AfterTmpfs, BeforePivot,
              InRootPhase, LastPhase, Chroots
<1>3. QED
  BY <1>2 DEF SafeShape

\* Nothing changes.
LEMMA StutterSafe ==
  ASSUME SafeShape, Shape', UNCHANGED vars
  PROVE  SafeShape'
<1>1. UNCHANGED <<machine, opt, pc, mnt, next>>
  BY DEF vars
<1>2. (Chroots' <=> Chroots) /\ Granted' = Granted
  BY <1>1 DEF Chroots, Granted
<1>3. GrantsOutside' /\ SafeInRoot'
  BY <1>1, <1>2 DEF SafeShape, GrantsOutside, SafeInRoot
<1>4. TmpfsOnHost'
  BY <1>1, <1>2 DEF SafeShape, TmpfsOnHost, TmpfsCover, Cover
<1>5. QED
  BY <1>3, <1>4 DEF SafeShape

\* No step changes the machine or what was asked for.
LEMMA QuietAlways ==
  ASSUME [Next]_vars
  PROVE  machine' = machine /\ asked' = asked
<1>1. CASE MountOverlayDirAsTmpfs \/ MountFilesystems \/ BindInPlace \/ TmpfsInPlace \/ WritableInPlace
  BY <1>1, StartStep, FilesystemsStep, BindInPlaceStep, TmpfsInPlaceStep, WritableInPlaceStep DEF Quiet
<1>2. CASE WorkingDirInPlace \/ MakeFilesystemPartiallyReadOnly \/ MountSandboxAndGoThere \/ MountDev
  BY <1>2, WorkingDirInPlaceStep, RemountStep, RootStep, DevStep DEF Quiet
<1>3. CASE MountAllTmpfs \/ MountBinds \/ MountReadOnly \/ MountAllOverlayFs \/ MountWritables
  BY <1>3, TmpfsStep, BindsStep, ReadOnlyStep, OverlaysStep, WritablesStep DEF Quiet
<1>4. CASE MountWorkingDir \/ MountRest \/ MakeEmptyHome \/ EnterWorkingDirectory \/ InitDone
  BY <1>4, WorkingDirStep, RestStep, HomeStep, ChdirStep, InitStep DEF Quiet
<1>5. CASE MountProcAndSys \/ ChangeRoot
  BY <1>5 DEF MountProcAndSys, ChangeRoot, Become
<1>6. CASE LightMode \/ MountWorkingDirMountPoint \/ AddLeftoverFoldersToReadOnlyPaths \/ SystemCallFails
  BY <1>6 DEF LightMode, MountWorkingDirMountPoint, AddLeftoverFoldersToReadOnlyPaths, SystemCallFails
<1>7. CASE UNCHANGED vars
  BY <1>7 DEF vars
<1>8. QED
  BY <1>1, <1>2, <1>3, <1>4, <1>5, <1>6, <1>7 DEF Next, Finished

\* Whether there is a root of its own never changes.
LEMMA ChrootsStays ==
  ASSUME Shape, Shape', [Next]_vars
  PROVE  Chroots' <=> Chroots
<1>1. machine' = machine /\ opt'.mode = opt.mode
  BY QuietAlways DEF Shape, SameOptions, SameBut
<1>2. QED
  BY <1>1 DEF Chroots

\* Every step keeps SafeShape.
LEMMA StepSafe ==
  ASSUME SafeShape, Fresh, [Next]_vars
  PROVE  SafeShape'
<1>1. Shape'
  BY StepShape DEF SafeShape
<1>2. Chroots' <=> Chroots
  BY <1>1, ChrootsStays DEF SafeShape
<1>3. CASE ~Chroots
  BY <1>1, <1>2, <1>3 DEF SafeShape, GrantsOutside, SafeInRoot, TmpfsOnHost
<1>4. CASE Chroots
  <2>1. pc \notin InPlacePhase
    BY <1>4, NotChroots DEF SafeShape
  <2>2. CASE MountOverlayDirAsTmpfs
    BY <1>1, <1>4, <2>2, StartSafe
  <2>3. CASE LightMode \/ MountFilesystems \/ BindInPlace \/ TmpfsInPlace \/ WritableInPlace
             \/ WorkingDirInPlace \/ MakeFilesystemPartiallyReadOnly
    BY <2>1, <2>3 DEF LightMode, MountFilesystems, BindInPlace, TmpfsInPlace, WritableInPlace,
                      WorkingDirInPlace, MakeFilesystemPartiallyReadOnly, InPlacePhase
  <2>4. CASE MountSandboxAndGoThere
    BY <1>1, <2>4, RootSafe
  <2>5. CASE MountDev
    BY <1>1, <2>5, DevSafe
  <2>6. CASE MountProcAndSys
    BY <1>1, <1>4, <2>6, ProcSafe
  <2>7. CASE MountWorkingDirMountPoint
    BY <1>1, <2>7, ParentsSafe
  <2>8. CASE AddLeftoverFoldersToReadOnlyPaths
    BY <1>1, <2>8, LeftoverSafe
  <2>9. CASE MountAllTmpfs
    BY <1>1, <2>9, TmpfsSafe
  <2>10. CASE MountBinds
    BY <1>1, <2>10, BindsSafe
  <2>11. CASE MountReadOnly
    BY <1>1, <2>11, ReadOnlySafe
  <2>12. CASE MountAllOverlayFs
    BY <1>1, <2>12, OverlaysSafe
  <2>13. CASE MountWritables
    BY <1>1, <2>13, WritablesSafe
  <2>14. CASE MountWorkingDir
    BY <1>1, <2>14, WorkingDirSafe
  <2>15. CASE MountRest
    BY <1>1, <2>15, RestSafe
  <2>16. CASE MakeEmptyHome
    BY <1>1, <2>16, HomeSafe
  <2>17. CASE ChangeRoot
    BY <1>1, <2>17, PivotSafe
  <2>18. CASE EnterWorkingDirectory
    BY <1>1, <1>4, <2>18, ChdirSafe
  <2>19. CASE InitDone
    BY <1>1, <1>4, <2>19, InitFileSafe
  <2>20. CASE SystemCallFails
    BY <1>1, <1>4, <2>20, FailsSafe
  <2>21. CASE UNCHANGED vars
    BY <1>1, <2>21, StutterSafe
  <2>22. QED
    BY <2>2, <2>3, <2>4, <2>5, <2>6, <2>7, <2>8, <2>9, <2>10, <2>11, <2>12, <2>13, <2>14, <2>15,
       <2>16, <2>17, <2>18, <2>19, <2>20, <2>21 DEF Next, Finished
<1>5. QED
  BY <1>3, <1>4

\* The machine's own mounts.
LEMMA InitMounts ==
  ASSUME Init
  PROVE  /\ pc = "start" /\ next = 1 /\ opt = asked /\ asked \in Options
         /\ \A i \in 1..Count(mnt) :
              /\ mnt[i].fs = "host" /\ mnt[i].dir = mnt[i].at
              /\ ~IsPrefix(sandbox_root, mnt[i].at)
<1>1. /\ machine \in Machines /\ pc = "start" /\ next = 1 /\ opt = asked /\ asked \in Options
      /\ mnt = [i \in DOMAIN machine.mounts |-> HostMount(machine.mounts[i])]
  BY DEF Init
<1>2. Count(mnt) = Count(machine.mounts)
  BY <1>1, FirstMounts
<1>3. \A i \in 1..Count(mnt) : /\ Mounted(mnt[i], machine.mounts[i].at, "host", machine.mounts[i].at)
                               /\ ~IsPrefix(sandbox_root, machine.mounts[i].at)
  BY <1>1, <1>2, FirstMounts
<1>4. QED
  BY <1>1, <1>3 DEF Mounted

\* SafeShape and Fresh hold when pid1 starts.
LEMMA InitSafe ==
  ASSUME Init
  PROVE  SafeShape /\ Fresh
<1>1. Shape
  BY InitShape
<1>2. /\ pc = "start" /\ next = 1 /\ opt = asked /\ asked \in Options
      /\ \A i \in 1..Count(mnt) :
           /\ mnt[i].fs = "host" /\ mnt[i].dir = mnt[i].at
           /\ ~IsPrefix(sandbox_root, mnt[i].at)
  BY InitMounts
<1>3. GrantsOutside
  BY <1>2, MountAssumption DEF GrantsOutside, isSubpath
<1>4. SafeInRoot
  BY <1>2 DEF SafeInRoot, Fits, InSandbox, LastPhase
<1>5. TmpfsOnHost /\ Fresh
  BY <1>2 DEF TmpfsOnHost, AfterTmpfs, Fresh
<1>6. QED
  BY <1>1, <1>3, <1>4, <1>5 DEF SafeShape

(***************************************************************************)
(* The same without a root of one's own: a mount of the host shows the     *)
(* directory it is at, or the default mode's /tmp, and once the table is   *)
(* gone through what is not writable is read-only.                         *)
(***************************************************************************)

Writable(o, p) ==
  \/ p = o.working_dir \/ LooselyNamed(p)
  \/ p \in ToSet(o.writable_files) \cup ToSet(o.tmpfs_dirs)

Settled(o, x) == x.fs # "host" \/ x.ro \/ x.locked \/ Writable(o, x.at) \/ ends_with(x.at, "proc")

\* The mounts before the n-th that are not covered where they are.
Tame(o, m, n) == \A j \in 1..Count(m) : j < n /\ MountOf(m, m[j].at) = j => Settled(o, m[j])

Remounted ==
  ~Chroots =>
    /\ pc = "remount" => Tame(opt, mnt, next)
    /\ pc \in {"proc"} \cup LastPhase => Tame(opt, mnt, Count(mnt) + 1)

Shown(mode, x) ==
  x.fs = "host" => x.dir = x.at \/ (mode = "default" /\ IsPrefix(MINI_SBX_TMP, x.dir))

AllShown(mode, m) == \A i \in 1..Count(m) : Shown(mode, m[i])

InPlaceShown == ~Chroots => AllShown(opt.mode, mnt)

\* A tmpfs directory keeps its tmpfs, but if the working directory is bound over it.
TmpfsUncovered(m, t, wd) ==
  Cover(m, t).at = t \/ ~IsPrefix(wd, t) => Cover(m, t).fs # "host"

TmpfsInPlaceKept ==
  ~Chroots =>
    /\ pc = "inplacetmpfs" => TmpfsCover(mnt, opt.tmpfs_dirs, next)
    /\ pc \in {"inplacewritables", "inplacecwd"} =>
         \A t \in ToSet(opt.tmpfs_dirs) : Cover(mnt, t).fs # "host"
    /\ pc \in {"remount", "proc"} \cup LastPhase =>
         \A t \in ToSet(opt.tmpfs_dirs) : TmpfsUncovered(mnt, t, opt.working_dir)

PlaceSafe == Remounted /\ InPlaceShown /\ TmpfsInPlaceKept

\* A table shows its places while new mounts do.
LEMMA AllShownGrows ==
  ASSUME NEW mode, NEW m, Rooted(m), AllShown(mode, m), NEW b, Grows(m, b),
         \A x \in New(m, b) : Shown(mode, x)
  PROVE  AllShown(mode, b)
<1>1. Count(m) \in Nat /\ Count(b) \in Nat
  BY TableMounts DEF Rooted, Grows
<1>2. ASSUME NEW i \in 1..Count(b) PROVE Shown(mode, b[i])
  <2>1. CASE i \in 1..Count(m)
    BY <2>1 DEF AllShown, Grows
  <2>2. CASE i \notin 1..Count(m)
    <3>1. i \in (Count(m) + 1)..Count(b)
      BY <1>1, <1>2, <2>2
    <3>2. b[i] \in New(m, b)
      BY <3>1 DEF New
    <3>3. QED
      BY <3>2
  <2>3. QED
    BY <2>1, <2>2
<1>3. QED
  BY <1>2 DEF AllShown

\* A path of the host is where its name says, or in the default mode's /tmp.
LEMMA ShownPath ==
  ASSUME NEW mode, NEW m, Rooted(m), AllShown(mode, m), NEW p \in Paths, Cover(m, p).fs = "host"
  PROVE  \/ Locate(m, p).path = p
         \/ mode = "default" /\ IsPrefix(MINI_SBX_TMP, Locate(m, p).path)
<1>1. Covers(m, MountOf(m, p), p) /\ Cover(m, p) \in MountRecord
  BY RootCovers
<1>2. Shown(mode, Cover(m, p))
  BY <1>1 DEF Covers, Cover, AllShown
<1>3. CASE Cover(m, p).dir = Cover(m, p).at
  BY <1>3, LocateIs
<1>4. CASE mode = "default" /\ IsPrefix(MINI_SBX_TMP, Cover(m, p).dir)
  <2>1. /\ IsPrefix(Cover(m, p).dir, Locate(m, p).path) /\ Locate(m, p).path \in Paths
        /\ Cover(m, p).dir \in Paths
    BY <1>1, LocateIs, RecordFields
  <2>2. IsPrefix(MINI_SBX_TMP, Locate(m, p).path)
    BY <1>4, <2>1, PathsHere, PathTransitive
  <2>3. QED
    BY <1>4, <2>2
<1>5. QED
  BY <1>2, <1>3, <1>4 DEF Shown

\* A bind onto itself shows its place, and so do the copies.
LEMMA BindShown ==
  ASSUME NEW mode, NEW m, Rooted(m), AllShown(mode, m), NEW src \in Paths, NEW dst \in Paths,
         dst = src \/ (mode = "default" /\ src = MINI_SBX_TMP)
  PROVE  /\ Shown(mode, Bound(m, src, dst))
         /\ \A x \in New(m, BindRec(m, src, dst)) : Shown(mode, x)
<1>1. Mounted(Bound(m, src, dst), dst, Cover(m, src).fs, Locate(m, src).path)
  BY BoundIs
<1>2. IsPrefix(src, src)
  BY PathRoot
<1>3. Shown(mode, Bound(m, src, dst))
  <2>1. ASSUME Cover(m, src).fs = "host"
        PROVE  Locate(m, src).path = dst \/ (mode = "default" /\ IsPrefix(MINI_SBX_TMP, Locate(m, src).path))
    BY <1>2, <2>1, ShownPath
  <2>2. QED
    BY <1>1, <2>1 DEF Shown, Mounted
<1>4. ASSUME NEW i \in 1..Count(m), Below(m, src, i) PROVE Shown(mode, Brought(m, src, dst, i))
  <2>1. /\ Rest(src, m[i].at) \in Paths /\ m[i].at = Join(src, Rest(src, m[i].at))
        /\ Mounted(Brought(m, src, dst, i), Join(dst, Rest(src, m[i].at)), m[i].fs, m[i].dir)
    BY <1>4, BroughtIs
  <2>2. Shown(mode, m[i]) /\ IsPrefix(src, m[i].at)
    BY <1>4 DEF AllShown, Below, IsStrictPrefix
  <2>3. QED
    BY <2>1, <2>2 DEF Shown, Mounted
<1>5. QED
  BY <1>3, <1>4, GrowsByBind

\* A directory that is bound on itself shows what it showed.
LEMMA SelfBindCovers ==
  ASSUME NEW m, Rooted(m), NEW w \in Paths, NEW t \in Paths
  PROVE  Cover(BindRec(m, w, w), t).fs = Cover(m, t).fs
<1>1. Rooted(BindRec(m, w, w)) /\ Grows(m, BindRec(m, w, w))
  BY GrowsByBind DEF Grows
<1>2. CASE IsPrefix(w, t)
  <2>1. Rest(w, t) \in Paths /\ t = Join(w, Rest(w, t))
    BY <1>2, PathSplit
  <2>2. Locate(BindRec(m, w, w), t).fs = Locate(m, t).fs
    BY <2>1, BindShows
  <2>3. QED
    BY <1>1, <2>2, LocateIs
<1>3. CASE ~IsPrefix(w, t)
  <2>1. MountOf(BindRec(m, w, w), t) = MountOf(m, t)
    BY <1>3, BindElsewhere
  <2>2. MountOf(m, t) \in 1..Count(m)
    BY RootCovers DEF Covers
  <2>3. QED
    BY <1>1, <2>1, <2>2 DEF Cover, Grows
<1>4. QED
  BY <1>2, <1>3

PlaceShapes == SafeShape /\ Fresh /\ PlaceSafe

\* What is known in place.
LEMMA PlaceFacts ==
  ASSUME PlaceShapes, ~Chroots
  PROVE  /\ Shape /\ Rooted(mnt) /\ next \in Nat \ {0} /\ AllShown(opt.mode, mnt) /\ Count(mnt) \in Nat
         /\ opt \in Option /\ opt.working_dir \in Paths
         /\ opt.tmpfs_dirs \in Lists /\ opt.writable_files \in Lists /\ opt.sources \in Lists
         /\ \A t \in ToSet(opt.tmpfs_dirs) : t \in Paths /\ t \in Dirs
<1>1. Shape /\ Rooted(mnt) /\ next \in Nat \ {0} /\ AllShown(opt.mode, mnt)
  BY NextNumber DEF PlaceShapes, SafeShape, PlaceSafe, InPlaceShown
<1>2. Count(mnt) \in Nat
  BY <1>1, TableMounts DEF Rooted
<1>3. QED
  BY <1>1, <1>2, ShapeOptions, PathsHere

\* A step that only adds mounts, before the table is gone through.
LEMMA PlaceGrows ==
  ASSUME PlaceShapes, ~Chroots, ~Chroots', opt'.mode = opt.mode, Grows(mnt, mnt'),
         \A x \in New(mnt, mnt') : Shown(opt.mode, x)
  PROVE  InPlaceShown'
<1>1. AllShown(opt.mode, mnt')
  BY PlaceFacts, AllShownGrows
<1>2. QED
  BY <1>1 DEF InPlaceShown

\* MountOverlayDirAsTmpfs keeps PlaceSafe.
LEMMA StartPlace ==
  ASSUME PlaceShapes, ~Chroots, ~Chroots', MountOverlayDirAsTmpfs
  PROVE  PlaceSafe'
<1> DEFINE x == Mount(tmp_overlayfs, "tmpfs", tmp_overlayfs)
<1>1. /\ pc = "start" /\ pc' = FirstStep /\ Quiet /\ UNCHANGED fixed
      /\ mnt' = IF machine.privileged /\ use_overlayfs THEN Append(mnt, x) ELSE mnt
  BY StartStep
<1>2. Rooted(mnt)
  BY PlaceFacts
<1>3. Mounted(x, tmp_overlayfs, "tmpfs", tmp_overlayfs)
  BY PathsHere, MountIs
<1> HIDE DEF x
<1>4. x \in MountRecord /\ Shown(opt.mode, x)
  BY <1>3 DEF Mounted, Shown
<1>5. Grows(mnt, mnt') /\ \A y \in New(mnt, mnt') : Shown(opt.mode, y)
  <2>1. Grows(mnt, mnt) /\ New(mnt, mnt) = {}
    BY <1>2, GrowsNot
  <2>2. Grows(mnt, Append(mnt, x)) /\ New(mnt, Append(mnt, x)) = {x}
    BY <1>2, <1>4, GrowsByOne
  <2>3. QED
    BY <1>1, <1>4, <2>1, <2>2
<1>6. pc' = "light" /\ opt' = opt
  BY <1>1 DEF FirstStep, fixed, policy
<1>7. InPlaceShown'
  BY <1>5, <1>6, PlaceGrows
<1>8. Remounted' /\ TmpfsInPlaceKept'
  BY <1>6 DEF Remounted, TmpfsInPlaceKept, LastPhase
<1>9. QED
  BY <1>7, <1>8 DEF PlaceSafe

\* LightMode and MountFilesystems keep PlaceSafe.
LEMMA LightPlace ==
  ASSUME PlaceShapes, ~Chroots, ~Chroots', LightMode \/ MountFilesystems
  PROVE  PlaceSafe'
<1>1. Shape
  BY DEF PlaceShapes, SafeShape
<1>2. CASE LightMode
  <2>1. pc' = "filesystems" /\ mnt' = mnt /\ opt'.mode = opt.mode
    BY <1>1, <1>2, LightOptions DEF SameBut
  <2>2. QED
    BY <2>1 DEF PlaceShapes, PlaceSafe, Remounted, TmpfsInPlaceKept, InPlaceShown, AllShown, LastPhase
<1>3. CASE MountFilesystems
  <2>1. pc' \in {"inplacebinds", "died"} /\ mnt' = mnt /\ opt' = opt
    BY <1>3, FilesystemsStep DEF fixed, policy
  <2>2. QED
    BY <2>1 DEF PlaceShapes, PlaceSafe, Remounted, TmpfsInPlaceKept, InPlaceShown, AllShown, LastPhase
<1>4. QED
  BY <1>2, <1>3

\* BindInPlace keeps PlaceSafe.
LEMMA BindInPlacePlace ==
  ASSUME PlaceShapes, ~Chroots, ~Chroots', BindInPlace
  PROVE  PlaceSafe'
<1> DEFINE src == opt.sources[next]
           dst == opt.targets[next]
           m == BindRec(mnt, src, dst)
<1>1. /\ pc = "inplacebinds" /\ Quiet /\ UNCHANGED <<policy, todo>>
      /\ Turn(Count(opt.sources), m, "inplacetmpfs")
  BY BindInPlaceStep
<1>2. /\ Shape /\ Rooted(mnt) /\ next \in Nat \ {0} /\ AllShown(opt.mode, mnt) /\ opt.sources \in Lists
      /\ opt' = opt
  BY <1>1, PlaceFacts DEF policy
<1>3. Grows(mnt, mnt') /\ \A x \in New(mnt, mnt') : Shown(opt.mode, x)
  <2>1. CASE next <= Count(opt.sources) /\ mnt' = m
    <3>1. next \in 1..Count(opt.sources)
      BY <1>2, <2>1, Item
    <3>2. /\ src \in Paths /\ dst \in Paths
          /\ dst = src \/ (opt.mode = "default" /\ src = MINI_SBX_TMP)
      BY <1>2, <3>1, SourcesTargets
    <3> HIDE DEF src, dst
    <3>3. QED
      BY <1>2, <2>1, <3>2, BindShown, GrowsByBind
  <2>2. CASE mnt' = mnt
    BY <1>2, <2>2, GrowsNot
  <2>3. QED
    BY <1>1, <2>1, <2>2 DEF Turn
<1>4. InPlaceShown'
  BY <1>2, <1>3, PlaceGrows
<1>5. pc' \in {"inplacebinds", "died"} \/ (pc' = "inplacetmpfs" /\ next' = 1)
  BY <1>1 DEF Turn
<1>6. Remounted' /\ TmpfsInPlaceKept'
  <2>1. \A j \in 1..Count(opt'.tmpfs_dirs) : ~(j < 1)
    OBVIOUS
  <2>2. QED
    BY <1>5, <2>1 DEF Remounted, TmpfsInPlaceKept, LastPhase, TmpfsCover
<1>7. QED
  BY <1>4, <1>6 DEF PlaceSafe

\* TmpfsInPlace keeps PlaceSafe.
LEMMA TmpfsInPlacePlace ==
  ASSUME PlaceShapes, ~Chroots, ~Chroots', TmpfsInPlace
  PROVE  PlaceSafe'
<1> DEFINE l == opt.tmpfs_dirs
           x == Mount(l[next], "tmpfs", l[next])
<1>1. /\ pc = "inplacetmpfs" /\ Quiet /\ UNCHANGED <<policy, todo>>
      /\ Turn(Count(l), Append(mnt, x), "inplacewritables")
  BY TmpfsInPlaceStep
<1>2. /\ Rooted(mnt) /\ next \in Nat \ {0} /\ l \in Lists /\ opt' = opt
      /\ TmpfsCover(mnt, l, next) /\ Count(l) \in Nat
  BY <1>1, PlaceFacts, ListItems DEF PlaceShapes, PlaceSafe, TmpfsInPlaceKept, policy
<1> HIDE DEF l
<1>3. CASE next <= Count(l) /\ next' = next + 1 /\ mnt' = Append(mnt, x) /\ pc' \in {pc, "died"}
  <2>1. next \in 1..Count(l)
    BY <1>2, <1>3
  <2>2. TmpfsCover(mnt', l, next')
    BY <1>2, <1>3, <2>1, TmpfsCoverMore
  <2>3. l[next] \in Paths
    BY <1>2, <2>1, ListItems
  <2>4. x \in MountRecord /\ x.fs = "tmpfs"
    BY <2>3, MountIs DEF Mounted
  <2> HIDE DEF x
  <2>5. Grows(mnt, mnt') /\ New(mnt, mnt') = {x}
    BY <1>2, <1>3, <2>4, GrowsByOne
  <2>6. \A y \in New(mnt, mnt') : Shown(opt.mode, y)
    BY <2>4, <2>5 DEF Shown
  <2>7. InPlaceShown'
    BY <1>2, <2>5, <2>6, PlaceGrows
  <2>8. Remounted' /\ TmpfsInPlaceKept'
    BY <1>1, <1>2, <1>3, <2>2 DEF Remounted, TmpfsInPlaceKept, LastPhase, l
  <2>9. QED
    BY <2>7, <2>8 DEF PlaceSafe
<1>4. CASE ~(next <= Count(l)) /\ mnt' = mnt /\ pc' = "inplacewritables"
  <2>1. \A t \in ToSet(l) : Cover(mnt, t).fs # "host"
    BY <1>2, <1>4, TmpfsCoverAll
  <2>2. Grows(mnt, mnt') /\ New(mnt, mnt') = {}
    BY <1>2, <1>4, GrowsNot
  <2>3. InPlaceShown'
    BY <1>2, <2>2, PlaceGrows
  <2>4. Remounted' /\ TmpfsInPlaceKept'
    BY <1>2, <1>4, <2>1 DEF Remounted, TmpfsInPlaceKept, LastPhase, Cover, l
  <2>5. QED
    BY <2>3, <2>4 DEF PlaceSafe
<1>5. QED
  BY <1>1, <1>3, <1>4 DEF Turn

\* WritableInPlace keeps PlaceSafe.
LEMMA WritableInPlacePlace ==
  ASSUME PlaceShapes, ~Chroots, ~Chroots', WritableInPlace
  PROVE  PlaceSafe'
<1> DEFINE w == opt.writable_files[next]
           m == BindRec(mnt, w, w)
<1>1. /\ pc = "inplacewritables" /\ Quiet /\ UNCHANGED <<policy, todo>>
      /\ \/ Turn(Count(opt.writable_files), mnt, "inplacecwd")
         \/ Turn(Count(opt.writable_files), m, "inplacecwd")
  BY WritableInPlaceStep
<1>2. /\ Rooted(mnt) /\ next \in Nat \ {0} /\ AllShown(opt.mode, mnt) /\ opt.writable_files \in Lists
      /\ opt' = opt /\ \A t \in ToSet(opt.tmpfs_dirs) : t \in Paths
  BY <1>1, PlaceFacts DEF policy
<1>3. \A t \in ToSet(opt.tmpfs_dirs) : Cover(mnt, t).fs # "host"
  BY <1>1 DEF PlaceShapes, PlaceSafe, TmpfsInPlaceKept
<1>4. /\ Grows(mnt, mnt') /\ \A x \in New(mnt, mnt') : Shown(opt.mode, x)
      /\ \A t \in ToSet(opt.tmpfs_dirs) : Cover(mnt', t).fs # "host"
  <2>1. CASE next <= Count(opt.writable_files) /\ mnt' = m
    <3>1. w \in Paths
      BY <1>2, <2>1, Item
    <3> HIDE DEF w
    <3>2. \A x \in New(mnt, m) : Shown(opt.mode, x)
      BY <1>2, <3>1, BindShown
    <3>3. \A t \in ToSet(opt.tmpfs_dirs) : Cover(m, t).fs = Cover(mnt, t).fs
      BY <1>2, <3>1, SelfBindCovers
    <3>4. Grows(mnt, m)
      BY <1>2, <3>1, GrowsByBind
    <3>5. QED
      BY <1>3, <2>1, <3>2, <3>3, <3>4
  <2>2. CASE mnt' = mnt
    BY <1>2, <1>3, <2>2, GrowsNot
  <2>3. QED
    BY <1>1, <2>1, <2>2 DEF Turn
<1>5. InPlaceShown'
  BY <1>2, <1>4, PlaceGrows
<1>6. pc' \in {"inplacewritables", "inplacecwd", "died"}
  BY <1>1 DEF Turn
<1>7. Remounted' /\ TmpfsInPlaceKept'
  BY <1>2, <1>4, <1>6 DEF Remounted, TmpfsInPlaceKept, LastPhase, Cover
<1>8. QED
  BY <1>5, <1>7 DEF PlaceSafe

\* WorkingDirInPlace keeps PlaceSafe.
LEMMA WorkingDirInPlacePlace ==
  ASSUME PlaceShapes, ~Chroots, ~Chroots', WorkingDirInPlace
  PROVE  PlaceSafe'
<1> DEFINE wd == opt.working_dir
           x == Bound(mnt, wd, wd)
<1>1. /\ pc = "inplacecwd" /\ pc' \in {"remount", "died"} /\ Quiet /\ UNCHANGED fixed
      /\ mnt' = mnt \/ mnt' = Append(mnt, x)
  BY WorkingDirInPlaceStep, BindIs
<1>2. /\ Rooted(mnt) /\ AllShown(opt.mode, mnt) /\ wd \in Paths /\ opt' = opt /\ next' = 1
      /\ \A t \in ToSet(opt.tmpfs_dirs) : t \in Paths
  BY <1>1, PlaceFacts DEF fixed, policy, PlaceShapes, Fresh, FreshPhase
<1>3. \A t \in ToSet(opt.tmpfs_dirs) : Cover(mnt, t).fs # "host"
  BY <1>1 DEF PlaceShapes, PlaceSafe, TmpfsInPlaceKept
<1>4. /\ Mounted(x, wd, Cover(mnt, wd).fs, Locate(mnt, wd).path) /\ Shown(opt.mode, x)
  BY <1>2, BoundIs, BindShown
<1>5. x \in MountRecord /\ x.at = wd /\ x.fs = Cover(mnt, wd).fs
  BY <1>4 DEF Mounted
<1> HIDE DEF x
<1>6. Grows(mnt, mnt') /\ \A y \in New(mnt, mnt') : Shown(opt.mode, y)
  <2>1. Grows(mnt, mnt) /\ New(mnt, mnt) = {}
    BY <1>2, GrowsNot
  <2>2. Grows(mnt, Append(mnt, x)) /\ New(mnt, Append(mnt, x)) = {x}
    BY <1>2, <1>5, GrowsByOne
  <2>3. QED
    BY <1>1, <1>4, <2>1, <2>2
<1>7. InPlaceShown'
  BY <1>2, <1>6, PlaceGrows
<1>8. ASSUME NEW t \in ToSet(opt.tmpfs_dirs) PROVE TmpfsUncovered(mnt', t, wd)
  <2>1. CASE mnt' = mnt
    BY <1>3, <2>1 DEF TmpfsUncovered
  <2>2. CASE mnt' = Append(mnt, x)
    <3>1. Cover(mnt', t) = IF IsPrefix(wd, t) THEN x ELSE Cover(mnt, t)
      BY <1>2, <1>5, <2>2, AppendCovers
    <3>2. CASE ~IsPrefix(wd, t)
      BY <1>3, <3>1, <3>2 DEF TmpfsUncovered
    <3>3. CASE IsPrefix(wd, t)
      <4>1. Cover(mnt', t).at = t => Cover(mnt', t).fs # "host"
        BY <1>3, <1>5, <3>1, <3>3
      <4>2. QED
        BY <3>3, <4>1 DEF TmpfsUncovered
    <3>4. QED
      BY <3>2, <3>3
  <2>3. QED
    BY <1>1, <2>1, <2>2
<1>9. Remounted'
  <2>1. \A j \in 1..Count(mnt') : ~(j < 1)
    OBVIOUS
  <2>2. QED
    BY <1>1, <1>2, <2>1 DEF Remounted, Tame, LastPhase
<1>10. TmpfsInPlaceKept'
  BY <1>1, <1>2, <1>8 DEF TmpfsInPlaceKept, LastPhase, TmpfsUncovered, Cover
<1>11. QED
  BY <1>7, <1>9, <1>10 DEF PlaceSafe

\* One turn of the loop over the table.
LEMMA TameMore ==
  ASSUME NEW o, NEW m, Rooted(m), NEW n \in 1..Count(m), Tame(o, m, n)
  PROVE  /\ ends_with(m[n].at, "proc") => Tame(o, m, n + 1)
         /\ Tame(o, Remount(m, m[n].at, ~Writable(o, m[n].at)), n + 1)
<1> DEFINE at == m[n].at
           ro == ~Writable(o, at)
           b == Remount(m, at, ro)
<1>1. Count(m) \in Nat /\ at \in Paths /\ \A i \in 1..Count(m) : m[i] \in MountRecord
  BY TableMounts, RecordFields DEF Rooted
<1>2. ASSUME ends_with(at, "proc") PROVE Tame(o, m, n + 1)
  <2>1. \A j \in 1..Count(m) : j < n + 1 => j < n \/ j = n
    BY <1>1
  <2>2. Settled(o, m[n])
    BY <1>2 DEF Settled
  <2>3. QED
    BY <2>1, <2>2 DEF Tame
<1> HIDE DEF at
<1>3. ro \in BOOLEAN
  OBVIOUS
<1>4. ro \/ Writable(o, at)
  OBVIOUS
<1> HIDE DEF ro
<1>5. /\ Count(b) = Count(m)
      /\ \A i \in 1..Count(m) : b[i] = IF i = MountOf(m, at) /\ m[i].at = at
                                       THEN Flagged(m[i], ro) ELSE m[i]
  BY <1>1, <1>3, RemountIs
<1>6. \A p \in Paths : MountOf(b, p) = MountOf(m, p)
  BY <1>1, <1>3, RemountCovers
<1> HIDE DEF b
<1>7. \A i \in 1..Count(m) : /\ Mounted(Flagged(m[i], ro), m[i].at, m[i].fs, m[i].dir)
                             /\ HasFlags(Flagged(m[i], ro), m[i].cow,
                                         m[i].ro \/ (ro /\ ~m[i].locked), m[i].carried)
                             /\ Flagged(m[i], ro).locked <=> m[i].locked
  BY <1>1, <1>3, FlaggedIs
<1>8. ASSUME NEW j \in 1..Count(m), j < n + 1, MountOf(b, b[j].at) = j PROVE Settled(o, b[j])
  <2>1. /\ b[j].at = m[j].at /\ b[j].fs = m[j].fs /\ (m[j].ro => b[j].ro)
        /\ b[j].locked <=> m[j].locked
    BY <1>5, <1>7 DEF Mounted, HasFlags
  <2>2. m[j].at \in Paths
    BY <1>1, RecordFields
  <2>3. MountOf(m, m[j].at) = j
    BY <1>6, <1>8, <2>1, <2>2
  <2>4. CASE j = n
    <3>1. b[j] = Flagged(m[j], ro)
      BY <1>5, <2>3, <2>4 DEF at
    <3>2. ro => b[j].ro \/ b[j].locked
      BY <1>7, <3>1 DEF HasFlags
    <3>3. b[j].at = at
      BY <2>1, <2>4 DEF at
    <3>4. QED
      BY <1>4, <3>2, <3>3 DEF Settled
  <2>5. CASE j # n
    <3>1. j < n
      BY <1>1, <1>8, <2>5
    <3>2. Settled(o, m[j])
      BY <2>3, <3>1 DEF Tame
    <3>3. QED
      BY <2>1, <3>2 DEF Settled
  <2>6. QED
    BY <2>4, <2>5
<1>9. Tame(o, b, n + 1)
  BY <1>5, <1>8 DEF Tame
<1>10. QED
  BY <1>2, <1>9 DEF b, ro, at

\* A remount changes nothing that is shown.
LEMMA RemountShown ==
  ASSUME NEW mode, NEW m, Rooted(m), AllShown(mode, m), NEW p \in Paths, NEW ro \in BOOLEAN
  PROVE  AllShown(mode, Remount(m, p, ro))
<1> DEFINE b == Remount(m, p, ro)
<1>1. /\ Count(b) = Count(m)
      /\ \A i \in 1..Count(m) : b[i] = IF i = MountOf(m, p) /\ m[i].at = p
                                       THEN Flagged(m[i], ro) ELSE m[i]
  BY RemountIs
<1>2. \A i \in 1..Count(m) : m[i] \in MountRecord
  BY TableMounts DEF Rooted
<1>3. \A i \in 1..Count(m) : Mounted(Flagged(m[i], ro), m[i].at, m[i].fs, m[i].dir)
  BY <1>2, FlaggedIs
<1> HIDE DEF b
<1>4. \A i \in 1..Count(b) : Shown(mode, b[i])
  BY <1>1, <1>3 DEF AllShown, Shown, Mounted
<1>5. QED
  BY <1>4 DEF AllShown, b

\* MakeFilesystemPartiallyReadOnly keeps PlaceSafe.
LEMMA RemountPlace ==
  ASSUME PlaceShapes, ~Chroots, ~Chroots', MakeFilesystemPartiallyReadOnly
  PROVE  PlaceSafe'
<1> DEFINE at == mnt[next].at
           ro == ~ShouldBeWritable(at)
           r == Remount(mnt, at, ro)
           m == IF ends_with(at, "proc") THEN mnt ELSE r
           wd == opt.working_dir
<1>1. /\ pc = "remount" /\ Quiet /\ UNCHANGED <<policy, todo>> /\ Turn(Count(mnt), m, "proc")
  BY RemountStep
<1>2. /\ Rooted(mnt) /\ next \in Nat \ {0} /\ Count(mnt) \in Nat /\ AllShown(opt.mode, mnt)
      /\ opt' = opt /\ \A t \in ToSet(opt.tmpfs_dirs) : t \in Paths
  BY <1>1, PlaceFacts DEF policy
<1>3. /\ Tame(opt, mnt, next)
      /\ \A t \in ToSet(opt.tmpfs_dirs) : TmpfsUncovered(mnt, t, wd)
  BY <1>1 DEF PlaceShapes, PlaceSafe, Remounted, TmpfsInPlaceKept
<1>4. CASE ~(next <= Count(mnt)) /\ mnt' = mnt /\ pc' = "proc"
  <2>1. Tame(opt, mnt, Count(mnt) + 1)
    <3>1. \A j \in 1..Count(mnt) : j < next
      BY <1>2, <1>4
    <3>2. QED
      BY <1>3, <3>1 DEF Tame
  <2>2. Remounted' /\ InPlaceShown'
    BY <1>2, <1>4, <2>1 DEF Remounted, LastPhase, InPlaceShown, AllShown, Tame
  <2>3. TmpfsInPlaceKept'
    BY <1>2, <1>3, <1>4 DEF TmpfsInPlaceKept, LastPhase, TmpfsUncovered, Cover
  <2>4. QED
    BY <2>2, <2>3 DEF PlaceSafe
<1>5. CASE next <= Count(mnt) /\ next' = next + 1 /\ mnt' = m /\ pc' \in {pc, "died"}
  <2>1. next \in 1..Count(mnt)
    BY <1>2, <1>5
  <2>2. at \in Paths
    BY <1>2, <2>1, TableMounts, RecordFields DEF Rooted
  <2>3. ShouldBeWritable(at) <=> Writable(opt, at)
    BY DEF ShouldBeWritable, Writable
  <2>4. ro \in BOOLEAN /\ ro = ~Writable(opt, at)
    BY <2>3
  <2>5. (ends_with(at, "proc") => Tame(opt, mnt, next + 1)) /\ Tame(opt, r, next + 1)
    BY <1>2, <1>3, <2>1, <2>4, TameMore
  <2> HIDE DEF at, ro
  <2>6. AllShown(opt.mode, r)
    BY <1>2, <2>2, <2>4, RemountShown
  <2>7. \A t \in ToSet(opt.tmpfs_dirs) :
          Cover(r, t).fs = Cover(mnt, t).fs /\ Cover(r, t).at = Cover(mnt, t).at
    <3>1. ro \in BOOLEAN
      BY <2>4
    <3>2. ASSUME NEW t \in ToSet(opt.tmpfs_dirs)
          PROVE  Cover(r, t).fs = Cover(mnt, t).fs /\ Cover(r, t).at = Cover(mnt, t).at
      BY <1>2, <2>2, <3>1, RemountCovers
    <3>3. QED
      BY <3>2
  <2>8. \A t \in ToSet(opt.tmpfs_dirs) : TmpfsUncovered(r, t, wd)
    BY <1>3, <2>7 DEF TmpfsUncovered
  <2> HIDE DEF r
  <2>9. /\ Tame(opt, mnt', next') /\ AllShown(opt.mode, mnt')
        /\ \A t \in ToSet(opt.tmpfs_dirs) : TmpfsUncovered(mnt', t, wd)
    BY <1>2, <1>3, <1>5, <2>5, <2>6, <2>8
  <2>10. Remounted'
    BY <1>1, <1>2, <1>5, <2>9 DEF Remounted, LastPhase
  <2>11. InPlaceShown' /\ TmpfsInPlaceKept'
    BY <1>1, <1>2, <1>5, <2>9 DEF LastPhase, InPlaceShown, TmpfsInPlaceKept
  <2>12. QED
    BY <2>10, <2>11 DEF PlaceSafe
<1>6. QED
  BY <1>1, <1>4, <1>5 DEF Turn

\* Mounts that are added and settled leave the rest as it is.
LEMMA TameGrows ==
  ASSUME NEW o, NEW m, Rooted(m), Tame(o, m, Count(m) + 1), NEW b, Grows(m, b),
         \A x \in New(m, b) : Settled(o, x)
  PROVE  Tame(o, b, Count(b) + 1)
<1>1. Count(m) \in Nat /\ Count(b) \in Nat /\ \A i \in 1..Count(m) : m[i] \in MountRecord
  BY TableMounts DEF Rooted, Grows
<1>2. ASSUME NEW j \in 1..Count(b), MountOf(b, b[j].at) = j PROVE Settled(o, b[j])
  <2>1. CASE j \in 1..Count(m)
    <3>1. b[j] = m[j] /\ m[j].at \in Paths
      BY <1>1, <2>1, RecordFields DEF Grows
    <3>2. CASE MountOf(b, m[j].at) = MountOf(m, m[j].at)
      <4>1. j < Count(m) + 1
        BY <1>1, <2>1
      <4>2. QED
        BY <1>2, <2>1, <3>1, <3>2, <4>1 DEF Tame
    <3>3. CASE Cover(b, m[j].at) \in New(m, b)
      BY <1>2, <3>1, <3>3 DEF Cover
    <3>4. QED
      BY <3>1, <3>2, <3>3, GrowsCover
  <2>2. CASE j \notin 1..Count(m)
    <3>1. j \in (Count(m) + 1)..Count(b)
      BY <1>1, <1>2, <2>2
    <3>2. b[j] \in New(m, b)
      BY <3>1 DEF New
    <3>3. QED
      BY <3>2
  <2>3. QED
    BY <2>1, <2>2
<1>3. QED
  BY <1>2 DEF Tame

\* The last steps, which add mounts that are settled and show what they are at.
LEMMA LastPlace ==
  ASSUME PlaceShapes, ~Chroots, ~Chroots', opt' = opt, pc \in {"proc"} \cup LastPhase,
         pc' \in {"died"} \cup LastPhase, Grows(mnt, mnt'),
         \A x \in New(mnt, mnt') :
           /\ x \in MountRecord /\ Shown(opt.mode, x) /\ Settled(opt, x)
           /\ x.fs # "host" \/ \A t \in Dirs : ~IsPrefix(x.at, t)
  PROVE  PlaceSafe'
<1> DEFINE wd == opt.working_dir
<1>1. Rooted(mnt) /\ \A t \in ToSet(opt.tmpfs_dirs) : t \in Paths /\ t \in Dirs
  BY PlaceFacts
<1>2. Rooted(mnt')
  BY DEF Grows
<1>3. InPlaceShown'
  BY PlaceGrows
<1>4. /\ Tame(opt, mnt, Count(mnt) + 1)
      /\ \A t \in ToSet(opt.tmpfs_dirs) : TmpfsUncovered(mnt, t, wd)
  BY DEF PlaceShapes, PlaceSafe, Remounted, TmpfsInPlaceKept
<1>5. Tame(opt, mnt', Count(mnt') + 1)
  BY <1>1, <1>4, TameGrows
<1>6. ASSUME NEW t \in ToSet(opt.tmpfs_dirs) PROVE TmpfsUncovered(mnt', t, wd)
  <2>1. CASE Cover(mnt', t) = Cover(mnt, t)
    BY <1>4, <2>1 DEF TmpfsUncovered
  <2>2. CASE Cover(mnt', t) \in New(mnt, mnt')
    <3>1. IsPrefix(Cover(mnt', t).at, t)
      BY <1>1, <1>2, RootCovers DEF Covers, Cover
    <3>2. Cover(mnt', t).fs # "host"
      BY <1>1, <2>2, <3>1
    <3>3. QED
      BY <3>2 DEF TmpfsUncovered
  <2>3. QED
    BY <1>1, <2>1, <2>2, GrowsCover
<1>7. pc' \notin {"remount", "proc", "inplacetmpfs", "inplacewritables", "inplacecwd"}
  BY DEF LastPhase
<1>8. Remounted'
  BY <1>5, <1>7 DEF Remounted
<1>9. TmpfsInPlaceKept'
  BY <1>6, <1>7 DEF TmpfsInPlaceKept
<1>10. QED
  BY <1>3, <1>8, <1>9 DEF PlaceSafe

\* MountProcAndSys keeps PlaceSafe.
LEMMA ProcPlace ==
  ASSUME PlaceShapes, ~Chroots, ~Chroots', MountProcAndSys
  PROVE  PlaceSafe'
<1>1. Shape /\ mnt \in Tables
  BY PlaceFacts DEF Rooted
<1>2. pc = "proc" /\ pc' = "chdir" /\ opt' = opt
  BY <1>1, ProcStep DEF PolicyStep, fixed, policy
<1>3. Grows(mnt, mnt') /\ \A x \in New(mnt, mnt') : x = ProcMount \/ x = SysMount
  BY <1>1, ProcGrows
<1>4. \A x \in New(mnt, mnt') : x \in MountRecord /\ x.fs # "host"
  BY <1>3, ProcMounts DEF Mounted
<1>5. \A x \in New(mnt, mnt') : Shown(opt.mode, x) /\ Settled(opt, x)
  BY <1>4 DEF Shown, Settled
<1>6. QED
  BY <1>2, <1>3, <1>4, <1>5, LastPlace DEF LastPhase

\* EnterWorkingDirectory keeps PlaceSafe.
LEMMA ChdirPlace ==
  ASSUME PlaceShapes, ~Chroots, ~Chroots', EnterWorkingDirectory
  PROVE  PlaceSafe'
<1>1. pc = "chdir" /\ pc' \in {"init", "died"} /\ mnt' = mnt /\ opt' = opt
  BY ChdirStep DEF fixed, policy
<1>2. Grows(mnt, mnt') /\ New(mnt, mnt') = {}
  BY <1>1, PlaceFacts, GrowsNot
<1>3. QED
  BY <1>1, <1>2, LastPlace DEF LastPhase

\* InitDone keeps PlaceSafe.
LEMMA InitFilePlace ==
  ASSUME PlaceShapes, ~Chroots, ~Chroots', InitDone
  PROVE  PlaceSafe'
<1> DEFINE p == MINISBX_TMP_INIT
<1>1. pc = "init" /\ pc' \in {"done", "died"} /\ opt' = opt
  BY InitStep DEF fixed, policy
<1>2. Rooted(mnt) /\ AllShown(opt.mode, mnt) /\ p \in Paths /\ \A t \in Dirs : ~IsPrefix(p, t)
  BY PlaceFacts, PathsHere, MountAssumption DEF isSubpath
<1>3. /\ Grows(mnt, mnt') /\ (New(mnt, mnt') = {} \/ New(mnt, mnt') = {InitMount})
      /\ Mounted(InitMount, p, Cover(mnt, p).fs, Locate(mnt, p).path)
      /\ New(mnt, mnt') = {InitMount} => InitMount.ro
  BY <1>2, InitGrows
<1>4. Shown(opt.mode, Bound(mnt, p, p)) /\ Mounted(Bound(mnt, p, p), p, Cover(mnt, p).fs, Locate(mnt, p).path)
  BY <1>2, BindShown, BoundIs
<1>5. Shown(opt.mode, InitMount)
  BY <1>3, <1>4 DEF Shown, Mounted
<1>6. /\ InitMount \in MountRecord /\ InitMount.at = p
      /\ New(mnt, mnt') = {InitMount} => Settled(opt, InitMount)
  BY <1>3 DEF Mounted, Settled
<1>7. \A x \in New(mnt, mnt') :
        /\ x \in MountRecord /\ Shown(opt.mode, x) /\ Settled(opt, x)
        /\ x.fs # "host" \/ \A t \in Dirs : ~IsPrefix(x.at, t)
  BY <1>2, <1>3, <1>5, <1>6
<1>8. QED
  BY <1>1, <1>3, <1>7, LastPlace DEF LastPhase

\* A system call that fails keeps PlaceSafe.
LEMMA StayPlace ==
  ASSUME PlaceShapes, ~Chroots, ~Chroots', SystemCallFails \/ UNCHANGED vars
  PROVE  PlaceSafe'
<1>1. CASE SystemCallFails
  <2>1. pc' = "died" /\ mnt' = mnt /\ opt' = opt
    BY <1>1 DEF SystemCallFails
  <2>2. QED
    BY <2>1 DEF PlaceShapes, PlaceSafe, Remounted, TmpfsInPlaceKept, InPlaceShown, AllShown, LastPhase
<1>2. CASE UNCHANGED vars
  <2>1. UNCHANGED <<pc, mnt, opt, next>>
    BY <1>2 DEF vars
  <2>2. Remounted' /\ InPlaceShown'
    BY <2>1 DEF PlaceShapes, PlaceSafe, Remounted, InPlaceShown, AllShown, Tame
  <2>3. TmpfsInPlaceKept'
    BY <2>1 DEF PlaceShapes, PlaceSafe, TmpfsInPlaceKept, TmpfsCover, TmpfsUncovered, Cover
  <2>4. QED
    BY <2>2, <2>3 DEF PlaceSafe
<1>3. QED
  BY <1>1, <1>2

\* Every step keeps PlaceShapes.
LEMMA StepPlace ==
  ASSUME PlaceShapes, [Next]_vars
  PROVE  PlaceShapes'
<1>1. SafeShape' /\ Fresh'
  BY StepSafe, StepFresh DEF PlaceShapes, SafeShape
<1>2. Chroots' <=> Chroots
  BY <1>1, ChrootsStays DEF PlaceShapes, SafeShape
<1>3. CASE Chroots
  BY <1>1, <1>2, <1>3 DEF PlaceShapes, PlaceSafe, Remounted, InPlaceShown, TmpfsInPlaceKept
<1>4. CASE ~Chroots
  <2>1. pc \notin {"root", "dev", "workingdir", "leftover", "overlayfirst", "tmpfs", "binds",
                   "readonly", "overlays", "writables", "cwd", "rest", "home", "pivot"}
    BY <1>4, InRootChroots DEF PlaceShapes, SafeShape
  <2>2. CASE MountSandboxAndGoThere \/ MountDev \/ MountWorkingDirMountPoint
             \/ AddLeftoverFoldersToReadOnlyPaths \/ MountAllTmpfs \/ MountBinds \/ MountReadOnly
             \/ MountAllOverlayFs \/ MountWritables \/ MountWorkingDir \/ MountRest \/ MakeEmptyHome
             \/ ChangeRoot
    BY <2>1, <2>2 DEF MountSandboxAndGoThere, MountDev, MountWorkingDirMountPoint,
       AddLeftoverFoldersToReadOnlyPaths, MountAllTmpfs, MountBinds, MountReadOnly,
       MountAllOverlayFs, MountWritables, MountWorkingDir, MountRest, MakeEmptyHome, ChangeRoot
  <2>3. CASE MountOverlayDirAsTmpfs
    BY <1>1, <1>2, <1>4, <2>3, StartPlace DEF PlaceShapes
  <2>4. CASE LightMode \/ MountFilesystems
    BY <1>1, <1>2, <1>4, <2>4, LightPlace DEF PlaceShapes
  <2>5. CASE BindInPlace
    BY <1>1, <1>2, <1>4, <2>5, BindInPlacePlace DEF PlaceShapes
  <2>6. CASE TmpfsInPlace
    BY <1>1, <1>2, <1>4, <2>6, TmpfsInPlacePlace DEF PlaceShapes
  <2>7. CASE WritableInPlace
    BY <1>1, <1>2, <1>4, <2>7, WritableInPlacePlace DEF PlaceShapes
  <2>8. CASE WorkingDirInPlace
    BY <1>1, <1>2, <1>4, <2>8, WorkingDirInPlacePlace DEF PlaceShapes
  <2>9. CASE MakeFilesystemPartiallyReadOnly
    BY <1>1, <1>2, <1>4, <2>9, RemountPlace DEF PlaceShapes
  <2>10. CASE MountProcAndSys
    BY <1>1, <1>2, <1>4, <2>10, ProcPlace DEF PlaceShapes
  <2>11. CASE EnterWorkingDirectory
    BY <1>1, <1>2, <1>4, <2>11, ChdirPlace DEF PlaceShapes
  <2>12. CASE InitDone
    BY <1>1, <1>2, <1>4, <2>12, InitFilePlace DEF PlaceShapes
  <2>13. CASE SystemCallFails \/ UNCHANGED vars
    BY <1>1, <1>2, <1>4, <2>13, StayPlace DEF PlaceShapes
  <2>14. QED
    BY <2>2, <2>3, <2>4, <2>5, <2>6, <2>7, <2>8, <2>9, <2>10, <2>11, <2>12, <2>13
       DEF Next, Finished
<1>5. QED
  BY <1>3, <1>4

\* PlaceShapes holds when pid1 starts.
LEMMA InitPlace ==
  ASSUME Init
  PROVE  PlaceShapes
<1>1. SafeShape /\ Fresh
  BY InitSafe
<1>2. pc = "start" /\ \A i \in 1..Count(mnt) : mnt[i].dir = mnt[i].at
  BY InitMounts
<1>3. Remounted /\ TmpfsInPlaceKept
  BY <1>2 DEF Remounted, TmpfsInPlaceKept, LastPhase
<1>4. InPlaceShown
  BY <1>2 DEF InPlaceShown, AllShown, Shown
<1>5. QED
  BY <1>1, <1>3, <1>4 DEF PlaceShapes, PlaceSafe

\* What the invariant says of a path that can be written.
LEMMA ExposedCopied ==
  ASSUME PlaceShapes, Done, NEW p \in Dirs \cup Files, Exposed(p)
  PROVE  Copied(p) \/ Locked(p)
<1> DEFINE x == Cover(mnt, p)
<1>1. Rooted(mnt) /\ p \in Paths
  BY NextNumber, PathsHere DEF PlaceShapes, SafeShape
<1>2. /\ x \in MountRecord /\ Covers(mnt, MountOf(mnt, p), p) /\ IsPrefix(x.dir, Locate(mnt, p).path)
      /\ Locate(mnt, p).path \in Paths /\ x.dir \in Paths /\ x.at \in Paths
  BY <1>1, RootCovers, LocateIs, RecordFields
<1>3. /\ Locate(mnt, p).fs = "host" /\ ~x.cow /\ ~x.ro
      /\ ~\E g \in Granted : IsPrefix(g, Locate(mnt, p).path)
      /\ ~LooselyNamed(x.at) /\ ~LooselyNamed(x.dir)
  BY DEF Exposed, WritesHost, OnHost, Cover, isSubpath
<1>4. x.fs = "host"
  BY <1>1, <1>3, LocateIs
<1>5. ~\E g \in Granted : g \in Paths /\ IsPrefix(g, x.dir)
  BY <1>2, <1>3, PathTransitive
<1>6. \A g \in Granted : g \in Paths
  <2>1. \A g \in ToSet(opt.writable_files) \cup {opt.working_dir} : g \in Paths
    BY ShapeOptions, ListItems DEF PlaceShapes, SafeShape
  <2>2. QED
    BY <2>1, PathsHere DEF Granted
<1>7. ~\E g \in Granted : IsPrefix(g, x.dir)
  BY <1>5, <1>6
<1>8. MountOf(mnt, p) \in 1..Count(mnt) /\ pc \in LastPhase
  BY <1>2 DEF Covers, Done, LastPhase
<1>9. CASE Chroots
  <2>1. Safe(Granted, x, x.at)
    BY <1>8, <1>9 DEF PlaceShapes, SafeShape, SafeInRoot, Cover
  <2>2. x.carried \/ x.locked
    BY <1>3, <1>4, <1>7, <2>1 DEF Safe
  <2>3. QED
    BY <1>9, <2>2 DEF Copied, Locked, Cover
<1>10. CASE ~Chroots /\ x.locked
  BY <1>10 DEF Locked, Cover
<1>11. CASE ~Chroots /\ ~x.locked
  <2> DEFINE j == MountOf(mnt, p)
  <2>1. j \in 1..Count(mnt) /\ mnt[j] = x /\ Count(mnt) \in Nat /\ IsPrefix(x.at, x.at)
        /\ IsPrefix(x.at, p)
    BY <1>1, <1>2, <1>8, TableMounts, PathRoot DEF Rooted, Cover, Covers
  <2>2. Covers(mnt, j, x.at)
    <3>1. ASSUME NEW k \in 1..Count(mnt), k > j, IsPrefix(mnt[k].at, x.at) PROVE FALSE
      <4>1. mnt[k].at \in Paths
        BY <1>1, TableMounts, RecordFields DEF Rooted
      <4>2. IsPrefix(mnt[k].at, p)
        BY <1>1, <1>2, <2>1, <3>1, <4>1, PathTransitive
      <4>3. QED
        BY <1>2, <3>1, <4>2 DEF Covers
    <3>2. QED
      BY <2>1, <3>1 DEF Covers
  <2>3. MountOf(mnt, x.at) = j
    BY <2>1, <2>2, CoversUnique
  <2>4. Settled(opt, x)
    <3>1. Tame(opt, mnt, Count(mnt) + 1)
      BY <1>8, <1>11 DEF PlaceShapes, PlaceSafe, Remounted
    <3>2. QED
      BY <2>1, <2>3, <3>1 DEF Tame
  <2>5. Writable(opt, x.at)
    BY <1>3, <1>4, <1>11, <2>4 DEF Settled, LooselyNamed
  <2>6. x.at \notin ToSet(opt.tmpfs_dirs)
    <3>1. SUFFICES ASSUME x.at \in ToSet(opt.tmpfs_dirs) PROVE FALSE
      OBVIOUS
    <3>2. TmpfsUncovered(mnt, x.at, opt.working_dir)
      BY <1>8, <1>11, <3>1 DEF PlaceShapes, PlaceSafe, TmpfsInPlaceKept
    <3>3. Cover(mnt, x.at) = x
      BY <2>1, <2>3 DEF Cover
    <3> HIDE DEF x
    <3>4. QED
      BY <1>4, <3>2, <3>3 DEF TmpfsUncovered
  <2>7. x.at \in Granted
    BY <1>3, <2>5, <2>6, GrantsAre DEF Writable
  <2>8. Shown(opt.mode, x)
    BY <1>11, <2>1, PlaceFacts DEF AllShown
  <2>9. x.dir # x.at
    BY <1>7, <2>1, <2>7
  <2>10. opt.mode = "default" /\ IsPrefix(MINI_SBX_TMP, x.dir)
    BY <1>4, <2>8, <2>9 DEF Shown
  <2>11. QED
    BY <1>7, <2>10, GrantsAre
<1>12. QED
  BY <1>9, <1>10, <1>11

\* For every machine, every set of options that is accepted and every order of the
\* mounts they lead to: once pid1 has set the sandbox up, a write in it reaches a
\* file of the host only below the working directory and the writable paths, where
\* the name of a mount lets it, through a mount of the host whose flags the kernel
\* does not change, or, with a root of its own, through one that a recursive bind
\* has copied with its flags.
THEOREM RestIsProtected == Spec => []RestProtected
<1>1. Init => PlaceShapes
  BY InitPlace
<1>2. PlaceShapes /\ [Next]_vars => PlaceShapes'
  BY StepPlace
<1>3. PlaceShapes => RestProtected
  BY ExposedCopied DEF RestProtected
<1>4. QED
  BY <1>1, <1>2, <1>3, PTL DEF Spec

(***************************************************************************)
(* Nothing is mounted on top of the sandbox's root, unless the root        *)
(* directory is among the paths to be mounted there.                       *)
(***************************************************************************)

Alone(m) == \A i, j \in 1..Count(m) : m[i].at = sandbox_root /\ m[j].at = sandbox_root => i = j

RootTop == Chroots /\ pc \in InRootPhase /\ ~RootCovered => Alone(mnt)

\* The root directory is not among the directories found on the way.
NoRoot == <<>> \notin ReadOnlyPaths /\ <<>> \notin todo

\* Mounts elsewhere leave the root alone.
LEMMA AloneGrows ==
  ASSUME NEW m, Rooted(m), Alone(m), NEW b, Grows(m, b), \A x \in New(m, b) : x.at # sandbox_root
  PROVE  Alone(b)
<1>1. Count(m) \in Nat /\ Count(b) \in Nat
  BY TableMounts DEF Rooted, Grows
<1>2. ASSUME NEW i \in 1..Count(b), b[i].at = sandbox_root
      PROVE  i \in 1..Count(m) /\ m[i].at = sandbox_root
  <2>1. CASE i \in 1..Count(m)
    BY <1>2, <2>1 DEF Grows
  <2>2. CASE i \notin 1..Count(m)
    <3>1. i \in (Count(m) + 1)..Count(b)
      BY <1>1, <1>2, <2>2
    <3>2. b[i] \in New(m, b)
      BY <3>1 DEF New
    <3>3. QED
      BY <1>2, <3>2
  <2>3. QED
    BY <2>1, <2>2
<1>3. QED
  BY <1>2 DEF Alone

\* Only the root directory itself is at the sandbox root.
LEMMA InRootOther ==
  ASSUME NEW p \in Paths, p # <<>>
  PROVE  InRoot(p) # sandbox_root
<1>1. sandbox_root \in Paths /\ <<>> \in Paths /\ Join(sandbox_root, <<>>) = sandbox_root
  BY PathsHere, PathRoot
<1>2. QED
  BY <1>1, PathCancel DEF InRoot

\* One more mount, not at the sandbox root.
LEMMA OneAlone ==
  ASSUME NEW m, Rooted(m), NEW x \in MountRecord, x.at # sandbox_root, Alone(m)
  PROVE  Alone(Append(m, x))
<1>1. Grows(m, Append(m, x)) /\ New(m, Append(m, x)) = {x}
  BY GrowsByOne
<1>2. QED
  BY <1>1, AloneGrows

\* A bind into the sandbox's root, but not at it.
LEMMA BindAlone ==
  ASSUME NEW m, Rooted(m), NEW src \in Paths, NEW d \in Paths, d # <<>>, NEW ro \in BOOLEAN, Alone(m)
  PROVE  /\ Alone(BindRec(m, src, InRoot(d)))
         /\ Alone(Remount(BindRec(m, src, InRoot(d)), InRoot(d), ro))
<1> DEFINE dst == InRoot(d)
           y == Bound(m, src, dst)
<1>1. dst \in Paths /\ IsPrefix(sandbox_root, dst) /\ dst # sandbox_root /\ sandbox_root \in Paths
  BY InRootPath, InRootOther, PathsHere
<1> HIDE DEF dst
<1>2. y \in MountRecord /\ y.at = dst
  BY <1>1, BoundIs DEF Mounted
<1> HIDE DEF y
<1>3. Flagged(y, ro).at = dst
  BY <1>2, FlaggedIs DEF Mounted
<1>4. ASSUME NEW i \in 1..Count(m), Below(m, src, i) PROVE Brought(m, src, dst, i).at # sandbox_root
  <2>1. Brought(m, src, dst, i).at \in Paths /\ IsPrefix(dst, Brought(m, src, dst, i).at)
    BY <1>1, <1>4, BroughtIs DEF IsStrictPrefix
  <2>2. QED
    BY <1>1, <2>1, PathAntisymmetric
<1>5. /\ Grows(m, BindRec(m, src, dst))
      /\ \A x \in New(m, BindRec(m, src, dst)) : x.at # sandbox_root
  <2>1. /\ Grows(m, BindRec(m, src, dst))
        /\ \A x \in New(m, BindRec(m, src, dst)) :
             x = y \/ \E i \in 1..Count(m) : Below(m, src, i) /\ x = Brought(m, src, dst, i)
    BY <1>1, GrowsByBind DEF y
  <2>2. QED
    BY <1>1, <1>2, <1>4, <2>1
<1>6. /\ Grows(m, Remount(BindRec(m, src, dst), dst, ro))
      /\ \A x \in New(m, Remount(BindRec(m, src, dst), dst, ro)) : x.at # sandbox_root
  <2>1. /\ Grows(m, Remount(BindRec(m, src, dst), dst, ro))
        /\ \A x \in New(m, Remount(BindRec(m, src, dst), dst, ro)) :
             \/ x = Flagged(y, ro)
             \/ \E i \in 1..Count(m) : Below(m, src, i) /\ x = Brought(m, src, dst, i)
    BY <1>1, GrowsByRemount DEF y
  <2>2. QED
    BY <1>1, <1>3, <1>4, <2>1
<1>7. QED
  BY <1>5, <1>6, AloneGrows DEF dst

\* A step in the root keeps RootTop if it leaves the root alone.
LEMMA AloneStep ==
  ASSUME RootTop, Chroots, Quiet, SameBut(opt, opt'), pc \in InRootPhase,
         ToSet(opt.overlayfsmount) \subseteq ToSet(opt'.overlayfsmount),
         ToSet(opt.writable_files) \subseteq ToSet(opt'.writable_files),
         ~RootCovered /\ Alone(mnt) => Alone(mnt')
  PROVE  RootTop'
<1>1. RootCovered => RootCovered'
  BY DEF RootCovered, SameBut, Chroots, Quiet
<1>2. CASE RootCovered
  BY <1>1, <1>2 DEF RootTop
<1>3. CASE ~RootCovered
  <2>1. Alone(mnt')
    BY <1>3 DEF RootTop
  <2>2. QED
    BY <2>1 DEF RootTop, Alone
<1>4. QED
  BY <1>2, <1>3

\* The same for a turn of a loop.
LEMMA AloneTurn ==
  ASSUME RootTop, Chroots, Quiet, Shape, UNCHANGED policy, pc \in InRootPhase,
         NEW n, NEW m, NEW after, Turn(n, m, after),
         next <= n /\ ~RootCovered /\ Alone(mnt) => Alone(m)
  PROVE  RootTop'
<1>1. opt' = opt /\ SameBut(opt, opt')
  BY ShapeOptions DEF policy, SameBut
<1>2. ~RootCovered /\ Alone(mnt) => Alone(mnt')
  BY DEF Turn
<1>3. QED
  BY <1>1, <1>2, AloneStep

\* MountSandboxAndGoThere makes the first mount at the sandbox root.
LEMMA RootAlone ==
  ASSUME Shape, Chroots, MountSandboxAndGoThere
  PROVE  RootTop'
<1> DEFINE x == Bound(mnt, sandbox_root, sandbox_root)
           N == Count(mnt)
<1>1. pc = "root" /\ mnt' = Append(mnt, x)
  BY RootStep, BindIs
<1>2. Rooted(mnt) /\ sandbox_root \in Paths /\ IsPrefix(sandbox_root, sandbox_root) /\ N \in Nat
  BY NextNumber, PathsHere, PathRoot, TableMounts DEF Rooted
<1>3. x \in MountRecord
  BY <1>2, BoundIs DEF Mounted
<1> HIDE DEF x
<1>4. \A i \in 1..N : mnt[i].at # sandbox_root
  BY <1>1, <1>2 DEF Shape, RootFirst
<1>5. Count(mnt') = N + 1 /\ \A i \in 1..N : mnt'[i] = mnt[i]
  BY <1>1, <1>2, <1>3, TableAppend DEF Rooted
<1>6. \A i \in 1..Count(mnt') : mnt'[i].at = sandbox_root => i = N + 1
  BY <1>2, <1>4, <1>5
<1>7. Alone(mnt')
  BY <1>6 DEF Alone
<1>8. QED
  BY <1>7 DEF RootTop, Alone

\* The steps before the policy's mounts keep RootTop.
LEMMA EarlyAlone ==
  ASSUME Shape, RootTop, Chroots,
         MountDev \/ MountProcAndSys \/ MountWorkingDirMountPoint
           \/ AddLeftoverFoldersToReadOnlyPaths \/ MakeEmptyHome
  PROVE  RootTop'
<1>1. Rooted(mnt) /\ mnt \in Tables /\ opt \in Option /\ SameBut(opt, opt)
  BY NextNumber, ShapeOptions
<1>2. CASE MountDev
  <2> DEFINE x == Bound(mnt, NULL, InRoot(NULL))
  <2>1. pc = "dev" /\ mnt' = Append(mnt, x) /\ Quiet /\ opt' = opt
    BY <1>2, DevStep, BindIs DEF fixed, policy
  <2>2. NULL \in Paths /\ NULL # <<>> /\ InRoot(NULL) \in Paths
    BY PathsHere, InRootPath DEF NULL
  <2>3. x \in MountRecord /\ x.at = InRoot(NULL)
    BY <1>1, <2>2, BoundIs DEF Mounted
  <2> HIDE DEF x
  <2>4. Alone(mnt) => Alone(mnt')
    BY <1>1, <2>1, <2>2, <2>3, InRootOther, OneAlone
  <2>5. QED
    BY <1>1, <2>1, <2>4, AloneStep DEF InRootPhase
<1>3. CASE MountProcAndSys
  <2>1. pc = "proc" /\ Quiet /\ opt' = opt
    BY <1>1, <1>3, ProcStep DEF fixed, policy
  <2>2. Grows(mnt, mnt') /\ \A x \in New(mnt, mnt') : x = ProcMount \/ x = SysMount
    BY <1>3, ProcGrows
  <2>3. ProcMount.at # sandbox_root /\ SysMount.at # sandbox_root
    BY ProcMounts, PathsHere, PathRoot DEF Mounted
  <2>4. Alone(mnt) => Alone(mnt')
    BY <1>1, <2>2, <2>3, AloneGrows
  <2>5. QED
    BY <1>1, <2>1, <2>4, AloneStep DEF InRootPhase
<1>4. CASE MountWorkingDirMountPoint
  BY <1>4, ParentsOptions, AloneStep DEF InRootPhase
<1>5. CASE AddLeftoverFoldersToReadOnlyPaths
  BY <1>1, <1>5, LeftoverStep, AloneStep DEF InRootPhase
<1>6. CASE MakeEmptyHome
  <2>1. pc = "home" /\ mnt' = mnt /\ Quiet /\ opt' = opt
    BY <1>6, HomeStep DEF fixed, policy
  <2>2. QED
    BY <1>1, <2>1, AloneStep DEF InRootPhase
<1>7. QED
  BY <1>2, <1>3, <1>4, <1>5, <1>6

\* MountAllTmpfs keeps RootTop.
LEMMA TmpfsAlone ==
  ASSUME Shape, RootTop, Chroots, MountAllTmpfs
  PROVE  RootTop'
<1> DEFINE t == opt.tmpfs_dirs[next]
           x == Mount(t, "tmpfs", t)
<1>1. /\ pc = "tmpfs" /\ Quiet /\ UNCHANGED <<policy, todo>>
      /\ \/ mnt' = mnt /\ pc' = "died"
         \/ Turn(Count(opt.tmpfs_dirs), Append(mnt, x), "binds")
  BY TmpfsStep
<1>2. ASSUME next <= Count(opt.tmpfs_dirs), Alone(mnt) PROVE Alone(Append(mnt, x))
  <2>1. t \in ToSet(opt.tmpfs_dirs) /\ t \in Paths
    BY <1>2, ShapeOptions, NextNumber, Item
  <2>2. t # sandbox_root
    BY <2>1, ShapeOptions, PathsHere, PathRoot
  <2> HIDE DEF t
  <2>3. x \in MountRecord /\ x.at = t
    BY <2>1, MountIs DEF Mounted
  <2> HIDE DEF x
  <2>4. QED
    BY <1>2, <2>2, <2>3, NextNumber, OneAlone
<1> HIDE DEF x
<1>3. CASE mnt' = mnt /\ pc' = "died"
  BY <1>3 DEF RootTop, InRootPhase
<1>4. CASE Turn(Count(opt.tmpfs_dirs), Append(mnt, x), "binds")
  BY <1>1, <1>2, <1>4, AloneTurn DEF InRootPhase
<1>5. QED
  BY <1>1, <1>3, <1>4

\* MountBinds keeps RootTop.
LEMMA BindsAlone ==
  ASSUME Shape, RootTop, Chroots, MountBinds
  PROVE  RootTop'
<1> DEFINE src == opt.sources[next]
           dst == opt.targets[next]
           ro == ~ShouldBeWritable(src) /\ ~ShouldBeWritable(InRoot(dst))
           m == Remount(BindRec(mnt, src, InRoot(dst)), InRoot(dst), ro)
<1>1. pc = "binds" /\ Quiet /\ UNCHANGED policy /\ Turn(Count(opt.sources), m, "readonly")
  BY BindsStep DEF RemountedBind
<1>2. ro \in BOOLEAN
  OBVIOUS
<1> HIDE DEF ro
<1>3. ASSUME next <= Count(opt.sources), ~RootCovered, Alone(mnt) PROVE Alone(m)
  <2>1. src \in Paths /\ dst \in Paths /\ dst \in ToSet(opt.targets)
    BY <1>3, ShapeOptions, NextNumber, Item
  <2>2. dst # <<>>
    BY <1>3, <2>1 DEF RootCovered
  <2>3. QED
    BY <1>2, <1>3, <2>1, <2>2, NextNumber, BindAlone
<1> HIDE DEF m
<1>4. QED
  BY <1>1, <1>3, AloneTurn DEF InRootPhase

\* MountReadOnly keeps RootTop.
LEMMA ReadOnlyAlone ==
  ASSUME Shape, RootTop, NoRoot, Chroots, MountReadOnly
  PROVE  RootTop'
<1>1. /\ pc = "readonly" /\ Quiet /\ UNCHANGED <<policy, next>>
      /\ \/ mnt' = mnt
         \/ \E p : /\ todo # {} /\ mnt' = RemountedBind(p, InRoot(p))
                   /\ p = CHOOSE q \in todo : ~\E r \in todo : IsStrictPrefix(r, q)
  BY ReadOnlyStep
<1>2. Rooted(mnt) /\ todo \subseteq Paths /\ opt' = opt /\ SameBut(opt, opt')
  BY <1>1, NextNumber, ShapeOptions, PathsHere DEF Shape, TypeOK, policy, SameBut
<1>3. ASSUME Alone(mnt), NEW p, todo # {}, mnt' = RemountedBind(p, InRoot(p)),
             p = CHOOSE q \in todo : ~\E r \in todo : IsStrictPrefix(r, q)
      PROVE  Alone(mnt')
  <2> DEFINE ro == ~ShouldBeWritable(p) /\ ~ShouldBeWritable(InRoot(p))
  <2>1. p \in todo /\ p \in Paths /\ p # <<>>
    BY <1>2, <1>3, FirstPath DEF NoRoot
  <2>2. mnt' = Remount(BindRec(mnt, p, InRoot(p)), InRoot(p), ro) /\ ro \in BOOLEAN
    BY <1>3 DEF RemountedBind
  <2> HIDE DEF ro
  <2>3. QED
    BY <1>2, <1>3, <2>1, <2>2, BindAlone
<1>4. Alone(mnt) => Alone(mnt')
  BY <1>1, <1>3
<1>5. QED
  BY <1>1, <1>2, <1>4, AloneStep DEF InRootPhase

\* MountAllOverlayFs keeps RootTop.
LEMMA OverlaysAlone ==
  ASSUME Shape, RootTop, NoRoot, Chroots, MountAllOverlayFs
  PROVE  RootTop'
<1>1. /\ pc \in {"overlayfirst", "overlays"} /\ Quiet /\ UNCHANGED <<opt, mounts>>
      /\ \/ mnt' = mnt
         \/ next <= Count(opt.overlayfsmount) /\ mnt' = Append(mnt, Layer(Here))
  BY OverlaysStep
<1>2. Rooted(mnt) /\ opt' = opt /\ SameBut(opt, opt')
  BY <1>1, NextNumber, ShapeOptions DEF SameBut
<1>3. ASSUME ~RootCovered, Alone(mnt), next <= Count(opt.overlayfsmount),
             mnt' = Append(mnt, Layer(Here))
      PROVE  Alone(mnt')
  <2>1. Here \in Paths /\ (Here \in todo \/ Here \in ToSet(opt.overlayfsmount))
    BY <1>3, HereIs
  <2>2. Here # <<>>
    BY <1>3, <2>1 DEF RootCovered, NoRoot
  <2>3. Layer(Here) \in MountRecord /\ Layer(Here).at = InRoot(Here)
    BY <1>2, <2>1, LayerIs DEF Mounted
  <2>4. QED
    BY <1>2, <1>3, <2>1, <2>2, <2>3, InRootOther, OneAlone
<1>4. ~RootCovered /\ Alone(mnt) => Alone(mnt')
  BY <1>1, <1>3
<1>5. QED
  BY <1>1, <1>2, <1>4, AloneStep DEF InRootPhase

\* MountWritables keeps RootTop.
LEMMA WritablesAlone ==
  ASSUME Shape, RootTop, Chroots, MountWritables
  PROVE  RootTop'
<1> DEFINE w == opt.writable_files[next]
           m == BindRec(mnt, w, InRoot(w))
<1>1. /\ pc = "writables" /\ Quiet /\ UNCHANGED <<policy, todo>>
      /\ Turn(Count(opt.writable_files), mnt, "cwd") \/ Turn(Count(opt.writable_files), m, "cwd")
  BY WritablesStep
<1>2. ASSUME next <= Count(opt.writable_files), ~RootCovered, Alone(mnt) PROVE Alone(m)
  <2>1. w \in Paths /\ w \in ToSet(opt.writable_files)
    BY <1>2, ShapeOptions, NextNumber, Item
  <2>2. w # <<>>
    BY <1>2, <2>1 DEF RootCovered
  <2>3. QED
    BY <1>2, <2>1, <2>2, NextNumber, BindAlone
<1> HIDE DEF m
<1>3. QED
  BY <1>1, <1>2, AloneTurn DEF InRootPhase

\* MountWorkingDir keeps RootTop: the overlay directory is not in the working
\* directory, which so is not the root directory.
LEMMA WorkingDirAlone ==
  ASSUME Shape, RootTop, Chroots, MountWorkingDir
  PROVE  RootTop'
<1> DEFINE wd == opt.working_dir
<1>1. pc = "cwd" /\ Quiet /\ opt' = opt /\ mnt' = BindRec(mnt, wd, InRoot(wd))
  BY WorkingDirStep DEF fixed, policy
<1>2. Rooted(mnt) /\ wd \in Paths /\ SameBut(opt, opt')
  BY <1>1, NextNumber, ShapeOptions DEF SameBut
<1>3. wd # <<>>
  <2>1. asked \in Options /\ asked.working_dir = wd /\ asked.mode # "readonly"
    BY DEF Shape, SameOptions, SameBut, Chroots
  <2>2. ~IsPrefix(wd, tmp_overlayfs)
    BY <2>1, MountAssumption DEF isSubpath
  <2>3. QED
    BY <2>2, PathsHere, PathRoot
<1> HIDE DEF wd
<1>4. Alone(mnt) => Alone(mnt')
  BY <1>1, <1>2, <1>3, BindAlone
<1>5. QED
  BY <1>1, <1>2, <1>4, AloneStep DEF InRootPhase

\* MountRest keeps RootTop: the root directory has its place already.
LEMMA RestAlone ==
  ASSUME Shape, RootTop, Chroots, MountRest
  PROVE  RootTop'
<1> DEFINE at == mnt[next].at
           ro == ~ShouldBeWritable(at)
           m == Remount(BindRec(mnt, at, InRoot(at)), InRoot(at), ro)
<1>1. /\ pc = "rest" /\ Quiet /\ UNCHANGED <<policy, todo>>
      /\ \/ Turn(mounts + 1, mnt, "home")
         \/ Turn(mounts + 1, m, "home") /\ Cover(mnt, InRoot(at)).at # InRoot(at)
  BY RestStep
<1>2. /\ Rooted(mnt) /\ next \in Nat \ {0} /\ mounts \in Nat /\ RootMounted(mnt)
      /\ mounts + 1 <= Count(mnt) /\ Count(mnt) \in Nat
  BY <1>1, NextNumber, TableMounts DEF Shape, MountsKept, RootFirst, InRootPhase, Rooted
<1>3. ro \in BOOLEAN
  OBVIOUS
<1> HIDE DEF ro
<1>4. ASSUME next <= mounts + 1, Cover(mnt, InRoot(at)).at # InRoot(at), Alone(mnt) PROVE Alone(m)
  <2>1. next \in 1..Count(mnt)
    BY <1>2, <1>4
  <2>2. at \in Paths
    BY <1>2, <2>1, TableMounts, RecordFields DEF Rooted
  <2>3. at # <<>>
    <3>1. InRoot(<<>>) = sandbox_root
      BY PathsHere, PathRoot DEF InRoot
    <3>2. QED
      BY <1>2, <1>4, <3>1 DEF RootMounted
  <2> HIDE DEF at
  <2>4. QED
    BY <1>2, <1>3, <1>4, <2>2, <2>3, BindAlone
<1> HIDE DEF m, at
<1>5. QED
  BY <1>1, <1>4, AloneTurn DEF InRootPhase

\* The root directory is not among what AddLeftoverFoldersToReadOnlyPaths finds.
LEMMA LeftoverNoRoot ==
  ASSUME AddLeftoverFoldersToReadOnlyPaths
  PROVE  <<>> \notin ReadOnlyPaths'
<1>1. Len(<<>>) = 0
  OBVIOUS
<1>2. \A d \in ReadOnlyPaths' : Len(d) = 1
  BY DEF AddLeftoverFoldersToReadOnlyPaths
<1>3. QED
  BY <1>1, <1>2

\* What is found below a directory is not the root directory, nor is a directory
\* that is too deep.
LEMMA DeepNoRoot ==
  ASSUME NEW d \in Paths, NEW top \in Paths
  PROVE  /\ <<>> \notin list_directories(d)
         /\ Len(d) >= Len(top) + OVELAY_DEPTH_THRESHOLD => d # <<>>
<1>1. Len(<<>>) = 0 /\ Len(d) \in Nat /\ Len(top) \in Nat
  BY LenProperties DEF Paths
<1>2. \A e \in list_directories(d) : Len(e) = Len(d) + 1
  BY DEF list_directories
<1>3. QED
  BY <1>1, <1>2 DEF OVELAY_DEPTH_THRESHOLD

\* Every step keeps NoRoot.
LEMMA StepNoRoot ==
  ASSUME Shape, NoRoot, [Next]_vars
  PROVE  NoRoot'
<1>1. CASE AddLeftoverFoldersToReadOnlyPaths
  BY <1>1, LeftoverStep, LeftoverNoRoot DEF NoRoot
<1>2. CASE MountBinds
  BY <1>2, BindsStep DEF NoRoot, policy
<1>3. CASE MountReadOnly
  BY <1>3, ReadOnlyStep DEF NoRoot, policy
<1>4. CASE MountAllOverlayFs
  <2>1. \/ /\ next <= Count(opt.overlayfsmount)
           /\ todo' \subseteq (todo \ {Here}) \cup list_directories(Here)
           /\ ReadOnlyPaths' \subseteq ReadOnlyPaths \cup {Here}
           /\ ReadOnlyPaths' # ReadOnlyPaths =>
                Len(Here) >= Len(opt.overlayfsmount[next]) + OVELAY_DEPTH_THRESHOLD
        \/ UNCHANGED <<todo, ReadOnlyPaths>>
    BY <1>4, OverlaysStep
  <2>2. CASE UNCHANGED <<todo, ReadOnlyPaths>>
    BY <2>2 DEF NoRoot
  <2>3. CASE /\ next <= Count(opt.overlayfsmount)
             /\ todo' \subseteq (todo \ {Here}) \cup list_directories(Here)
             /\ ReadOnlyPaths' \subseteq ReadOnlyPaths \cup {Here}
             /\ ReadOnlyPaths' # ReadOnlyPaths =>
                  Len(Here) >= Len(opt.overlayfsmount[next]) + OVELAY_DEPTH_THRESHOLD
    <3>1. Here \in Paths /\ opt.overlayfsmount[next] \in Paths
      BY <2>3, HereIs
    <3>2. /\ <<>> \notin list_directories(Here)
          /\ Len(Here) >= Len(opt.overlayfsmount[next]) + OVELAY_DEPTH_THRESHOLD => Here # <<>>
      BY <3>1, DeepNoRoot
    <3>3. QED
      BY <2>3, <3>2 DEF NoRoot
  <2>4. QED
    BY <2>1, <2>2, <2>3
<1>5. CASE LightMode \/ MountWorkingDirMountPoint
  BY <1>5 DEF NoRoot, LightMode, MountWorkingDirMountPoint
<1>6. CASE MountOverlayDirAsTmpfs \/ MountFilesystems \/ WorkingDirInPlace \/ MountSandboxAndGoThere
           \/ MountDev
  BY <1>6, StartStep, FilesystemsStep, WorkingDirInPlaceStep, RootStep, DevStep
     DEF NoRoot, fixed, policy
<1>7. CASE MountProcAndSys \/ MountWorkingDir \/ MakeEmptyHome \/ ChangeRoot
           \/ EnterWorkingDirectory \/ InitDone
  BY <1>7, ProcStep, WorkingDirStep, HomeStep, PivotStep, ChdirStep, InitStep, NextNumber
     DEF NoRoot, fixed, policy
<1>8. CASE BindInPlace \/ TmpfsInPlace \/ WritableInPlace \/ MakeFilesystemPartiallyReadOnly
           \/ MountAllTmpfs \/ MountWritables \/ MountRest
  BY <1>8, BindInPlaceStep, TmpfsInPlaceStep, WritableInPlaceStep, RemountStep, TmpfsStep,
     WritablesStep, RestStep DEF NoRoot, policy
<1>9. CASE SystemCallFails \/ UNCHANGED vars
  BY <1>9 DEF NoRoot, SystemCallFails, vars
<1>10. QED
  BY <1>1, <1>2, <1>3, <1>4, <1>5, <1>6, <1>7, <1>8, <1>9 DEF Next, Finished

\* Every step keeps RootTop.
LEMMA StepAlone ==
  ASSUME Shape, Shape', RootTop, NoRoot, [Next]_vars
  PROVE  RootTop'
<1>1. Chroots' <=> Chroots
  BY ChrootsStays
<1>2. CASE ~Chroots
  BY <1>1, <1>2 DEF RootTop
<1>3. CASE Chroots
  <2>1. pc \notin InPlacePhase
    BY <1>3, NotChroots
  <2>2. CASE LightMode \/ MountFilesystems \/ BindInPlace \/ TmpfsInPlace \/ WritableInPlace
             \/ WorkingDirInPlace \/ MakeFilesystemPartiallyReadOnly
    BY <2>1, <2>2 DEF LightMode, MountFilesystems, BindInPlace, TmpfsInPlace, WritableInPlace,
                      WorkingDirInPlace, MakeFilesystemPartiallyReadOnly, InPlacePhase
  <2>3. CASE MountOverlayDirAsTmpfs
    BY <1>3, <2>3, StartStep DEF FirstStep, RootTop, InRootPhase
  <2>4. CASE MountSandboxAndGoThere
    BY <1>3, <2>4, RootAlone
  <2>5. CASE MountDev \/ MountProcAndSys \/ MountWorkingDirMountPoint
             \/ AddLeftoverFoldersToReadOnlyPaths \/ MakeEmptyHome
    BY <1>3, <2>5, EarlyAlone
  <2>6. CASE MountAllTmpfs
    BY <1>3, <2>6, TmpfsAlone
  <2>7. CASE MountBinds
    BY <1>3, <2>7, BindsAlone
  <2>8. CASE MountReadOnly
    BY <1>3, <2>8, ReadOnlyAlone
  <2>9. CASE MountAllOverlayFs
    BY <1>3, <2>9, OverlaysAlone
  <2>10. CASE MountWritables
    BY <1>3, <2>10, WritablesAlone
  <2>11. CASE MountWorkingDir
    BY <1>3, <2>11, WorkingDirAlone
  <2>12. CASE MountRest
    BY <1>3, <2>12, RestAlone
  <2>13. CASE ChangeRoot \/ EnterWorkingDirectory \/ InitDone
    BY <2>13, NextNumber, PivotStep, ChdirStep, InitStep DEF RootTop, InRootPhase
  <2>14. CASE SystemCallFails
    BY <2>14 DEF SystemCallFails, RootTop, InRootPhase
  <2>15. CASE UNCHANGED vars
    BY <2>15 DEF vars, RootTop, Alone, RootCovered, Chroots
  <2>16. QED
    BY <2>2, <2>3, <2>4, <2>5, <2>6, <2>7, <2>8, <2>9, <2>10, <2>11, <2>12, <2>13, <2>14, <2>15
       DEF Next, Finished
<1>4. QED
  BY <1>2, <1>3

(***************************************************************************)
(* What a tmpfs hides.  With a root, the host's directory t is never at    *)
(* its place in it: what is bound is bound after the tmpfs.  In custom     *)
(* mode the overlay of t itself comes before it, and then a second time.   *)
(***************************************************************************)

Depth(p) == Len(p)

\* Table m has the host's file t at p.
Shows(m, p, t) == Locate(m, p).fs = "host" /\ Locate(m, p).path = t

\* The loops over directories: a list is gone through from its first item, and
\* what is still to be done is below the item.
LoopOrder ==
  Chroots =>
    /\ pc \in FreshPhase => todo = {}
    /\ pc = "overlayfirst" => opt.mode = "custom"
    /\ pc = "readonly" => next = 1
    /\ pc \in {"overlayfirst", "overlays"} =>
         \A e \in todo : /\ next <= Count(opt.overlayfsmount)
                         /\ IsStrictPrefix(opt.overlayfsmount[next], e)

\* In a privileged container the overlays' upper directory is on a tmpfs.
UpperDir ==
  Chroots /\ machine.privileged /\ use_overlayfs /\ pc \in {"root"} \cup InRootPhase =>
    Cover(mnt, tmp_overlayfs).fs # "host"

\* A mount in the root shows what it shows in the root itself, or a directory
\* that is less deep: only /tmp shows one of another depth than its name.
Sunk(x) ==
  InSandbox(x) /\ x.fs = "host" =>
    x.dir = x.at \/ Depth(x.dir) + Depth(sandbox_root) <= Depth(x.at) + 1

SunkPhase == {"start", "root", "dev", "proc", "workingdir", "leftover", "tmpfs", "binds"}

AllSunk(m) == \A i \in 1..Count(m) : Sunk(m[i])

SunkInRoot == Chroots /\ opt.mode = "default" /\ pc \in SunkPhase => AllSunk(mnt)

\* The overlay of t is still to come.
Pending(t) ==
  /\ opt.mode = "custom" /\ t \notin machine.noOverlay
  /\ \/ pc \in {"overlayfirst", "tmpfs", "binds", "readonly"} /\ t \in ToSet(opt.overlayfsmount)
     \/ /\ pc = "overlays"
        /\ \E n \in 1..Count(opt.overlayfsmount) :
             opt.overlayfsmount[n] = t /\ (n > next \/ (n = next /\ todo = {}))

Overlaid(t) == \E d \in ToSet(opt.overlayfsmount) : IsStrictPrefix(d, t)

NotShown ==
  Chroots => \A t \in ToSet(opt.tmpfs_dirs) :
    /\ pc \in InRootPhase => Overlaid(t) \/ Pending(t) \/ ~Shows(mnt, InRoot(t), t)
    /\ pc \in LastPhase => Overlaid(t) \/ RootCovered \/ ~Shows(mnt, t, t)

HideSafe == LoopOrder /\ UpperDir /\ SunkInRoot /\ NotShown

HideShapes == PlaceShapes /\ NoRoot /\ RootTop /\ HideSafe

\* How deep a path is.
LEMMA DepthJoin ==
  ASSUME NEW a \in Paths, NEW b \in Paths
  PROVE  /\ Depth(a) \in Nat /\ Depth(b) \in Nat /\ Depth(Join(a, b)) = Depth(a) + Depth(b)
  BY ConcatProperties, LenProperties DEF Paths, Join, Depth

\* The depth of a path that lies below another one.
LEMMA DepthSplit ==
  ASSUME NEW a \in Paths, NEW b \in Paths, IsPrefix(a, b)
  PROVE  /\ Depth(a) \in Nat /\ Depth(b) \in Nat /\ Depth(Rest(a, b)) \in Nat
         /\ Depth(b) = Depth(a) + Depth(Rest(a, b))
<1>1. Rest(a, b) \in Paths /\ b = Join(a, Rest(a, b))
  BY PathSplit
<1>2. QED
  BY <1>1, DepthJoin

\* A path that is above another one, and as deep, is the same.
LEMMA SameDepth ==
  ASSUME NEW a \in Paths, NEW b \in Paths, IsPrefix(a, b), Depth(b) <= Depth(a)
  PROVE  a = b
<1>1. Len(a) \in Nat /\ Len(b) \in Nat /\ Len(a) = Len(b)
  BY LenProperties DEF Paths, IsPrefix, Depth
<1>2. SubSeq(a, 1, Len(a)) = a /\ SubSeq(b, 1, Len(b)) = b
  BY SubSeqFull DEF Paths
<1>3. QED
  BY <1>1, <1>2 DEF IsPrefix

\* The depth of the names the code knows.
LEMMA DepthsHere ==
  Depth(TMP) = 1 /\ Depth(MINI_SBX_TMP) = 2 /\ Depth(sandbox_root) \in Nat /\ Depth(sandbox_root) >= 1
<1>1. Depth(TMP) = 1 /\ Depth(MINI_SBX_TMP) = 2
  BY DEF TMP, MINI_SBX_TMP, Depth
<1>2. Len(sandbox_root) \in Nat /\ Len(sandbox_root) # 0
  BY PathsHere, LenProperties, EmptySeq, MountAssumption DEF Paths
<1>3. QED
  BY <1>1, <1>2 DEF Depth

\* The root is not above the default mode's temporary directory: neither / nor
\* /tmp, and not that directory.
LEMMA DeepRoot ==
  ASSUME NEW r \in Paths, IsPrefix(sandbox_root, Join(MINI_SBX_TMP, r))
  PROVE  Depth(sandbox_root) > 2
<1>1. /\ sandbox_root \in Paths /\ MINI_SBX_TMP \in Paths /\ TMP \in Paths
      /\ sandbox_root # <<>> /\ sandbox_root # MINI_SBX_TMP /\ sandbox_root # TMP
  BY PathsHere, MountAssumption, NamedPaths
<1>2. Depth(MINI_SBX_TMP) = 2 /\ Depth(TMP) = 1 /\ Depth(sandbox_root) \in Nat /\ Depth(sandbox_root) >= 1
  BY DepthsHere
<1>3. Join(MINI_SBX_TMP, r) \in Paths /\ IsPrefix(MINI_SBX_TMP, Join(MINI_SBX_TMP, r))
  BY <1>1, PathJoin
<1>4. IsPrefix(sandbox_root, MINI_SBX_TMP) \/ IsPrefix(MINI_SBX_TMP, sandbox_root)
  BY <1>1, <1>3, PathChain
<1>5. CASE IsPrefix(MINI_SBX_TMP, sandbox_root)
  BY <1>1, <1>2, <1>5, SameDepth
<1>6. CASE IsPrefix(sandbox_root, MINI_SBX_TMP)
  <2>1. IsPrefix(TMP, MINI_SBX_TMP)
    BY DEF IsPrefix, TMP, MINI_SBX_TMP
  <2>2. IsPrefix(sandbox_root, TMP) \/ IsPrefix(TMP, sandbox_root)
    BY <1>1, <1>6, <2>1, PathChain
  <2>3. CASE IsPrefix(sandbox_root, TMP)
    BY <1>1, <1>2, <2>3, SameDepth
  <2>4. CASE IsPrefix(TMP, sandbox_root)
    <3>1. ~(Depth(sandbox_root) <= Depth(TMP))
      BY <1>1, <2>4, SameDepth
    <3>2. ~(Depth(MINI_SBX_TMP) <= Depth(sandbox_root))
      BY <1>1, <1>6, SameDepth
    <3>3. QED
      BY <1>2, <3>1, <3>2
  <2>5. QED
    BY <2>2, <2>3, <2>4
<1>7. QED
  BY <1>4, <1>5, <1>6

\* A path stays without the host's file if nothing of the host is mounted above.
LEMMA StaysUnshown ==
  ASSUME NEW m, Rooted(m), NEW b, Grows(m, b), NEW p \in Paths, NEW t, ~Shows(m, p, t),
         \A x \in New(m, b) : x.fs # "host" \/ ~IsPrefix(x.at, p)
  PROVE  ~Shows(b, p, t)
<1>1. Rooted(b)
  BY DEF Grows
<1>2. /\ Locate(m, p).fs = Cover(m, p).fs /\ Locate(b, p).fs = Cover(b, p).fs
      /\ Locate(m, p).path = Join(Cover(m, p).dir, Rest(Cover(m, p).at, p))
      /\ Locate(b, p).path = Join(Cover(b, p).dir, Rest(Cover(b, p).at, p))
      /\ IsPrefix(Cover(b, p).at, p)
  BY <1>1, LocateIs
<1>3. \/ Cover(b, p) = Cover(m, p)
      \/ Cover(b, p) \in New(m, b)
  BY GrowsCover
<1>4. CASE Cover(b, p) = Cover(m, p)
  BY <1>2, <1>4 DEF Shows
<1>5. CASE Cover(b, p) \in New(m, b)
  <2>1. Cover(b, p).fs # "host"
    BY <1>2, <1>5
  <2>2. QED
    BY <1>2, <2>1 DEF Shows
<1>6. QED
  BY <1>3, <1>4, <1>5

\* The overlays' upper directory stays on its tmpfs.
LEMMA UpperStays ==
  ASSUME NEW m, Rooted(m), NEW b, Grows(m, b), Cover(m, tmp_overlayfs).fs # "host",
         \A x \in New(m, b) : x.at \in Paths /\ (x.fs # "host" \/ InSandbox(x))
  PROVE  Cover(b, tmp_overlayfs).fs # "host"
<1>1. /\ Rooted(b) /\ tmp_overlayfs \in Paths /\ sandbox_root \in Paths
      /\ ~IsPrefix(sandbox_root, tmp_overlayfs)
  BY PathsHere, MountAssumption DEF Grows, isSubpath
<1>2. IsPrefix(Cover(b, tmp_overlayfs).at, tmp_overlayfs)
  BY <1>1, LocateIs
<1>3. ASSUME Cover(b, tmp_overlayfs) \in New(m, b) PROVE Cover(b, tmp_overlayfs).fs # "host"
  <2>1. ~InSandbox(Cover(b, tmp_overlayfs))
    BY <1>1, <1>2, <1>3, PathTransitive DEF InSandbox
  <2>2. QED
    BY <1>3, <2>1
<1>4. QED
  BY <1>1, <1>3, GrowsCover

\* A bind changes nothing at paths that are not below it.
LEMMA BindStays ==
  ASSUME NEW m, Rooted(m), NEW src \in Paths, NEW dst \in Paths, NEW p \in Paths,
         ~IsPrefix(dst, p), NEW t, ~Shows(m, p, t)
  PROVE  ~Shows(BindRec(m, src, dst), p, t)
<1> DEFINE b == BindRec(m, src, dst)
<1>1. Grows(m, b) /\ Rooted(b)
  BY GrowsByBind DEF Grows
<1>2. MountOf(b, p) = MountOf(m, p)
  BY BindElsewhere
<1> HIDE DEF b
<1>3. MountOf(m, p) \in 1..Count(m)
  BY RootCovers DEF Covers
<1>4. Cover(b, p) = Cover(m, p)
  BY <1>1, <1>2, <1>3 DEF Cover, Grows
<1>5. Locate(b, p).fs = Locate(m, p).fs /\ Locate(b, p).path = Locate(m, p).path
  BY <1>1, <1>4, LocateIs
<1>6. QED
  BY <1>5 DEF Shows, b

\* A remount changes nothing that is shown.
LEMMA RemountStays ==
  ASSUME NEW m, Rooted(m), NEW q \in Paths, NEW ro \in BOOLEAN, Rooted(Remount(m, q, ro)),
         NEW p \in Paths, NEW t, ~Shows(m, p, t)
  PROVE  ~Shows(Remount(m, q, ro), p, t)
<1> DEFINE b == Remount(m, q, ro)
<1>1. Cover(b, p).fs = Cover(m, p).fs /\ Cover(b, p).at = Cover(m, p).at /\ Cover(b, p).dir = Cover(m, p).dir
  BY RemountCovers
<1> HIDE DEF b
<1>2. /\ Locate(m, p).fs = Cover(m, p).fs
      /\ Locate(m, p).path = Join(Cover(m, p).dir, Rest(Cover(m, p).at, p))
  BY LocateIs
<1>3. /\ Locate(b, p).fs = Cover(b, p).fs
      /\ Locate(b, p).path = Join(Cover(b, p).dir, Rest(Cover(b, p).at, p))
  BY LocateIs DEF b
<1>4. QED
  BY <1>1, <1>2, <1>3 DEF Shows, b

\* A directory that is covered is not brought into the root by a bind to its place.
LEMMA BindUnshown ==
  ASSUME NEW m, Rooted(m), NEW src \in Paths, NEW t \in Paths, Cover(m, t).fs # "host",
         ~Shows(m, InRoot(t), t)
  PROVE  ~Shows(BindRec(m, src, InRoot(src)), InRoot(t), t)
<1> DEFINE b == BindRec(m, src, InRoot(src))
<1>1. /\ InRoot(t) \in Paths /\ InRoot(src) \in Paths /\ sandbox_root \in Paths
  BY InRootPath, PathsHere
<1>2. Rooted(b)
  BY <1>1, GrowsByBind DEF Grows
<1>3. CASE IsPrefix(src, t)
  <2>1. Rest(src, t) \in Paths /\ t = Join(src, Rest(src, t))
    BY <1>3, PathSplit
  <2>2. InRoot(t) = Join(InRoot(src), Rest(src, t))
    BY <1>1, <2>1, PathAssociative DEF InRoot
  <2>3. Locate(b, InRoot(t)).fs = Locate(m, t).fs
    BY <1>1, <2>1, <2>2, BindShows
  <2>4. Locate(m, t).fs # "host"
    BY LocateIs
  <2>5. QED
    BY <2>3, <2>4 DEF Shows
<1>4. CASE ~IsPrefix(src, t)
  <2>1. ~IsPrefix(InRoot(src), InRoot(t))
    BY <1>1, <1>4, PathJoinBelow DEF InRoot
  <2>2. QED
    BY <1>1, <2>1, BindStays
<1>5. QED
  BY <1>3, <1>4

\* The same if the bind is remounted.
LEMMA RemountedUnshown ==
  ASSUME NEW m, Rooted(m), NEW src \in Paths, NEW dst \in Paths, NEW ro \in BOOLEAN, NEW t \in Paths,
         ~Shows(BindRec(m, src, InRoot(dst)), InRoot(t), t)
  PROVE  ~Shows(Remount(BindRec(m, src, InRoot(dst)), InRoot(dst), ro), InRoot(t), t)
<1>1. InRoot(t) \in Paths /\ InRoot(dst) \in Paths
  BY InRootPath
<1>2. /\ Rooted(BindRec(m, src, InRoot(dst)))
      /\ Rooted(Remount(BindRec(m, src, InRoot(dst)), InRoot(dst), ro))
  BY <1>1, GrowsByBind, GrowsByRemount DEF Grows
<1>3. QED
  BY <1>1, <1>2, RemountStays

\* Nor does the default mode's /tmp bring it in, which shows another directory.
LEMMA TmpUnshown ==
  ASSUME NEW m, Rooted(m), NEW G, AllFit(G, m), AllSunk(m), NEW t \in Paths,
         ~Shows(m, InRoot(t), t)
  PROVE  ~Shows(BindRec(m, MINI_SBX_TMP, InRoot(TMP)), InRoot(t), t)
<1> DEFINE b == BindRec(m, MINI_SBX_TMP, InRoot(TMP))
           r == Rest(TMP, t)
           q == Join(MINI_SBX_TMP, r)
           x == Cover(m, q)
<1>1. /\ InRoot(t) \in Paths /\ InRoot(TMP) \in Paths /\ sandbox_root \in Paths
      /\ TMP \in Paths /\ MINI_SBX_TMP \in Paths
  BY InRootPath, PathsHere
<1>2. CASE ~IsPrefix(TMP, t)
  <2>1. ~IsPrefix(InRoot(TMP), InRoot(t))
    BY <1>1, <1>2, PathJoinBelow DEF InRoot
  <2>2. QED
    BY <1>1, <2>1, BindStays
<1>3. CASE IsPrefix(TMP, t)
  <2>1. r \in Paths /\ t = Join(TMP, r)
    BY <1>1, <1>3, PathSplit
  <2>2. InRoot(t) = Join(InRoot(TMP), r)
    BY <1>1, <2>1, PathAssociative DEF InRoot
  <2> HIDE DEF r
  <2>3. Locate(b, InRoot(t)).fs = Locate(m, q).fs /\ Locate(b, InRoot(t)).path = Locate(m, q).path
    BY <1>1, <2>1, <2>2, BindShows
  <2> HIDE DEF b
  <2>4. q \in Paths
    BY <1>1, <2>1, PathJoin
  <2>5. Depth(t) = Depth(r) + 1 /\ Depth(q) = Depth(r) + 2 /\ Depth(r) \in Nat
    BY <1>1, <2>1, DepthJoin, DepthsHere
  <2>6. ASSUME Locate(m, q).fs = "host", Locate(m, q).path = t PROVE FALSE
    <3>1. /\ x.fs = "host" /\ IsPrefix(x.at, q) /\ t = Join(x.dir, Rest(x.at, q))
          /\ x.dir = x.at => Locate(m, q).path = q
          /\ x \in MountRecord /\ MountOf(m, q) \in 1..Count(m)
      <4> HIDE DEF q
      <4>1. Covers(m, MountOf(m, q), q) /\ x \in MountRecord
        BY <2>4, RootCovers
      <4>2. QED
        BY <2>4, <2>6, <4>1, LocateIs DEF Covers
    <3>2. x.dir # x.at
      BY <2>5, <2>6, <3>1
    <3>3. Fits(G, x) /\ Sunk(x)
      BY <3>1 DEF AllFit, AllSunk, Cover
    <3>4. InSandbox(x) /\ Depth(x.dir) + Depth(sandbox_root) <= Depth(x.at) + 1
      BY <3>1, <3>2, <3>3 DEF Fits, Sunk
    <3>5. x.at \in Paths /\ x.dir \in Paths
      BY <3>1, RecordFields
    <3>6. Depth(sandbox_root) > 2
      <4>1. IsPrefix(sandbox_root, q)
        BY <1>1, <2>4, <3>1, <3>4, <3>5, PathTransitive DEF InSandbox
      <4>2. QED
        BY <2>1, <4>1, DeepRoot
    <3>7. /\ Depth(q) = Depth(x.at) + Depth(Rest(x.at, q)) /\ Depth(x.at) \in Nat
          /\ Depth(Rest(x.at, q)) \in Nat
      BY <2>4, <3>1, <3>5, DepthSplit
    <3>8. Rest(x.at, q) \in Paths
      BY <2>4, <3>1, <3>5, PathSplit
    <3>9. Depth(t) = Depth(x.dir) + Depth(Rest(x.at, q)) /\ Depth(x.dir) \in Nat
      BY <3>1, <3>5, <3>8, DepthJoin
    <3>10. Depth(sandbox_root) \in Nat
      BY DepthsHere
    <3>11. QED
      BY <2>5, <3>4, <3>6, <3>7, <3>9, <3>10
  <2>7. QED
    BY <2>3, <2>6 DEF Shows, b
<1>4. QED
  BY <1>2, <1>3

\* No mount shows a directory that is deeper than its own path.
LEMMA SunkDepth ==
  ASSUME NEW G, NEW x \in MountRecord, Fits(G, x), Sunk(x), x.fs = "host"
  PROVE  /\ x.at \in Paths /\ x.dir \in Paths /\ Depth(x.at) \in Nat /\ Depth(x.dir) \in Nat
         /\ Depth(x.dir) <= Depth(x.at)
<1>1. x.at \in Paths /\ x.dir \in Paths
  BY RecordFields
<1>2. Depth(x.at) \in Nat /\ Depth(x.dir) \in Nat /\ Depth(sandbox_root) \in Nat /\ Depth(sandbox_root) >= 1
  BY <1>1, DepthJoin, DepthsHere
<1>3. x.dir = x.at \/ Depth(x.dir) + Depth(sandbox_root) <= Depth(x.at) + 1
  BY DEF Fits, Sunk
<1>4. QED
  BY <1>1, <1>2, <1>3

\* A bind into the root, from a path that is at most one deeper, shows something
\* less deep again, and so do the mounts it brings.
LEMMA BindSunk ==
  ASSUME NEW G, NEW m, Rooted(m), AllFit(G, m), AllSunk(m), NEW src \in Paths, NEW d \in Paths,
         Depth(src) <= Depth(d) + 1
  PROVE  /\ Sunk(Bound(m, src, InRoot(d)))
         /\ \A i \in 1..Count(m) : Below(m, src, i) => Sunk(Brought(m, src, InRoot(d), i))
<1> DEFINE R == Depth(sandbox_root)
<1>1. /\ InRoot(d) \in Paths /\ sandbox_root \in Paths
      /\ Depth(InRoot(d)) = R + Depth(d) /\ R \in Nat /\ Depth(d) \in Nat /\ Depth(src) \in Nat
  BY InRootPath, PathsHere, DepthJoin DEF InRoot
<1> HIDE DEF R
<1>2. Sunk(Bound(m, src, InRoot(d)))
  <2> DEFINE x == Cover(m, src)
             y == Bound(m, src, InRoot(d))
  <2>1. Mounted(y, InRoot(d), x.fs, Locate(m, src).path)
    BY <1>1, BoundIs
  <2>2. /\ Covers(m, MountOf(m, src), src) /\ x \in MountRecord /\ IsPrefix(x.at, src)
        /\ Locate(m, src).path = Join(x.dir, Rest(x.at, src))
    BY RootCovers, LocateIs
  <2>3. Fits(G, x) /\ Sunk(x)
    BY <2>2 DEF AllFit, AllSunk, Cover, Covers
  <2> HIDE DEF x, y
  <2>4. ASSUME y.fs = "host" PROVE Depth(y.dir) + R <= Depth(y.at) + 1
    <3>1. x.fs = "host" /\ y.at = InRoot(d) /\ y.dir = Join(x.dir, Rest(x.at, src))
      BY <2>1, <2>2, <2>4 DEF Mounted
    <3>2. /\ x.at \in Paths /\ x.dir \in Paths /\ Depth(x.at) \in Nat /\ Depth(x.dir) \in Nat
          /\ Depth(x.dir) <= Depth(x.at)
      BY <2>2, <2>3, <3>1, SunkDepth
    <3>3. Depth(src) = Depth(x.at) + Depth(Rest(x.at, src)) /\ Depth(Rest(x.at, src)) \in Nat
      BY <2>2, <3>2, DepthSplit
    <3>4. Depth(y.dir) = Depth(x.dir) + Depth(Rest(x.at, src))
      BY <2>2, <3>1, <3>2, PathSplit, DepthJoin
    <3>5. QED
      BY <1>1, <3>1, <3>2, <3>3, <3>4
  <2>5. QED
    BY <2>4 DEF Sunk, y, R
<1>3. ASSUME NEW i \in 1..Count(m), Below(m, src, i)
      PROVE  Sunk(Brought(m, src, InRoot(d), i))
  <2> DEFINE x == m[i]
             y == Brought(m, src, InRoot(d), i)
             r == Rest(src, x.at)
  <2>1. r \in Paths /\ x.at = Join(src, r) /\ Mounted(y, Join(InRoot(d), r), x.fs, x.dir)
    BY <1>1, <1>3, BroughtIs
  <2>2. x \in MountRecord /\ Fits(G, x) /\ Sunk(x)
    BY <1>3, TableMounts DEF AllFit, AllSunk, Rooted
  <2> HIDE DEF x, y, r
  <2>3. ASSUME y.fs = "host" PROVE Depth(y.dir) + R <= Depth(y.at) + 1
    <3>1. x.fs = "host" /\ y.at = Join(InRoot(d), r) /\ y.dir = x.dir
      BY <2>1, <2>3 DEF Mounted
    <3>2. Depth(x.at) \in Nat /\ Depth(x.dir) \in Nat /\ Depth(x.dir) <= Depth(x.at)
      BY <2>2, <3>1, SunkDepth
    <3>3. Depth(x.at) = Depth(src) + Depth(r) /\ Depth(r) \in Nat
      BY <2>1, DepthJoin
    <3>4. Depth(y.at) = R + Depth(d) + Depth(r)
      BY <1>1, <2>1, <3>1, DepthJoin
    <3>5. QED
      BY <1>1, <3>1, <3>2, <3>3, <3>4
  <2>4. QED
    BY <2>3 DEF Sunk, y, R
<1>4. QED
  BY <1>2, <1>3

\* A mount that is remounted shows what it did.
LEMMA FlaggedSunk ==
  ASSUME NEW x \in MountRecord, Sunk(x), NEW ro \in BOOLEAN
  PROVE  Sunk(Flagged(x, ro))
<1>1. Flagged(x, ro).at = x.at /\ Flagged(x, ro).fs = x.fs /\ Flagged(x, ro).dir = x.dir
  BY FlaggedIs DEF Mounted
<1>2. QED
  BY <1>1 DEF Sunk, InSandbox

\* A table stays sunk while its new mounts are.
LEMMA SunkGrows ==
  ASSUME NEW m, Rooted(m), AllSunk(m), NEW b, Grows(m, b), \A x \in New(m, b) : Sunk(x)
  PROVE  AllSunk(b)
<1>1. Count(m) \in Nat /\ Count(b) \in Nat
  BY TableMounts DEF Grows, Rooted
<1>2. QED
  BY <1>1 DEF AllSunk, Grows, New

\* After the change of root a path names what it named in the root.
LEMMA PivotShows ==
  ASSUME NEW m, Rooted(m), RootMounted(m), Alone(m), NEW p \in Paths
  PROVE  /\ Locate(Pivoted(Kept(m, InTheRoot(m))), p).fs = Locate(m, InRoot(p)).fs
         /\ Locate(Pivoted(Kept(m, InTheRoot(m))), p).path = Locate(m, InRoot(p)).path
<1> DEFINE b == Pivoted(Kept(m, InTheRoot(m)))
           q == InRoot(p)
           k == MountOf(m, q)
           c == MountOf(m, sandbox_root)
<1>1. sandbox_root \in Paths /\ q \in Paths /\ IsPrefix(sandbox_root, q) /\ Count(m) \in Nat
  BY PathsHere, InRootPath, TableMounts DEF Rooted
<1>2. Rooted(b)
  BY PivotIs
<1>3. PICK L, g : /\ KeptBy(Kept(m, InTheRoot(m)), L, g, m, InTheRoot(m), Count(m))
                  /\ Count(b) = L /\ \A n \in 1..L : b[n] = Stripped(m[g[n]])
  BY PivotIs
<1> HIDE DEF b, q
<1>4. Covers(m, k, q) /\ Covers(m, c, sandbox_root) /\ m[c].at = sandbox_root
  BY <1>1, RootCovers DEF RootMounted, Cover
<1> HIDE DEF k, c
<1>5. k \in 1..Count(m) /\ c \in 1..Count(m) /\ \A i \in 1..Count(m) : m[i] \in MountRecord /\ m[i].at \in Paths
  <2>1. \A i \in 1..Count(m) : m[i] \in MountRecord
    BY TableMounts DEF Rooted
  <2>2. QED
    BY <1>4, <2>1, RecordFields DEF Covers
<1>6. IsPrefix(sandbox_root, m[k].at)
  <2>1. ~(c > k)
    BY <1>1, <1>4, <1>5 DEF Covers
  <2>2. CASE k = c
    BY <1>1, <1>4, <2>2, PathRoot
  <2>3. CASE k > c
    <3>1. ~IsPrefix(m[k].at, sandbox_root)
      BY <1>4, <1>5, <2>3 DEF Covers
    <3>2. IsPrefix(m[k].at, q)
      BY <1>4 DEF Covers
    <3>3. QED
      BY <1>1, <1>5, <3>1, <3>2, PathChain
  <2>4. QED
    BY <1>5, <2>1, <2>2, <2>3
<1>7. k \in InTheRoot(m)
  <2>1. ~OnTop(m, k)
    BY <1>1 DEF OnTop, Alone
  <2>2. QED
    BY <1>5, <1>6, <2>1 DEF InTheRoot
<1>8. PICK l \in 1..L : g[l] = k
  BY <1>3, <1>5, <1>7 DEF KeptBy
<1>9. \A n \in 1..L : g[n] \in 1..Count(m) /\ IsPrefix(sandbox_root, m[g[n]].at)
  BY <1>3 DEF KeptBy, InTheRoot
<1>10. \A n \in 1..L : IsPrefix(b[n].at, p) <=> IsPrefix(m[g[n]].at, q)
  <2>1. SUFFICES ASSUME NEW n \in 1..L
                 PROVE  IsPrefix(b[n].at, p) <=> IsPrefix(m[g[n]].at, q)
    OBVIOUS
  <2>2. m[g[n]] \in MountRecord /\ IsPrefix(sandbox_root, m[g[n]].at) /\ b[n] = Stripped(m[g[n]])
    BY <1>3, <1>5, <1>9
  <2>3. /\ Rest(sandbox_root, m[g[n]].at) \in Paths
        /\ m[g[n]].at = InRoot(Rest(sandbox_root, m[g[n]].at))
        /\ b[n].at = Rest(sandbox_root, m[g[n]].at)
    BY <2>2, StrippedIs DEF Mounted
  <2>4. QED
    BY <1>1, <2>3, PathJoinBelow DEF InRoot, q
<1>11. Covers(b, l, p)
  <2>1. IsPrefix(b[l].at, p)
    BY <1>4, <1>8, <1>10 DEF Covers
  <2>2. ASSUME NEW j \in 1..Count(b), j > l, IsPrefix(b[j].at, p) PROVE FALSE
    <3>1. g[j] > k /\ g[j] \in 1..Count(m)
      BY <1>3, <1>8, <1>9, <2>2 DEF KeptBy
    <3>2. IsPrefix(m[g[j]].at, q)
      BY <1>3, <1>10, <2>2
    <3>3. QED
      BY <1>4, <3>1, <3>2 DEF Covers
  <2>3. QED
    BY <1>3, <1>8, <2>1, <2>2 DEF Covers
<1>12. MountOf(b, p) = l
  <2>1. Count(b) \in Nat
    BY <1>2, TableMounts DEF Rooted
  <2>2. QED
    BY <1>11, <2>1, CoversUnique
<1>13. /\ m[k] \in MountRecord /\ Cover(b, p) = Stripped(m[k])
       /\ Cover(m, q) = m[k]
  BY <1>3, <1>5, <1>8, <1>12 DEF Cover, k
<1> DEFINE a == Rest(sandbox_root, m[k].at)
<1>14. /\ a \in Paths /\ m[k].at = InRoot(a) /\ Cover(b, p).at = a
       /\ Cover(b, p).fs = m[k].fs /\ Cover(b, p).dir = m[k].dir
  BY <1>6, <1>13, StrippedIs DEF Mounted
<1> HIDE DEF a
<1>15. IsPrefix(a, p)
  BY <1>2, <1>14, LocateIs
<1>16. Rest(a, p) = Rest(m[k].at, q)
  BY <1>1, <1>14, <1>15, PathRestJoin DEF InRoot, q
<1>17. /\ Locate(b, p).fs = Cover(b, p).fs
       /\ Locate(b, p).path = Join(Cover(b, p).dir, Rest(Cover(b, p).at, p))
       /\ Locate(m, q).fs = Cover(m, q).fs
       /\ Locate(m, q).path = Join(Cover(m, q).dir, Rest(Cover(m, q).at, q))
  BY <1>1, <1>2, LocateIs
<1>18. QED
  BY <1>13, <1>14, <1>16, <1>17 DEF b, q

\* What is known with a root.
LEMMA HideFacts ==
  ASSUME HideShapes
  PROVE  /\ Shape /\ SafeShape /\ Fresh /\ Rooted(mnt) /\ next \in Nat \ {0}
         /\ opt \in Option /\ opt.overlayfsmount \in Lists /\ opt.tmpfs_dirs \in Lists
         /\ opt.sources \in Lists
         /\ \A t \in ToSet(opt.tmpfs_dirs) :
              /\ t \in Dirs /\ t \in Paths /\ InRoot(t) \in Paths /\ IsPrefix(sandbox_root, InRoot(t))
              /\ ~IsPrefix(sandbox_root, t)
<1>1. Shape /\ SafeShape /\ Fresh
  BY DEF HideShapes, PlaceShapes, SafeShape
<1>2. \A t \in ToSet(opt.tmpfs_dirs) : t \in Dirs /\ t \in Paths /\ ~IsPrefix(sandbox_root, t)
  BY <1>1, ShapeOptions, PathsHere
<1>3. QED
  BY <1>1, <1>2, ShapeOptions, NextNumber, InRootPath

\* A step in the root keeps HideSafe if it mounts what it does in the root, or
\* not from the host, and brings no tmpfs directory in.
LEMMA HideFrame ==
  ASSUME HideShapes, Chroots, Quiet, SameBut(opt, opt'),
         ToSet(opt.overlayfsmount) \subseteq ToSet(opt'.overlayfsmount),
         pc \in {"root"} \cup InRootPhase, pc' \in {"died"} \cup InRootPhase,
         LoopOrder', SunkInRoot', Grows(mnt, mnt'),
         \A x \in New(mnt, mnt') : x \in MountRecord /\ (x.fs # "host" \/ InSandbox(x)),
         \A t \in ToSet(opt.tmpfs_dirs) :
           pc' \in InRootPhase /\ ~Overlaid(t) => Pending(t)' \/ ~Shows(mnt', InRoot(t), t)
  PROVE  HideSafe'
<1>1. (Chroots' <=> Chroots) /\ (use_overlayfs' <=> use_overlayfs) /\ machine' = machine
      /\ opt'.tmpfs_dirs = opt.tmpfs_dirs
  BY DEF Quiet, SameBut, Chroots, use_overlayfs
<1>2. UpperDir'
  <2>1. SUFFICES ASSUME machine.privileged, use_overlayfs
                 PROVE  Cover(mnt', tmp_overlayfs).fs # "host"
    BY <1>1 DEF UpperDir, Cover
  <2>2. Cover(mnt, tmp_overlayfs).fs # "host"
    BY <2>1 DEF HideShapes, HideSafe, UpperDir
  <2>3. \A x \in New(mnt, mnt') : x.at \in Paths /\ (x.fs # "host" \/ InSandbox(x))
    BY RecordFields
  <2>4. QED
    BY <2>2, <2>3, HideFacts, UpperStays
<1>3. NotShown'
  <2>1. \A t \in ToSet(opt.tmpfs_dirs) : Overlaid(t) => Overlaid(t)'
    BY DEF Overlaid
  <2>2. pc' \notin LastPhase
    BY DEF LastPhase, InRootPhase
  <2>3. QED
    BY <1>1, <2>1, <2>2 DEF NotShown
<1>4. QED
  BY <1>2, <1>3 DEF HideSafe

\* The overlay of t is still to come after a step before the second loop.
LEMMA PendingStays ==
  ASSUME machine' = machine, opt' = opt, NEW t, Pending(t), pc \notin {"overlays"},
         pc' \in {"overlayfirst", "tmpfs", "binds", "readonly"}
  PROVE  Pending(t)'
  BY DEF Pending

\* MountOverlayDirAsTmpfs keeps HideSafe.
LEMMA StartHide ==
  ASSUME HideShapes, Chroots, Shape', MountOverlayDirAsTmpfs
  PROVE  HideSafe'
<1> DEFINE x == Mount(tmp_overlayfs, "tmpfs", tmp_overlayfs)
<1>1. /\ pc = "start" /\ pc' = "root" /\ Quiet /\ UNCHANGED fixed
      /\ mnt' = IF machine.privileged /\ use_overlayfs THEN Append(mnt, x) ELSE mnt
  BY StartStep DEF FirstStep
<1>2. Rooted(mnt) /\ tmp_overlayfs \in Paths /\ IsPrefix(tmp_overlayfs, tmp_overlayfs)
  BY HideFacts, PathsHere, PathRoot
<1>3. x \in MountRecord /\ x.at = tmp_overlayfs /\ x.fs = "tmpfs"
  BY <1>2, MountIs DEF Mounted
<1> HIDE DEF x
<1>4. opt' = opt /\ machine' = machine /\ todo' = todo
  BY <1>1 DEF fixed, policy, Quiet
<1>5. UpperDir'
  <2>1. Cover(Append(mnt, x), tmp_overlayfs).fs # "host"
    BY <1>2, <1>3, AppendCovers
  <2>2. QED
    BY <1>1, <1>4, <2>1 DEF UpperDir, use_overlayfs, Cover
<1>6. LoopOrder' /\ NotShown'
  BY <1>1, <1>4 DEF HideShapes, HideSafe, LoopOrder, NotShown, FreshPhase, InRootPhase, LastPhase
<1>7. SunkInRoot'
  <2>1. Grows(mnt, Append(mnt, x)) /\ New(mnt, Append(mnt, x)) = {x}
    BY <1>2, <1>3, GrowsByOne
  <2>2. AllSunk(mnt) => AllSunk(Append(mnt, x))
    BY <1>2, <1>3, <2>1, SunkGrows DEF Sunk
  <2>3. QED
    BY <1>1, <1>4, <2>2 DEF HideShapes, HideSafe, SunkInRoot, SunkPhase
<1>8. QED
  BY <1>5, <1>6, <1>7 DEF HideSafe

\* The root shows the directory that it is.
LEMMA RootBound ==
  ASSUME SafeShape, pc = "root", Chroots,
         Bound(mnt, sandbox_root, sandbox_root).fs = "host"
  PROVE  Bound(mnt, sandbox_root, sandbox_root).dir = sandbox_root
<1> DEFINE x == Bound(mnt, sandbox_root, sandbox_root)
<1>1. /\ Rooted(mnt) /\ sandbox_root \in Paths /\ AllFit(Granted, mnt)
  BY NextNumber, PathsHere DEF SafeShape, SafeInRoot, BeforePivot, AllFit
<1>2. x.dir = Locate(mnt, sandbox_root).path /\ x.fs = Cover(mnt, sandbox_root).fs
  BY <1>1, BoundIs DEF Mounted
<1> HIDE DEF x
<1>3. MountOf(mnt, sandbox_root) \in 1..Count(mnt)
  BY <1>1, RootCovers DEF Covers
<1>4. ~IsPrefix(sandbox_root, Cover(mnt, sandbox_root).at)
  BY <1>3 DEF SafeShape, Shape, RootFirst, Cover
<1>5. Fits(Granted, Cover(mnt, sandbox_root))
  BY <1>1, <1>3 DEF AllFit, Cover
<1>6. Cover(mnt, sandbox_root).dir = Cover(mnt, sandbox_root).at
  BY <1>2, <1>4, <1>5 DEF Fits, InSandbox, x
<1>7. QED
  BY <1>1, <1>2, <1>6, LocateIs DEF x

\* MountSandboxAndGoThere keeps HideSafe.
LEMMA RootHide ==
  ASSUME HideShapes, Chroots, MountSandboxAndGoThere
  PROVE  HideSafe'
<1> DEFINE x == Bound(mnt, sandbox_root, sandbox_root)
<1>1. /\ pc = "root" /\ pc' \in {"dev", "died"} /\ Quiet /\ UNCHANGED fixed
      /\ mnt' = Append(mnt, x)
  BY RootStep, BindIs
<1>2. Rooted(mnt) /\ sandbox_root \in Paths /\ IsPrefix(sandbox_root, sandbox_root) /\ SafeShape
  BY HideFacts, PathsHere, PathRoot
<1>3. x \in MountRecord /\ x.at = sandbox_root
  BY <1>2, BoundIs DEF Mounted
<1>4. x.fs = "host" => x.dir = x.at
  BY <1>1, <1>2, <1>3, RootBound
<1> HIDE DEF x
<1>5. Grows(mnt, mnt') /\ New(mnt, mnt') = {x} /\ InSandbox(x) /\ Rooted(mnt')
  BY <1>1, <1>2, <1>3, GrowsByOne DEF InSandbox, Grows
<1>6. opt' = opt /\ todo' = todo /\ machine' = machine /\ opt \in Option /\ SameBut(opt, opt')
  BY <1>1, HideFacts DEF fixed, policy, Quiet, SameBut
<1>7. LoopOrder'
  BY <1>1, <1>6 DEF HideShapes, HideSafe, LoopOrder, FreshPhase
<1>8. SunkInRoot'
  <2>1. AllSunk(mnt) => AllSunk(mnt')
    BY <1>2, <1>4, <1>5, SunkGrows DEF Sunk
  <2>2. QED
    BY <1>1, <1>6, <2>1 DEF HideShapes, HideSafe, SunkInRoot, SunkPhase, Chroots
<1>9. ASSUME NEW t \in ToSet(opt.tmpfs_dirs) PROVE ~Shows(mnt', InRoot(t), t)
  <2>1. t \in Paths /\ InRoot(t) \in Paths /\ IsPrefix(sandbox_root, InRoot(t))
    BY <1>9, HideFacts
  <2>2. Cover(mnt', InRoot(t)) = x
    BY <1>1, <1>2, <1>3, <2>1, AppendCovers
  <2>3. Locate(mnt', InRoot(t)).fs = x.fs /\ (x.dir = x.at => Locate(mnt', InRoot(t)).path = InRoot(t))
    BY <1>5, <2>1, <2>2, LocateIs
  <2>4. InRoot(t) # t
    <3>1. /\ Depth(InRoot(t)) = Depth(sandbox_root) + Depth(t) /\ Depth(t) \in Nat
          /\ Depth(sandbox_root) \in Nat /\ Depth(sandbox_root) >= 1
      BY <1>2, <2>1, DepthJoin, DepthsHere DEF InRoot
    <3>2. QED
      BY <3>1
  <2>5. QED
    BY <1>4, <2>3, <2>4 DEF Shows
<1>10. pc' \in {"died"} \cup InRootPhase
  BY <1>1 DEF InRootPhase
<1>11. QED
  BY <1>1, <1>3, <1>5, <1>6, <1>7, <1>8, <1>9, <1>10, HideFrame

\* A step of the root that only mounts what shows t nowhere, before the binds.
LEMMA EarlyHide ==
  ASSUME HideShapes, Chroots, Quiet, SameBut(opt, opt'),
         ToSet(opt.overlayfsmount) \subseteq ToSet(opt'.overlayfsmount),
         pc \in {"dev", "proc", "workingdir", "leftover"}, pc' \in {"died"} \cup InRootPhase,
         LoopOrder', Grows(mnt, mnt'), pc' = "died" \/ pc' \in SunkPhase \/ opt.mode # "default",
         \A x \in New(mnt, mnt') :
           /\ x \in MountRecord /\ (x.fs # "host" \/ (InSandbox(x)
                  /\ \A t \in ToSet(opt.tmpfs_dirs) : ~IsPrefix(x.at, InRoot(t))))
           /\ (opt.mode = "default" => Sunk(x))
  PROVE  HideSafe'
<1>1. Rooted(mnt) /\ pc \in InRootPhase /\ pc \in SunkPhase
  BY HideFacts DEF InRootPhase, SunkPhase
<1>2. opt'.mode = opt.mode
  BY DEF SameBut
<1>3. SunkInRoot'
  <2>1. SUFFICES ASSUME opt.mode = "default" PROVE AllSunk(mnt')
    BY <1>2 DEF SunkInRoot
  <2>2. AllSunk(mnt)
    BY <1>1, <2>1 DEF HideShapes, HideSafe, SunkInRoot
  <2>3. QED
    BY <1>1, <2>1, <2>2, SunkGrows
<1>4. ASSUME NEW t \in ToSet(opt.tmpfs_dirs), ~Overlaid(t)
      PROVE  ~Shows(mnt', InRoot(t), t)
  <2>1. InRoot(t) \in Paths
    BY HideFacts
  <2>2. ~Pending(t)
    BY DEF Pending
  <2>3. ~Shows(mnt, InRoot(t), t)
    BY <1>1, <1>4, <2>2 DEF HideShapes, HideSafe, NotShown
  <2>4. \A x \in New(mnt, mnt') : x.fs # "host" \/ ~IsPrefix(x.at, InRoot(t))
    BY <1>4
  <2>5. QED
    BY <1>1, <2>1, <2>3, <2>4, StaysUnshown
<1>5. QED
  BY <1>1, <1>3, <1>4, HideFrame

\* MountDev keeps HideSafe.
LEMMA DevHide ==
  ASSUME HideShapes, Chroots, MountDev
  PROVE  HideSafe'
<1> DEFINE x == Bound(mnt, NULL, InRoot(NULL))
<1>1. /\ pc = "dev" /\ pc' \in {"proc", "died"} /\ Quiet /\ UNCHANGED fixed
      /\ mnt' = Append(mnt, x)
  BY DevStep, BindIs
<1>2. /\ Rooted(mnt) /\ NULL \in Paths /\ InRoot(NULL) \in Paths /\ sandbox_root \in Paths
      /\ IsPrefix(sandbox_root, InRoot(NULL)) /\ SafeShape /\ opt \in Option
  BY HideFacts, PathsHere, InRootPath
<1>3. x \in MountRecord /\ x.at = InRoot(NULL)
  BY <1>2, BoundIs DEF Mounted
<1>4. opt.mode = "default" => Sunk(x)
  <2>1. SUFFICES ASSUME opt.mode = "default" PROVE Sunk(x)
    OBVIOUS
  <2>2. AllFit(Granted, mnt) /\ AllSunk(mnt)
    BY <1>1, <1>2, <2>1
       DEF SafeShape, SafeInRoot, BeforePivot, InRootPhase, AllFit, HideShapes, HideSafe, SunkInRoot, SunkPhase
  <2>3. Depth(NULL) <= Depth(NULL) + 1
    BY <1>2, DepthJoin
  <2>4. QED
    BY <1>2, <2>2, <2>3, BindSunk
<1> HIDE DEF x
<1>5. Grows(mnt, mnt') /\ New(mnt, mnt') = {x} /\ InSandbox(x)
  BY <1>1, <1>2, <1>3, GrowsByOne DEF InSandbox
<1>6. opt' = opt /\ todo' = todo /\ machine' = machine /\ SameBut(opt, opt')
  BY <1>1, <1>2 DEF fixed, policy, Quiet, SameBut
<1>7. LoopOrder'
  BY <1>1, <1>6 DEF HideShapes, HideSafe, LoopOrder, FreshPhase
<1>8. ASSUME NEW t \in ToSet(opt.tmpfs_dirs) PROVE ~IsPrefix(x.at, InRoot(t))
  <2>1. t \in Dirs /\ t \in Paths
    BY HideFacts
  <2>2. ~IsPrefix(NULL, t)
    BY <2>1, MountAssumption DEF isSubpath
  <2>3. QED
    BY <1>2, <1>3, <2>1, <2>2, PathJoinBelow DEF InRoot
<1>9. pc' \in {"died"} \cup InRootPhase /\ (pc' = "died" \/ pc' \in SunkPhase)
  BY <1>1 DEF InRootPhase, SunkPhase
<1>10. QED
  BY <1>1, <1>3, <1>4, <1>5, <1>6, <1>7, <1>8, <1>9, EarlyHide

\* MountProcAndSys keeps HideSafe.
LEMMA ProcHide ==
  ASSUME HideShapes, Chroots, MountProcAndSys
  PROVE  HideSafe'
<1>1. pc = "proc" /\ pc' = PolicyStep /\ Quiet /\ UNCHANGED fixed
  BY ProcStep, HideFacts, NextNumber
<1>2. Grows(mnt, mnt') /\ \A x \in New(mnt, mnt') : x = ProcMount \/ x = SysMount
  BY ProcGrows, HideFacts
<1>3. \A x \in New(mnt, mnt') : x \in MountRecord /\ x.fs # "host" /\ Sunk(x)
  BY <1>2, ProcMounts DEF Mounted, Sunk
<1>4. /\ pc' \in {"workingdir", "overlayfirst", "tmpfs"} /\ (pc' = "overlayfirst" => opt.mode = "custom")
  BY <1>1 DEF PolicyStep, Chroots
<1>5. opt' = opt /\ todo' = todo /\ SameBut(opt, opt')
  BY <1>1, HideFacts DEF fixed, policy, SameBut
<1>6. LoopOrder'
  <2>1. todo = {}
    BY <1>1 DEF HideShapes, HideSafe, LoopOrder, FreshPhase
  <2>2. QED
    BY <1>4, <1>5, <2>1 DEF LoopOrder, FreshPhase
<1>7. pc' \in {"died"} \cup InRootPhase /\ (pc' = "died" \/ pc' \in SunkPhase \/ opt.mode # "default")
  BY <1>4 DEF InRootPhase, SunkPhase
<1>8. QED
  BY <1>1, <1>2, <1>3, <1>5, <1>6, <1>7, EarlyHide

\* MountWorkingDirMountPoint keeps HideSafe.
LEMMA ParentsHide ==
  ASSUME HideShapes, Chroots, MountWorkingDirMountPoint
  PROVE  HideSafe'
<1>1. /\ pc = "workingdir" /\ pc' = "leftover" /\ Quiet /\ mnt' = mnt /\ SameBut(opt, opt')
      /\ todo' = todo /\ ToSet(opt.overlayfsmount) \subseteq ToSet(opt'.overlayfsmount)
  BY ParentsOptions, HideFacts
<1>2. Grows(mnt, mnt') /\ New(mnt, mnt') = {}
  BY <1>1, HideFacts, GrowsNot
<1>3. LoopOrder'
  BY <1>1 DEF HideShapes, HideSafe, LoopOrder, FreshPhase
<1>4. pc' \in {"died"} \cup InRootPhase /\ pc' \in SunkPhase
  BY <1>1 DEF InRootPhase, SunkPhase
<1>5. QED
  BY <1>1, <1>2, <1>3, <1>4, EarlyHide

\* AddLeftoverFoldersToReadOnlyPaths keeps HideSafe.
LEMMA LeftoverHide ==
  ASSUME HideShapes, Chroots, AddLeftoverFoldersToReadOnlyPaths
  PROVE  HideSafe'
<1>1. /\ pc = "leftover" /\ pc' = "tmpfs" /\ Quiet /\ mnt' = mnt /\ opt' = opt
  BY LeftoverStep
<1>2. Grows(mnt, mnt') /\ New(mnt, mnt') = {} /\ SameBut(opt, opt')
  BY <1>1, HideFacts, GrowsNot DEF SameBut
<1>3. LoopOrder'
  BY <1>1 DEF LoopOrder, FreshPhase
<1>4. pc' \in {"died"} \cup InRootPhase /\ pc' \in SunkPhase
  BY <1>1 DEF InRootPhase, SunkPhase
<1>5. QED
  BY <1>1, <1>2, <1>3, <1>4, EarlyHide

\* MountAllTmpfs keeps HideSafe.
LEMMA TmpfsHide ==
  ASSUME HideShapes, Chroots, MountAllTmpfs
  PROVE  HideSafe'
<1> DEFINE l == opt.tmpfs_dirs
           x == Mount(l[next], "tmpfs", l[next])
<1>1. /\ pc = "tmpfs" /\ Quiet /\ UNCHANGED <<policy, todo>>
      /\ \/ mnt' = mnt /\ pc' = "died"
         \/ Turn(Count(l), Append(mnt, x), "binds")
  BY TmpfsStep
<1>2. /\ Rooted(mnt) /\ next \in Nat \ {0} /\ l \in Lists /\ opt' = opt /\ machine' = machine
      /\ SameBut(opt, opt') /\ pc \in InRootPhase
  BY <1>1, HideFacts DEF policy, Quiet, SameBut, InRootPhase
<1>3. pc' \in {"tmpfs", "binds", "died"}
  BY <1>1 DEF Turn
<1> HIDE DEF l
<1>4. Grows(mnt, mnt') /\ \A y \in New(mnt, mnt') : y \in MountRecord /\ y.fs # "host"
  <2>1. CASE mnt' = mnt
    BY <1>2, <2>1, GrowsNot
  <2>2. CASE next <= Count(l) /\ mnt' = Append(mnt, x)
    <3>1. l[next] \in Paths
      BY <1>2, <2>2, Item
    <3>2. x \in MountRecord /\ x.fs = "tmpfs"
      BY <3>1, MountIs DEF Mounted
    <3> HIDE DEF x
    <3>3. QED
      BY <1>2, <2>2, <3>2, GrowsByOne
  <2>3. QED
    BY <1>1, <2>1, <2>2 DEF Turn
<1>5. LoopOrder'
  BY <1>3 DEF LoopOrder, FreshPhase
<1>6. SunkInRoot'
  <2>1. SUFFICES ASSUME opt.mode = "default" PROVE AllSunk(mnt')
    BY <1>2 DEF SunkInRoot
  <2>2. AllSunk(mnt)
    BY <1>1, <2>1 DEF HideShapes, HideSafe, SunkInRoot, SunkPhase
  <2>3. \A y \in New(mnt, mnt') : Sunk(y)
    BY <1>4 DEF Sunk
  <2>4. QED
    BY <1>2, <1>4, <2>2, <2>3, SunkGrows
<1>7. ASSUME NEW t \in ToSet(opt.tmpfs_dirs), pc' \in InRootPhase, ~Overlaid(t)
      PROVE  Pending(t)' \/ ~Shows(mnt', InRoot(t), t)
  <2>1. CASE Pending(t)
    <3>1. pc' \in {"tmpfs", "binds"}
      BY <1>3, <1>7 DEF InRootPhase
    <3>2. QED
      BY <1>1, <1>2, <2>1, <3>1, PendingStays
  <2>2. CASE ~Pending(t)
    <3>1. InRoot(t) \in Paths
      BY <1>7, HideFacts
    <3>2. ~Shows(mnt, InRoot(t), t)
      BY <1>2, <1>7, <2>2 DEF HideShapes, HideSafe, NotShown
    <3>3. QED
      BY <1>2, <1>4, <3>1, <3>2, StaysUnshown
  <2>3. QED
    BY <2>1, <2>2
<1>8. pc' \in {"died"} \cup InRootPhase
  BY <1>3 DEF InRootPhase
<1>9. QED
  BY <1>1, <1>2, <1>4, <1>5, <1>6, <1>7, <1>8, HideFrame

\* A tmpfs directory is covered, so that no bind to its own place brings it in.
LEMMA IdentityUnshown ==
  ASSUME HideShapes, Chroots, pc \in AfterTmpfs, NEW t \in ToSet(opt.tmpfs_dirs),
         ~Shows(mnt, InRoot(t), t), NEW src \in Paths, NEW ro \in BOOLEAN
  PROVE  /\ ~Shows(BindRec(mnt, src, InRoot(src)), InRoot(t), t)
         /\ ~Shows(Remount(BindRec(mnt, src, InRoot(src)), InRoot(src), ro), InRoot(t), t)
<1>1. Rooted(mnt) /\ t \in Paths /\ SafeShape
  BY HideFacts
<1>2. Cover(mnt, t).fs # "host"
  BY <1>1 DEF SafeShape, TmpfsOnHost
<1>3. ~Shows(BindRec(mnt, src, InRoot(src)), InRoot(t), t)
  BY <1>1, <1>2, BindUnshown
<1>4. QED
  BY <1>1, <1>3, RemountedUnshown

\* A step after the tmpfs keeps HideSafe if it mounts in the root and brings no
\* tmpfs directory in.
LEMMA LateHide ==
  ASSUME HideShapes, Chroots, Quiet, opt' = opt, pc \in AfterTmpfs, pc' \in {"died"} \cup AfterTmpfs,
         LoopOrder', SunkInRoot', Grows(mnt, mnt'),
         \A x \in New(mnt, mnt') : x \in MountRecord /\ InSandbox(x),
         \A t \in ToSet(opt.tmpfs_dirs) :
           /\ pc' \in InRootPhase /\ Pending(t) => Pending(t)' \/ ~Shows(mnt', InRoot(t), t)
           /\ ~Shows(mnt, InRoot(t), t) => ~Shows(mnt', InRoot(t), t)
  PROVE  HideSafe'
<1>1. pc \in InRootPhase /\ pc' \in {"died"} \cup InRootPhase
  BY DEF AfterTmpfs, InRootPhase
<1>2. SameBut(opt, opt')
  BY HideFacts DEF SameBut
<1>3. ASSUME NEW t \in ToSet(opt.tmpfs_dirs), pc' \in InRootPhase, ~Overlaid(t)
      PROVE  Pending(t)' \/ ~Shows(mnt', InRoot(t), t)
  <2>1. Pending(t) \/ ~Shows(mnt, InRoot(t), t)
    BY <1>1, <1>3 DEF HideShapes, HideSafe, NotShown
  <2>2. QED
    BY <1>3, <2>1
<1>4. QED
  BY <1>1, <1>2, <1>3, HideFrame

\* MountBinds mounts in the root, and brings no tmpfs directory in.
LEMMA BindsNew ==
  ASSUME HideShapes, Chroots, pc = "binds", NEW src \in Paths, NEW dst \in Paths,
         dst = src \/ (opt.mode = "default" /\ src = MINI_SBX_TMP /\ dst = TMP)
  PROVE  /\ Grows(mnt, RemountedBind(src, InRoot(dst)))
         /\ \A x \in New(mnt, RemountedBind(src, InRoot(dst))) : x \in MountRecord /\ InSandbox(x)
         /\ opt.mode = "default" => AllSunk(RemountedBind(src, InRoot(dst)))
         /\ \A t \in ToSet(opt.tmpfs_dirs) :
              ~Shows(mnt, InRoot(t), t) => ~Shows(RemountedBind(src, InRoot(dst)), InRoot(t), t)
<1> DEFINE ro == ~ShouldBeWritable(src) /\ ~ShouldBeWritable(InRoot(dst))
           m == Remount(BindRec(mnt, src, InRoot(dst)), InRoot(dst), ro)
<1>1. ro \in BOOLEAN /\ RemountedBind(src, InRoot(dst)) = m
  BY DEF RemountedBind
<1>2. Rooted(mnt) /\ SafeShape /\ pc \in AfterTmpfs /\ InRoot(dst) \in Paths
  BY HideFacts, InRootPath DEF AfterTmpfs
<1>3. AllFit(Granted, mnt)
  BY <1>2 DEF SafeShape, SafeInRoot, BeforePivot, InRootPhase, AllFit
<1> HIDE DEF ro
<1>4. \A x \in New(mnt, m) : x \in MountRecord /\ InSandbox(x)
  BY <1>1, <1>2, BoundInSandbox DEF InSandbox
<1>5. /\ Grows(mnt, m)
      /\ \A x \in New(mnt, m) :
           \/ x = Flagged(Bound(mnt, src, InRoot(dst)), ro)
           \/ \E i \in 1..Count(mnt) : Below(mnt, src, i) /\ x = Brought(mnt, src, InRoot(dst), i)
  BY <1>1, <1>2, GrowsByRemount
<1>6. ASSUME opt.mode = "default" PROVE AllSunk(mnt) /\ AllSunk(m)
  <2>1. AllSunk(mnt)
    BY <1>6 DEF HideShapes, HideSafe, SunkInRoot, SunkPhase
  <2>2. Depth(src) <= Depth(dst) + 1
    BY DepthsHere, DepthJoin
  <2>3. /\ Sunk(Bound(mnt, src, InRoot(dst)))
        /\ \A i \in 1..Count(mnt) : Below(mnt, src, i) => Sunk(Brought(mnt, src, InRoot(dst), i))
    BY <1>2, <1>3, <2>1, <2>2, BindSunk
  <2>4. Bound(mnt, src, InRoot(dst)) \in MountRecord
    BY <1>2, BoundIs DEF Mounted
  <2>5. Sunk(Flagged(Bound(mnt, src, InRoot(dst)), ro))
    BY <1>1, <2>3, <2>4, FlaggedSunk
  <2>6. \A x \in New(mnt, m) : Sunk(x)
    BY <1>5, <2>3, <2>5
  <2> HIDE DEF m
  <2>7. QED
    BY <1>2, <1>5, <2>1, <2>6, SunkGrows
<1>7. ASSUME NEW t \in ToSet(opt.tmpfs_dirs), ~Shows(mnt, InRoot(t), t)
      PROVE  ~Shows(m, InRoot(t), t)
  <2>1. CASE dst = src
    BY <1>1, <1>2, <1>7, <2>1, IdentityUnshown
  <2>2. CASE opt.mode = "default" /\ src = MINI_SBX_TMP /\ dst = TMP
    <3>1. t \in Paths
      BY <1>7, HideFacts
    <3>2. ~Shows(BindRec(mnt, MINI_SBX_TMP, InRoot(TMP)), InRoot(t), t)
      BY <1>2, <1>3, <1>6, <1>7, <2>2, <3>1, TmpUnshown
    <3>3. QED
      BY <1>1, <1>2, <2>2, <3>1, <3>2, RemountedUnshown
  <2>3. QED
    BY <2>1, <2>2
<1>8. QED
  BY <1>1, <1>4, <1>5, <1>6, <1>7

\* MountBinds keeps HideSafe.
LEMMA BindsHide ==
  ASSUME HideShapes, Chroots, MountBinds
  PROVE  HideSafe'
<1> DEFINE src == opt.sources[next]
           dst == opt.targets[next]
           m == RemountedBind(src, InRoot(dst))
<1>1. /\ pc = "binds" /\ Quiet /\ UNCHANGED policy /\ Turn(Count(opt.sources), m, "readonly")
  BY BindsStep
<1>2. /\ Rooted(mnt) /\ next \in Nat \ {0} /\ opt' = opt /\ machine' = machine /\ pc \in AfterTmpfs
      /\ opt.sources \in Lists /\ Shape
  BY <1>1, HideFacts DEF policy, Quiet, AfterTmpfs
<1>3. pc' \in {"binds", "readonly", "died"} /\ (pc' = "readonly" => next' = 1)
  BY <1>1 DEF Turn
<1>4. LoopOrder'
  BY <1>3 DEF LoopOrder, FreshPhase
<1>5. pc' \in {"died"} \cup AfterTmpfs
  BY <1>3 DEF AfterTmpfs
<1>6. ASSUME NEW t, pc' \in InRootPhase, Pending(t) PROVE Pending(t)'
  <2>1. pc' \in {"binds", "readonly"}
    BY <1>3, <1>6 DEF InRootPhase
  <2>2. QED
    BY <1>1, <1>2, <1>6, <2>1, PendingStays
<1>7. CASE next <= Count(opt.sources) /\ mnt' = m
  <2>1. next \in 1..Count(opt.sources)
    BY <1>2, <1>7, Item
  <2>2. /\ src \in Paths /\ dst \in Paths
        /\ dst = src \/ (opt.mode = "default" /\ src = MINI_SBX_TMP /\ dst = TMP)
    BY <1>2, <2>1, SourcesTargets
  <2> HIDE DEF src, dst
  <2>3. /\ Grows(mnt, m) /\ \A x \in New(mnt, m) : x \in MountRecord /\ InSandbox(x)
        /\ opt.mode = "default" => AllSunk(m)
        /\ \A t \in ToSet(opt.tmpfs_dirs) : ~Shows(mnt, InRoot(t), t) => ~Shows(m, InRoot(t), t)
    BY <1>1, <2>2, BindsNew
  <2> HIDE DEF m
  <2>4. SunkInRoot'
    BY <1>2, <1>7, <2>3 DEF SunkInRoot
  <2>5. QED
    BY <1>1, <1>2, <1>4, <1>5, <1>6, <1>7, <2>3, <2>4, LateHide
<1>8. CASE mnt' = mnt
  <2>1. Grows(mnt, mnt') /\ New(mnt, mnt') = {}
    BY <1>2, <1>8, GrowsNot
  <2>2. SunkInRoot'
    BY <1>1, <1>2, <1>8 DEF HideShapes, HideSafe, SunkInRoot, SunkPhase, Chroots
  <2>3. QED
    BY <1>1, <1>2, <1>4, <1>5, <1>6, <1>8, <2>1, <2>2, LateHide
<1>9. QED
  BY <1>1, <1>7, <1>8 DEF Turn

\* A step after the first binds that binds a path to its own place, or nothing.
LEMMA IdentityHide ==
  ASSUME HideShapes, Chroots, Quiet, opt' = opt, pc \in AfterTmpfs, pc # "overlays",
         pc' \in {"died"} \cup (AfterTmpfs \ {"binds"}), LoopOrder',
         \/ mnt' = mnt
         \/ \E src \in Paths : mnt' = BindRec(mnt, src, InRoot(src))
         \/ \E src \in Paths, ro \in BOOLEAN :
              mnt' = Remount(BindRec(mnt, src, InRoot(src)), InRoot(src), ro),
         \A t \in ToSet(opt.tmpfs_dirs) : pc' \in InRootPhase /\ Pending(t) => Pending(t)'
  PROVE  HideSafe'
<1>1. SunkInRoot' /\ Rooted(mnt)
  BY HideFacts DEF SunkInRoot, SunkPhase, AfterTmpfs
<1>2. CASE mnt' = mnt
  <2>1. Grows(mnt, mnt') /\ New(mnt, mnt') = {}
    BY <1>1, <1>2, GrowsNot
  <2>2. QED
    BY <1>1, <1>2, <2>1, LateHide
<1>3. ASSUME NEW src \in Paths, mnt' = BindRec(mnt, src, InRoot(src)) PROVE HideSafe'
  <2>1. Grows(mnt, mnt') /\ \A x \in New(mnt, mnt') : x \in MountRecord /\ InSandbox(x)
    BY <1>1, <1>3, BoundInSandbox, BindInRootGrows DEF InSandbox
  <2>2. \A t \in ToSet(opt.tmpfs_dirs) : ~Shows(mnt, InRoot(t), t) => ~Shows(mnt', InRoot(t), t)
    BY <1>3, IdentityUnshown
  <2>3. QED
    BY <1>1, <2>1, <2>2, LateHide
<1>4. ASSUME NEW src \in Paths, NEW ro \in BOOLEAN,
             mnt' = Remount(BindRec(mnt, src, InRoot(src)), InRoot(src), ro)
      PROVE  HideSafe'
  <2>1. Grows(mnt, mnt') /\ \A x \in New(mnt, mnt') : x \in MountRecord /\ InSandbox(x)
    BY <1>1, <1>4, BoundInSandbox, BindInRootGrows DEF InSandbox
  <2>2. \A t \in ToSet(opt.tmpfs_dirs) : ~Shows(mnt, InRoot(t), t) => ~Shows(mnt', InRoot(t), t)
    BY <1>4, IdentityUnshown
  <2>3. QED
    BY <1>1, <2>1, <2>2, LateHide
<1>5. QED
  BY <1>2, <1>3, <1>4

\* MountReadOnly keeps HideSafe.
LEMMA ReadOnlyHide ==
  ASSUME HideShapes, Chroots, MountReadOnly
  PROVE  HideSafe'
<1>1. /\ pc = "readonly" /\ Quiet /\ UNCHANGED <<policy, next>>
      /\ \/ todo = {} /\ mnt' = mnt /\ pc' = "overlays" /\ todo' = todo
         \/ \E p : /\ todo # {} /\ mnt' = RemountedBind(p, InRoot(p)) /\ pc' \in {pc, "died"}
                   /\ p = CHOOSE q \in todo : ~\E r \in todo : IsStrictPrefix(r, q)
                   /\ todo' = todo \ {p}
  BY ReadOnlyStep
<1>2. /\ Rooted(mnt) /\ todo \subseteq Paths /\ pc \in AfterTmpfs /\ opt' = opt /\ machine' = machine
      /\ next' = next /\ opt.overlayfsmount \in Lists /\ next = 1
  BY <1>1, HideFacts, PathsHere
     DEF Shape, TypeOK, AfterTmpfs, policy, Quiet, HideShapes, HideSafe, LoopOrder
<1>3. CASE todo = {} /\ mnt' = mnt /\ pc' = "overlays" /\ todo' = todo
  <2>1. LoopOrder'
    BY <1>3 DEF LoopOrder, FreshPhase
  <2>2. ASSUME NEW t \in ToSet(opt.tmpfs_dirs), Pending(t) PROVE Pending(t)'
    <3>1. opt.mode = "custom" /\ t \notin machine.noOverlay /\ t \in ToSet(opt.overlayfsmount)
      BY <1>1, <2>2 DEF Pending
    <3>2. PICK n \in 1..Count(opt.overlayfsmount) : opt.overlayfsmount[n] = t
      BY <1>2, <3>1, ListItems
    <3>3. n > next \/ (n = next /\ todo = {})
      BY <1>2, <1>3, <3>2
    <3>4. QED
      BY <1>2, <1>3, <3>1, <3>2, <3>3 DEF Pending
  <2>3. pc' \in {"died"} \cup (AfterTmpfs \ {"binds"}) /\ pc # "overlays"
    BY <1>1, <1>3 DEF AfterTmpfs
  <2>4. QED
    BY <1>1, <1>2, <1>3, <2>1, <2>2, <2>3, IdentityHide
<1>4. ASSUME NEW p, todo # {}, mnt' = RemountedBind(p, InRoot(p)), pc' \in {pc, "died"},
             p = CHOOSE q \in todo : ~\E r \in todo : IsStrictPrefix(r, q)
      PROVE  HideSafe'
  <2>1. p \in Paths
    BY <1>2, <1>4, FirstPath
  <2>2. \E src \in Paths, ro \in BOOLEAN :
          mnt' = Remount(BindRec(mnt, src, InRoot(src)), InRoot(src), ro)
    <3>1. (~ShouldBeWritable(p) /\ ~ShouldBeWritable(InRoot(p))) \in BOOLEAN
      OBVIOUS
    <3>2. QED
      BY <1>4, <2>1, <3>1 DEF RemountedBind
  <2>3. LoopOrder'
    BY <1>1, <1>2, <1>4 DEF LoopOrder, FreshPhase
  <2>4. ASSUME NEW t, pc' \in InRootPhase, Pending(t) PROVE Pending(t)'
    <3>1. pc' = "readonly"
      BY <1>1, <1>4, <2>4 DEF InRootPhase
    <3>2. QED
      BY <1>1, <1>2, <2>4, <3>1, PendingStays
  <2>5. pc' \in {"died"} \cup (AfterTmpfs \ {"binds"}) /\ pc # "overlays"
    BY <1>1, <1>4 DEF AfterTmpfs
  <2>6. QED
    BY <1>1, <1>2, <2>2, <2>3, <2>4, <2>5, IdentityHide
<1>5. QED
  BY <1>1, <1>3, <1>4

\* MountWritables keeps HideSafe.
LEMMA WritablesHide ==
  ASSUME HideShapes, Chroots, MountWritables
  PROVE  HideSafe'
<1> DEFINE w == opt.writable_files[next]
<1>1. /\ pc = "writables" /\ Quiet /\ UNCHANGED <<policy, todo>>
      /\ \/ Turn(Count(opt.writable_files), mnt, "cwd")
         \/ Turn(Count(opt.writable_files), BindRec(mnt, w, InRoot(w)), "cwd")
  BY WritablesStep
<1>2. next \in Nat \ {0} /\ opt' = opt /\ opt.writable_files \in Lists
  BY <1>1, HideFacts, ShapeOptions DEF policy
<1>3. mnt' = mnt \/ \E src \in Paths : mnt' = BindRec(mnt, src, InRoot(src))
  <2>1. next <= Count(opt.writable_files) => w \in Paths
    BY <1>2, Item
  <2> HIDE DEF w
  <2>2. QED
    BY <1>1, <2>1 DEF Turn
<1>4. /\ pc \in AfterTmpfs /\ pc # "overlays" /\ pc' \in {"writables", "cwd", "died"}
      /\ pc' \in {"died"} \cup (AfterTmpfs \ {"binds"})
  BY <1>1 DEF Turn, AfterTmpfs
<1>5. LoopOrder' /\ \A t \in ToSet(opt.tmpfs_dirs) : ~Pending(t)
  BY <1>1, <1>4 DEF LoopOrder, FreshPhase, Pending
<1>6. QED
  BY <1>1, <1>2, <1>3, <1>4, <1>5, IdentityHide

\* MountWorkingDir keeps HideSafe.
LEMMA WorkingDirHide ==
  ASSUME HideShapes, Chroots, MountWorkingDir
  PROVE  HideSafe'
<1> DEFINE wd == opt.working_dir
<1>1. /\ pc = "cwd" /\ Quiet /\ UNCHANGED fixed /\ mnt' = BindRec(mnt, wd, InRoot(wd))
      /\ \/ pc' = "died"
         \/ pc' = CASE opt.mode = "default" -> "rest"
                    [] opt.mode = "custom" -> "home"
                    [] opt.mode = "hermetic" -> "pivot"
  BY WorkingDirStep
<1>2. opt' = opt /\ wd \in Paths
  BY <1>1, HideFacts, ShapeOptions DEF fixed, policy
<1>3. pc' \in {"died", "rest", "home", "pivot"}
  BY <1>1 DEF Chroots
<1>4. pc \in AfterTmpfs /\ pc # "overlays" /\ pc' \in {"died"} \cup (AfterTmpfs \ {"binds"})
  BY <1>1, <1>3 DEF AfterTmpfs
<1>5. LoopOrder' /\ \A t \in ToSet(opt.tmpfs_dirs) : ~Pending(t)
  BY <1>1, <1>3 DEF LoopOrder, FreshPhase, Pending
<1>6. \E src \in Paths : mnt' = BindRec(mnt, src, InRoot(src))
  BY <1>1, <1>2
<1>7. QED
  BY <1>1, <1>2, <1>4, <1>5, <1>6, IdentityHide

\* MountRest keeps HideSafe.
LEMMA RestHide ==
  ASSUME HideShapes, Chroots, MountRest
  PROVE  HideSafe'
<1> DEFINE at == mnt[next].at
           ro == ~ShouldBeWritable(at)
           m == Remount(BindRec(mnt, at, InRoot(at)), InRoot(at), ro)
<1>1. /\ pc = "rest" /\ Quiet /\ UNCHANGED <<policy, todo>>
      /\ Turn(mounts + 1, mnt, "home") \/ Turn(mounts + 1, m, "home")
  BY RestStep
<1>2. /\ Rooted(mnt) /\ next \in Nat \ {0} /\ mounts \in Nat /\ opt' = opt
      /\ mounts + 1 <= Count(mnt) /\ Count(mnt) \in Nat
  BY <1>1, HideFacts, NextNumber, TableMounts DEF Shape, MountsKept, Rooted, policy
<1>3. \/ mnt' = mnt
      \/ \E src \in Paths, q \in BOOLEAN :
           mnt' = Remount(BindRec(mnt, src, InRoot(src)), InRoot(src), q)
  <2>1. ASSUME next <= mounts + 1 PROVE at \in Paths
    <3>1. next \in 1..Count(mnt)
      BY <1>2, <2>1
    <3>2. QED
      BY <1>2, <3>1, TableMounts, RecordFields DEF Rooted
  <2>2. ro \in BOOLEAN
    OBVIOUS
  <2> HIDE DEF at, ro
  <2>3. next <= mounts + 1 => \E src \in Paths, q \in BOOLEAN :
           m = Remount(BindRec(mnt, src, InRoot(src)), InRoot(src), q)
    BY <2>1, <2>2
  <2> HIDE DEF m
  <2>4. QED
    BY <1>1, <2>3 DEF Turn
<1>4. /\ pc \in AfterTmpfs /\ pc # "overlays" /\ pc' \in {"rest", "home", "died"}
      /\ pc' \in {"died"} \cup (AfterTmpfs \ {"binds"})
  BY <1>1 DEF Turn, AfterTmpfs
<1>5. LoopOrder' /\ \A t \in ToSet(opt.tmpfs_dirs) : ~Pending(t)
  BY <1>1, <1>4 DEF LoopOrder, FreshPhase, Pending
<1>6. QED
  BY <1>1, <1>2, <1>3, <1>4, <1>5, IdentityHide

\* MakeEmptyHome keeps HideSafe.
LEMMA HomeHide ==
  ASSUME HideShapes, Chroots, MakeEmptyHome
  PROVE  HideSafe'
<1>1. pc = "home" /\ pc' \in {"pivot", "died"} /\ mnt' = mnt /\ Quiet /\ UNCHANGED fixed
  BY HomeStep
<1>2. opt' = opt
  BY <1>1 DEF fixed, policy
<1>3. pc \in AfterTmpfs /\ pc # "overlays" /\ pc' \in {"died"} \cup (AfterTmpfs \ {"binds"})
  BY <1>1 DEF AfterTmpfs
<1>4. LoopOrder' /\ \A t \in ToSet(opt.tmpfs_dirs) : ~Pending(t)
  BY <1>1 DEF LoopOrder, FreshPhase, Pending
<1>5. QED
  BY <1>1, <1>2, <1>3, <1>4, IdentityHide

\* The overlay loop is at a directory of the list, or below it.
LEMMA HereBelow ==
  ASSUME HideShapes, Chroots, pc \in {"overlayfirst", "overlays"}, next <= Count(opt.overlayfsmount)
  PROVE  /\ opt.overlayfsmount[next] \in Paths /\ Here \in Paths
         /\ opt.overlayfsmount[next] \in ToSet(opt.overlayfsmount)
         /\ IsPrefix(opt.overlayfsmount[next], Here)
         /\ todo = {} => Here = opt.overlayfsmount[next]
<1>1. /\ opt.overlayfsmount[next] \in Paths /\ opt.overlayfsmount[next] \in ToSet(opt.overlayfsmount)
      /\ Here \in Paths /\ (Here \in todo \/ (todo = {} /\ Here = opt.overlayfsmount[next]))
  BY HideFacts, HereIs
<1>2. \A e \in todo : IsStrictPrefix(opt.overlayfsmount[next], e)
  BY DEF HideShapes, HideSafe, LoopOrder
<1>3. IsPrefix(opt.overlayfsmount[next], opt.overlayfsmount[next])
  BY <1>1, PathRoot
<1>4. QED
  BY <1>1, <1>2, <1>3 DEF IsStrictPrefix

\* And what it has still to do is below it too.
LEMMA OverlaysOrder ==
  ASSUME HideShapes, Chroots, pc \in {"overlayfirst", "overlays"}, next <= Count(opt.overlayfsmount),
         Quiet, opt' = opt, pc' \in {pc, "died"},
         todo' \subseteq (todo \ {Here}) \cup list_directories(Here),
         next' = IF todo' = {} THEN next + 1 ELSE next
  PROVE  LoopOrder'
<1> DEFINE top == opt.overlayfsmount[next]
<1>1. top \in Paths /\ Here \in Paths /\ IsPrefix(top, Here)
  BY HereBelow
<1>2. \A e \in todo : IsStrictPrefix(top, e)
  BY DEF HideShapes, HideSafe, LoopOrder
<1> HIDE DEF top
<1>3. ASSUME NEW e \in list_directories(Here) PROVE IsStrictPrefix(top, e)
  <2>1. e \in Paths /\ Depth(e) = Depth(Here) + 1 /\ IsPrefix(Here, e)
    BY <1>3, PathsHere DEF list_directories, isSubpath, Depth
  <2>2. IsPrefix(top, e)
    BY <1>1, <2>1, PathTransitive
  <2>3. ASSUME e = top PROVE FALSE
    <3>1. e = Here
      BY <1>1, <2>1, <2>3, PathAntisymmetric
    <3>2. Depth(e) \in Nat
      BY <2>1, DepthJoin
    <3>3. QED
      BY <2>1, <3>1, <3>2
  <2>4. QED
    BY <2>2, <2>3 DEF IsStrictPrefix
<1>4. \A e \in todo' : next' <= Count(opt.overlayfsmount) /\ IsStrictPrefix(opt.overlayfsmount[next'], e)
  <2>1. SUFFICES ASSUME NEW e \in todo' PROVE next' = next /\ IsStrictPrefix(top, e)
    BY DEF top
  <2>2. QED
    BY <1>2, <1>3, <2>1
<1>5. pc = "overlayfirst" => opt.mode = "custom"
  BY DEF HideShapes, HideSafe, LoopOrder
<1>6. QED
  BY <1>4, <1>5 DEF LoopOrder, FreshPhase

\* A directory whose overlay comes now is not refused.
LEMMA PendingAccepted ==
  ASSUME HideShapes, Chroots, pc \in InRootPhase, opt.mode = "custom", NEW t, t \notin machine.noOverlay
  PROVE  ~Refuses(t)
<1>1. Rooted(mnt) /\ tmp_overlayfs \in Paths
  BY HideFacts, PathsHere
<1>2. machine.privileged => Cover(mnt, tmp_overlayfs).fs # "host"
  BY DEF HideShapes, HideSafe, UpperDir, use_overlayfs
<1>3. Locate(mnt, tmp_overlayfs).fs = Cover(mnt, tmp_overlayfs).fs
  BY <1>1, LocateIs
<1>4. QED
  BY <1>2, <1>3 DEF Refuses

\* A turn of the overlay loop.
LEMMA PendingTurn ==
  ASSUME HideShapes, Chroots, pc \in {"overlayfirst", "overlays"}, next <= Count(opt.overlayfsmount),
         Quiet, opt' = opt, pc' = pc, next' = IF todo' = {} THEN next + 1 ELSE next,
         NEW t, Pending(t), t # Here \/ Refuses(Here) \/ pc = "overlayfirst"
  PROVE  Pending(t)'
<1>1. machine' = machine /\ next \in Nat
  BY HideFacts DEF Quiet
<1>2. CASE pc = "overlayfirst"
  BY <1>1, <1>2, PendingStays
<1>3. CASE pc = "overlays"
  <2>1. opt.mode = "custom" /\ t \notin machine.noOverlay
    BY DEF Pending
  <2>2. PICK n \in 1..Count(opt.overlayfsmount) :
          opt.overlayfsmount[n] = t /\ (n > next \/ (n = next /\ todo = {}))
    BY <1>3 DEF Pending
  <2>3. n # next \/ todo # {}
    <3>1. SUFFICES ASSUME n = next, todo = {} PROVE FALSE
      OBVIOUS
    <3>2. Here = t
      BY <2>2, <3>1, HereBelow
    <3>3. ~Refuses(t)
      BY <1>3, <2>1, PendingAccepted DEF InRootPhase
    <3>4. QED
      BY <1>3, <3>2, <3>3
  <2>4. n > next /\ n \in Nat
    <3>1. Count(opt.overlayfsmount) \in Nat
      BY HideFacts, ListItems
    <3>2. QED
      BY <2>2, <2>3, <3>1
  <2>5. n > next' \/ (n = next' /\ todo' = {})
    BY <1>1, <2>4
  <2>6. QED
    BY <1>1, <1>3, <2>1, <2>2, <2>5 DEF Pending
<1>4. QED
  BY <1>2, <1>3

\* An overlay brings a tmpfs directory in only in the first turn, and only if it
\* is that directory, or one above is in the list.
LEMMA LayerUnshown ==
  ASSUME HideShapes, Chroots, pc \in {"overlayfirst", "overlays"}, next <= Count(opt.overlayfsmount),
         Quiet, opt' = opt, pc' = pc, next' = IF todo' = {} THEN next + 1 ELSE next,
         ~Refuses(Here), mnt' = Append(mnt, Layer(Here)),
         NEW t \in ToSet(opt.tmpfs_dirs), ~Overlaid(t)
  PROVE  Pending(t)' \/ ~Shows(mnt', InRoot(t), t)
<1> DEFINE top == opt.overlayfsmount[next]
           d == Here
           x == Layer(d)
<1>1. /\ Rooted(mnt) /\ t \in Paths /\ InRoot(t) \in Paths /\ sandbox_root \in Paths
      /\ pc \in InRootPhase /\ SafeShape
  BY HideFacts, PathsHere DEF InRootPhase
<1>2. top \in Paths /\ d \in Paths /\ IsPrefix(top, d) /\ top \in ToSet(opt.overlayfsmount)
  BY HereBelow
<1>3. Mounted(x, InRoot(d), Cover(mnt, d).fs, Locate(mnt, d).path)
  BY <1>1, <1>2, LayerIs
<1>4. Pending(t) \/ ~Shows(mnt, InRoot(t), t)
  BY <1>1 DEF HideShapes, HideSafe, NotShown
<1>5. mnt' = Append(mnt, x)
  OBVIOUS
<1>6. x \in MountRecord /\ x.at = InRoot(d) /\ x.fs = Cover(mnt, d).fs
  BY <1>3 DEF Mounted
<1> HIDE DEF x
<1>7. CASE ~IsPrefix(d, t)
  <2>1. t # d
    BY <1>1, <1>7, PathRoot
  <2>2. CASE Pending(t)
    BY <2>1, <2>2, PendingTurn
  <2>3. CASE ~Shows(mnt, InRoot(t), t)
    <3> HIDE DEF d
    <3>1. Grows(mnt, mnt') /\ New(mnt, mnt') = {x}
      BY <1>1, <1>5, <1>6, GrowsByOne
    <3>2. ~IsPrefix(x.at, InRoot(t))
      BY <1>1, <1>2, <1>6, <1>7, PathJoinBelow DEF InRoot
    <3>3. QED
      BY <1>1, <2>3, <3>1, <3>2, StaysUnshown
  <2>4. QED
    BY <1>4, <2>2, <2>3
<1>8. CASE IsPrefix(d, t)
  <2>1. d = t /\ top = t
    <3> HIDE DEF d, top
    <3>1. IsPrefix(top, t)
      BY <1>1, <1>2, <1>8, PathTransitive
    <3>2. top = t
      BY <1>2, <3>1 DEF Overlaid, IsStrictPrefix
    <3>3. QED
      BY <1>1, <1>2, <1>8, <3>2, PathAntisymmetric
  <2>2. CASE pc = "overlayfirst"
    <3>1. opt.mode = "custom"
      BY <2>2 DEF HideShapes, HideSafe, LoopOrder
    <3>2. t \notin machine.noOverlay
      BY <2>1 DEF Refuses
    <3>3. QED
      BY <1>2, <2>1, <2>2, <3>1, <3>2 DEF Pending, Quiet
  <2>3. CASE pc = "overlays"
    <3>1. Cover(mnt, t).fs # "host"
      BY <1>1, <2>3 DEF SafeShape, TmpfsOnHost, AfterTmpfs
    <3>2. Rooted(mnt') /\ Cover(mnt', InRoot(t)) = x
      <4>1. IsPrefix(x.at, InRoot(t))
        BY <1>1, <1>6, <2>1, PathRoot
      <4>2. QED
        BY <1>1, <1>5, <1>6, <4>1, AppendCovers
    <3>3. Locate(mnt', InRoot(t)).fs = x.fs
      BY <1>1, <3>2, LocateIs
    <3>4. QED
      BY <1>6, <2>1, <3>1, <3>3 DEF Shows
  <2>4. QED
    BY <2>2, <2>3
<1>9. QED
  BY <1>7, <1>8

\* MountAllOverlayFs keeps HideSafe.
LEMMA OverlaysHide ==
  ASSUME HideShapes, Chroots, MountAllOverlayFs
  PROVE  HideSafe'
<1>1. /\ pc \in {"overlayfirst", "overlays"} /\ Quiet /\ UNCHANGED <<opt, mounts>>
      /\ \/ /\ next <= Count(opt.overlayfsmount) /\ pc' \in {pc, "died"}
            /\ mnt' = IF Refuses(Here) THEN mnt ELSE Append(mnt, Layer(Here))
            /\ todo' \subseteq (todo \ {Here}) \cup list_directories(Here)
            /\ next' = IF todo' = {} THEN next + 1 ELSE next
         \/ /\ ~(next <= Count(opt.overlayfsmount)) /\ mnt' = mnt
            /\ pc' = (IF pc = "overlays" THEN "writables" ELSE "tmpfs")
  BY OverlaysStep
<1>2. Rooted(mnt) /\ opt' = opt /\ machine' = machine /\ SameBut(opt, opt') /\ pc \in InRootPhase
  BY <1>1, HideFacts DEF Quiet, SameBut, InRootPhase
<1>3. Grows(mnt, mnt) /\ New(mnt, mnt) = {}
  BY <1>2, GrowsNot
<1>4. pc = "overlayfirst" => opt.mode = "custom"
  BY DEF HideShapes, HideSafe, LoopOrder
<1>5. CASE /\ next <= Count(opt.overlayfsmount) /\ pc' \in {pc, "died"}
           /\ mnt' = IF Refuses(Here) THEN mnt ELSE Append(mnt, Layer(Here))
           /\ todo' \subseteq (todo \ {Here}) \cup list_directories(Here)
           /\ next' = IF todo' = {} THEN next + 1 ELSE next
  <2>1. LoopOrder'
    BY <1>1, <1>2, <1>5, OverlaysOrder
  <2>2. SunkInRoot' /\ pc' \in {"died"} \cup InRootPhase
    BY <1>1, <1>5 DEF SunkInRoot, SunkPhase, InRootPhase
  <2>3. Grows(mnt, mnt') /\ \A x \in New(mnt, mnt') : x \in MountRecord /\ InSandbox(x)
    <3>1. Here \in Paths
      BY <1>1, <1>5, HereBelow
    <3>2. QED
      BY <1>2, <1>3, <1>5, <3>1, LayerFits
  <2>4. ASSUME NEW t \in ToSet(opt.tmpfs_dirs), pc' \in InRootPhase, ~Overlaid(t)
        PROVE  Pending(t)' \/ ~Shows(mnt', InRoot(t), t)
    <3>1. pc' = pc
      BY <1>5, <2>4 DEF InRootPhase
    <3>2. CASE ~Refuses(Here)
      BY <1>1, <1>2, <1>5, <2>4, <3>1, <3>2, LayerUnshown
    <3>3. CASE Refuses(Here)
      <4>1. Pending(t) \/ ~Shows(mnt, InRoot(t), t)
        BY <1>2, <2>4 DEF HideShapes, HideSafe, NotShown
      <4>2. CASE Pending(t)
        BY <1>1, <1>2, <1>5, <3>1, <3>3, <4>2, PendingTurn
      <4>3. QED
        BY <1>5, <3>3, <4>1, <4>2
    <3>4. QED
      BY <3>2, <3>3
  <2>5. QED
    BY <1>1, <1>2, <2>1, <2>2, <2>3, <2>4, HideFrame
<1>6. CASE /\ ~(next <= Count(opt.overlayfsmount)) /\ mnt' = mnt
           /\ pc' = (IF pc = "overlays" THEN "writables" ELSE "tmpfs")
  <2>1. LoopOrder' /\ SunkInRoot' /\ pc' \in {"died"} \cup InRootPhase
    BY <1>1, <1>2, <1>4, <1>6 DEF LoopOrder, FreshPhase, SunkInRoot, SunkPhase, InRootPhase
  <2>2. ASSUME NEW t \in ToSet(opt.tmpfs_dirs), ~Overlaid(t)
        PROVE  Pending(t)' \/ ~Shows(mnt', InRoot(t), t)
    <3>1. Pending(t) \/ ~Shows(mnt, InRoot(t), t)
      BY <1>2, <2>2 DEF HideShapes, HideSafe, NotShown
    <3>2. CASE Pending(t) /\ pc = "overlayfirst"
      BY <1>2, <1>6, <3>2, PendingStays
    <3>3. CASE Pending(t) /\ pc = "overlays"
      <4>1. PICK n \in 1..Count(opt.overlayfsmount) : n > next \/ n = next
        BY <3>3 DEF Pending
      <4>2. Count(opt.overlayfsmount) \in Nat /\ next \in Nat
        BY HideFacts, ListItems
      <4>3. QED
        BY <1>6, <4>1, <4>2
    <3>4. QED
      BY <1>1, <1>6, <3>1, <3>2, <3>3
  <2>3. QED
    BY <1>1, <1>2, <1>3, <1>6, <2>1, <2>2, HideFrame
<1>7. QED
  BY <1>1, <1>5, <1>6

\* After the change of root HideSafe is about the tmpfs directories alone.
LEMMA LastHide ==
  ASSUME machine' = machine, opt' = opt, pc' \in {"died"} \cup LastPhase,
         \A t \in ToSet(opt.tmpfs_dirs) :
           pc' \in LastPhase => Overlaid(t) \/ RootCovered \/ ~Shows(mnt', t, t)
  PROVE  HideSafe'
<1>1. /\ pc' \notin {"start", "root"} \cup InRootPhase /\ pc' \notin SunkPhase /\ pc' \notin FreshPhase
      /\ pc' \notin {"readonly", "overlayfirst", "overlays"}
  BY DEF LastPhase, InRootPhase, SunkPhase, FreshPhase
<1>2. LoopOrder' /\ UpperDir' /\ SunkInRoot'
  BY <1>1 DEF LoopOrder, UpperDir, SunkInRoot
<1>3. NotShown'
  BY <1>1 DEF NotShown, Overlaid, RootCovered, Chroots
<1>4. QED
  BY <1>2, <1>3 DEF HideSafe

\* ChangeRoot keeps HideSafe.
LEMMA PivotHide ==
  ASSUME HideShapes, Chroots, ChangeRoot
  PROVE  HideSafe'
<1>1. /\ pc = "pivot" /\ pc' = "chdir" /\ Quiet /\ UNCHANGED fixed
      /\ mnt' = Pivoted(Kept(mnt, InTheRoot(mnt)))
  BY PivotStep, HideFacts, NextNumber
<1>2. Rooted(mnt) /\ RootMounted(mnt) /\ opt' = opt /\ machine' = machine
  BY <1>1, HideFacts DEF Shape, RootFirst, InRootPhase, fixed, policy, Quiet
<1>3. ASSUME NEW t \in ToSet(opt.tmpfs_dirs), ~RootCovered PROVE Overlaid(t) \/ ~Shows(mnt', t, t)
  <2>1. t \in Paths /\ Alone(mnt)
    BY <1>1, <1>3, HideFacts DEF HideShapes, RootTop, InRootPhase
  <2>2. Overlaid(t) \/ ~Shows(mnt, InRoot(t), t)
    BY <1>1 DEF HideShapes, HideSafe, NotShown, InRootPhase, Pending
  <2>3. /\ Locate(mnt', t).fs = Locate(mnt, InRoot(t)).fs
        /\ Locate(mnt', t).path = Locate(mnt, InRoot(t)).path
    BY <1>1, <1>2, <2>1, PivotShows
  <2>4. QED
    BY <2>2, <2>3 DEF Shows
<1>4. QED
  BY <1>1, <1>2, <1>3, LastHide DEF LastPhase

\* EnterWorkingDirectory and InitDone keep HideSafe.
LEMMA EndHide ==
  ASSUME HideShapes, Chroots, EnterWorkingDirectory \/ InitDone
  PROVE  HideSafe'
<1>1. /\ pc \in LastPhase /\ pc' \in {"died"} \cup LastPhase /\ opt' = opt /\ machine' = machine
  BY ChdirStep, InitStep DEF LastPhase, fixed, policy, Quiet
<1>2. Rooted(mnt)
  BY HideFacts
<1>3. Grows(mnt, mnt') /\ \A x \in New(mnt, mnt') : x.at = MINISBX_TMP_INIT
  <2>1. CASE EnterWorkingDirectory
    BY <1>2, <2>1, ChdirStep, GrowsNot
  <2>2. CASE InitDone
    BY <1>2, <2>2, InitGrows DEF Mounted
  <2>3. QED
    BY <2>1, <2>2
<1>4. ASSUME NEW t \in ToSet(opt.tmpfs_dirs), ~RootCovered PROVE Overlaid(t) \/ ~Shows(mnt', t, t)
  <2>1. t \in Paths /\ t \in Dirs
    BY HideFacts
  <2>2. Overlaid(t) \/ ~Shows(mnt, t, t)
    BY <1>1, <1>4 DEF HideShapes, HideSafe, NotShown
  <2>3. ~IsPrefix(MINISBX_TMP_INIT, t)
    BY <2>1, MountAssumption DEF isSubpath
  <2>4. ~Shows(mnt, t, t) => ~Shows(mnt', t, t)
    BY <1>2, <1>3, <2>1, <2>3, StaysUnshown
  <2>5. QED
    BY <2>2, <2>4
<1>5. QED
  BY <1>1, <1>4, LastHide

\* SystemCallFails keeps HideSafe, and so does a step that changes nothing.
LEMMA StayHide ==
  ASSUME HideShapes, SystemCallFails \/ UNCHANGED vars
  PROVE  HideSafe'
<1>1. CASE SystemCallFails
  <2>1. pc' = "died" /\ opt' = opt /\ machine' = machine
    BY <1>1 DEF SystemCallFails
  <2>2. QED
    BY <2>1, LastHide DEF LastPhase
<1>2. CASE UNCHANGED vars
  <2>1. UNCHANGED <<machine, opt, pc, mnt, next, todo>>
    BY <1>2 DEF vars
  <2>2. (Chroots' <=> Chroots) /\ (use_overlayfs' <=> use_overlayfs)
    BY <2>1 DEF Chroots, use_overlayfs
  <2>3. LoopOrder' /\ UpperDir' /\ SunkInRoot'
    BY <2>1, <2>2 DEF HideShapes, HideSafe, LoopOrder, UpperDir, SunkInRoot, AllSunk, Cover
  <2>4. NotShown'
    BY <2>1, <2>2 DEF HideShapes, HideSafe, NotShown, Overlaid, Pending, RootCovered
  <2>5. QED
    BY <2>3, <2>4 DEF HideSafe
<1>3. QED
  BY <1>1, <1>2

\* Every step keeps HideShapes.
LEMMA StepHide ==
  ASSUME HideShapes, [Next]_vars
  PROVE  HideShapes'
<1>1. PlaceShapes' /\ Shape /\ Shape' /\ NoRoot' /\ RootTop'
  <2>1. PlaceShapes' /\ Shape /\ Shape' /\ NoRoot /\ RootTop
    BY StepPlace, HideFacts DEF HideShapes, PlaceShapes, SafeShape
  <2>2. QED
    BY <2>1, StepNoRoot, StepAlone
<1>2. Chroots' <=> Chroots
  BY <1>1, ChrootsStays
<1>3. CASE ~Chroots
  BY <1>1, <1>2, <1>3 DEF HideShapes, HideSafe, LoopOrder, UpperDir, SunkInRoot, NotShown
<1>4. CASE Chroots
  <2>1. pc \notin InPlacePhase
    BY <1>1, <1>4, NotChroots
  <2>2. CASE LightMode \/ MountFilesystems \/ BindInPlace \/ TmpfsInPlace \/ WritableInPlace
             \/ WorkingDirInPlace \/ MakeFilesystemPartiallyReadOnly
    BY <2>1, <2>2 DEF LightMode, MountFilesystems, BindInPlace, TmpfsInPlace, WritableInPlace,
                      WorkingDirInPlace, MakeFilesystemPartiallyReadOnly, InPlacePhase
  <2>3. CASE MountOverlayDirAsTmpfs
    BY <1>1, <1>4, <2>3, StartHide DEF HideShapes
  <2>4. CASE MountSandboxAndGoThere
    BY <1>1, <1>4, <2>4, RootHide DEF HideShapes
  <2>5. CASE MountDev
    BY <1>1, <1>4, <2>5, DevHide DEF HideShapes
  <2>6. CASE MountProcAndSys
    BY <1>1, <1>4, <2>6, ProcHide DEF HideShapes
  <2>7. CASE MountWorkingDirMountPoint
    BY <1>1, <1>4, <2>7, ParentsHide DEF HideShapes
  <2>8. CASE AddLeftoverFoldersToReadOnlyPaths
    BY <1>1, <1>4, <2>8, LeftoverHide DEF HideShapes
  <2>9. CASE MountAllTmpfs
    BY <1>1, <1>4, <2>9, TmpfsHide DEF HideShapes
  <2>10. CASE MountBinds
    BY <1>1, <1>4, <2>10, BindsHide DEF HideShapes
  <2>11. CASE MountReadOnly
    BY <1>1, <1>4, <2>11, ReadOnlyHide DEF HideShapes
  <2>12. CASE MountAllOverlayFs
    BY <1>1, <1>4, <2>12, OverlaysHide DEF HideShapes
  <2>13. CASE MountWritables
    BY <1>1, <1>4, <2>13, WritablesHide DEF HideShapes
  <2>14. CASE MountWorkingDir
    BY <1>1, <1>4, <2>14, WorkingDirHide DEF HideShapes
  <2>15. CASE MountRest
    BY <1>1, <1>4, <2>15, RestHide DEF HideShapes
  <2>16. CASE MakeEmptyHome
    BY <1>1, <1>4, <2>16, HomeHide DEF HideShapes
  <2>17. CASE ChangeRoot
    BY <1>1, <1>4, <2>17, PivotHide DEF HideShapes
  <2>18. CASE EnterWorkingDirectory \/ InitDone
    BY <1>1, <1>4, <2>18, EndHide DEF HideShapes
  <2>19. CASE SystemCallFails \/ UNCHANGED vars
    BY <1>1, <2>19, StayHide DEF HideShapes
  <2>20. QED
    BY <2>2, <2>3, <2>4, <2>5, <2>6, <2>7, <2>8, <2>9, <2>10, <2>11, <2>12, <2>13, <2>14, <2>15,
       <2>16, <2>17, <2>18, <2>19 DEF Next, Finished
<1>5. QED
  BY <1>3, <1>4

\* HideShapes holds when pid1 starts.
LEMMA InitHide ==
  ASSUME Init
  PROVE  HideShapes
<1>1. PlaceShapes /\ pc = "start" /\ todo = {}
  BY InitPlace DEF Init
<1>2. \A i \in 1..Count(mnt) : ~IsPrefix(sandbox_root, mnt[i].at)
  BY InitMounts
<1>3. SunkInRoot
  BY <1>2 DEF SunkInRoot, AllSunk, Sunk, InSandbox
<1>4. LoopOrder /\ UpperDir /\ NotShown /\ NoRoot /\ RootTop
  BY <1>1 DEF LoopOrder, UpperDir, NotShown, InRootPhase, LastPhase, NoRoot, RootTop, Init
<1>5. QED
  BY <1>1, <1>3, <1>4 DEF HideShapes, HideSafe

\* What the invariant says of a tmpfs directory in the end.
LEMMA HiddenAtLast ==
  ASSUME HideShapes, Done, NEW t \in ToSet(opt.tmpfs_dirs),
         OnHost(mnt, t), Locate(mnt, t).path = t
  PROVE  Overlaid(t) \/ RootCovered \/ (~Chroots /\ IsPrefix(opt.working_dir, t))
<1>1. pc \in LastPhase /\ Rooted(mnt) /\ t \in Paths
  BY HideFacts DEF Done, LastPhase
<1>2. Locate(mnt, t).fs = "host"
  BY DEF OnHost
<1>3. CASE Chroots
  BY <1>1, <1>2, <1>3 DEF HideShapes, HideSafe, NotShown, Shows
<1>4. CASE ~Chroots
  <2>1. TmpfsUncovered(mnt, t, opt.working_dir)
    BY <1>1, <1>4 DEF HideShapes, PlaceShapes, PlaceSafe, TmpfsInPlaceKept
  <2>2. Cover(mnt, t).fs = "host"
    BY <1>1, <1>2, LocateIs
  <2>3. QED
    BY <1>4, <2>1, <2>2 DEF TmpfsUncovered
<1>5. QED
  BY <1>3, <1>4

\* For every machine and every set of options that is accepted: what the host has
\* in a tmpfs directory is not in the sandbox at its place, whichever binds,
\* overlays and mounts of the host are made afterwards, unless an overlay of a
\* directory above, or without a root the working directory, brings it in, or the
\* root directory is mounted on top of the sandbox's root.
THEOREM TmpfsIsHidden == Spec => []TmpfsHides
<1>1. Init => HideShapes
  BY InitHide
<1>2. HideShapes /\ [Next]_vars => HideShapes'
  BY StepHide
<1>3. HideShapes => TmpfsHides
  BY HiddenAtLast DEF TmpfsHides, Overlaid, isSubpath
<1>4. QED
  BY <1>1, <1>2, <1>3, PTL DEF Spec

=============================================================================
