---------------------------- MODULE SequenceFacts ----------------------------
(***************************************************************************)
(* Facts about the sequences the components keep their waiting requests in: *)
(* what appending, taking the head, joining, cutting and removing do to a   *)
(* sequence without repetitions and to the set of its elements; the least   *)
(* number and the greatest score of a set, and how many are ahead of each;  *)
(* and what sums over a finite set and folds are, which the library defines *)
(* by recursion: one that unfolds so exists for every set, as there would   *)
(* be a smallest set without.                                               *)
(***************************************************************************)
EXTENDS Integers, SequencesExt, FiniteSets, SequenceTheorems, FiniteSetTheorems,
        WellFoundedInduction, TLAPS

\* Dropping one element of a sequence leaves a sequence over the same set.
LEMMA RemoveAtType ==
    ASSUME NEW S, NEW s \in Seq(S), NEW i \in 1..Len(s)
    PROVE  RemoveAt(s, i) \in Seq(S)
  BY DEF RemoveAt

\* Appending a new element adds it to the range and keeps a sequence free of
\* repetitions.
LEMMA AppendDistinct ==
    ASSUME NEW S, NEW s \in Seq(S), NEW x \in S, IsInjective(s), x \notin Range(s)
    PROVE  IsInjective(Append(s, x)) /\ Range(Append(s, x)) = Range(s) \cup {x}
<1> DEFINE t == Append(s, x)
<1>1. /\ t \in Seq(S) /\ Len(t) = Len(s) + 1
      /\ \A i \in 1..Len(s) : t[i] = s[i]
      /\ t[Len(s) + 1] = x
  OBVIOUS
<1> HIDE DEF t
<1>2. Range(s) = {s[i] : i \in 1..Len(s)} /\ Range(t) = {t[i] : i \in 1..Len(s) + 1}
  BY <1>1, RangeEquality
<1>3. Range(t) = Range(s) \cup {x}
  <2>1. 1..Len(s) + 1 = (1..Len(s)) \cup {Len(s) + 1}
    OBVIOUS
  <2> QED
    BY <1>1, <1>2, <2>1
<1>4. ASSUME NEW a \in 1..Len(s) + 1, NEW b \in 1..Len(s) + 1, t[a] = t[b] PROVE a = b
  BY <1>1, <1>2, <1>4 DEF IsInjective
<1>5. IsInjective(t)
  BY <1>1, <1>4 DEF IsInjective
<1> QED
  BY <1>3, <1>5 DEF t

\* The head of a sequence without repetitions is not in its tail.
LEMMA TailDistinct ==
    ASSUME NEW S, NEW s \in Seq(S), s # <<>>, IsInjective(s)
    PROVE  IsInjective(Tail(s)) /\ Range(Tail(s)) = Range(s) \ {Head(s)}
                                /\ Head(s) \in Range(s)
<1>1. IsInjective(Tail(s))
  BY DEF IsInjective
<1>2. Head(s) = s[1] /\ Head(s) \in Range(s)
  BY DEF Range
<1>3. Range(Tail(s)) \subseteq Range(s) \ {Head(s)}
  BY <1>2 DEF IsInjective, Range
<1>4. ASSUME NEW i \in 1..Len(s), s[i] # Head(s) PROVE s[i] \in Range(Tail(s))
  <2>1. i # 1 /\ i - 1 \in 1..Len(Tail(s))
    BY <1>2, <1>4
  <2>2. Tail(s)[i - 1] = s[i]
    BY <2>1, HeadTailProperties
  <2>3. Tail(s) \in Seq(S)
    OBVIOUS
  <2>4. Range(Tail(s)) = {Tail(s)[j] : j \in 1..Len(Tail(s))}
    BY <2>3, RangeEquality, Zenon
  <2> QED
    BY <2>1, <2>2, <2>4
<1> QED
  BY <1>1, <1>2, <1>3, <1>4, RangeEquality

\* Two sequences without repetitions or common elements can be joined.
LEMMA ConcatDistinct ==
    ASSUME NEW S, NEW s \in Seq(S), NEW t \in Seq(S), IsInjective(s), IsInjective(t),
           Range(s) \cap Range(t) = {}
    PROVE  IsInjective(s \o t) /\ Range(s \o t) = Range(s) \cup Range(t)
<1>1. Range(s \o t) = Range(s) \cup Range(t)
  BY RangeConcatenation
<1>2. ASSUME NEW a \in 1..Len(s) + Len(t), NEW b \in 1..Len(s) + Len(t), (s \o t)[a] = (s \o t)[b]
      PROVE  a = b
  <2>1. CASE a <= Len(s) /\ b <= Len(s)
    BY <1>2, <2>1 DEF IsInjective
  <2>2. CASE a > Len(s) /\ b > Len(s)
    <3>1. /\ a - Len(s) \in 1..Len(t) /\ b - Len(s) \in 1..Len(t)
          /\ t[a - Len(s)] = t[b - Len(s)]
      BY <1>2, <2>2
    <3> QED
      BY <3>1 DEF IsInjective
  <2>3. ASSUME NEW i \in 1..Len(s), NEW j \in (Len(s) + 1)..(Len(s) + Len(t))
        PROVE  (s \o t)[i] # (s \o t)[j]
    <3>1. (s \o t)[i] = s[i] /\ (s \o t)[j] = t[j - Len(s)] /\ j - Len(s) \in 1..Len(t)
      OBVIOUS
    <3>2. s[i] \in Range(s) /\ t[j - Len(s)] \in Range(t)
      BY <3>1 DEF Range
    <3> QED
      BY <3>1, <3>2
  <2> QED
    BY <1>2, <2>1, <2>2, <2>3
<1> QED
  BY <1>1, <1>2 DEF IsInjective

\* Cutting a sequence without repetitions in two splits its range in two.
LEMMA CutDistinct ==
    ASSUME NEW S, NEW s \in Seq(S), IsInjective(s), NEW m \in 0..Len(s)
    PROVE  LET front == SubSeq(s, 1, m)
               back == SubSeq(s, m + 1, Len(s))
           IN /\ front \in Seq(S) /\ back \in Seq(S)
              /\ IsInjective(front) /\ IsInjective(back)
              /\ Range(front) \cap Range(back) = {}
              /\ Range(front) \cup Range(back) = Range(s)
<1> DEFINE front == SubSeq(s, 1, m)
           back == SubSeq(s, m + 1, Len(s))
<1>1. /\ front \in Seq(S) /\ Len(front) = m
      /\ back \in Seq(S) /\ Len(back) = Len(s) - m
  OBVIOUS
<1>2. /\ \A i \in 1..m : front[i] = s[i]
      /\ \A i \in 1..Len(s) - m : back[i] = s[m + i]
  OBVIOUS
<1> HIDE DEF front, back
<1>3. IsInjective(front)
  BY <1>1, <1>2 DEF IsInjective
<1>4. IsInjective(back)
  <2>1. ASSUME NEW a \in 1..Len(back), NEW b \in 1..Len(back), back[a] = back[b] PROVE a = b
    <3>1. a \in Nat /\ b \in Nat /\ m + a \in 1..Len(s) /\ m + b \in 1..Len(s)
      BY <1>1
    <3>2. s[m + a] = s[m + b]
      BY <1>1, <1>2, <2>1
    <3>3. m + a = m + b
      BY <3>1, <3>2 DEF IsInjective
    <3> QED
      BY <3>1, <3>3
  <2> QED
    BY <1>1, <2>1, SMTT(20) DEF IsInjective
<1>5. Range(front) = {s[i] : i \in 1..m}
  <2>1. Range(front) = {front[i] : i \in 1..m}
    BY <1>1, RangeEquality
  <2> QED
    BY <1>2, <2>1
<1>6. Range(back) = {s[i] : i \in m + 1..Len(s)}
  <2>1. Range(back) = {back[i] : i \in 1..Len(s) - m}
    BY <1>1, RangeEquality
  <2>2. ASSUME NEW i \in m + 1..Len(s)
        PROVE  i - m \in 1..Len(s) - m /\ back[i - m] = s[i]
    BY <1>1, <1>2
  <2>3. \A i \in 1..Len(s) - m : m + i \in m + 1..Len(s) /\ back[i] = s[m + i]
    BY <1>1, <1>2
  <2> HIDE DEF back
  <2> QED
    BY <2>1, <2>2, <2>3
<1>7. Range(s) = {s[i] : i \in 1..Len(s)}
  BY RangeEquality
<1>8. Range(front) \cap Range(back) = {}
  <2>1. \A i \in 1..m, j \in m + 1..Len(s) : s[i] # s[j]
    BY DEF IsInjective
  <2> QED
    BY <1>5, <1>6, <2>1
<1>9. Range(front) \cup Range(back) = Range(s)
  BY <1>5, <1>6, <1>7
<1> QED
  BY <1>1, <1>3, <1>4, <1>8, <1>9 DEF front, back

\* Removing one element of a sequence without repetitions takes it out of the
\* range.
LEMMA RemoveAtDistinct ==
    ASSUME NEW S, NEW s \in Seq(S), IsInjective(s), NEW i \in 1..Len(s)
    PROVE  IsInjective(RemoveAt(s, i)) /\ Range(RemoveAt(s, i)) = Range(s) \ {s[i]}
<1> DEFINE before == SubSeq(s, 1, i - 1)
           upto == SubSeq(s, 1, i)
           after == SubSeq(s, i + 1, Len(s))
<1>1. /\ before \in Seq(S) /\ IsInjective(before)
      /\ s[i] \notin Range(before)
  <2> DEFINE rest == SubSeq(s, (i - 1) + 1, Len(s))
  <2>1. before \in Seq(S) /\ IsInjective(before) /\ Range(before) \cap Range(rest) = {}
    BY CutDistinct, i - 1 \in 0..Len(s)
  <2>2. rest \in Seq(S) /\ 1 \in DOMAIN rest /\ rest[1] = s[i]
    OBVIOUS
  <2> HIDE DEF rest
  <2>3. s[i] \in Range(rest)
    BY <2>2 DEF Range
  <2> QED
    BY <2>1, <2>3
<1>2. /\ after \in Seq(S) /\ IsInjective(after)
      /\ Range(upto) \cap Range(after) = {}
      /\ Range(upto) \cup Range(after) = Range(s)
  BY CutDistinct, i \in 0..Len(s)
<1>3. Range(upto) = Range(before) \cup {s[i]}
  <2>1. /\ upto \in Seq(S) /\ Len(upto) = i /\ Len(before) = i - 1 /\ before \in Seq(S)
        /\ \A j \in 1..i : upto[j] = s[j]
        /\ \A j \in 1..i - 1 : before[j] = s[j]
    OBVIOUS
  <2> HIDE DEF upto, before
  <2>2. /\ Range(upto) = {upto[j] : j \in 1..i}
        /\ Range(before) = {before[j] : j \in 1..i - 1}
    BY <2>1, RangeEquality
  <2>3. 1..i = (1..i - 1) \cup {i}
    OBVIOUS
  <2> QED
    BY <2>1, <2>2, <2>3
<1>4. RemoveAt(s, i) = before \o after
  BY DEF RemoveAt
<1> HIDE DEF before, upto, after
<1>5. Range(before) \cap Range(after) = {}
  BY <1>2, <1>3
<1>6. /\ IsInjective(before \o after)
      /\ Range(before \o after) = Range(before) \cup Range(after)
  BY <1>1, <1>2, <1>5, ConcatDistinct
<1>7. Range(before) \cup Range(after) = Range(s) \ {s[i]}
  BY <1>1, <1>2, <1>3
<1> QED
  BY <1>4, <1>6, <1>7

\* x is at exactly one place of the sequence s.
Once(s, x) == \E i \in 1..Len(s) : s[i] = x /\ \A j \in 1..Len(s) : s[j] = x => j = i

\* It has one place there.
LEMMA OnceIsOne ==
    ASSUME NEW S, NEW s \in Seq(S), NEW x, Once(s, x)
    PROVE  Cardinality({i \in 1..Len(s) : s[i] = x}) = 1
<1>1. PICK i \in 1..Len(s) : s[i] = x /\ \A j \in 1..Len(s) : s[j] = x => j = i
  BY DEF Once
<1>2. {j \in 1..Len(s) : s[j] = x} = {i}
  BY <1>1
<1> QED
  BY <1>2, FS_Singleton

\* What is left when one element is removed.
LEMMA RemoveAtShape ==
    ASSUME NEW S, NEW s \in Seq(S), NEW i \in 1..Len(s)
    PROVE  /\ Len(RemoveAt(s, i)) = Len(s) - 1
           /\ \A j \in 1..Len(s) - 1 : RemoveAt(s, i)[j] = IF j < i THEN s[j] ELSE s[j + 1]
<1> DEFINE before == SubSeq(s, 1, i - 1)
           after == SubSeq(s, i + 1, Len(s))
<1>0. i \in Nat /\ Len(s) \in Nat /\ 1 <= i /\ i <= Len(s)
  OBVIOUS
<1>1. /\ before \in Seq(S) /\ Len(before) = i - 1
      /\ \A j \in 1..i - 1 : before[j] = s[j]
  OBVIOUS
<1>2. /\ after \in Seq(S) /\ Len(after) = Len(s) - i
      /\ \A j \in 1..Len(s) - i : after[j] = s[i + j]
  OBVIOUS
<1>3. RemoveAt(s, i) = before \o after
  BY DEF RemoveAt
<1> HIDE DEF before, after
<1>4. Len(before \o after) = Len(s) - 1
  BY <1>0, <1>1, <1>2, ConcatProperties
<1>5. ASSUME NEW j \in 1..Len(s) - 1, j < i PROVE (before \o after)[j] = s[j]
  <2>1. j \in 1..Len(before)
    BY <1>0, <1>1, <1>5
  <2> QED
    BY <1>1, <1>2, <2>1, ConcatProperties
<1>6. ASSUME NEW j \in 1..Len(s) - 1, ~ (j < i) PROVE (before \o after)[j] = s[j + 1]
  <2> DEFINE l == j - Len(before)
  <2>1. l \in 1..Len(after) /\ j = Len(before) + l /\ i + l = j + 1
    BY <1>0, <1>1, <1>2, <1>6
  <2>2. (before \o after)[j] = after[l]
    BY <1>1, <1>2, <2>1, ConcatProperties
  <2> HIDE DEF l
  <2> QED
    BY <1>1, <1>2, <2>1, <2>2
<1> QED
  BY <1>3, <1>4, <1>5, <1>6

\* It stays so when a different element is removed,
LEMMA OnceRemoved ==
    ASSUME NEW S, NEW s \in Seq(S), NEW i \in 1..Len(s), NEW x, x # s[i], Once(s, x)
    PROVE  Once(RemoveAt(s, i), x)
<1> DEFINE t == RemoveAt(s, i)
<1>1. /\ Len(t) = Len(s) - 1
      /\ \A j \in 1..Len(s) - 1 : t[j] = IF j < i THEN s[j] ELSE s[j + 1]
  BY RemoveAtShape
<1>2. PICK k \in 1..Len(s) : s[k] = x /\ \A j \in 1..Len(s) : s[j] = x => j = k
  BY DEF Once
<1> HIDE DEF t
<1>3. CASE k < i
  <2>1. k \in 1..Len(t) /\ t[k] = x
    BY <1>1, <1>2, <1>3
  <2>2. \A j \in 1..Len(t) : t[j] = x => j = k
    BY <1>1, <1>2, <1>3
  <2> QED
    BY <2>1, <2>2 DEF Once, t
<1>4. CASE k > i
  <2>1. k - 1 \in 1..Len(t) /\ t[k - 1] = x
    BY <1>1, <1>2, <1>4
  <2>2. \A j \in 1..Len(t) : t[j] = x => j = k - 1
    BY <1>1, <1>2, <1>4
  <2> QED
    BY <2>1, <2>2 DEF Once, t
<1> QED
  BY <1>2, <1>3, <1>4

\* or replaced by a different one,
LEMMA OnceReplaced ==
    ASSUME NEW S, NEW s \in Seq(S), NEW i \in 1..Len(s), NEW x, NEW y \in S,
           x # s[i], x # y, Once(s, x)
    PROVE  Once([s EXCEPT ![i] = y], x)
  BY DEF Once

\* or when different ones are appended.
LEMMA OnceExtended ==
    ASSUME NEW S, NEW s \in Seq(S), NEW more \in Seq(S), NEW x,
           \A i \in 1..Len(more) : more[i] # x, Once(s, x)
    PROVE  Once(s \o more, x)
<1> DEFINE t == s \o more
<1>1. /\ Len(t) = Len(s) + Len(more)
      /\ \A j \in 1..Len(s) : t[j] = s[j]
      /\ \A j \in Len(s) + 1..Len(s) + Len(more) : t[j] # x
  OBVIOUS
<1> HIDE DEF t
<1>2. PICK i \in 1..Len(s) : s[i] = x /\ \A j \in 1..Len(s) : s[j] = x => j = i
  BY DEF Once
<1>3. i \in 1..Len(t) /\ t[i] = x
  BY <1>1, <1>2
<1>4. \A j \in 1..Len(t) : t[j] = x => j = i
  BY <1>1, <1>2
<1> QED
  BY <1>3, <1>4 DEF Once, t

-----------------------------------------------------------------------------
(* Numbers and finite sets.                                                  *)

\* A set of natural numbers has a least one.
LEMMA LeastNatural ==
    ASSUME NEW T \in SUBSET Nat, T # {}
    PROVE  \E n \in T : \A m \in T : n <= m
<1> DEFINE R == {ss \in Nat \X Nat : ss[1] < ss[2]}
<1>1. IsWellFoundedOn(R, Nat)
  BY NatLessThanWellFounded DEF OpToRel
<1>2. PICK x \in T : \A y \in T : ~ (<<y, x>> \in R)
  <2> HIDE DEF R
  <2> QED
    BY <1>1, WFMin, Zenon
<1>3. \A y \in T : ~(y < x)
  BY <1>2
<1> QED
  BY <1>3

\* A finite set has an element of the greatest score: the one with the fewest above it.
LEMMA GreatestScore ==
    ASSUME NEW S, IsFiniteSet(S), S # {}, NEW f, \A x \in S : f[x] \in Int
    PROVE  \E x \in S : \A y \in S : f[y] <= f[x]
<1> DEFINE Above(x) == {y \in S : f[y] > f[x]}
           T == {Cardinality(Above(x)) : x \in S}
<1>1. \A x \in S : IsFiniteSet(Above(x)) /\ Cardinality(Above(x)) \in Nat
  BY FS_Subset, FS_CardinalityType
<1>2. T \in SUBSET Nat /\ T # {}
  BY <1>1
<1>3. PICK n \in T : \A m \in T : n <= m
  <2> HIDE DEF T
  <2> QED
    BY <1>2, LeastNatural
<1>4. PICK x \in S : n = Cardinality(Above(x))
  OBVIOUS
<1>5. ASSUME NEW y \in S, f[y] > f[x] PROVE FALSE
  <2>1. Above(y) \subseteq Above(x) /\ y \in Above(x) /\ y \notin Above(y)
    BY <1>5
  <2>2. n <= Cardinality(Above(y))
    BY <1>3
  <2>3. IsFiniteSet(Above(x)) /\ Cardinality(Above(x)) \in Nat /\ Cardinality(Above(y)) \in Nat
    BY <1>1
  <2> HIDE DEF Above, T
  <2>4. Cardinality(Above(y)) < Cardinality(Above(x))
    BY <2>1, <2>3, FS_Subset
  <2> QED
    BY <1>4, <2>2, <2>3, <2>4
<1> QED
  BY <1>5

\* There are n numbers from 1 to n.
LEMMA NumbersUpTo ==
    ASSUME NEW n \in Nat
    PROVE  IsFiniteSet(1..n) /\ Cardinality(1..n) = n
  BY FS_Interval

\* The number of elements of S with a greater score than x.
Ahead(S, f, x) == Cardinality({y \in S : f[y] > f[x]})

\* Elements of different scores have different numbers of elements ahead of them: each
\* number from 0 on, once.
LEMMA RanksAreDistinct ==
    ASSUME NEW S, IsFiniteSet(S), NEW f, \A x \in S : f[x] \in Int,
           \A x, y \in S : f[x] = f[y] => x = y
    PROVE  [x \in S |-> Ahead(S, f, x)] \in Bijection(S, 0..(Cardinality(S) - 1))
<1> DEFINE Above(x) == {y \in S : f[y] > f[x]}
           n == Cardinality(S)
           rank == [x \in S |-> Ahead(S, f, x)]
<1>1. n \in Nat
  BY FS_CardinalityType
<1>2. ASSUME NEW x \in S PROVE rank[x] \in 0..(n - 1)
  <2>1. Above(x) \in SUBSET S /\ Above(x) # S
    OBVIOUS
  <2>2. Cardinality(Above(x)) \in Nat /\ Cardinality(Above(x)) <= n /\ Cardinality(Above(x)) # n
    <3> HIDE DEF Above
    <3> QED
      BY <2>1, FS_Subset, FS_CardinalityType
  <2>3. rank[x] = Cardinality(Above(x))
    BY DEF Ahead
  <2> HIDE DEF Above, rank
  <2> QED
    BY <1>1, <2>2, <2>3
<1>3. ASSUME NEW x \in S, NEW y \in S, f[x] < f[y] PROVE rank[y] < rank[x]
  <2>1. Above(y) \in SUBSET Above(x) /\ y \in Above(x) /\ y \notin Above(y) /\ Above(x) \in SUBSET S
    BY <1>3
  <2>2. rank[x] = Cardinality(Above(x)) /\ rank[y] = Cardinality(Above(y))
    BY DEF Ahead
  <2>3. rank[x] \in Int /\ rank[y] \in Int
    BY <1>1, <1>2
  <2> HIDE DEF Above, rank
  <2>4. IsFiniteSet(Above(x))
    BY <2>1, FS_Subset
  <2>5. Cardinality(Above(y)) <= Cardinality(Above(x)) /\ Cardinality(Above(y)) # Cardinality(Above(x))
    BY <2>1, <2>4, FS_Subset
  <2> QED
    BY <2>2, <2>3, <2>5
<1>4. rank \in [S -> 0..(n - 1)]
  BY <1>2
<1>5. ASSUME NEW x \in S, NEW y \in S, rank[x] = rank[y] PROVE x = y
  <2> HIDE DEF rank, n
  <2>1. ~(f[x] < f[y]) /\ ~(f[y] < f[x])
    <3>1. rank[x] \in Int /\ rank[y] \in Int
      BY <1>1, <1>2
    <3> QED
      BY <1>3, <1>5, <3>1
  <2> QED
    BY <2>1
<1> HIDE DEF rank
<1>6. rank \in Injection(S, 0..(n - 1))
  BY <1>4, <1>5 DEF Injection, IsInjective
<1>7. IsFiniteSet(0..(n - 1)) /\ Cardinality(0..(n - 1)) = n
  BY <1>1, FS_Interval
<1>8. rank \in Surjection(S, 0..(n - 1))
  BY <1>6, <1>7, FS_Injection
<1> QED
  BY <1>6, <1>8 DEF Bijection, rank

\* So the k that have fewer than k ahead of them are k elements.
LEMMA TopOfRanks ==
    ASSUME NEW S, IsFiniteSet(S), NEW f, \A x \in S : f[x] \in Int,
           \A x, y \in S : f[x] = f[y] => x = y,
           NEW k \in Nat, k <= Cardinality(S)
    PROVE  Cardinality({x \in S : Ahead(S, f, x) < k}) = k
<1> DEFINE n == Cardinality(S)
           rank == [x \in S |-> Ahead(S, f, x)]
           Top == {x \in S : rank[x] < k}
           g == [i \in 0..(k - 1) |-> CHOOSE x \in S : rank[x] = i]
<1>1. rank \in Bijection(S, 0..(n - 1)) /\ n \in Nat
  BY RanksAreDistinct, FS_CardinalityType
<1>2. {x \in S : Ahead(S, f, x) < k} = Top
  OBVIOUS
<1> HIDE DEF rank, n
<1>3. /\ \A i \in 0..(n - 1) : \E x \in S : rank[x] = i
      /\ \A x \in S : rank[x] \in 0..(n - 1)
      /\ \A x, y \in S : rank[x] = rank[y] => x = y
  BY <1>1 DEF Bijection, Injection, Surjection, IsInjective
<1>4. \A i \in 0..(k - 1) : i \in 0..(n - 1) /\ g[i] \in S /\ rank[g[i]] = i
  BY <1>1, <1>3 DEF n
<1>5. g \in Bijection(0..(k - 1), Top)
  <2>1. g \in [0..(k - 1) -> Top]
    BY <1>4
  <2>2. \A i, j \in 0..(k - 1) : g[i] = g[j] => i = j
    BY <1>4
  <2>3. \A x \in Top : rank[x] \in 0..(k - 1) /\ g[rank[x]] = x
    BY <1>1, <1>3, <1>4
  <2> HIDE DEF g, Top
  <2> QED
    BY <2>1, <2>2, <2>3 DEF Bijection, Injection, Surjection, IsInjective
<1>6. IsFiniteSet(0..(k - 1)) /\ Cardinality(0..(k - 1)) = k
  BY FS_Interval
<1>7. ExistsBijection(0..(k - 1), Top)
  BY <1>5 DEF ExistsBijection
<1> HIDE DEF Top
<1> QED
  BY <1>2, <1>6, <1>7, FS_Bijection

\* What the sum over a function takes from the library.
LEMMA SumUnfolds ==
    ASSUME NEW f
    PROVE  SumFunction(f) =
             (CHOOSE g : g = [S \in SUBSET DOMAIN f |->
                 IF S = {} THEN 0
                 ELSE f[CHOOSE x \in S : TRUE] + g[S \ {CHOOSE x \in S : TRUE}]])[DOMAIN f]
  BY DEF SumFunction, SumFunctionOnSet, FoldFunctionOnSet, MapThenFoldSet

\* s gives every subset of D the sum of f over it.
Sums(s, D, f) ==
    /\ s \in [SUBSET D -> Int] /\ s[{}] = 0
    /\ \A S \in SUBSET D, x \in D : x \in S => s[S] = f[x] + s[S \ {x}]

\* A finite set has such sums: with one element more, those with it are greater by its own.
LEMMA SumsExist ==
    ASSUME NEW D, IsFiniteSet(D), NEW f, \A x \in D : f[x] \in Int
    PROVE  \E s : Sums(s, D, f)
<1> DEFINE Bad == {n \in Nat : \E E \in SUBSET D : Cardinality(E) = n /\ ~\E s : Sums(s, E, f)}
<1>1. SUFFICES Bad = {}
  <2>1. Cardinality(D) \in Nat /\ D \in SUBSET D
    BY FS_CardinalityType
  <2> QED
    BY <2>1
<1>2. SUFFICES ASSUME Bad # {} PROVE FALSE
  OBVIOUS
<1>3. PICK n \in Bad : \A m \in Bad : n <= m
  <2>1. Bad \in SUBSET Nat
    OBVIOUS
  <2> HIDE DEF Bad
  <2> QED
    BY <1>2, <2>1, LeastNatural
<1>4. PICK E \in SUBSET D : Cardinality(E) = n /\ ~\E s : Sums(s, E, f)
  OBVIOUS
<1>5. IsFiniteSet(E)
  BY FS_Subset
<1>6. CASE E = {}
  <2> DEFINE s == [S \in SUBSET E |-> 0]
  <2>1. Sums(s, E, f)
    BY <1>6 DEF Sums
  <2> QED
    BY <1>4, <2>1
<1>7. CASE E # {}
  <2>1. PICK d \in E : TRUE
    BY <1>7
  <2> DEFINE E1 == E \ {d}
  <2>2. IsFiniteSet(E1) /\ Cardinality(E1) = n - 1 /\ n \in Nat /\ Cardinality(E1) \in Nat
    <3>1. Cardinality(E \ {d}) = Cardinality(E) - 1 /\ IsFiniteSet(E \ {d})
      BY <1>5, FS_RemoveElement, FS_Subset
    <3>2. Cardinality(E \ {d}) \in Nat
      BY <3>1, FS_CardinalityType
    <3> QED
      BY <1>4, <3>1, <3>2
  <2>3. E1 \in SUBSET D
    OBVIOUS
  <2>4. \E s : Sums(s, E1, f)
    <3> HIDE DEF E1
    <3>1. CASE ~\E s : Sums(s, E1, f)
      <4>1. n - 1 \in Bad
        BY <2>2, <2>3, <3>1
      <4>2. n <= n - 1
        <5> HIDE DEF Bad
        <5> QED
          BY <1>3, <4>1
      <4> QED
        BY <2>2, <4>2
    <3> QED
      BY <3>1
  <2>5. PICK s1 : Sums(s1, E1, f)
    BY <2>4
  <2> DEFINE s == [S \in SUBSET E |-> IF d \in S THEN s1[S \ {d}] + f[d] ELSE s1[S]]
  <2>6. f[d] \in Int /\ \A S \in SUBSET E1 : s1[S] \in Int
    BY <2>5 DEF Sums
  <2>7. \A S \in SUBSET E : /\ d \in S => S \ {d} \in SUBSET E1
                            /\ d \notin S => S \in SUBSET E1
    OBVIOUS
  <2>8. s \in [SUBSET E -> Int] /\ s[{}] = 0
    <3>1. s1[{}] = 0 /\ {} \in SUBSET E
      BY <2>5 DEF Sums
    <3>2. \A S \in SUBSET E : (IF d \in S THEN s1[S \ {d}] + f[d] ELSE s1[S]) \in Int
      <4> HIDE DEF E1
      <4> QED
        BY <2>6, <2>7
    <3> QED
      BY <3>1, <3>2
  <2>9. ASSUME NEW S \in SUBSET E, NEW x \in E, x \in S PROVE s[S] = f[x] + s[S \ {x}]
    <3>1. S \ {x} \in SUBSET E /\ f[x] \in Int
      OBVIOUS
    <3>2. CASE x = d
      <4>1. s[S] = s1[S \ {d}] + f[d] /\ s[S \ {x}] = s1[S \ {d}] /\ s1[S \ {d}] \in Int
        BY <2>6, <2>7, <2>9, <3>1, <3>2
      <4> HIDE DEF s
      <4> QED
        BY <2>6, <3>2, <4>1
    <3>3. CASE x # d /\ d \in S
      <4> DEFINE T == S \ {d}
                 U == (S \ {x}) \ {d}
      <4>1. T \in SUBSET E1 /\ x \in T /\ x \in E1 /\ U = T \ {x} /\ U \in SUBSET E1 /\ d \in S \ {x}
        BY <2>9, <3>3
      <4>2. s[S] = s1[T] + f[d] /\ s[S \ {x}] = s1[U] + f[d]
        BY <3>1, <3>3, <4>1
      <4> HIDE DEF s, T, U, E1
      <4>3. s1[T] = f[x] + s1[U] /\ s1[U] \in Int
        BY <2>5, <2>6, <4>1 DEF Sums
      <4> QED
        BY <2>6, <3>1, <4>2, <4>3
    <3>4. CASE x # d /\ d \notin S
      <4>1. S \in SUBSET E1 /\ x \in E1 /\ d \notin S \ {x}
        BY <2>9, <3>4
      <4>2. s[S] = s1[S] /\ s[S \ {x}] = s1[S \ {x}]
        BY <3>1, <3>4, <4>1
      <4> HIDE DEF s, E1
      <4> QED
        BY <2>5, <2>9, <4>1, <4>2 DEF Sums
    <3> QED
      BY <3>2, <3>3, <3>4
  <2>10. Sums(s, E, f)
    <3> HIDE DEF s
    <3> QED
      BY <2>8, <2>9 DEF Sums
  <2> QED
    BY <1>4, <2>10
<1> QED
  BY <1>6, <1>7

\* They are what the library's definition gives.
LEMMA SumIs ==
    ASSUME NEW f, IsFiniteSet(DOMAIN f), \A x \in DOMAIN f : f[x] \in Int,
           NEW s, Sums(s, DOMAIN f, f)
    PROVE  SumFunction(f) = s[DOMAIN f]
<1> DEFINE D == DOMAIN f
           Rec(g) == g = [S \in SUBSET D |->
                 IF S = {} THEN 0
                 ELSE f[CHOOSE x \in S : TRUE] + g[S \ {CHOOSE x \in S : TRUE}]]
           g == CHOOSE h : Rec(h)
<1>1. SumFunction(f) = g[D]
  BY SumUnfolds
<1>2. Rec(s)
  <2>1. /\ s \in [SUBSET D -> Int] /\ s[{}] = 0
        /\ \A S \in SUBSET D, x \in D : x \in S => s[S] = f[x] + s[S \ {x}]
    BY DEF Sums
  <2>2. ASSUME NEW S \in SUBSET D, S # {}
        PROVE  s[S] = f[CHOOSE x \in S : TRUE] + s[S \ {CHOOSE x \in S : TRUE}]
    <3>1. (CHOOSE x \in S : TRUE) \in S
      BY <2>2
    <3> DEFINE c == CHOOSE x \in S : TRUE
    <3> HIDE DEF c
    <3>2. c \in S /\ c \in D
      BY <3>1 DEF c
    <3>3. s[S] = f[c] + s[S \ {c}]
      BY <2>1, <3>2
    <3> QED
      BY <3>3 DEF c
  <2> QED
    BY <2>1, <2>2
<1>3. Rec(g)
  BY <1>2
<1> HIDE DEF g
<1> DEFINE Bad == {Cardinality(S) : S \in {T \in SUBSET D : g[T] # s[T]}}
<1>4. \A S \in SUBSET D : IsFiniteSet(S) /\ Cardinality(S) \in Nat
  BY FS_Subset, FS_CardinalityType
<1>5. CASE Bad = {}
  BY <1>1, <1>5
<1>6. CASE Bad # {}
  <2>1. Bad \in SUBSET Nat
    BY <1>4
  <2>2. PICK n \in Bad : \A m \in Bad : n <= m
    <3> HIDE DEF Bad
    <3> QED
      BY <1>6, <2>1, LeastNatural
  <2>3. PICK S \in SUBSET D : g[S] # s[S] /\ n = Cardinality(S)
    OBVIOUS
  <2>4. S # {}
    BY <1>2, <1>3, <2>3
  <2> DEFINE c == CHOOSE x \in S : TRUE
  <2>5. c \in S
    BY <2>4
  <2>6. g[S] = f[c] + g[S \ {c}] /\ s[S] = f[c] + s[S \ {c}]
    BY <1>2, <1>3, <2>4
  <2> HIDE DEF c
  <2>7. g[S \ {c}] # s[S \ {c}] /\ S \ {c} \in SUBSET D
    BY <2>3, <2>6
  <2>8. Cardinality(S \ {c}) \in Bad
    BY <2>7
  <2>9. Cardinality(S \ {c}) = Cardinality(S) - 1
    <3> HIDE DEF Bad
    <3> QED
      BY <1>4, <2>5, FS_RemoveElement
  <2>10. n <= n - 1 /\ n \in Nat
    <3> HIDE DEF Bad
    <3> QED
      BY <1>4, <2>2, <2>3, <2>8, <2>9
  <2> QED
    BY <2>10
<1> QED
  BY <1>5, <1>6

\* The sum of numbers is a number, and of no number it is 0.
LEMMA SumType ==
    ASSUME NEW D, IsFiniteSet(D), NEW f, DOMAIN f = D, \A x \in D : f[x] \in Int
    PROVE  SumFunction(f) \in Int /\ (D = {} => SumFunction(f) = 0)
<1>1. PICK s : Sums(s, D, f)
  BY SumsExist
<1>2. SumFunction(f) = s[D]
  BY <1>1, SumIs
<1>3. s \in [SUBSET D -> Int] /\ s[{}] = 0
  BY <1>1 DEF Sums
<1>4. s[D] \in Int
  BY <1>3
<1> QED
  BY <1>2, <1>3, <1>4

\* One element's part of the sum.
LEMMA SumWithout ==
    ASSUME NEW D, IsFiniteSet(D), NEW f, DOMAIN f = D, \A x \in D : f[x] \in Int,
           NEW d \in D, NEW g, DOMAIN g = D \ {d}, \A x \in D \ {d} : g[x] = f[x]
    PROVE  SumFunction(f) = f[d] + SumFunction(g)
<1> DEFINE E == D \ {d}
<1>0. DOMAIN g = E /\ \A x \in E : g[x] = f[x]
  OBVIOUS
<1>1. PICK s : Sums(s, D, f)
  BY SumsExist
<1>2. SumFunction(f) = s[D]
  BY <1>1, SumIs
<1> DEFINE t == [S \in SUBSET E |-> s[S]]
<1>3. Sums(t, E, g)
  <2>1. /\ s \in [SUBSET D -> Int] /\ s[{}] = 0
        /\ \A S \in SUBSET D, x \in D : x \in S => s[S] = f[x] + s[S \ {x}]
    BY <1>1 DEF Sums
  <2>2. t \in [SUBSET E -> Int] /\ t[{}] = 0
    BY <2>1
  <2>3. ASSUME NEW S \in SUBSET E, NEW x \in E, x \in S PROVE t[S] = g[x] + t[S \ {x}]
    <3>1. S \in SUBSET D /\ x \in D /\ S \ {x} \in SUBSET E /\ g[x] = f[x]
      BY <1>0
    <3>2. t[S] = s[S] /\ t[S \ {x}] = s[S \ {x}]
      BY <3>1
    <3>3. s[S] = f[x] + s[S \ {x}]
      BY <2>1, <2>3, <3>1
    <3> HIDE DEF t, E
    <3> QED
      BY <3>1, <3>2, <3>3
  <2> HIDE DEF t, E
  <2> QED
    BY <2>2, <2>3 DEF Sums
<1>4. IsFiniteSet(E) /\ DOMAIN g = E /\ \A x \in E : g[x] \in Int
  BY <1>0, FS_Subset
<1>5. SumFunction(g) = t[E]
  <2> HIDE DEF t, E
  <2> QED
    BY <1>3, <1>4, SumIs
<1>6. t[E] = s[E] /\ s[D] = f[d] + s[E]
  BY <1>1 DEF Sums
<1> QED
  BY <1>2, <1>5, <1>6

\* The sum with one number more.
LEMMA SumAppended ==
    ASSUME NEW s \in Seq(Int), NEW x \in Int
    PROVE  SumFunction(s) \in Int /\ SumFunction(Append(s, x)) = SumFunction(s) + x
<1> DEFINE t == Append(s, x)
           k == Len(s) + 1
           D == 1..k
<1>1. t[k] = x /\ k \in Nat /\ DOMAIN t = D
  OBVIOUS
<1>2. k \in D
  OBVIOUS
<1>3. \A i \in D : t[i] \in Int
  OBVIOUS
<1>4. \A i \in D \ {k} : s[i] = t[i]
  OBVIOUS
<1>5. DOMAIN s = D \ {k}
  <2>1. DOMAIN s = 1..Len(s) /\ Len(s) \in Nat
    OBVIOUS
  <2> DEFINE n == Len(s)
  <2> HIDE DEF n
  <2>2. 1..n = (1..(n + 1)) \ {n + 1}
    BY <2>1 DEF n
  <2> QED
    BY <2>1, <2>2 DEF n
<1> HIDE DEF t, k
<1>6. IsFiniteSet(D)
  BY <1>1, NumbersUpTo
<1> HIDE DEF D
<1>7. SumFunction(t) = t[k] + SumFunction(s)
  <2>1. DOMAIN t = D
    BY <1>1
  <2> QED
    BY <1>2, <1>3, <1>4, <1>5, <1>6, <2>1, SumWithout
<1>8. SumFunction(s) \in Int
  <2>1. IsFiniteSet(D \ {k})
    BY <1>6, FS_Subset
  <2>2. \A i \in D \ {k} : s[i] \in Int
    BY <1>3, <1>4
  <2> QED
    BY <1>5, <2>1, <2>2, SumType
<1> QED
  BY <1>1, <1>7, <1>8 DEF t


\* w gives numbers, and every line of N is the sum of its group's.
Numbers(w) == \A x \in DOMAIN w : w[x] \in Int
\* g folds every subset of D with step, one element c[S] at a time.
Folds(g, D, V, base, step, c) ==
    /\ g \in [SUBSET D -> V] /\ g[{}] = base
    /\ \A S \in SUBSET D : S # {} => g[S] = step[c[S]][g[S \ {c[S]}]]

\* Such a fold there is over every finite set.
LEMMA FoldExists ==
    ASSUME NEW D, IsFiniteSet(D), NEW V, NEW base \in V, NEW step \in [D -> [V -> V]],
           NEW c, \A S \in SUBSET D : S # {} => c[S] \in S
    PROVE  \E g : Folds(g, D, V, base, step, c)
<1> DEFINE Upto(n) == {S \in SUBSET D : Cardinality(S) <= n}
           Good(h, n) == /\ h \in [Upto(n) -> V]
                         /\ \A S \in Upto(n) :
                              h[S] = IF S = {} THEN base ELSE step[c[S]][h[S \ {c[S]}]]
           Bad == {n \in Nat : ~\E h : Good(h, n)}
<1>1. \A S \in SUBSET D : IsFiniteSet(S) /\ Cardinality(S) \in Nat
  BY FS_Subset, FS_CardinalityType
<1>2. ASSUME NEW S \in SUBSET D, S # {}
      PROVE  /\ c[S] \in S /\ c[S] \in D /\ S \ {c[S]} \in SUBSET D
             /\ Cardinality(S \ {c[S]}) = Cardinality(S) - 1
  <2>1. c[S] \in S
    BY <1>2
  <2> DEFINE x == c[S]
  <2> HIDE DEF x
  <2>2. Cardinality(S \ {x}) = Cardinality(S) - 1
    BY <1>1, <2>1, FS_RemoveElement DEF x
  <2> QED
    BY <2>1, <2>2 DEF x
<1>3. \A S \in SUBSET D : Cardinality(S) <= 0 => S = {}
  <2> SUFFICES ASSUME NEW S \in SUBSET D, Cardinality(S) <= 0, S # {} PROVE FALSE
    OBVIOUS
  <2>1. Cardinality(S) = 0
    BY <1>1
  <2> QED
    BY <1>1, <2>1, FS_EmptySet
<1>4. Bad = {}
  <2> SUFFICES ASSUME Bad # {} PROVE FALSE
    OBVIOUS
  <2>1. PICK n \in Bad : \A m \in Bad : n <= m
    <3>1. Bad \in SUBSET Nat
      OBVIOUS
    <3> HIDE DEF Bad
    <3> QED
      BY <3>1, LeastNatural
  <2>2. n \in Nat /\ ~\E h : Good(h, n)
    OBVIOUS
  <2>3. CASE n = 0
    <3> DEFINE h == [S \in Upto(n) |-> base]
    <3>1. \A S \in Upto(n) : S = {}
      BY <1>3, <2>3
    <3>2. Good(h, n)
      BY <3>1
    <3> QED
      BY <2>2, <3>2
  <2>4. CASE n > 0
    <3>1. n - 1 \in Nat /\ n - 1 \notin Bad
      <4> HIDE DEF Bad
      <4> QED
        BY <2>1, <2>2, <2>4
    <3>2. PICK f : Good(f, n - 1)
      BY <3>1
    <3> DEFINE h == [S \in Upto(n) |-> IF S = {} THEN base ELSE step[c[S]][f[S \ {c[S]}]]]
    <3>3. ASSUME NEW S \in Upto(n), S # {}
          PROVE  S \ {c[S]} \in Upto(n - 1) /\ S \ {c[S]} \in Upto(n) /\ c[S] \in D
      <4>1. Cardinality(S) <= n /\ Cardinality(S) \in Nat
        BY <1>1
      <4> QED
        BY <1>2, <2>2, <3>3, <4>1
    <3>4. h \in [Upto(n) -> V]
      <4>1. \A S \in Upto(n) : (IF S = {} THEN base ELSE step[c[S]][f[S \ {c[S]}]]) \in V
        <5> SUFFICES ASSUME NEW S \in Upto(n), S # {} PROVE step[c[S]][f[S \ {c[S]}]] \in V
          OBVIOUS
        <5> DEFINE x == c[S]
                   v == f[S \ {c[S]}]
        <5>1. v \in V /\ x \in D
          BY <3>2, <3>3
        <5> HIDE DEF v, x
        <5>2. step[x] \in [V -> V]
          BY <5>1
        <5>3. step[x][v] \in V
          BY <5>1, <5>2
        <5> QED
          BY <5>3 DEF v, x
      <4> QED
        BY <4>1
    <3>5. ASSUME NEW S \in Upto(n - 1) PROVE S \in Upto(n) /\ h[S] = f[S]
      <4>1. S \in Upto(n)
        BY <1>1, <2>2
      <4>2. f[S] = IF S = {} THEN base ELSE step[c[S]][f[S \ {c[S]}]]
        BY <3>2
      <4> QED
        BY <4>1, <4>2
    <3>6. ASSUME NEW S \in Upto(n)
          PROVE  h[S] = IF S = {} THEN base ELSE step[c[S]][h[S \ {c[S]}]]
      <4>1. h[S] = IF S = {} THEN base ELSE step[c[S]][f[S \ {c[S]}]]
        OBVIOUS
      <4>2. S # {} => h[S \ {c[S]}] = f[S \ {c[S]}]
        BY <3>3, <3>5
      <4> HIDE DEF h
      <4> QED
        BY <4>1, <4>2
    <3> HIDE DEF h
    <3> QED
      BY <2>2, <3>4, <3>6
  <2> QED
    BY <2>2, <2>3, <2>4
<1>5. PICK g : Good(g, Cardinality(D))
  <2>1. Cardinality(D) \in Nat
    BY <1>1
  <2> QED
    BY <1>4, <2>1
<1>6. Upto(Cardinality(D)) = SUBSET D
  <2>1. \A S \in SUBSET D : Cardinality(S) <= Cardinality(D)
    BY FS_Subset
  <2> QED
    BY <2>1
<1>7. Folds(g, D, V, base, step, c)
  <2>1. /\ g \in [SUBSET D -> V]
        /\ \A S \in SUBSET D : g[S] = IF S = {} THEN base ELSE step[c[S]][g[S \ {c[S]}]]
    BY <1>5, <1>6
  <2> QED
    BY <2>1 DEF Folds
<1> QED
  BY <1>7

-----------------------------------------------------------------------------
(* What a function that walks along a sequence has at each place, and what is        *)
(* collected and flattened so.                                                       *)

\* g carries a value of V along the numbers up to n, one step at each.
Carries(g, n, V, base, step) ==
    g \in [0..n -> V] /\ g[0] = base /\ \A i \in 1..n : g[i] = step[i][g[i - 1]]

\* Such a g there is.
LEMMA CarriesExists ==
    ASSUME NEW n \in Nat, NEW V, NEW base \in V, NEW step \in [1..n -> [V -> V]]
    PROVE  \E g : Carries(g, n, V, base, step)
<1> DEFINE Good(g, k) == /\ g \in [0..k -> V] /\ g[0] = base
                         /\ \A i \in 1..k : g[i] = step[i][g[i - 1]]
           Bad == {k \in 0..n : ~\E g : Good(g, k)}
<1>1. ASSUME NEW k \in 1..n, NEW g, Good(g, k - 1) PROVE \E h : Good(h, k)
  <2> DEFINE h == [i \in 0..k |-> IF i = k THEN step[k][g[k - 1]] ELSE g[i]]
  <2>1. step[k] \in [V -> V] /\ g[k - 1] \in V
    BY <1>1
  <2>2. step[k][g[k - 1]] \in V
    BY <2>1
  <2>3. h \in [0..k -> V]
    BY <1>1, <2>2
  <2>4. ASSUME NEW i \in 1..k PROVE h[i] = step[i][h[i - 1]]
    BY <1>1
  <2>5. h[0] = base
    BY <1>1
  <2> HIDE DEF h
  <2> QED
    BY <2>3, <2>4, <2>5
<1>2. \E g : Good(g, 0)
  <2>1. Good([i \in 0..0 |-> base], 0)
    OBVIOUS
  <2> QED
    BY <2>1
<1>3. Bad = {}
  <2> SUFFICES ASSUME Bad # {} PROVE FALSE
    OBVIOUS
  <2>1. PICK k \in Bad : \A m \in Bad : k <= m
    <3>1. Bad \in SUBSET Nat
      OBVIOUS
    <3> HIDE DEF Bad
    <3> QED
      BY <3>1, LeastNatural
  <2>2. k \in 1..n /\ ~\E g : Good(g, k)
    <3> HIDE DEF Good
    <3> QED
      BY <1>2
  <2>3. k - 1 \in 0..n /\ k - 1 \notin Bad
    <3>1. k - 1 \in 0..n
      BY <2>2
    <3>2. ~(k <= k - 1)
      BY <2>2
    <3> HIDE DEF Bad
    <3> QED
      BY <2>1, <3>1, <3>2
  <2>4. PICK g : Good(g, k - 1)
    <3> HIDE DEF Good
    <3> QED
      BY <2>3
  <2> HIDE DEF Good, Bad
  <2> QED
    BY <1>1, <2>2, <2>4
<1>4. PICK g : Good(g, n)
  <2> HIDE DEF Good
  <2> QED
    BY <1>3
<1> QED
  BY <1>4 DEF Carries

\* g collects the elements of s whose places keep marks, along the sequence.
Collects(g, s, keep) ==
    g = [i \in 0..Len(s) |->
            IF i = 0 THEN <<>> ELSE IF keep[i] THEN Append(g[i - 1], s[i]) ELSE g[i - 1]]

\* Such a g there is.
LEMMA CollectsExists ==
    ASSUME NEW X, NEW s \in Seq(X), NEW keep
    PROVE  \E g : Collects(g, s, keep)
<1> DEFINE V == Seq(X)
           step == [i \in 1..Len(s) |-> [v \in V |-> IF keep[i] THEN Append(v, s[i]) ELSE v]]
<1>1. step \in [1..Len(s) -> [V -> V]]
  <2>1. \A i \in 1..Len(s), v \in V : (IF keep[i] THEN Append(v, s[i]) ELSE v) \in V
    OBVIOUS
  <2> HIDE DEF V
  <2> QED
    BY <2>1
<1>2. <<>> \in V /\ Len(s) \in Nat
  OBVIOUS
<1>3. PICK g : Carries(g, Len(s), V, <<>>, step)
  <2> HIDE DEF V, step
  <2> QED
    BY <1>1, <1>2, CarriesExists
<1>4. ASSUME NEW i \in 1..Len(s)
      PROVE  g[i] = IF keep[i] THEN Append(g[i - 1], s[i]) ELSE g[i - 1]
  <2>1. g[i] = step[i][g[i - 1]] /\ g \in [0..Len(s) -> V]
    BY <1>3 DEF Carries
  <2>2. i - 1 \in 0..Len(s)
    OBVIOUS
  <2> DEFINE v == g[i - 1]
  <2>3. v \in V
    BY <2>1, <2>2
  <2> HIDE DEF v, V
  <2>4. step[i][v] = IF keep[i] THEN Append(v, s[i]) ELSE v
    BY <2>3
  <2> QED
    BY <2>1, <2>4 DEF v
<1>5. g \in [0..Len(s) -> V] /\ g[0] = <<>>
  BY <1>3 DEF Carries
<1> DEFINE next(i) == IF i = 0 THEN <<>> ELSE IF keep[i] THEN Append(g[i - 1], s[i]) ELSE g[i - 1]
<1>6. \A i \in 0..Len(s) : g[i] = next(i)
  <2> SUFFICES ASSUME NEW i \in 0..Len(s) PROVE g[i] = next(i)
    OBVIOUS
  <2>1. i = 0 \/ (i \in 1..Len(s) /\ i # 0)
    BY <1>2
  <2> QED
    BY <1>4, <1>5, <2>1
<1> HIDE DEF next, V, step
<1>7. g = [i \in 0..Len(s) |-> next(i)]
  BY <1>5, <1>6
<1> QED
  BY <1>7 DEF Collects, next

\* q holds the marked ones of the first k elements of s, in their order.
Picked(q, s, keep, k) ==
    \E p \in [1..Len(q) -> 1..k] :
        /\ \A i \in 1..Len(q) : keep[p[i]] /\ q[i] = s[p[i]]
        /\ \A i, j \in 1..Len(q) : i < j => p[i] < p[j]
        /\ \A j \in 1..k : keep[j] => \E i \in 1..Len(q) : p[i] = j

\* That is what has been collected, up to every place.
LEMMA CollectsPicked ==
    ASSUME NEW X, NEW s \in Seq(X), NEW keep, \A i \in 1..Len(s) : keep[i] \in BOOLEAN,
           NEW g, Collects(g, s, keep)
    PROVE  \A k \in 0..Len(s) : g[k] \in Seq(X) /\ Picked(g[k], s, keep, k)
<1> DEFINE Good(k) == g[k] \in Seq(X) /\ Picked(g[k], s, keep, k)
           Bad == {k \in 0..Len(s) : ~Good(k)}
<1>1. Len(s) \in Nat
  OBVIOUS
<1> DEFINE next(i) == IF i = 0 THEN <<>> ELSE IF keep[i] THEN Append(g[i - 1], s[i]) ELSE g[i - 1]
<1>2. g = [i \in 0..Len(s) |-> next(i)]
  BY DEF Collects
<1> HIDE DEF next
<1>3. \A i \in 0..Len(s) : g[i] = next(i)
  BY <1>2, Zenon
<1>4. g[0] = <<>>
  <2>1. 0 \in 0..Len(s)
    BY <1>1
  <2> QED
    BY <1>3, <2>1 DEF next
<1>5. ASSUME NEW k \in 1..Len(s)
      PROVE  g[k] = IF keep[k] THEN Append(g[k - 1], s[k]) ELSE g[k - 1]
  <2>1. k \in 0..Len(s) /\ k # 0
    BY <1>1
  <2> QED
    BY <1>3, <2>1 DEF next
<1>6. Good(0)
  <2>1. Picked(<<>>, s, keep, 0)
    <3> DEFINE p == [i \in 1..0 |-> 1]
    <3>1. Len(<<>>) = 0 /\ p \in [1..0 -> 1..0]
      OBVIOUS
    <3>2. ~\E i : i \in 1..0
      OBVIOUS
    <3> HIDE DEF p
    <3>3. p \in [1..Len(<<>>) -> 1..0]
      BY <3>1
    <3>4. ~\E i : i \in 1..Len(<<>>)
      BY <3>1, <3>2
    <3> QED
      BY <3>2, <3>3, <3>4, Zenon DEF Picked
  <2> QED
    BY <1>4, <2>1
<1>7. ASSUME NEW k \in 1..Len(s), Good(k - 1) PROVE Good(k)
  <2> DEFINE q == g[k - 1]
  <2> HIDE DEF q
  <2>1. q \in Seq(X) /\ Len(q) \in Nat /\ k \in Nat /\ s[k] \in X
    BY <1>1, <1>7 DEF q
  <2>2. PICK p \in [1..Len(q) -> 1..(k - 1)] :
            /\ \A i \in 1..Len(q) : keep[p[i]] /\ q[i] = s[p[i]]
            /\ \A i, j \in 1..Len(q) : i < j => p[i] < p[j]
            /\ \A j \in 1..(k - 1) : keep[j] => \E i \in 1..Len(q) : p[i] = j
    BY <1>7 DEF Picked, q
  <2>3. CASE ~keep[k]
    <3>1. g[k] = q
      BY <1>5, <2>3 DEF q
    <3>2. p \in [1..Len(q) -> 1..k]
      BY <2>1
    <3>3. \A j \in 1..k : keep[j] => \E i \in 1..Len(q) : p[i] = j
      <4>1. \A j \in 1..k : keep[j] => j \in 1..(k - 1)
        BY <2>1, <2>3
      <4> QED
        BY <2>2, <4>1
    <3>4. Picked(q, s, keep, k)
      BY <2>2, <3>2, <3>3 DEF Picked
    <3> QED
      BY <2>1, <3>1, <3>4
  <2>4. CASE keep[k]
    <3> DEFINE r == Append(q, s[k])
               o == [i \in 1..(Len(q) + 1) |-> IF i = Len(q) + 1 THEN k ELSE p[i]]
    <3>1. /\ r \in Seq(X) /\ Len(r) = Len(q) + 1 /\ r[Len(q) + 1] = s[k]
          /\ \A i \in 1..Len(q) : r[i] = q[i]
      BY <2>1
    <3>2. o \in [1..(Len(q) + 1) -> 1..k]
      BY <2>1
    <3>3. o[Len(q) + 1] = k /\ \A i \in 1..Len(q) : o[i] = p[i] /\ o[i] \in 1..(k - 1)
      BY <2>1
    <3>4. g[k] = r
      BY <1>5, <2>4 DEF q
    <3> HIDE DEF o, r
    <3>5. ASSUME NEW i \in 1..Len(r) PROVE keep[o[i]] /\ r[i] = s[o[i]]
      <4>1. i \in 1..Len(q) \/ i = Len(q) + 1
        BY <2>1, <3>1
      <4>2. CASE i \in 1..Len(q)
        BY <2>2, <3>1, <3>3, <4>2
      <4>3. CASE i = Len(q) + 1
        BY <2>4, <3>1, <3>3, <4>3
      <4> QED
        BY <4>1, <4>2, <4>3
    <3>6. ASSUME NEW i \in 1..Len(r), NEW j \in 1..Len(r), i < j PROVE o[i] < o[j]
      <4>1. i \in 1..Len(q) /\ (j \in 1..Len(q) \/ j = Len(q) + 1)
        BY <2>1, <3>1, <3>6
      <4>2. CASE j \in 1..Len(q)
        BY <2>2, <3>3, <3>6, <4>1, <4>2
      <4>3. CASE j = Len(q) + 1
        BY <2>1, <3>3, <4>1, <4>3
      <4> QED
        BY <4>1, <4>2, <4>3
    <3>7. ASSUME NEW j \in 1..k, keep[j] PROVE \E i \in 1..Len(r) : o[i] = j
      <4>1. CASE j = k
        <5>1. Len(q) + 1 \in 1..Len(r)
          BY <2>1, <3>1
        <5> QED
          BY <3>3, <4>1, <5>1
      <4>2. CASE j # k
        <5>1. j \in 1..(k - 1)
          BY <2>1, <4>2
        <5>2. PICK i \in 1..Len(q) : p[i] = j
          BY <2>2, <3>7, <5>1
        <5>3. i \in 1..Len(r)
          BY <2>1, <3>1
        <5> QED
          BY <3>3, <5>2, <5>3
      <4> QED
        BY <4>1, <4>2
    <3>8. Picked(r, s, keep, k)
      <4>1. o \in [1..Len(r) -> 1..k]
        BY <3>1, <3>2
      <4> QED
        BY <3>5, <3>6, <3>7, <4>1, Zenon DEF Picked
    <3> QED
      BY <3>1, <3>4, <3>8
  <2> QED
    BY <2>3, <2>4
<1> HIDE DEF Good
<1>8. Bad = {}
  <2> SUFFICES ASSUME Bad # {} PROVE FALSE
    OBVIOUS
  <2>1. PICK k \in Bad : \A m \in Bad : k <= m
    <3>1. Bad \in SUBSET Nat
      OBVIOUS
    <3> HIDE DEF Bad
    <3> QED
      BY <3>1, LeastNatural
  <2>2. k \in 1..Len(s) /\ ~Good(k)
    BY <1>1, <1>6
  <2>3. k - 1 \in 0..Len(s) /\ ~(k <= k - 1)
    BY <1>1, <2>2
  <2>4. Good(k - 1)
    BY <2>1, <2>3
  <2> QED
    BY <1>7, <2>2, <2>4
<1> QED
  BY <1>8 DEF Good

\* g is what FlattenSeq builds of s, sequence by sequence.
Flattens(g, s) ==
    g = [i \in 1..Len(s) |-> IF i = 1 THEN s[i] ELSE g[i - 1] \o s[i]]

\* Such a g there is.
LEMMA FlattensExists ==
    ASSUME NEW M, NEW s \in Seq(Seq(M))
    PROVE  \E g : Flattens(g, s) /\ g \in [1..Len(s) -> Seq(M)]
<1> DEFINE V == Seq(M)
           step == [i \in 1..Len(s) |-> [v \in V |-> IF i = 1 THEN s[i] ELSE v \o s[i]]]
<1>1. Len(s) \in Nat /\ \A i \in 1..Len(s) : s[i] \in V
  OBVIOUS
<1>2. step \in [1..Len(s) -> [V -> V]]
  <2>1. \A i \in 1..Len(s), v \in V : (IF i = 1 THEN s[i] ELSE v \o s[i]) \in V
    OBVIOUS
  <2> HIDE DEF V
  <2> QED
    BY <2>1
<1>3. <<>> \in V
  OBVIOUS
<1>4. PICK f : Carries(f, Len(s), V, <<>>, step)
  <2> HIDE DEF V, step
  <2> QED
    BY <1>1, <1>2, <1>3, CarriesExists
<1>5. f \in [0..Len(s) -> V]
  BY <1>4 DEF Carries
<1> DEFINE g == [i \in 1..Len(s) |-> f[i]]
           next(i) == IF i = 1 THEN s[i] ELSE g[i - 1] \o s[i]
<1>6. g \in [1..Len(s) -> V]
  BY <1>1, <1>5
<1>7. ASSUME NEW i \in 1..Len(s) PROVE g[i] = next(i)
  <2>1. f[i] = step[i][f[i - 1]] /\ g[i] = f[i]
    BY <1>4 DEF Carries
  <2> DEFINE v == f[i - 1]
  <2>2. v \in V
    BY <1>5
  <2> HIDE DEF v, V
  <2>3. step[i][v] = IF i = 1 THEN s[i] ELSE v \o s[i]
    BY <2>2
  <2>4. i # 1 => v = g[i - 1]
    BY <1>1 DEF v
  <2> HIDE DEF g, step
  <2> QED
    BY <2>1, <2>3, <2>4 DEF v
<1> HIDE DEF g, next, V
<1>8. g = [i \in 1..Len(s) |-> next(i)]
  BY <1>6, <1>7
<1>9. Flattens(g, s)
  BY <1>8 DEF Flattens, next
<1> QED
  BY <1>6, <1>9 DEF V

\* One g flattens s, whichever was chosen.
LEMMA FlattenIs ==
    ASSUME NEW M, NEW s \in Seq(Seq(M)), s # <<>>
    PROVE  \E g \in [1..Len(s) -> Seq(M)] :
              /\ g[1] = s[1] /\ \A i \in 2..Len(s) : g[i] = g[i - 1] \o s[i]
              /\ FlattenSeq(s) = g[Len(s)]
<1> DEFINE g == CHOOSE f : Flattens(f, s)
<1>1. Len(s) \in Nat /\ Len(s) # 0
  OBVIOUS
<1>2. Flattens(g, s)
  BY FlattensExists
<1>3. FlattenSeq(s) = g[Len(s)]
  BY <1>1, Zenon DEF FlattenSeq, Flattens
<1> HIDE DEF g
<1> DEFINE next(i) == IF i = 1 THEN s[i] ELSE g[i - 1] \o s[i]
<1>4. g = [i \in 1..Len(s) |-> next(i)]
  BY <1>2 DEF Flattens
<1> HIDE DEF next
<1>5. \A i \in 1..Len(s) : g[i] = next(i)
  BY <1>4, Zenon
<1>6. g[1] = s[1]
  <2>1. 1 \in 1..Len(s)
    BY <1>1
  <2> QED
    BY <1>5, <2>1 DEF next
<1>7. ASSUME NEW i \in 2..Len(s) PROVE g[i] = g[i - 1] \o s[i]
  <2>1. i \in 1..Len(s) /\ i # 1
    BY <1>1
  <2> QED
    BY <1>5, <2>1 DEF next
<1> DEFINE Bad == {i \in 1..Len(s) : g[i] \notin Seq(M)}
<1>8. Bad = {}
  <2> SUFFICES ASSUME Bad # {} PROVE FALSE
    OBVIOUS
  <2>1. PICK k \in Bad : \A m \in Bad : k <= m
    <3>1. Bad \in SUBSET Nat
      OBVIOUS
    <3> HIDE DEF Bad
    <3> QED
      BY <3>1, LeastNatural
  <2>2. k \in 2..Len(s) /\ g[k] \notin Seq(M)
    <3>1. s[1] \in Seq(M)
      BY <1>1
    <3> QED
      BY <1>1, <1>6, <3>1
  <2>3. k - 1 \in 1..Len(s) /\ ~(k <= k - 1)
    BY <1>1, <2>2
  <2>4. g[k - 1] \in Seq(M) /\ s[k] \in Seq(M)
    BY <2>1, <2>2, <2>3
  <2> DEFINE v == g[k - 1]
             w == s[k]
  <2> HIDE DEF v, w
  <2>5. v \o w \in Seq(M)
    BY <2>4 DEF v, w
  <2> QED
    BY <1>7, <2>2, <2>5 DEF v, w
<1>9. g \in [1..Len(s) -> Seq(M)]
  BY <1>4, <1>8
<1> QED
  BY <1>3, <1>6, <1>7, <1>9

\* Nothing flattened is nothing, and another sequence at the end comes at the end.
LEMMA FlattenAppended ==
    ASSUME NEW M, NEW s \in Seq(Seq(M)), NEW x \in Seq(M)
    PROVE  /\ FlattenSeq(<<>>) = <<>> /\ FlattenSeq(s) \in Seq(M)
           /\ FlattenSeq(Append(s, x)) = FlattenSeq(s) \o x
<1> DEFINE t == Append(s, x)
<1>1. /\ t \in Seq(Seq(M)) /\ t # <<>> /\ Len(t) = Len(s) + 1 /\ Len(s) \in Nat
      /\ t[Len(s) + 1] = x /\ \A i \in 1..Len(s) : t[i] = s[i]
  <2> DEFINE V == Seq(M)
  <2> HIDE DEF V
  <2>1. s \in Seq(V) /\ x \in V
    BY DEF V
  <2>2. t \in Seq(V) /\ Len(t) = Len(s) + 1 /\ Len(s) \in Nat
    BY <2>1
  <2>3. t # <<>>
    BY <2>2
  <2>4. t[Len(s) + 1] = x /\ \A i \in 1..Len(s) : t[i] = s[i]
    BY <2>1
  <2> QED
    BY <2>2, <2>3, <2>4 DEF V
<1>2. FlattenSeq(<<>>) = <<>>
  BY DEF FlattenSeq
<1> HIDE DEF t
<1>3. PICK g \in [1..Len(t) -> Seq(M)] :
          /\ g[1] = t[1] /\ \A i \in 2..Len(t) : g[i] = g[i - 1] \o t[i]
          /\ FlattenSeq(t) = g[Len(t)]
  BY <1>1, FlattenIs
<1>4. CASE s = <<>>
  <2>1. Len(s) = 0
    BY <1>4
  <2>2. FlattenSeq(t) = x
    BY <1>1, <1>3, <2>1
  <2>3. <<>> \o x = x
    OBVIOUS
  <2>4. FlattenSeq(s) = <<>> /\ <<>> \in Seq(M)
    BY <1>2, <1>4
  <2>5. FlattenSeq(t) = FlattenSeq(s) \o x
    BY <2>2, <2>3, <2>4
  <2> QED
    BY <1>2, <2>4, <2>5 DEF t
<1>5. CASE s # <<>>
  <2>1. Len(s) > 0
    BY <1>5
  <2>2. PICK f \in [1..Len(s) -> Seq(M)] :
            /\ f[1] = s[1] /\ \A i \in 2..Len(s) : f[i] = f[i - 1] \o s[i]
            /\ FlattenSeq(s) = f[Len(s)]
    BY <1>5, FlattenIs
  <2> DEFINE Bad == {i \in 1..Len(s) : f[i] # g[i]}
  <2>3. Bad = {}
    <3> SUFFICES ASSUME Bad # {} PROVE FALSE
      OBVIOUS
    <3>1. PICK k \in Bad : \A m \in Bad : k <= m
      <4>1. Bad \in SUBSET Nat
        OBVIOUS
      <4> HIDE DEF Bad
      <4> QED
        BY <4>1, LeastNatural
    <3>2. k \in 1..Len(s) /\ f[k] # g[k]
      OBVIOUS
    <3>3. k # 1
      BY <1>1, <1>3, <2>1, <2>2, <3>2
    <3>4. k \in 2..Len(s) /\ k \in 2..Len(t) /\ k - 1 \in 1..Len(s) /\ ~(k <= k - 1)
      BY <1>1, <3>2, <3>3
    <3>5. f[k - 1] = g[k - 1]
      BY <3>1, <3>4
    <3>6. f[k] = f[k - 1] \o s[k] /\ g[k] = g[k - 1] \o t[k] /\ t[k] = s[k]
      BY <1>1, <1>3, <2>2, <3>2, <3>4
    <3> QED
      BY <3>2, <3>5, <3>6
  <2>4. Len(s) \in 1..Len(s) /\ Len(t) \in 2..Len(t) /\ Len(t) - 1 = Len(s)
    BY <1>1, <2>1
  <2>5. g[Len(t)] = g[Len(s)] \o x
    BY <1>1, <1>3, <2>4
  <2>6. f[Len(s)] = g[Len(s)]
    BY <2>3, <2>4
  <2>7. FlattenSeq(s) \in Seq(M)
    BY <2>2, <2>4
  <2> QED
    BY <1>2, <1>3, <2>2, <2>5, <2>6, <2>7 DEF t
<1> QED
  BY <1>4, <1>5
=============================================================================
