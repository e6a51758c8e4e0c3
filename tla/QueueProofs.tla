---------------------------- MODULE QueueProofs ----------------------------
(***************************************************************************)
(* What the operations on a queue do to its members, its length and to the *)
(* fact that it holds nothing twice: appending, taking the head or another *)
(* place, joining two queues, keeping a prefix, dropping some packets.     *)
(***************************************************************************)
EXTENDS Queues, FiniteSetTheorems, SequenceTheorems, WellFoundedInduction, TLAPS

LEMMA Members ==
  ASSUME NEW S, NEW q \in Seq(S)
  PROVE  /\ Len(q) \in Nat /\ DOMAIN q = 1 .. Len(q) /\ Range(q) \subseteq S
         /\ \A x : x \in Range(q) <=> \E i \in 1 .. Len(q) : q[i] = x
BY LenProperties, ElementOfSeq DEF Range

LEMMA EmptyQueue ==
  ASSUME NEW S
  PROVE  <<>> \in Seq(S) /\ Len(<<>>) = 0 /\ Range(<<>>) = {} /\ IsInjective(<<>>)
<1>1. <<>> \in Seq(S) /\ Len(<<>>) = 0 /\ DOMAIN <<>> = {}
  BY EmptySeq
<1> QED
  BY <1>1 DEF Range, IsInjective

LEMMA NonEmpty ==
  ASSUME NEW S, NEW q \in Seq(S), Range(q) = {}
  PROVE  q = <<>>
<1>1. Len(q) \in Nat /\ ~ \E i \in 1 .. Len(q) : TRUE
  BY Members
<1>2. Len(q) = 0
  BY <1>1
<1> QED
  BY <1>2, EmptySeq

LEMMA Appended ==
  ASSUME NEW S, NEW q \in Seq(S), NEW x \in S
  PROVE  /\ Append(q, x) \in Seq(S) /\ Len(Append(q, x)) = Len(q) + 1
         /\ \A i \in 1 .. Len(q) : Append(q, x)[i] = q[i]
         /\ Append(q, x)[Len(q) + 1] = x
         /\ Range(Append(q, x)) = Range(q) \cup {x}
         /\ IsInjective(q) /\ x \notin Range(q) => IsInjective(Append(q, x))
<1> DEFINE r == Append(q, x)
           n == Len(q)
<1>1. /\ n \in Nat /\ r \in Seq(S) /\ Len(r) = n + 1 /\ DOMAIN r = 1 .. n + 1 /\ DOMAIN q = 1 .. n
      /\ \A i \in 1 .. n : r[i] = q[i]
      /\ r[n + 1] = x
  OBVIOUS
<1> HIDE DEF r, n
<1>2. \A y : y \in Range(r) <=> y \in Range(q) \/ y = x
  <2> SUFFICES ASSUME NEW y
               PROVE  (\E i \in 1 .. n + 1 : r[i] = y) <=> (\E i \in 1 .. n : q[i] = y) \/ y = x
    BY <1>1 DEF Range
  <2>1. \A i \in 1 .. n + 1 : i \in 1 .. n \/ i = n + 1
    BY <1>1
  <2>2. n + 1 \in 1 .. n + 1 /\ \A i \in 1 .. n : i \in 1 .. n + 1
    BY <1>1
  <2> QED
    BY <1>1, <2>1, <2>2
<1>3. ASSUME IsInjective(q), x \notin Range(q) PROVE IsInjective(r)
  <2> SUFFICES ASSUME NEW i \in 1 .. n + 1, NEW j \in 1 .. n + 1, r[i] = r[j] PROVE i = j
    BY <1>1 DEF IsInjective
  <2>1. \A k \in 1 .. n : q[k] # x
    BY <1>1, <1>3 DEF Range
  <2>2. (i \in 1 .. n \/ i = n + 1) /\ (j \in 1 .. n \/ j = n + 1)
    BY <1>1
  <2> QED
    BY <1>1, <1>3, <2>1, <2>2 DEF IsInjective
<1> QED
  BY <1>1, <1>2, <1>3 DEF r, n

LEMMA TakenHead ==
  ASSUME NEW S, NEW q \in Seq(S), q # <<>>
  PROVE  /\ Tail(q) \in Seq(S) /\ Len(Tail(q)) = Len(q) - 1
         /\ Head(q) \in S /\ Head(q) \in Range(q) /\ Len(q) > 0
         /\ IsInjective(q) => IsInjective(Tail(q)) /\ Range(Tail(q)) = Range(q) \ {Head(q)}
<1> DEFINE n == Len(q)
           r == Tail(q)
<1>1. /\ n \in Nat \ {0} /\ r \in Seq(S) /\ Len(r) = n - 1 /\ DOMAIN r = 1 .. n - 1 /\ DOMAIN q = 1 .. n
      /\ \A i \in 1 .. n - 1 : r[i] = q[i + 1]
      /\ Head(q) = q[1] /\ q[1] \in S
  BY HeadTailProperties, EmptySeq, LenProperties, ElementOfSeq
<1> HIDE DEF n, r
<1>2. Head(q) \in Range(q)
  BY <1>1 DEF Range
<1>3. ASSUME IsInjective(q) PROVE IsInjective(r)
  <2> SUFFICES ASSUME NEW i \in 1 .. n - 1, NEW j \in 1 .. n - 1, r[i] = r[j] PROVE i = j
    BY <1>1 DEF IsInjective
  <2>1. i + 1 \in 1 .. n /\ j + 1 \in 1 .. n /\ i \in Int /\ j \in Int
    BY <1>1
  <2>2. q[i + 1] = q[j + 1]
    BY <1>1
  <2>3. i + 1 = j + 1
    BY <1>1, <1>3, <2>1, <2>2 DEF IsInjective
  <2> QED
    BY <2>1, <2>3
<1>4. ASSUME IsInjective(q), NEW y PROVE y \in Range(r) <=> y \in Range(q) /\ y # Head(q)
  <2>1. ASSUME NEW i \in 1 .. n - 1 PROVE i + 1 \in 1 .. n /\ r[i] = q[i + 1] /\ q[i + 1] # q[1]
    <3>1. i + 1 \in 1 .. n /\ i + 1 # 1 /\ 1 \in 1 .. n
      BY <1>1
    <3> QED
      BY <1>1, <1>4, <3>1 DEF IsInjective
  <2>2. ASSUME NEW i \in 1 .. n, q[i] # q[1] PROVE i - 1 \in 1 .. n - 1 /\ r[i - 1] = q[i]
    <3>1. i # 1
      BY <2>2
    <3>2. i - 1 \in 1 .. n - 1 /\ (i - 1) + 1 = i
      BY <1>1, <3>1
    <3> QED
      BY <1>1, <3>2
  <2>3. y \in Range(r) => y \in Range(q) /\ y # Head(q)
    BY <1>1, <2>1 DEF Range
  <2>4. y \in Range(q) /\ y # Head(q) => y \in Range(r)
    BY <1>1, <2>2 DEF Range
  <2> QED
    BY <2>3, <2>4
<1> QED
  BY <1>1, <1>2, <1>3, <1>4 DEF n, r

LEMMA TakenAt ==
  ASSUME NEW S, NEW q \in Seq(S), NEW i \in 1 .. Len(q)
  PROVE  /\ RemoveAt(q, i) \in Seq(S) /\ Len(RemoveAt(q, i)) = Len(q) - 1
         /\ \A j \in 1 .. Len(q) - 1 : RemoveAt(q, i)[j] = IF j < i THEN q[j] ELSE q[j + 1]
         /\ IsInjective(q) => /\ IsInjective(RemoveAt(q, i))
                              /\ Range(RemoveAt(q, i)) = Range(q) \ {q[i]}
<1> DEFINE n == Len(q)
           r == RemoveAt(q, i)
           x == SubSeq(q, 1, i - 1)
           y == SubSeq(q, i + 1, n)
<1>1. n \in Nat /\ i \in Int /\ 1 =< i /\ i =< n /\ (\A j \in 1 .. n : q[j] \in S) /\ DOMAIN q = 1 .. n
  BY LenProperties, ElementOfSeq
<1>2. /\ x \in Seq(S) /\ Len(x) = i - 1
      /\ \A j \in 1 .. i - 1 : x[j] = q[j]
  <2>1. \A j \in 1 .. i - 1 : q[j] \in S
    BY <1>1
  <2>2. /\ x \in Seq(S) /\ Len(x) = IF 1 =< i - 1 THEN (i - 1) - 1 + 1 ELSE 0
        /\ \A j \in 1 .. (i - 1) - 1 + 1 : x[j] = q[1 + j - 1]
    BY <1>1, <2>1, SubSeqProperties
  <2> HIDE DEF x
  <2> QED
    BY <1>1, <2>2
<1>3. /\ y \in Seq(S) /\ Len(y) = n - i
      /\ \A j \in 1 .. n - i : y[j] = q[i + j]
  <2>1. \A j \in i + 1 .. n : q[j] \in S
    BY <1>1
  <2>2. /\ y \in Seq(S) /\ Len(y) = IF i + 1 =< n THEN n - (i + 1) + 1 ELSE 0
        /\ \A j \in 1 .. n - (i + 1) + 1 : y[j] = q[(i + 1) + j - 1]
    BY <1>1, <2>1, SubSeqProperties
  <2> HIDE DEF y, n, r
  <2>3. n - (i + 1) + 1 = n - i /\ \A j \in 1 .. n - i : (i + 1) + j - 1 = i + j
    BY <1>1
  <2>4. Len(y) = n - i
    BY <1>1, <2>2
  <2> QED
    BY <2>2, <2>3, <2>4
<1>4. r = x \o y
  BY DEF RemoveAt
<1> HIDE DEF x, y, n, r
<1>5. /\ r \in Seq(S) /\ Len(r) = Len(x) + Len(y)
      /\ \A j \in 1 .. Len(x) + Len(y) : r[j] = IF j =< Len(x) THEN x[j] ELSE y[j - Len(x)]
  BY <1>2, <1>3, <1>4, ConcatProperties
<1>6. Len(x) + Len(y) = n - 1 /\ DOMAIN r = 1 .. n - 1
  BY <1>1, <1>2, <1>3, <1>5, LenProperties
<1>7. ASSUME NEW j \in 1 .. n - 1
      PROVE  r[j] = IF j < i THEN q[j] ELSE q[j + 1]
  <2>0. r[j] = IF j =< i - 1 THEN x[j] ELSE y[j - (i - 1)]
    BY <1>2, <1>5, <1>6
  <2>1. CASE j < i
    <3>1. j \in 1 .. i - 1 /\ j =< i - 1
      BY <1>1, <2>1
    <3> QED
      BY <1>2, <2>0, <2>1, <3>1
  <2>2. CASE ~ (j < i)
    <3>1. j - (i - 1) \in 1 .. n - i /\ i + (j - (i - 1)) = j + 1 /\ ~ (j =< i - 1)
      BY <1>1, <2>2
    <3>2. y[j - (i - 1)] = q[i + (j - (i - 1))]
      BY <1>3, <3>1
    <3> QED
      BY <2>0, <2>2, <3>1, <3>2
  <2> QED
    BY <2>1, <2>2
<1>8. ASSUME NEW j \in 1 .. n - 1
      PROVE  \E k \in 1 .. n : k = (IF j < i THEN j ELSE j + 1) /\ k # i /\ r[j] = q[k]
  BY <1>1, <1>7
<1>9. ASSUME NEW k \in 1 .. n, k # i
      PROVE  \E j \in 1 .. n - 1 : r[j] = q[k]
  <2>1. CASE k < i
    <3>1. k \in 1 .. n - 1 /\ r[k] = q[k]
      BY <1>1, <1>7, <2>1
    <3> QED
      BY <3>1
  <2>2. CASE k > i
    <3>1. k - 1 \in 1 .. n - 1 /\ ~ (k - 1 < i) /\ (k - 1) + 1 = k
      BY <1>1, <2>2
    <3>2. r[k - 1] = q[k]
      BY <1>7, <3>1
    <3> QED
      BY <3>1, <3>2
  <2> QED
    BY <1>1, <1>9, <2>1, <2>2
<1>10. ASSUME IsInjective(q) PROVE IsInjective(r)
  <2> SUFFICES ASSUME NEW j \in 1 .. n - 1, NEW m \in 1 .. n - 1, r[j] = r[m] PROVE j = m
    BY <1>6 DEF IsInjective
  <2>1. (IF j < i THEN j ELSE j + 1) = (IF m < i THEN m ELSE m + 1)
    BY <1>1, <1>8, <1>10 DEF IsInjective
  <2> QED
    BY <1>1, <2>1
<1>11. ASSUME IsInjective(q), NEW z PROVE z \in Range(r) <=> z \in Range(q) /\ z # q[i]
  <2>1. z \in Range(r) => z \in Range(q) /\ z # q[i]
    BY <1>1, <1>6, <1>8, <1>11 DEF Range, IsInjective
  <2>2. z \in Range(q) /\ z # q[i] => z \in Range(r)
    BY <1>1, <1>6, <1>9 DEF Range
  <2> QED
    BY <2>1, <2>2
<1> QED
  BY <1>5, <1>6, <1>7, <1>10, <1>11 DEF n, r

LEMMA Joined ==
  ASSUME NEW S, NEW a \in Seq(S), NEW b \in Seq(S)
  PROVE  /\ a \o b \in Seq(S) /\ Len(a \o b) = Len(a) + Len(b)
         /\ Range(a \o b) = Range(a) \cup Range(b)
         /\ IsInjective(a) /\ IsInjective(b) /\ Range(a) \cap Range(b) = {} => IsInjective(a \o b)
<1> DEFINE r == a \o b
           m == Len(a)
           n == Len(b)
<1>1. /\ m \in Nat /\ n \in Nat /\ DOMAIN a = 1 .. m /\ DOMAIN b = 1 .. n
      /\ r \in Seq(S) /\ Len(r) = m + n /\ DOMAIN r = 1 .. m + n
      /\ \A i \in 1 .. m + n : r[i] = IF i =< m THEN a[i] ELSE b[i - m]
  BY ConcatProperties, LenProperties
<1> HIDE DEF r, m, n
<1>2. ASSUME NEW i \in 1 .. m + n
      PROVE  \/ i \in 1 .. m /\ r[i] = a[i]
             \/ i - m \in 1 .. n /\ r[i] = b[i - m]
  BY <1>1
<1>3. /\ \A i \in 1 .. m : i \in 1 .. m + n /\ r[i] = a[i]
      /\ \A i \in 1 .. n : m + i \in 1 .. m + n /\ r[m + i] = b[i]
  <2>1. ASSUME NEW i \in 1 .. n PROVE m + i \in 1 .. m + n /\ ~ (m + i =< m) /\ (m + i) - m = i
    BY <1>1
  <2>2. \A i \in 1 .. n : r[m + i] = b[i]
    BY <1>1, <2>1
  <2> QED
    BY <1>1, <2>1, <2>2
<1>4. Range(r) = Range(a) \cup Range(b)
  <2>1. ASSUME NEW z \in Range(r) PROVE z \in Range(a) \/ z \in Range(b)
    <3>1. PICK i \in 1 .. m + n : r[i] = z
      BY <1>1 DEF Range
    <3>2. CASE i \in 1 .. m /\ r[i] = a[i]
      BY <1>1, <3>1, <3>2 DEF Range
    <3>3. CASE i - m \in 1 .. n /\ r[i] = b[i - m]
      BY <1>1, <3>1, <3>3 DEF Range
    <3> QED
      BY <1>2, <3>2, <3>3
  <2>2. Range(a) \subseteq Range(r)
    BY <1>1, <1>3 DEF Range
  <2>3. Range(b) \subseteq Range(r)
    <3>1. ASSUME NEW i \in 1 .. n PROVE b[i] \in Range(r)
      <4>1. m + i \in DOMAIN r /\ r[m + i] = b[i]
        BY <1>1, <1>3
      <4> QED
        BY <4>1 DEF Range
    <3> QED
      BY <1>1, <3>1 DEF Range
  <2> QED
    BY <2>1, <2>2, <2>3
<1>5. ASSUME IsInjective(a), IsInjective(b), Range(a) \cap Range(b) = {} PROVE IsInjective(r)
  <2> SUFFICES ASSUME NEW i \in 1 .. m + n, NEW j \in 1 .. m + n, r[i] = r[j] PROVE i = j
    BY <1>1 DEF IsInjective
  <2>1. \A k \in 1 .. m : \A l \in 1 .. n : a[k] # b[l]
    <3>1. \A k \in 1 .. m : a[k] \in Range(a)
      BY <1>1 DEF Range
    <3>2. \A l \in 1 .. n : b[l] \in Range(b)
      BY <1>1 DEF Range
    <3> QED
      BY <1>5, <3>1, <3>2
  <2>2. CASE i \in 1 .. m /\ r[i] = a[i]
    BY <1>1, <1>2, <1>5, <2>1, <2>2 DEF IsInjective
  <2>3. CASE i - m \in 1 .. n /\ r[i] = b[i - m]
    <3>1. j - m \in 1 .. n /\ r[j] = b[j - m]
      BY <1>2, <2>1, <2>3
    <3>2. i - m = j - m
      BY <1>1, <1>5, <2>3, <3>1 DEF IsInjective
    <3> QED
      BY <1>1, <3>2
  <2> QED
    BY <1>2, <2>2, <2>3
<1> QED
  BY <1>1, <1>4, <1>5 DEF r, m, n

LEMMA Prefix ==
  ASSUME NEW S, NEW q \in Seq(S), NEW k \in 0 .. Len(q)
  PROVE  /\ SubSeq(q, 1, k) \in Seq(S) /\ Len(SubSeq(q, 1, k)) = k
         /\ Range(SubSeq(q, 1, k)) \subseteq Range(q)
         /\ IsInjective(q) => IsInjective(SubSeq(q, 1, k))
<1> DEFINE r == SubSeq(q, 1, k)
           n == Len(q)
<1>1. n \in Nat /\ k \in Int /\ 0 =< k /\ k =< n /\ (\A j \in 1 .. n : q[j] \in S) /\ DOMAIN q = 1 .. n
  BY LenProperties, ElementOfSeq
<1>2. \A j \in 1 .. k : q[j] \in S
  BY <1>1
<1>3. /\ r \in Seq(S) /\ Len(r) = IF 1 =< k THEN k - 1 + 1 ELSE 0
      /\ \A j \in 1 .. k - 1 + 1 : r[j] = q[1 + j - 1]
  BY <1>1, <1>2, SubSeqProperties
<1> HIDE DEF r, n
<1>4. Len(r) = k /\ (\A j \in 1 .. k : j \in 1 .. n /\ r[j] = q[j]) /\ DOMAIN r = 1 .. k
  BY <1>1, <1>3, LenProperties
<1>5. Range(r) \subseteq Range(q)
  BY <1>1, <1>4 DEF Range
<1>6. IsInjective(q) => IsInjective(r)
  BY <1>1, <1>4 DEF IsInjective
<1> QED
  BY <1>3, <1>4, <1>5, <1>6 DEF r

LEMMA MembersFinite ==
  ASSUME NEW S, NEW q \in Seq(S)
  PROVE  IsFiniteSet(Range(q)) /\ Cardinality(Range(q)) =< Len(q) /\ Cardinality(Range(q)) \in Nat
<1>1. Len(q) \in Nat /\ DOMAIN q = 1 .. Len(q)
  BY LenProperties
<1>2. q \in Surjection(1 .. Len(q), Range(q))
  BY <1>1 DEF Surjection, Range
<1>3. IsFiniteSet(1 .. Len(q)) /\ Cardinality(1 .. Len(q)) = Len(q)
  BY <1>1, FS_Interval
<1>4. IsFiniteSet(Range(q)) /\ Cardinality(Range(q)) =< Len(q)
  BY <1>2, <1>3, FS_Surjection
<1> QED
  BY <1>4, FS_CardinalityType

LEMMA Listing ==
  ASSUME NEW S, NEW A, A \subseteq S, IsFiniteSet(A), NEW r \in SetToSeqs(A)
  PROVE  r \in Seq(S) /\ Len(r) = Cardinality(A) /\ Range(r) = A /\ IsInjective(r)
<1> DEFINE n == Cardinality(A)
<1>1. n \in Nat
  BY FS_CardinalityType
<1>2. r \in [1 .. n -> A] /\ \A i, j \in 1 .. n : i # j => r[i] # r[j]
  BY DEF SetToSeqs
<1>3. r \in Seq(A) /\ r \in Seq(S) /\ Len(r) = n /\ DOMAIN r = 1 .. n
  BY <1>1, <1>2, SeqDef
<1>4. IsInjective(r) /\ r \in Injection(1 .. n, A)
  BY <1>2, <1>3 DEF IsInjective, Injection
<1>5. Cardinality(1 .. n) = n
  BY <1>1, FS_Interval
<1>6. r \in Surjection(1 .. n, A)
  BY <1>4, <1>5, FS_Injection
<1>7. Range(r) = A
  BY <1>2, <1>3, <1>6 DEF Surjection, Range
<1> QED
  BY <1>3, <1>4, <1>7

LEMMA Remaining ==
  ASSUME NEW S, NEW q \in Seq(S), NEW A, NEW r \in Remains(q, A)
  PROVE  r \in Seq(S) /\ Len(r) =< Len(q) /\ Range(r) = Range(q) \cap A /\ IsInjective(r)
<1>1. IsFiniteSet(Range(q)) /\ Cardinality(Range(q)) =< Len(q) /\ Cardinality(Range(q)) \in Nat
      /\ Range(q) \subseteq S /\ Len(q) \in Nat
  BY MembersFinite, Members
<1>2. Range(q) \cap A \in SUBSET Range(q)
  OBVIOUS
<1>3. IsFiniteSet(Range(q) \cap A) /\ Cardinality(Range(q) \cap A) =< Cardinality(Range(q))
  BY <1>1, <1>2, FS_Subset
<1>4. r \in SetToSeqs(Range(q) \cap A) /\ Cardinality(Range(q) \cap A) \in Nat
  BY <1>3, FS_CardinalityType DEF Remains
<1>5. r \in Seq(S) /\ Len(r) = Cardinality(Range(q) \cap A) /\ Range(r) = Range(q) \cap A /\ IsInjective(r)
  BY <1>1, <1>3, <1>4, Listing
<1> QED
  BY <1>1, <1>3, <1>4, <1>5

LEMMA NothingRemains ==
  ASSUME NEW A, NEW r \in Remains(<<>>, A) PROVE r = <<>>
<1> DEFINE e == <<>>
           none == {}
<1>1. e \in Seq(none) /\ Range(e) = {} /\ r \in Remains(e, A)
  BY EmptyQueue
<1> HIDE DEF e, none
<1>2. r \in Seq(none) /\ Range(r) = Range(e) \cap A
  BY <1>1, Remaining
<1>3. Range(r) = {}
  BY <1>1, <1>2
<1> QED
  BY <1>2, <1>3, NonEmpty

LEMMA CountInQueue ==
  ASSUME NEW S, NEW q \in Seq(S), IsInjective(q), NEW p
  PROVE  Count(q, p) = IF p \in Range(q) THEN 1 ELSE 0
<1>1. CASE p \in Range(q)
  <2>1. PICK i \in DOMAIN q : q[i] = p
    BY <1>1 DEF Range
  <2>2. {j \in DOMAIN q : q[j] = p} = {i}
    BY <2>1 DEF IsInjective
  <2> QED
    BY <1>1, <2>2, FS_Singleton DEF Count
<1>2. CASE p \notin Range(q)
  <2>1. {j \in DOMAIN q : q[j] = p} = {}
    BY <1>2 DEF Range
  <2> QED
    BY <1>2, <2>1, FS_EmptySet DEF Count
<1> QED
  BY <1>1, <1>2

LEMMA ChainedIs ==
  ASSUME NEW S, NEW Q, Q \subseteq Seq(S), IsFiniteSet(Q), NEW r \in Chained(Q)
  PROVE  r \in Seq(S) /\ Range(r) = UNION {Range(q) : q \in Q} /\ IsInjective(r)
<1> DEFINE sets == {Range(q) : q \in Q}
           f == [q \in Q |-> Range(q)]
<1>1. f \in Surjection(Q, sets)
  BY DEF Surjection
<1>2. IsFiniteSet(sets)
  <2> HIDE DEF f, sets
  <2> QED
    BY <1>1, FS_Surjection
<1>3. \A A \in sets : IsFiniteSet(A) /\ A \subseteq S
  BY Members, MembersFinite
<1>4. r \in SetToSeqs(UNION sets)
  BY DEF Chained
<1> HIDE DEF sets
<1>5. IsFiniteSet(UNION sets) /\ UNION sets \subseteq S
  BY <1>2, <1>3, FS_UNION
<1>6. r \in Seq(S) /\ Range(r) = UNION sets /\ IsInjective(r)
  BY <1>4, <1>5, Listing
<1> QED
  BY <1>6 DEF sets

-----------------------------------------------------------------------------
(* The natural numbers are well ordered, so Min is a minimum.              *)

Below == {pair \in Nat \X Nat : pair[1] < pair[2]}

LEMMA BelowWellFounded == IsWellFoundedOn(Below, Nat)
BY NatLessThanWellFounded, Zenon DEF OpToRel, Below

LEMMA MinIsLeast ==
  ASSUME NEW T, T \subseteq Nat, T # {}
  PROVE  Min(T) \in T /\ \A y \in T : Min(T) =< y
<1>1. PICK x \in T : \A y \in T : ~ (<<y, x>> \in Below)
  BY WFMin, BelowWellFounded, Zenon
<1>2. ASSUME NEW y \in T PROVE x =< y
  <2>1. x \in Nat /\ y \in Nat
    OBVIOUS
  <2>2. <<y, x>> \in Nat \X Nat
    BY <2>1
  <2>3. <<y, x>>[1] = y /\ <<y, x>>[2] = x
    OBVIOUS
  <2>4. ~ (y < x)
    BY <1>1, <2>2, <2>3, Zenon DEF Below
  <2> QED
    BY <2>1, <2>4
<1> QED
  BY <1>2 DEF Min

=============================================================================
