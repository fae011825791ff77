--------------------------- MODULE RoomPageProofs ---------------------------
(***************************************************************************)
(* RoomPage for any rooms, page size and number of inputs: its types, that *)
(* the list shows each message once, whose detail the page shows, and that *)
(* a page at rest shows the newest messages of its room without a gap.     *)
(***************************************************************************)
EXTENDS RoomPage, FiniteSetTheorems, SequenceTheorems, TLAPS

(* Lists of messages. *)

\* Every member of S has a place of its own in inOrder(S), and every place a member: the
\* numbers of members up to each of them are the numbers up to Cardinality(S).
LEMMA InOrder ==
  ASSUME NEW S \in SUBSET Nat, IsFiniteSet(S)
  PROVE  /\ inOrder(S) \in Seq(S)
         /\ DOMAIN inOrder(S) = 1..Cardinality(S)
         /\ IsInjective(inOrder(S))
         /\ Range(inOrder(S)) = S
         /\ \A i, j \in DOMAIN inOrder(S) : i < j => inOrder(S)[i] < inOrder(S)[j]
<1> DEFINE upTo(m) == {n \in S : n <= m}
           rank == [m \in S |-> Cardinality(upTo(m))]
           size == Cardinality(S)
<1>1. size \in Nat /\ IsFiniteSet(1..size) /\ Cardinality(1..size) = size
  <2>1. size \in Nat
    BY FS_CardinalityType
  <2>. HIDE DEF size
  <2>. QED
    BY <2>1, FS_Interval
<1>2. ASSUME NEW m \in S
      PROVE  IsFiniteSet(upTo(m)) /\ Cardinality(upTo(m)) \in 1..size
  <2>1. upTo(m) \in SUBSET S /\ m \in upTo(m)
    OBVIOUS
  <2>. HIDE DEF upTo
  <2>2. IsFiniteSet(upTo(m)) /\ Cardinality(upTo(m)) <= size
    BY <2>1, FS_Subset
  <2>3. Cardinality(upTo(m)) \in Nat /\ Cardinality(upTo(m)) # 0
    BY <2>1, <2>2, FS_CardinalityType, FS_EmptySet
  <2>. HIDE DEF size
  <2>. QED
    BY <1>1, <2>2, <2>3
<1>3. ASSUME NEW m \in S, NEW n \in S, m < n
      PROVE  Cardinality(upTo(m)) # Cardinality(upTo(n))
  <2>0. m \in Nat /\ n \in Nat /\ \A o \in S : o \in Nat
    OBVIOUS
  <2>1. upTo(m) \in SUBSET upTo(n) /\ n \in upTo(n) /\ n \notin upTo(m)
    <3>1. \A o \in S : o <= m => o <= n
      BY <1>3, <2>0
    <3>2. n <= n /\ ~(n <= m)
      BY <1>3, <2>0
    <3>. QED
      BY <3>1, <3>2
  <2>. HIDE DEF upTo
  <2>. QED
    BY <1>2, <2>1, FS_Subset
<1>4. rank \in Injection(S, 1..size)
  <2>1. rank \in [S -> 1..size]
    BY <1>2
  <2>2. ASSUME NEW m \in S, NEW n \in S, rank[m] = rank[n]
        PROVE  m = n
    <3>1. ~(m < n) /\ ~(n < m)
      BY <1>3, <2>2
    <3>. QED
      BY <3>1
  <2>. HIDE DEF rank
  <2>. QED
    BY <2>1, <2>2 DEF Injection, IsInjective
<1>5. \A k \in 1..size : \E m \in S : rank[m] = k
  <2>. HIDE DEF rank, size
  <2>1. rank \in Surjection(S, 1..size)
    BY <1>1, <1>4, FS_Injection DEF size
  <2>. QED
    BY <2>1 DEF Surjection
<1>6. ASSUME NEW k \in 1..size
      PROVE  inOrder(S)[k] \in S /\ Cardinality(upTo(inOrder(S)[k])) = k
  <2>1. \E m \in S : Cardinality(upTo(m)) = k
    BY <1>5
  <2>. QED
    BY <2>1 DEF inOrder
<1>7. DOMAIN inOrder(S) = 1..size
  BY DEF inOrder
<1>8. inOrder(S) \in [1..size -> S]
  BY <1>6, <1>7 DEF inOrder
<1>9. IsInjective(inOrder(S))
  <2>. HIDE DEF upTo, size
  <2>. QED
    BY <1>6, <1>7 DEF IsInjective
<1>10. inOrder(S) \in Seq(S)
  BY <1>1, <1>8
<1>11. ASSUME NEW m \in S
       PROVE  \E k \in DOMAIN inOrder(S) : inOrder(S)[k] = m
  <2> DEFINE k == Cardinality(upTo(m))
  <2>1. k \in 1..size
    BY <1>2
  <2>2. inOrder(S)[k] \in S /\ Cardinality(upTo(inOrder(S)[k])) = k
    BY <1>6, <2>1
  <2>3. ~(m < inOrder(S)[k]) /\ ~(inOrder(S)[k] < m)
    <3>. HIDE DEF upTo
    <3>. QED
      BY <1>3, <2>2
  <2>4. m \in Nat /\ inOrder(S)[k] \in Nat
    BY <2>2
  <2>. HIDE DEF k
  <2>5. inOrder(S)[k] = m
    BY <2>3, <2>4
  <2>. QED
    BY <1>7, <2>1, <2>5
<1>12. Range(inOrder(S)) = S
  BY <1>6, <1>7, <1>11 DEF Range
<1>13. ASSUME NEW i \in 1..size, NEW j \in 1..size, i < j
       PROVE  inOrder(S)[i] < inOrder(S)[j]
  <2> DEFINE a == inOrder(S)[i]
             b == inOrder(S)[j]
  <2>1. a \in S /\ b \in S /\ Cardinality(upTo(a)) = i /\ Cardinality(upTo(b)) = j
    BY <1>6
  <2>. HIDE DEF a, b
  <2>2. a \in Nat /\ b \in Nat /\ \A o \in S : o \in Nat
    BY <2>1
  <2>3. ASSUME b <= a
        PROVE  FALSE
    <3>0. \A o \in S : o <= b => o <= a
      BY <2>2, <2>3
    <3>1. upTo(b) \in SUBSET upTo(a)
      BY <3>0
    <3>. HIDE DEF upTo
    <3>2. j <= i
      BY <1>2, <2>1, <3>1, FS_Subset
    <3>. HIDE DEF size
    <3>. QED
      BY <1>1, <1>13, <3>2
  <2>4. a < b
    BY <2>2, <2>3
  <2>. QED
    BY <2>4 DEF a, b
<1>. QED
  BY <1>7, <1>9, <1>10, <1>12, <1>13

\* Numbers up to a bound.
LEMMA InOrderUpTo ==
  ASSUME NEW n \in Nat, NEW S \in SUBSET (1..n)
  PROVE  /\ inOrder(S) \in Seq(S)
         /\ IsInjective(inOrder(S))
         /\ Range(inOrder(S)) = S
         /\ \A i, j \in DOMAIN inOrder(S) : i < j => inOrder(S)[i] < inOrder(S)[j]
<1>1. S \in SUBSET Nat
  OBVIOUS
<1>2. IsFiniteSet(1..n)
  BY FS_Interval
<1>3. IsFiniteSet(S)
  BY <1>2, FS_Subset
<1>. QED
  BY <1>1, <1>3, InOrder

\* What a sequence has, it has somewhere first.
LEMMA FirstOf ==
  ASSUME NEW S, NEW seq \in Seq(S), NEW i \in DOMAIN seq
  PROVE  \E j \in firsts(seq) : j <= i /\ seq[j] = seq[i]
<1> DEFINE same == {j \in 1..Len(seq) : seq[j] = seq[i]}
           first == inOrder(same)[1]
<1>1. Len(seq) \in Nat /\ DOMAIN seq = 1..Len(seq) /\ i \in same /\ same \in SUBSET (1..Len(seq))
  OBVIOUS
<1>2. /\ inOrder(same) \in Seq(same) /\ Range(inOrder(same)) = same
      /\ \A k, l \in DOMAIN inOrder(same) : k < l => inOrder(same)[k] < inOrder(same)[l]
  <2>. HIDE DEF same
  <2>. QED
    BY <1>1, InOrderUpTo
<1>. HIDE DEF same
<1>3. 1 \in DOMAIN inOrder(same) /\ \A k \in DOMAIN inOrder(same) : k = 1 \/ 1 < k
  BY <1>1, <1>2 DEF Range
<1>4. first \in same /\ \A j \in same : j = first \/ first < j
  BY <1>2, <1>3 DEF Range
<1>. HIDE DEF first
<1>5. first \in 1..Len(seq) /\ seq[first] = seq[i] /\ i \in 1..Len(seq)
  BY <1>1, <1>4 DEF same
<1>6. \A j \in 1..(first - 1) : seq[j] # seq[first]
  BY <1>1, <1>4, <1>5 DEF same
<1>. QED
  BY <1>1, <1>4, <1>5, <1>6 DEF firsts

\* uniqBy keeps the elements of the sequence, each once and where it is first.
LEMMA UniqBy ==
  ASSUME NEW S, NEW seq \in Seq(S)
  PROVE  /\ uniqBy(seq) \in Seq(S)
         /\ IsInjective(uniqBy(seq))
         /\ \A k \in DOMAIN uniqBy(seq) : \E i \in DOMAIN seq : uniqBy(seq)[k] = seq[i]
         /\ Range(uniqBy(seq)) = Range(seq)
         /\ \A k, l \in DOMAIN uniqBy(seq) : k < l =>
              \E i, j \in firsts(seq) : i < j /\ uniqBy(seq)[k] = seq[i] /\ uniqBy(seq)[l] = seq[j]
<1> DEFINE kept == inOrder(firsts(seq))
<1>1. Len(seq) \in Nat /\ DOMAIN seq = 1..Len(seq) /\ firsts(seq) \in SUBSET (1..Len(seq))
  BY DEF firsts
<1>2. /\ kept \in Seq(firsts(seq)) /\ IsInjective(kept) /\ Range(kept) = firsts(seq)
      /\ \A k, l \in DOMAIN kept : k < l => kept[k] < kept[l]
  BY <1>1, InOrderUpTo
<1>3. uniqBy(seq) = [k \in DOMAIN kept |-> seq[kept[k]]]
  BY DEF uniqBy
<1>. HIDE DEF kept
<1>4. Len(kept) \in Nat /\ DOMAIN kept = 1..Len(kept) /\ \A k \in DOMAIN kept : kept[k] \in firsts(seq)
  BY <1>2
<1>5. uniqBy(seq) \in Seq(S)
  BY <1>1, <1>3, <1>4
<1>6. \A k \in DOMAIN uniqBy(seq) : kept[k] \in DOMAIN seq /\ uniqBy(seq)[k] = seq[kept[k]]
  BY <1>1, <1>3, <1>4
<1>7. ASSUME NEW i \in firsts(seq), NEW j \in firsts(seq), seq[i] = seq[j]
      PROVE  i = j
  <2>1. i \in Nat /\ j \in Nat /\ i >= 1 /\ j >= 1
    BY <1>1
  <2>2. ~(i < j)
    <3>1. i < j => i \in 1..(j - 1)
      BY <2>1
    <3>. QED
      BY <1>7, <3>1 DEF firsts
  <2>3. ~(j < i)
    <3>1. j < i => j \in 1..(i - 1)
      BY <2>1
    <3>. QED
      BY <1>7, <3>1 DEF firsts
  <2>. QED
    BY <2>1, <2>2, <2>3
<1>8. IsInjective(uniqBy(seq))
  BY <1>2, <1>3, <1>4, <1>7 DEF IsInjective
<1>9. ASSUME NEW i \in DOMAIN seq
      PROVE  \E k \in DOMAIN uniqBy(seq) : uniqBy(seq)[k] = seq[i]
  <2>1. PICK j \in firsts(seq) : seq[j] = seq[i]
    BY FirstOf
  <2>2. PICK k \in DOMAIN kept : kept[k] = j
    BY <1>2, <2>1 DEF Range
  <2>. QED
    BY <1>3, <2>1, <2>2
<1>10. Range(uniqBy(seq)) = Range(seq)
  BY <1>6, <1>9 DEF Range
<1>11. ASSUME NEW k \in DOMAIN uniqBy(seq), NEW l \in DOMAIN uniqBy(seq), k < l
       PROVE  \E i, j \in firsts(seq) :
                i < j /\ uniqBy(seq)[k] = seq[i] /\ uniqBy(seq)[l] = seq[j]
  BY <1>2, <1>3, <1>4, <1>11
<1>. QED
  BY <1>5, <1>6, <1>8, <1>10, <1>11

\* u is t put behind s: elements of s come in their order, then those of t that s has not,
\* in theirs.
putBehind(s, t, u) ==
  /\ Range(u) = Range(s) \cup Range(t)
  /\ \A k, l \in DOMAIN u : k < l =>
       \/ \E i, j \in DOMAIN s : i < j /\ u[k] = s[i] /\ u[l] = s[j]
       \/ /\ u[l] \in Range(t) \ Range(s)
          /\ \/ u[k] \in Range(s)
             \/ \E i, j \in DOMAIN t : i < j /\ u[k] = t[i] /\ u[l] = t[j]

LEMMA Behind ==
  ASSUME NEW S, NEW s \in Seq(S), NEW t \in Seq(S)
  PROVE  uniqBy(s \o t) \in Seq(S) /\ putBehind(s, t, uniqBy(s \o t))
<1> DEFINE both == s \o t
           u == uniqBy(both)
<1>1. /\ both \in Seq(S) /\ Len(both) = Len(s) + Len(t)
      /\ \A i \in 1..(Len(s) + Len(t)) : both[i] = IF i <= Len(s) THEN s[i] ELSE t[i - Len(s)]
  BY ConcatProperties
<1>2. /\ Len(s) \in Nat /\ DOMAIN s = 1..Len(s) /\ Len(t) \in Nat /\ DOMAIN t = 1..Len(t)
      /\ DOMAIN both = 1..(Len(s) + Len(t))
  BY <1>1
<1>. HIDE DEF both
<1>3. ASSUME NEW i \in DOMAIN both
      PROVE  \/ i \in DOMAIN s /\ both[i] = s[i]
             \/ i > Len(s) /\ i - Len(s) \in DOMAIN t /\ both[i] = t[i - Len(s)]
  BY <1>1, <1>2
<1>4. /\ \A i \in DOMAIN s : i \in DOMAIN both /\ both[i] = s[i]
      /\ \A i \in DOMAIN t : i + Len(s) \in DOMAIN both /\ both[i + Len(s)] = t[i]
  <2>1. ASSUME NEW i \in DOMAIN s
        PROVE  i \in DOMAIN both /\ both[i] = s[i]
    BY <1>1, <1>2
  <2>2. ASSUME NEW i \in DOMAIN t
        PROVE  i + Len(s) \in DOMAIN both /\ both[i + Len(s)] = t[i]
    <3>1. i \in Nat /\ i >= 1 /\ i <= Len(t)
      BY <1>2
    <3>2. i + Len(s) \in 1..(Len(s) + Len(t)) /\ ~(i + Len(s) <= Len(s))
          /\ (i + Len(s)) - Len(s) = i
      BY <1>2, <3>1
    <3>. QED
      BY <1>1, <1>2, <3>2
  <2>. QED
    BY <2>1, <2>2
<1>5. Range(both) = Range(s) \cup Range(t)
  BY <1>3, <1>4 DEF Range
<1>6. /\ u \in Seq(S) /\ Range(u) = Range(both)
      /\ \A k, l \in DOMAIN u : k < l =>
           \E i, j \in firsts(both) : i < j /\ u[k] = both[i] /\ u[l] = both[j]
  <2>1. both \in Seq(S)
    BY <1>1
  <2>2. uniqBy(both) \in Seq(S) /\ Range(uniqBy(both)) = Range(both)
    BY <2>1, UniqBy
  <2>3. \A k, l \in DOMAIN uniqBy(both) : k < l =>
          \E i, j \in firsts(both) : i < j /\ uniqBy(both)[k] = both[i] /\ uniqBy(both)[l] = both[j]
    BY <2>1, UniqBy
  <2>. QED
    BY <2>2, <2>3
<1>7. \A j \in firsts(both) : j \in DOMAIN both /\ \A i \in 1..(j - 1) : both[i] # both[j]
  BY DEF firsts
<1>. HIDE DEF u
<1>8. ASSUME NEW k \in DOMAIN u, NEW l \in DOMAIN u, k < l
      PROVE  \/ \E i, j \in DOMAIN s : i < j /\ u[k] = s[i] /\ u[l] = s[j]
             \/ /\ u[l] \in Range(t) \ Range(s)
                /\ \/ u[k] \in Range(s)
                   \/ \E i, j \in DOMAIN t : i < j /\ u[k] = t[i] /\ u[l] = t[j]
  <2>1. PICK i, j \in firsts(both) : i < j /\ u[k] = both[i] /\ u[l] = both[j]
    BY <1>6, <1>8
  <2>2. i \in DOMAIN both /\ j \in DOMAIN both /\ i \in Nat /\ j \in Nat
    BY <1>2, <1>7
  <2>3. CASE j \in DOMAIN s /\ both[j] = s[j]
    <3>1. i \in DOMAIN s
      BY <1>2, <2>1, <2>2, <2>3
    <3>. QED
      BY <1>4, <2>1, <2>3, <3>1
  <2>4. CASE j > Len(s) /\ j - Len(s) \in DOMAIN t /\ both[j] = t[j - Len(s)]
    <3>1. u[l] \in Range(t)
      BY <2>1, <2>4 DEF Range
    <3>2. u[l] \notin Range(s)
      <4> SUFFICES ASSUME NEW h \in DOMAIN s, s[h] = both[j] PROVE FALSE
        BY <2>1 DEF Range
      <4>1. h \in 1..(j - 1) /\ both[h] = both[j]
        BY <1>2, <1>4, <2>2, <2>4
      <4>. QED
        BY <1>7, <4>1
    <3>3. CASE i \in DOMAIN s /\ both[i] = s[i]
      BY <2>1, <3>1, <3>2, <3>3 DEF Range
    <3>4. CASE i > Len(s) /\ i - Len(s) \in DOMAIN t /\ both[i] = t[i - Len(s)]
      <4>1. i - Len(s) < j - Len(s)
        BY <1>2, <2>1, <2>2
      <4>. QED
        BY <2>1, <2>4, <3>1, <3>2, <3>4, <4>1
    <3>. QED
      BY <1>3, <2>2, <3>3, <3>4
  <2>. QED
    BY <1>3, <2>2, <2>3, <2>4
<1>9. u \in Seq(S) /\ putBehind(s, t, u)
  BY <1>5, <1>6, <1>8 DEF putBehind
<1>. QED
  BY <1>9 DEF u, both

-----------------------------------------------------------------------------
(* Lists that have the newest of some messages. *)

LEMMA NewestOfFewer ==
  ASSUME NEW S, NEW T \in SUBSET S, NEW seq, newestOf(seq, S)
  PROVE  newestOf(seq, T)
BY DEF newestOf

\* An event puts the first message that is not told in front.
LEMMA NewestInFront ==
  ASSUME NEW T \in SUBSET Nat, NEW seq \in Seq(Nat), newestOf(seq, T),
         NEW m \in Nat, m \notin T, \A n \in T : m > n
  PROVE  /\ newestOf(uniqBy(<<m>> \o seq), T \cup {m})
         /\ Range(uniqBy(<<m>> \o seq)) = Range(seq) \cup {m}
<1> DEFINE u == uniqBy(<<m>> \o seq)
           one == <<m>>
<1>1. one \in Seq(Nat) /\ DOMAIN one = {1} /\ one[1] = m /\ Range(one) = {m}
  BY DEF Range
<1>2. /\ u \in Seq(Nat) /\ Range(u) = {m} \cup Range(seq)
      /\ \A k, l \in DOMAIN u : k < l =>
           \/ \E i, j \in DOMAIN one : i < j /\ u[k] = one[i] /\ u[l] = one[j]
           \/ /\ u[l] \in Range(seq) \ {m}
              /\ \/ u[k] \in {m}
                 \/ \E i, j \in DOMAIN seq : i < j /\ u[k] = seq[i] /\ u[l] = seq[j]
  <2>. HIDE DEF one
  <2>1. uniqBy(one \o seq) \in Seq(Nat) /\ putBehind(one, seq, uniqBy(one \o seq))
    BY <1>1, Behind
  <2>2. u = uniqBy(one \o seq)
    BY DEF one
  <2>. HIDE DEF u
  <2>3. u \in Seq(Nat) /\ putBehind(one, seq, u)
    BY <2>1, <2>2
  <2>. QED
    BY <1>1, <2>3 DEF putBehind
<1>3. ~(1 < 1)
  OBVIOUS
<1>. HIDE DEF u, one
<1>4. ASSUME NEW k \in DOMAIN u, u[k] \in T \cup {m},
             NEW l \in DOMAIN u, k < l, u[l] \in T \cup {m}
      PROVE  u[k] > u[l]
  <2>1. u[l] \in Range(seq) /\ u[l] # m /\ u[l] \in T
        /\ (u[k] = m \/ \E i, j \in DOMAIN seq : i < j /\ u[k] = seq[i] /\ u[l] = seq[j])
    BY <1>1, <1>2, <1>3, <1>4
  <2>2. CASE u[k] = m
    BY <2>1, <2>2
  <2>3. ASSUME NEW i \in DOMAIN seq, NEW j \in DOMAIN seq, i < j, u[k] = seq[i], u[l] = seq[j],
               u[k] # m
        PROVE  u[k] > u[l]
    BY <1>4, <2>1, <2>3 DEF newestOf
  <2>. QED
    BY <2>1, <2>2, <2>3
<1>5. ASSUME NEW k \in DOMAIN u, u[k] \in T \cup {m}, NEW n \in T \cup {m}, n > u[k]
      PROVE  n \in Range(u)
  <2>1. CASE n = m
    BY <1>2, <2>1
  <2>2. CASE n \in T /\ u[k] = m
    <3>1. m > n /\ n > m /\ n \in Nat
      BY <1>5, <2>2
    <3>. QED
      BY <3>1
  <2>3. CASE n \in T /\ u[k] # m
    <3>1. u[k] \in Range(seq) /\ u[k] \in T
      BY <1>2, <1>5, <2>3 DEF Range
    <3>2. n \in Range(seq)
      BY <1>5, <2>3, <3>1 DEF newestOf, Range
    <3>. QED
      BY <1>2, <3>2
  <2>. QED
    BY <1>5, <2>1, <2>2, <2>3
<1>6. newestOf(u, T \cup {m})
  BY <1>4, <1>5 DEF newestOf
<1>. QED
  BY <1>2, <1>6 DEF u

\* An answer that has the newest up to k joins on to a list with all of T after k.
LEMMA NewestBehind ==
  ASSUME NEW S \in SUBSET Nat, NEW T \in SUBSET S, NEW k \in Nat,
         NEW seq \in Seq(Nat), newestOf(seq, T),
         NEW data \in Seq(Nat), newestOf(data, S \cap 1..k), Range(data) \subseteq S \cap 1..k,
         \A m \in T : m > k => m \in Range(seq)
  PROVE  /\ newestOf(uniqBy(seq \o data), T)
         /\ Range(uniqBy(seq \o data)) = Range(seq) \cup Range(data)
<1> DEFINE u == uniqBy(seq \o data)
<1>1. /\ u \in Seq(Nat) /\ Range(u) = Range(seq) \cup Range(data)
      /\ \A i, j \in DOMAIN u : i < j =>
           \/ \E p, q \in DOMAIN seq : p < q /\ u[i] = seq[p] /\ u[j] = seq[q]
           \/ /\ u[j] \in Range(data) \ Range(seq)
              /\ \/ u[i] \in Range(seq)
                 \/ \E p, q \in DOMAIN data : p < q /\ u[i] = data[p] /\ u[j] = data[q]
  <2>1. u \in Seq(Nat) /\ putBehind(seq, data, u)
    BY Behind
  <2>. HIDE DEF u
  <2>. QED
    BY <2>1 DEF putBehind
<1>. HIDE DEF u
<1>2. ASSUME NEW i \in DOMAIN u, NEW j \in DOMAIN u, i < j, u[i] \in T, u[j] \in T
      PROVE  u[i] > u[j]
  <2>1. ASSUME NEW p \in DOMAIN seq, NEW q \in DOMAIN seq, p < q, u[i] = seq[p], u[j] = seq[q]
        PROVE  u[i] > u[j]
    BY <1>2, <2>1 DEF newestOf
  <2>2. ASSUME NEW p \in DOMAIN data, NEW q \in DOMAIN data,
               p < q, u[i] = data[p], u[j] = data[q]
        PROVE  u[i] > u[j]
    BY <2>2 DEF newestOf, Range
  <2>3. ASSUME u[j] \notin Range(seq), NEW p \in DOMAIN seq, u[i] = seq[p]
        PROVE  u[i] > u[j]
    <3>1. ~(u[j] > seq[p])
      BY <1>2, <2>3 DEF newestOf
    <3>2. u[j] # seq[p]
      BY <2>3 DEF Range
    <3>3. u[i] \in Nat /\ u[j] \in Nat
      BY <1>2
    <3>. QED
      BY <2>3, <3>1, <3>2, <3>3
  <2>. QED
    BY <1>1, <1>2, <2>1, <2>2, <2>3 DEF Range
<1>3. ASSUME NEW i \in DOMAIN u, u[i] \in T, NEW m \in T, m > u[i]
      PROVE  m \in Range(u)
  <2>1. CASE u[i] \in Range(seq)
    BY <1>1, <1>3, <2>1 DEF newestOf, Range
  <2>2. CASE u[i] \in Range(data)
    <3>1. CASE m > k
      BY <1>1, <3>1
    <3>2. CASE ~(m > k)
      <4>1. u[i] \in 1..k /\ m \in Nat
        BY <2>2
      <4>2. m \in S \cap 1..k
        BY <1>3, <3>2, <4>1
      <4>3. m \in Range(data)
        BY <1>3, <2>2, <4>2 DEF newestOf, Range
      <4>. QED
        BY <1>1, <4>3
    <3>. QED
      BY <3>1, <3>2
  <2>. QED
    BY <1>1, <2>1, <2>2 DEF Range
<1>4. newestOf(u, T)
  BY <1>2, <1>3 DEF newestOf
<1>. QED
  BY <1>1, <1>4 DEF u

\* Two lists of the newest agree as far as both go.
LEMMA Agree ==
  ASSUME NEW S \in SUBSET Nat, NEW s \in Seq(S), NEW t \in Seq(S), newestOf(s, S), newestOf(t, S)
  PROVE  \A k \in DOMAIN s \cap DOMAIN t : s[k] = t[k]
<1> DEFINE apart == {k \in DOMAIN s \cap DOMAIN t : s[k] # t[k]}
           least == inOrder(apart)[1]
<1> SUFFICES ASSUME apart # {} PROVE FALSE
  OBVIOUS
<1>1. /\ Len(s) \in Nat /\ DOMAIN s = 1..Len(s) /\ Len(t) \in Nat /\ DOMAIN t = 1..Len(t)
      /\ apart \in SUBSET (1..Len(s))
  OBVIOUS
<1>2. /\ inOrder(apart) \in Seq(apart) /\ Range(inOrder(apart)) = apart
      /\ \A k, l \in DOMAIN inOrder(apart) : k < l => inOrder(apart)[k] < inOrder(apart)[l]
  <2>. HIDE DEF apart
  <2>. QED
    BY <1>1, InOrderUpTo
<1>3. least \in apart /\ \A k \in apart : k = least \/ least < k
  <2>. HIDE DEF apart
  <2>1. 1 \in DOMAIN inOrder(apart) /\ \A k \in DOMAIN inOrder(apart) : k = 1 \/ 1 < k
    BY <1>1, <1>2 DEF Range
  <2>. QED
    BY <1>2, <2>1 DEF Range
<1>. HIDE DEF least
<1>4. /\ least \in DOMAIN s /\ least \in DOMAIN t /\ s[least] # t[least]
      /\ s[least] \in S /\ t[least] \in S /\ least \in Nat
  BY <1>1, <1>3
<1>5. \A k \in DOMAIN s \cap DOMAIN t : k < least => s[k] = t[k]
  BY <1>1, <1>3
<1>. HIDE DEF apart
<1>6. ASSUME s[least] > t[least]
      PROVE  FALSE
  <2>1. PICK j \in DOMAIN t : t[j] = s[least]
    BY <1>4, <1>6 DEF newestOf, Range
  <2>2. ~(least < j)
    <3>1. t[j] \in Nat /\ t[least] \in Nat
      BY <1>4, <2>1
    <3>. QED
      BY <1>4, <1>6, <2>1, <3>1 DEF newestOf
  <2>3. j < least
    BY <1>1, <1>4, <2>1, <2>2
  <2>4. j \in DOMAIN s /\ s[j] = t[j]
    BY <1>1, <1>4, <1>5, <2>3
  <2>5. s[j] > s[least] /\ s[least] \in Nat
    BY <1>4, <2>1, <2>3, <2>4 DEF newestOf
  <2>. QED
    BY <2>1, <2>4, <2>5
<1>7. ASSUME t[least] > s[least]
      PROVE  FALSE
  <2>1. PICK j \in DOMAIN s : s[j] = t[least]
    BY <1>4, <1>7 DEF newestOf, Range
  <2>2. ~(least < j)
    <3>1. s[j] \in Nat /\ s[least] \in Nat
      BY <1>4, <2>1
    <3>. QED
      BY <1>4, <1>7, <2>1, <3>1 DEF newestOf
  <2>3. j < least
    BY <1>1, <1>4, <2>1, <2>2
  <2>4. j \in DOMAIN t /\ t[j] = s[j]
    BY <1>1, <1>4, <1>5, <2>3
  <2>5. t[j] > t[least] /\ t[least] \in Nat
    BY <1>4, <2>1, <2>3, <2>4 DEF newestOf
  <2>. QED
    BY <2>1, <2>4, <2>5
<1>8. s[least] \in Nat /\ t[least] \in Nat
  BY <1>4
<1>. QED
  BY <1>4, <1>6, <1>7, <1>8

\* The shorter of them is the start of the other, and the one that is complete is not shorter.
LEMMA NewestIsPrefix ==
  ASSUME NEW S \in SUBSET Nat, NEW s \in Seq(S), NEW t \in Seq(S), newestOf(s, S), newestOf(t, S),
         Len(s) <= Len(t) \/ S \subseteq Range(t)
  PROVE  IsPrefix(s, t)
<1>1. /\ Len(s) \in Nat /\ DOMAIN s = 1..Len(s) /\ Len(t) \in Nat /\ DOMAIN t = 1..Len(t)
      /\ \A k \in DOMAIN s : s[k] \in S
  OBVIOUS
<1>2. \A k \in DOMAIN s \cap DOMAIN t : s[k] = t[k]
  BY Agree
<1>3. Len(s) <= Len(t)
  <2> SUFFICES ASSUME S \subseteq Range(t), Len(t) < Len(s) PROVE FALSE
    BY <1>1
  <2> DEFINE k == Len(t) + 1
  <2>1. k \in DOMAIN s /\ \A j \in DOMAIN t : j < k /\ j \in DOMAIN s
    BY <1>1
  <2>. HIDE DEF k
  <2>2. s[k] \in S /\ s[k] \in Nat
    BY <1>1, <2>1
  <2>3. PICK j \in DOMAIN t : t[j] = s[k]
    BY <2>2 DEF Range
  <2>4. j < k /\ j \in DOMAIN s /\ s[j] = s[k]
    BY <1>2, <2>1, <2>3
  <2>5. s[j] > s[k]
    BY <2>1, <2>2, <2>4 DEF newestOf
  <2>. QED
    BY <2>2, <2>4, <2>5
<1>4. /\ SubSeq(s, 1, Len(s)) = s
      /\ SubSeq(t, 1, Len(s)) = s
  <2>1. ASSUME NEW u \in Seq(S), Len(s) <= Len(u), \A k \in 1..Len(s) : u[k] = s[k]
        PROVE  SubSeq(u, 1, Len(s)) = s
    <3>1. Len(u) \in Nat /\ \A k \in 1..Len(s) : k \in 1..Len(u)
      BY <1>1, <2>1
    <3>2. /\ SubSeq(u, 1, Len(s)) \in Seq(S)
          /\ Len(SubSeq(u, 1, Len(s))) = (IF 1 <= Len(s) THEN Len(s) - 1 + 1 ELSE 0)
          /\ \A k \in 1..(Len(s) - 1 + 1) : SubSeq(u, 1, Len(s))[k] = u[1 + k - 1]
      BY <1>1, <3>1, SubSeqProperties
    <3> DEFINE v == SubSeq(u, 1, Len(s))
    <3>3. v \in Seq(S) /\ Len(v) = Len(s) /\ \A k \in 1..Len(s) : v[k] = s[k]
      BY <1>1, <2>1, <3>2
    <3>. HIDE DEF v
    <3>4. v = s
      BY <1>1, <3>3, SeqEqual
    <3>. QED
      BY <3>4 DEF v
  <2>2. \A k \in 1..Len(s) : t[k] = s[k]
    BY <1>1, <1>2, <1>3
  <2>3. Len(s) <= Len(s)
    BY <1>1
  <2>. QED
    BY <1>3, <2>1, <2>2, <2>3
<1>. QED
  BY <1>3, <1>4 DEF IsPrefix

\* The messages of a room, newest first.
LEMMA NewestFirst ==
  ASSUME stored \in Seq(Rooms), NEW r
  PROVE  /\ messagesOf(r) \in SUBSET (1..Len(stored)) /\ messagesOf(r) \in SUBSET Nat
         /\ newestFirst(r) \in Seq(messagesOf(r)) /\ IsInjective(newestFirst(r))
         /\ Range(newestFirst(r)) = messagesOf(r)
         /\ newestOf(newestFirst(r), messagesOf(r))
<1> DEFINE found == messagesOf(r)
           oldest == inOrder(found)
           all == newestFirst(r)
<1>1. Len(stored) \in Nat /\ found \in SUBSET (1..Len(stored)) /\ found \in SUBSET Nat
  BY DEF messagesOf
<1>2. /\ oldest \in Seq(found) /\ IsInjective(oldest) /\ Range(oldest) = found
      /\ \A i, j \in DOMAIN oldest : i < j => oldest[i] < oldest[j]
  <2>. HIDE DEF found
  <2>. QED
    BY <1>1, InOrderUpTo
<1>3. all = [k \in 1..Len(oldest) |-> oldest[Len(oldest) - k + 1]]
  BY DEF newestFirst, Reverse
<1>. HIDE DEF oldest, all, found
<1>4. Len(oldest) \in Nat /\ DOMAIN oldest = 1..Len(oldest)
      /\ \A k \in 1..Len(oldest) : oldest[k] \in found /\ oldest[k] \in Nat
  <2>1. Len(oldest) \in Nat /\ DOMAIN oldest = 1..Len(oldest)
    BY <1>2
  <2>2. ASSUME NEW k \in 1..Len(oldest)
        PROVE  oldest[k] \in found /\ oldest[k] \in Nat
    <3>1. oldest[k] \in found
      BY <1>2, <2>1, ElementOfSeq
    <3>. QED
      BY <1>1, <3>1
  <2>. QED
    BY <2>1, <2>2
<1>5. \A k \in 1..Len(oldest) : Len(oldest) - k + 1 \in 1..Len(oldest)
  BY <1>4
<1>6. all \in Seq(found) /\ Len(all) = Len(oldest) /\ DOMAIN all = 1..Len(oldest)
  BY <1>3, <1>4, <1>5
<1>7. IsInjective(all)
  <2> SUFFICES ASSUME NEW k \in 1..Len(oldest), NEW l \in 1..Len(oldest), all[k] = all[l]
               PROVE  k = l
    BY <1>6 DEF IsInjective
  <2>1. Len(oldest) - k + 1 = Len(oldest) - l + 1
    BY <1>2, <1>3, <1>4, <1>5 DEF IsInjective
  <2>. QED
    BY <1>4, <2>1
<1>8. ASSUME NEW m \in found
      PROVE  m \in Range(all)
  <2>1. PICK k \in 1..Len(oldest) : oldest[k] = m
    BY <1>2, <1>4 DEF Range
  <2>2. Len(oldest) - k + 1 \in 1..Len(oldest) /\ Len(oldest) - (Len(oldest) - k + 1) + 1 = k
    BY <1>4
  <2>3. all[Len(oldest) - k + 1] = m
    BY <1>3, <2>1, <2>2
  <2>. QED
    BY <1>6, <2>2, <2>3 DEF Range
<1>9. Range(all) = found
  BY <1>6, <1>8 DEF Range
<1>10. ASSUME NEW i \in DOMAIN all, NEW j \in DOMAIN all, i < j
       PROVE  all[i] > all[j]
  <2>1. Len(oldest) - j + 1 < Len(oldest) - i + 1
    BY <1>4, <1>6, <1>10
  <2>2. oldest[Len(oldest) - j + 1] < oldest[Len(oldest) - i + 1]
    BY <1>2, <1>4, <1>5, <1>6, <2>1
  <2>. QED
    BY <1>3, <1>4, <1>5, <1>6, <2>2
<1>11. newestOf(all, found)
  BY <1>9, <1>10 DEF newestOf
<1>. QED
  BY <1>1, <1>6, <1>7, <1>9, <1>11 DEF all, found

\* The server's answer has the newest of them, each once, and all if they fit in a page.
LEMMA FindAll ==
  ASSUME stored \in Seq(Rooms), NEW r
  PROVE  /\ findAll(r) \in Seq(messagesOf(r)) /\ findAll(r) \in Seq(1..Len(stored))
         /\ onlyOnce(findAll(r), r)
         /\ newestOf(findAll(r), messagesOf(r))
         /\ Len(findAll(r)) <= Limit
         /\ Len(findAll(r)) = Limit \/ messagesOf(r) \subseteq Range(findAll(r))
<1> DEFINE found == messagesOf(r)
           all == newestFirst(r)
           n == IF Len(all) < Limit THEN Len(all) ELSE Limit
<1>1. /\ Len(stored) \in Nat /\ found \in SUBSET (1..Len(stored)) /\ found \in SUBSET Nat
      /\ all \in Seq(found) /\ IsInjective(all) /\ Range(all) = found /\ newestOf(all, found)
  BY NewestFirst
<1>2. findAll(r) = SubSeq(all, 1, n)
  BY DEF findAll, all
<1>3. \A m \in found : m \in 1..Len(stored) /\ stored[m] = r
  BY DEF messagesOf
<1>. HIDE DEF all, found
<1>4. n \in Nat /\ n <= Len(all) /\ Len(all) \in Nat /\ DOMAIN all = 1..Len(all)
  BY <1>1, BoundsAssumption
<1>5. n <= Limit /\ (n = Limit \/ n = Len(all))
  BY <1>1, BoundsAssumption
<1>. HIDE DEF n
<1>6. \A k \in 1..n : k \in DOMAIN all /\ all[k] \in found
  BY <1>1, <1>4
<1>7. /\ findAll(r) \in Seq(found) /\ DOMAIN findAll(r) = 1..n /\ Len(findAll(r)) = n
      /\ \A k \in 1..n : findAll(r)[k] = all[k]
  <2>1. /\ SubSeq(all, 1, n) \in Seq(found)
        /\ Len(SubSeq(all, 1, n)) = (IF 1 <= n THEN n - 1 + 1 ELSE 0)
        /\ \A k \in 1..(n - 1 + 1) : SubSeq(all, 1, n)[k] = all[1 + k - 1]
    BY <1>4, <1>6, SubSeqProperties
  <2>2. Len(findAll(r)) = n
    BY <1>2, <1>4, <2>1
  <2>3. \A k \in 1..n : findAll(r)[k] = all[k]
    BY <1>2, <1>4, <2>1
  <2>. QED
    BY <1>2, <2>1, <2>2, <2>3
<1>8. IsInjective(findAll(r))
  BY <1>1, <1>6, <1>7 DEF IsInjective
<1>9. findAll(r) \in Seq(1..Len(stored))
  BY <1>1, <1>7, SeqMonotonic
<1>10. onlyOnce(findAll(r), r)
  BY <1>3, <1>6, <1>7, <1>8 DEF onlyOnce
<1>11. newestOf(findAll(r), found)
  <2>1. ASSUME NEW i \in 1..n, NEW j \in 1..n, i < j
        PROVE  findAll(r)[i] > findAll(r)[j]
    BY <1>1, <1>6, <1>7, <2>1 DEF newestOf
  <2>2. ASSUME NEW i \in 1..n, NEW m \in found, m > findAll(r)[i]
        PROVE  m \in Range(findAll(r))
    <3>1. PICK j \in DOMAIN all : all[j] = m
      BY <1>1 DEF Range
    <3>2. i \in DOMAIN all /\ all[i] \in found /\ m > all[i] /\ all[i] \in Nat /\ m \in Nat
      BY <1>1, <1>6, <1>7, <2>2
    <3>3. ~(i < j) /\ i # j
      BY <1>1, <3>1, <3>2 DEF newestOf
    <3>4. j \in 1..n
      BY <1>4, <3>1, <3>3
    <3>. QED
      BY <1>7, <3>1, <3>4 DEF Range
  <2>. QED
    BY <1>7, <2>1, <2>2 DEF newestOf
<1>12. n = Limit \/ found \subseteq Range(findAll(r))
  BY <1>1, <1>4, <1>7, <1>5 DEF Range
<1>. QED
  BY <1>5, <1>7, <1>9, <1>10, <1>11, <1>12 DEF found

\* A list has as many members as places, or fewer.
LEMMA RangeSize ==
  ASSUME NEW S, NEW seq \in Seq(S)
  PROVE  /\ IsFiniteSet(Range(seq))
         /\ Cardinality(Range(seq)) \in Nat /\ Cardinality(Range(seq)) <= Len(seq)
         /\ IsInjective(seq) => Cardinality(Range(seq)) = Len(seq)
<1>1. Len(seq) \in Nat /\ DOMAIN seq = 1..Len(seq) /\ seq \in [1..Len(seq) -> S]
  OBVIOUS
<1>2. IsFiniteSet(1..Len(seq)) /\ Cardinality(1..Len(seq)) = Len(seq)
  <2> DEFINE n == Len(seq)
  <2>1. n \in Nat
    BY <1>1
  <2>. HIDE DEF n
  <2>2. IsFiniteSet(1..n) /\ Cardinality(1..n) = n
    BY <2>1, FS_Interval
  <2>. QED
    BY <2>2 DEF n
<1>3. seq \in Surjection(1..Len(seq), Range(seq))
  BY <1>1 DEF Surjection, Range
<1>4. /\ IsFiniteSet(Range(seq)) /\ Cardinality(Range(seq)) <= Len(seq)
      /\ (Cardinality(Range(seq)) = Len(seq) <=> seq \in Injection(1..Len(seq), Range(seq)))
  BY <1>2, <1>3, FS_Surjection
<1>5. IsInjective(seq) => seq \in Injection(1..Len(seq), Range(seq))
  BY <1>1 DEF Injection, Range
<1>. QED
  BY <1>4, <1>5, FS_CardinalityType

\* Lists of one room's messages, put together.
LEMMA Merged ==
  ASSUME stored \in Seq(Rooms), NEW r,
         NEW s \in Seq(Message), NEW t \in Seq(Message),
         \A k \in DOMAIN s : s[k] \in 1..Len(stored) /\ stored[s[k]] = r,
         \A k \in DOMAIN t : t[k] \in 1..Len(stored) /\ stored[t[k]] = r
  PROVE  uniqBy(s \o t) \in Seq(Message) /\ onlyOnce(uniqBy(s \o t), r)
<1> DEFINE both == s \o t
<1>1. /\ both \in Seq(Message) /\ Len(both) = Len(s) + Len(t)
      /\ \A i \in 1..(Len(s) + Len(t)) : both[i] = IF i <= Len(s) THEN s[i] ELSE t[i - Len(s)]
  BY ConcatProperties
<1>2. /\ Len(s) \in Nat /\ DOMAIN s = 1..Len(s) /\ Len(t) \in Nat /\ DOMAIN t = 1..Len(t)
      /\ DOMAIN both = 1..(Len(s) + Len(t))
  BY <1>1
<1>. HIDE DEF both
<1>3. ASSUME NEW i \in DOMAIN both
      PROVE  both[i] \in 1..Len(stored) /\ stored[both[i]] = r
  <2>1. CASE i <= Len(s)
    <3>1. i \in DOMAIN s /\ both[i] = s[i]
      BY <1>1, <1>2, <2>1
    <3>. QED
      BY <3>1
  <2>2. CASE ~(i <= Len(s))
    <3>1. i - Len(s) \in DOMAIN t /\ both[i] = t[i - Len(s)]
      BY <1>1, <1>2, <2>2
    <3>. QED
      BY <3>1
  <2>. QED
    BY <2>1, <2>2
<1>4. /\ uniqBy(both) \in Seq(Message) /\ IsInjective(uniqBy(both))
      /\ \A k \in DOMAIN uniqBy(both) : \E i \in DOMAIN both : uniqBy(both)[k] = both[i]
  <2>1. both \in Seq(Message)
    BY <1>1
  <2>2. uniqBy(both) \in Seq(Message) /\ IsInjective(uniqBy(both))
    BY <2>1, UniqBy
  <2>3. \A k \in DOMAIN uniqBy(both) : \E i \in DOMAIN both : uniqBy(both)[k] = both[i]
    BY <2>1, UniqBy
  <2>. QED
    BY <2>2, <2>3
<1>5. onlyOnce(uniqBy(both), r)
  BY <1>3, <1>4 DEF onlyOnce
<1>. QED
  BY <1>4, <1>5 DEF both

-----------------------------------------------------------------------------
(* Parts of the state. *)

LEMMA Bounds ==
  ASSUME TypeOK
  PROVE  /\ Past \in Nat /\ MaxInputs \in Nat /\ inputs \in Nat /\ inputs <= MaxInputs
         /\ stored \in Seq(Rooms) /\ Len(stored) \in Nat /\ visit \in Nat
         /\ 1..Len(stored) \subseteq Message /\ none \notin Message /\ Message \subseteq Nat
BY BoundsAssumption DEF TypeOK, Message, none

LEMMA NewPage ==
  ASSUME stored \in Seq(Rooms)
  PROVE  newPage \in PageState /\ pageFits(newPage) /\ newPage.roomCurrentSelected = undefined
<1>1. <<>> \in Seq(Message) /\ Len(stored) \in Nat /\ DOMAIN <<>> = {}
  OBVIOUS
<1>2. newPage \in PageState
  BY <1>1 DEF newPage, PageState, none
<1>3. pageFits(newPage)
  BY <1>1 DEF newPage, pageFits, onlyOnce, IsInjective, none
<1>. QED
  BY <1>2, <1>3 DEF newPage

\* The queries are fetches without data.
LEMMA Queries ==
  /\ \A r \in Rooms, s \in PageState :
       /\ messagesQuery(r, s) \in Fetch /\ messagesQuery(r, s).data = undefined
       /\ messagesQuery(r, s).query = "messages" /\ messagesQuery(r, s).room = r
  /\ \A q \in {"detail", "search"}, r \in Rooms :
       /\ query(q, r, none) \in Fetch /\ query(q, r, none).data = undefined
       /\ query(q, r, none).query = q /\ query(q, r, none).room = r
<1>1. ASSUME NEW q \in {"messages", "detail", "search"}, NEW r \in Rooms,
             NEW last \in Message \cup {none}
      PROVE  /\ query(q, r, last) \in Fetch /\ query(q, r, last).data = undefined
             /\ query(q, r, last).query = q /\ query(q, r, last).room = r
  BY DEF query, Fetch
<1>2. \A s \in PageState : s.lastRecord \in Message \cup {none}
  BY DEF PageState
<1>. QED
  BY <1>1, <1>2 DEF messagesQuery, none

LEMMA WithFetch ==
  ASSUME NEW fs, NEW f
  PROVE  withFetch(fs, f) \subseteq fs \cup {f}
BY DEF withFetch

\* What fits goes on to fit while messages are only added, and the room stays.
LEMMA StillFits ==
  ASSUME TypeOK, stored' = stored \/ \E r \in Rooms : stored' = Append(stored, r)
  PROVE  /\ \A s : pageFits(s) /\ room' = room => pageFits(s)'
         /\ \A f : dataFits(f) => dataFits(f)'
<1>1. /\ Len(stored) \in Nat /\ Len(stored') \in Nat /\ Len(stored) <= Len(stored')
      /\ \A m \in 1..Len(stored) : stored'[m] = stored[m]
  <2>1. CASE stored' = stored
    BY <2>1 DEF TypeOK
  <2>2. ASSUME NEW r \in Rooms, stored' = Append(stored, r)
        PROVE  /\ Len(stored') = Len(stored) + 1
               /\ \A m \in 1..Len(stored) : stored'[m] = stored[m]
    BY <2>2, AppendProperties DEF TypeOK
  <2>. QED
    BY <2>1, <2>2 DEF TypeOK
<1>2. ASSUME NEW seq, NEW r, onlyOnce(seq, r)
      PROVE  onlyOnce(seq, r)'
  BY <1>1, <1>2 DEF onlyOnce
<1>3. ASSUME NEW s, pageFits(s), room' = room
      PROVE  pageFits(s)'
  BY <1>1, <1>2, <1>3 DEF pageFits
<1>4. ASSUME NEW f, dataFits(f)
      PROVE  dataFits(f)'
  BY <1>2, <1>4 DEF dataFits
<1>. QED
  BY <1>3, <1>4

-----------------------------------------------------------------------------
LEMMA InitInvariant == Init => IInv
<1> SUFFICES ASSUME Init PROVE IInv
  OBVIOUS
<1>1. stored \in Seq(Rooms) /\ Len(stored) = Past
  BY BoundsAssumption DEF Init
<1>2. newPage \in PageState /\ pageFits(newPage) /\ newPage.roomCurrentSelected = undefined
  BY <1>1, NewPage
<1>3. ASSUME NEW f \in fetches
      PROVE  f \in Fetch /\ dataFits(f) /\ f.room = room
  BY <1>2, <1>3, Queries DEF Init, detailQuery, dataFits
<1>4. TypeOK
  <2>1. 1 \in 1..(MaxInputs + 1) /\ 0 \in 0..MaxInputs /\ Past <= Past + MaxInputs
    BY BoundsAssumption
  <2>2. newSidebar \in Sidebar
    BY DEF Sidebar, newSidebar
  <2>. QED
    BY <1>1, <1>2, <1>3, <2>1, <2>2 DEF Init, TypeOK
<1>5. InputsAreCounted
  BY <1>1, BoundsAssumption DEF Init, InputsAreCounted
<1>6. ListsFit
  BY <1>2, <1>3 DEF Init, ListsFit
<1>7. OwnRoomOnly
  BY <1>2, <1>3 DEF Init, OwnRoomOnly, newSidebar
<1>8. /\ state = newPage /\ closure = newPage /\ committed = newPage /\ events = {} /\ ~crossed
      /\ fetches = {messagesQuery(room, newPage), detailQuery(room)}
  BY DEF Init
<1>9. EventsAreInOrder
  BY <1>8 DEF EventsAreInOrder, arriving
<1>10. ListIsNewest
  <2>1. toldAreNewest
    BY <1>8 DEF toldAreNewest, newestOf, newPage
  <2>2. isFull
    BY <1>8 DEF isFull
  <2>3. ASSUME NEW f \in fetches
        PROVE  joinsOn(f)
    <3>1. f.data = undefined
      BY <1>8, <2>3 DEF messagesQuery, detailQuery, query
    <3>. QED
      BY <3>1 DEF joinsOn
  <2>. QED
    BY <2>1, <2>2, <2>3 DEF ListIsNewest
<1>11. DetailIsAskedFor
  BY <1>8 DEF DetailIsAskedFor, detailQuery, query
<1>. QED
  BY <1>4, <1>5, <1>6, <1>7, <1>9, <1>10, <1>11 DEF IInv

-----------------------------------------------------------------------------
(* The steps.  What a step may do to each part of the state is said first;   *)
(* the invariant follows from that.                                          *)

\* Messages are only added, each by an input, and pages are opened by inputs.
LEMMA CountStep ==
  ASSUME TypeOK, InputsAreCounted, Next
  PROVE  /\ stored' = stored \/ \E r \in Rooms : stored' = Append(stored, r)
         /\ stored' \in Seq(Rooms) /\ Len(stored') <= Past + MaxInputs
         /\ visit' \in 1..(MaxInputs + 1) /\ room' \in Rooms
         /\ inputs' \in 0..MaxInputs
         /\ InputsAreCounted'
         /\ events' \subseteq 1..Len(stored')
<1>0. /\ Past \in Nat /\ MaxInputs \in Nat /\ inputs \in Nat /\ inputs <= MaxInputs
      /\ stored \in Seq(Rooms) /\ Len(stored) \in Nat /\ Len(stored) <= Past + inputs
      /\ visit \in Nat /\ visit >= 1 /\ visit <= inputs + 1
      /\ room \in Rooms /\ events \subseteq 1..Len(stored)
  BY Bounds DEF TypeOK, InputsAreCounted
<1>1. ASSUME NEW r \in Rooms, Store(r)
      PROVE  /\ stored' = Append(stored, r) /\ Len(stored') = Len(stored) + 1
             /\ stored' \in Seq(Rooms) /\ events' = events \cup {Len(stored')}
             /\ inputs < MaxInputs /\ inputs' = inputs + 1 /\ UNCHANGED page
  BY <1>0, <1>1, AppendProperties DEF Store, input
<1>2. ASSUME NEW r \in Rooms, OpenPage(r)
      PROVE  /\ room' = r /\ visit' = visit + 1 /\ UNCHANGED server
             /\ inputs < MaxInputs /\ inputs' = inputs + 1
  BY <1>2 DEF OpenPage, input
<1>3. \/ \E r \in Rooms : Store(r) \/ OpenPage(r)
      \/ /\ UNCHANGED <<page, stored>> /\ events' \subseteq events
         /\ inputs' = inputs \/ (inputs < MaxInputs /\ inputs' = inputs + 1)
  <2> DEFINE Goal == /\ UNCHANGED <<page, stored>> /\ events' \subseteq events
                     /\ inputs' = inputs \/ (inputs < MaxInputs /\ inputs' = inputs + 1)
  <2>1. Render \/ Effects => Goal
    BY DEF Render, Effects, server
  <2>2. ASSUME NEW f, \/ Answer(f) \/ Fails(f)
                      \/ MessagesArrive(f) \/ DetailArrives(f) \/ SearchArrives(f)
        PROVE  Goal
    BY <2>2 DEF Answer, Fails, MessagesArrive, DetailArrives, SearchArrives, server
  <2>3. ASSUME NEW t, Timeout(t) \/ Changed(t) \/ ChangeFails(t) \/ HandleSendMessageEvent(t)
        PROVE  Goal
    BY <2>3 DEF Timeout, Changed, ChangeFails, HandleSendMessageEvent, server
  <2>4. OnGetMoreMsg \/ OpenRoomDetail \/ CloseRoomDetail \/ HandleSearchMessages \/ ChangeRoom
        => Goal
    BY DEF OnGetMoreMsg, OpenRoomDetail, CloseRoomDetail, HandleSearchMessages, ChangeRoom,
           server, input
  <2>5. ASSUME NEW m, OnRedirectSearch(m)
        PROVE  Goal
    BY <2>5 DEF OnRedirectSearch, server, input
  <2>. HIDE DEF Goal
  <2>6. Goal \/ \E r \in Rooms : Store(r) \/ OpenPage(r)
    BY <2>1, <2>2, <2>3, <2>4, <2>5 DEF Next
  <2>. QED
    BY <2>6 DEF Goal
<1>4. CASE \E r \in Rooms : Store(r)
  <2>1. PICK r \in Rooms : Store(r)
    BY <1>4
  <2>2. inputs + 1 <= MaxInputs /\ Len(stored) + 1 <= Past + (inputs + 1)
        /\ Len(stored) + 1 <= Past + MaxInputs /\ visit <= (inputs + 1) + 1
    BY <1>0, <1>1, <2>1
  <2>3. events' \subseteq 1..Len(stored')
    <3>1. 1..Len(stored) \subseteq 1..(Len(stored) + 1)
      BY <1>0
    <3>2. Len(stored) + 1 \in 1..(Len(stored) + 1)
      BY <1>0
    <3>3. Len(stored') = Len(stored) + 1 /\ events' = events \cup {Len(stored')}
      BY <1>1, <2>1
    <3>4. events' \subseteq 1..(Len(stored) + 1)
      BY <1>0, <3>1, <3>2, <3>3
    <3>. QED
      BY <3>3, <3>4
  <2>4. room' = room /\ visit' = visit /\ inputs' = inputs + 1 /\ Len(stored') = Len(stored) + 1
    BY <1>1, <2>1 DEF page
  <2>5. InputsAreCounted' /\ Len(stored') <= Past + MaxInputs
    BY <2>2, <2>4 DEF InputsAreCounted
  <2>6. visit' \in 1..(MaxInputs + 1) /\ inputs' \in 0..MaxInputs
    BY <1>0, <2>2, <2>4
  <2>. QED
    BY <1>0, <1>1, <2>1, <2>3, <2>4, <2>5, <2>6
<1>5. CASE \E r \in Rooms : OpenPage(r)
  <2>1. PICK r \in Rooms : OpenPage(r)
    BY <1>5
  <2>2. inputs + 1 <= MaxInputs /\ Len(stored) <= Past + (inputs + 1)
        /\ Len(stored) <= Past + MaxInputs /\ visit + 1 <= (inputs + 1) + 1
    BY <1>0, <1>2, <2>1
  <2>3. /\ room' = r /\ visit' = visit + 1 /\ inputs' = inputs + 1
        /\ stored' = stored /\ events' = events
    BY <1>2, <2>1 DEF server
  <2>4. InputsAreCounted'
    BY <2>2, <2>3 DEF InputsAreCounted
  <2>5. visit' \in 1..(MaxInputs + 1) /\ inputs' \in 0..MaxInputs
    BY <1>0, <2>2, <2>3
  <2>. QED
    BY <1>0, <2>2, <2>3, <2>4, <2>5
<1>6. CASE /\ UNCHANGED <<page, stored>> /\ events' \subseteq events
           /\ inputs' = inputs \/ (inputs < MaxInputs /\ inputs' = inputs + 1)
  BY <1>0, <1>6 DEF InputsAreCounted, page
<1>. QED
  BY <1>3, <1>4, <1>5, <1>6

\* The steps after which the page has the list and the message it had.
LEMMA KeepsLists ==
  ASSUME TypeOK,
         \/ \E f \in fetches : DetailArrives(f)
         \/ \E t \in timers : Timeout(t)
         \/ \E c \in changes : Changed(c)
         \/ OnGetMoreMsg \/ OpenRoomDetail \/ CloseRoomDetail
         \/ \E m \in 1..Len(stored) : OnRedirectSearch(m)
  PROVE  /\ state' \in PageState
         /\ state'.officialMessages = state.officialMessages
         /\ state'.lastMessage = state.lastMessage
         /\ UNCHANGED <<committed, closure, page, stored>>
<1>0. state \in PageState /\ committed \in PageState
  BY DEF TypeOK
<1>1. ASSUME NEW f \in fetches, DetailArrives(f)
      PROVE  state' \in PageState /\ state'.officialMessages = state.officialMessages
             /\ state'.lastMessage = state.lastMessage
  <2>1. f.room \in Rooms
    BY DEF TypeOK, Fetch
  <2>. QED
    BY <1>0, <1>1, <2>1 DEF DetailArrives, PageState
<1>2. ASSUME NEW t \in timers, Timeout(t)
      PROVE  state' \in PageState /\ state'.officialMessages = state.officialMessages
             /\ state'.lastMessage = state.lastMessage
  <2>1. t[2] \in Message \cup {none}
    BY DEF TypeOK
  <2>. QED
    BY <1>0, <1>2, <2>1 DEF Timeout, PageState
<1>3. ASSUME NEW c \in changes, Changed(c)
      PROVE  state' \in PageState /\ state'.officialMessages = state.officialMessages
             /\ state'.lastMessage = state.lastMessage
  <2>1. c[2] \in Rooms
    BY DEF TypeOK
  <2>. QED
    BY <1>0, <1>3, <2>1 DEF Changed, PageState
<1>4. ASSUME OnGetMoreMsg
      PROVE  state' \in PageState /\ state'.officialMessages = state.officialMessages
             /\ state'.lastMessage = state.lastMessage
  <2> DEFINE shown == committed.officialMessages
             n == IF Len(shown) > 1 THEN Len(shown) - 1 ELSE 1
  <2>1. shown \in Seq(Message) /\ shown # <<>> /\ Len(shown) \in Nat
    BY <1>0, <1>4 DEF OnGetMoreMsg, PageState
  <2>2. shown[n] \in Message
    <3>1. n \in 1..Len(shown)
      <4>1. Len(shown) # 0
        BY <2>1, EmptySeq
      <4>. QED
        BY <2>1, <4>1
    <3>. HIDE DEF n, shown
    <3>. QED
      BY <2>1, <3>1, ElementOfSeq
  <2>3. state' = [state EXCEPT !.lastRecord = shown[n],
                               !.isJumpToMessages = committed.isJumpToMessages]
    BY <1>4 DEF OnGetMoreMsg
  <2>. HIDE DEF shown, n
  <2>. QED
    BY <1>0, <2>2, <2>3 DEF PageState
<1>5. ASSUME OpenRoomDetail \/ CloseRoomDetail
      PROVE  state' \in PageState /\ state'.officialMessages = state.officialMessages
             /\ state'.lastMessage = state.lastMessage
  BY <1>0, <1>5 DEF OpenRoomDetail, CloseRoomDetail, PageState
<1>6. ASSUME NEW m \in 1..Len(stored), OnRedirectSearch(m)
      PROVE  state' \in PageState /\ state'.officialMessages = state.officialMessages
             /\ state'.lastMessage = state.lastMessage
  BY <1>0, <1>6, Bounds DEF OnRedirectSearch, PageState
<1>7. UNCHANGED <<committed, closure, page, stored>>
  BY DEF DetailArrives, Timeout, Changed, OnGetMoreMsg, OpenRoomDetail, CloseRoomDetail,
         OnRedirectSearch, server, page
<1>. QED
  BY <1>1, <1>2, <1>3, <1>4, <1>5, <1>6, <1>7

\* An answer in flight, put to the list of the closure it comes to.
LEMMA ResultData ==
  ASSUME TypeOK, ListsFit, NEW f \in fetches, f.query = "messages", f.data # undefined,
         queryKey(f) = queryKey(messagesQuery(room, closure))
  PROVE  /\ resultData(closure, f.data) \in Seq(Message)
         /\ onlyOnce(resultData(closure, f.data), room)
<1>1. f \in Fetch /\ f.data \in Seq(Message) /\ closure \in PageState /\ room \in Rooms
  BY DEF TypeOK, Fetch
<1>2. f.room = room
  BY <1>1, Queries DEF queryKey
<1>3. /\ onlyOnce(f.data, room) /\ onlyOnce(closure.officialMessages, room)
      /\ closure.officialMessages \in Seq(Message)
  BY <1>1, <1>2 DEF ListsFit, dataFits, pageFits, PageState
<1>4. /\ uniqBy(closure.officialMessages \o f.data) \in Seq(Message)
      /\ onlyOnce(uniqBy(closure.officialMessages \o f.data), room)
  <2> DEFINE s == closure.officialMessages
             t == f.data
  <2>1. /\ \A k \in DOMAIN s : s[k] \in 1..Len(stored) /\ stored[s[k]] = room
        /\ \A k \in DOMAIN t : t[k] \in 1..Len(stored) /\ stored[t[k]] = room
    BY <1>3 DEF onlyOnce
  <2>2. s \in Seq(Message) /\ t \in Seq(Message) /\ stored \in Seq(Rooms)
    BY <1>1, <1>3 DEF TypeOK
  <2>. HIDE DEF s, t
  <2>3. uniqBy(s \o t) \in Seq(Message) /\ onlyOnce(uniqBy(s \o t), room)
    BY <2>1, <2>2, Merged
  <2>. QED
    BY <2>3 DEF s, t
<1>. QED
  BY <1>1, <1>3, <1>4 DEF resultData

\* The pages that handlers and effects see.
LEMMA PageStep ==
  ASSUME TypeOK, InputsAreCounted, ListsFit, Next
  PROVE  /\ state' \in PageState /\ pageFits(state)'
         /\ committed' \in PageState /\ pageFits(committed)'
         /\ closure' \in PageState /\ pageFits(closure)'
<1>0. /\ state \in PageState /\ pageFits(state)
      /\ committed \in PageState /\ pageFits(committed)
      /\ closure \in PageState /\ pageFits(closure)
  BY DEF TypeOK, ListsFit
<1>1. ASSUME NEW s, pageFits(s), room' = room
      PROVE  pageFits(s)'
  BY <1>1, CountStep, StillFits
<1>2. CASE UNCHANGED <<state, committed, closure, room>>
  <2>1. pageFits(state)' /\ pageFits(committed)' /\ pageFits(closure)'
    BY <1>0, <1>1, <1>2
  <2>. QED
    BY <1>0, <1>2, <2>1
<1>3. CASE Render
  BY <1>0, <1>1, <1>3 DEF Render, page
<1>4. CASE Effects
  <2>1. /\ UNCHANGED <<committed, room, stored>> /\ closure' = committed
    BY <1>4 DEF Effects, page, server
  <2>2. CASE /\ committed.lastMessage \notin {closure.lastMessage, none}
             /\ stored[committed.lastMessage] = room
    <3> DEFINE last == committed.lastMessage
               merged == uniqBy(<<last>> \o state.officialMessages)
    <3>1. last \in 1..Len(stored) /\ last \in Message /\ stored[last] = room
      BY <1>0, <2>2, Bounds DEF pageFits, none
    <3>2. state.officialMessages \in Seq(Message) /\ onlyOnce(state.officialMessages, room)
      BY <1>0 DEF PageState, pageFits
    <3>3. <<last>> \in Seq(Message) /\ DOMAIN <<last>> = {1} /\ <<last>>[1] = last
      BY <3>1
    <3>4. merged \in Seq(Message) /\ onlyOnce(merged, room)
      <4> DEFINE s == <<last>>
                 t == state.officialMessages
      <4>1. /\ \A k \in DOMAIN s : s[k] \in 1..Len(stored) /\ stored[s[k]] = room
            /\ \A k \in DOMAIN t : t[k] \in 1..Len(stored) /\ stored[t[k]] = room
        <5>. HIDE DEF last
        <5>. QED
          BY <3>1, <3>2, <3>3 DEF onlyOnce
      <4>2. s \in Seq(Message) /\ t \in Seq(Message) /\ stored \in Seq(Rooms)
        BY <3>2, <3>3 DEF TypeOK
      <4>. HIDE DEF s, t
      <4>3. uniqBy(s \o t) \in Seq(Message) /\ onlyOnce(uniqBy(s \o t), room)
        BY <4>1, <4>2, Merged
      <4>. QED
        BY <4>3 DEF s, t
    <3>5. state' = [state EXCEPT !.officialMessages = merged]
      BY <1>4, <2>2 DEF Effects
    <3>. HIDE DEF merged
    <3>6. state' \in PageState /\ pageFits(state)'
      BY <1>0, <2>1, <3>4, <3>5 DEF PageState, pageFits, onlyOnce
    <3>. QED
      BY <1>0, <1>1, <2>1, <3>6
  <2>3. CASE ~(/\ committed.lastMessage \notin {closure.lastMessage, none}
               /\ stored[committed.lastMessage] = room)
    <3>1. state' = state
      BY <1>4, <2>3 DEF Effects
    <3>. QED
      BY <1>0, <1>1, <2>1, <3>1
  <2>. QED
    BY <2>2, <2>3
<1>5. ASSUME NEW r \in Rooms, OpenPage(r)
      PROVE  /\ state' \in PageState /\ pageFits(state)'
             /\ committed' \in PageState /\ pageFits(committed)'
             /\ closure' \in PageState /\ pageFits(closure)'
  <2>1. state' = newPage /\ committed' = newPage /\ closure' = newPage /\ UNCHANGED stored
    BY <1>5 DEF OpenPage, mounted, server
  <2>2. newPage \in PageState /\ newPage.officialMessages = <<>> /\ newPage.lastMessage = 0
    BY NewPage, Bounds DEF newPage, none
  <2>3. \A q : onlyOnce(<<>>, q)'
    BY DEF onlyOnce, IsInjective
  <2>4. 0 \in 0..Len(stored)
    BY Bounds
  <2>5. pageFits(state)' /\ pageFits(committed)' /\ pageFits(closure)'
    BY <2>1, <2>2, <2>3, <2>4 DEF pageFits
  <2>. QED
    BY <2>1, <2>2, <2>5
<1>6. ASSUME NEW f \in fetches, MessagesArrive(f)
      PROVE  /\ state' \in PageState /\ pageFits(state)'
             /\ committed' \in PageState /\ pageFits(committed)'
             /\ closure' \in PageState /\ pageFits(closure)'
  <2>1. UNCHANGED <<committed, closure, room, stored>>
    BY <1>6 DEF MessagesArrive, page, server
  <2>2. CASE queryKey(f) = queryKey(messagesQuery(room, closure))
    <3> DEFINE data == resultData(closure, f.data)
    <3>1. state' = [state EXCEPT !.officialMessages = data]
      BY <1>6, <2>2 DEF MessagesArrive
    <3>2. data \in Seq(Message) /\ onlyOnce(data, room)
      BY <1>6, <2>2, ResultData DEF MessagesArrive
    <3>. HIDE DEF data
    <3>3. state' \in PageState /\ pageFits(state)'
      BY <1>0, <2>1, <3>1, <3>2 DEF PageState, pageFits, onlyOnce
    <3>. QED
      BY <1>0, <1>1, <2>1, <3>3
  <2>3. CASE queryKey(f) # queryKey(messagesQuery(room, closure))
    <3>1. state' = state
      BY <1>6, <2>3 DEF MessagesArrive
    <3>. QED
      BY <1>2, <2>1, <3>1
  <2>. QED
    BY <2>2, <2>3
<1>7. ASSUME NEW m \in events, HandleSendMessageEvent(m)
      PROVE  /\ state' \in PageState /\ pageFits(state)'
             /\ committed' \in PageState /\ pageFits(committed)'
             /\ closure' \in PageState /\ pageFits(closure)'
  <2>1. UNCHANGED <<committed, closure, room, stored>>
    BY <1>7 DEF HandleSendMessageEvent, page
  <2>2. m \in 1..Len(stored) /\ m \in Message /\ m \in 0..Len(stored)
    BY Bounds DEF TypeOK
  <2>3. state' = [state EXCEPT !.lastMessage = m]
    BY <1>7 DEF HandleSendMessageEvent
  <2>4. state' \in PageState /\ pageFits(state)'
    BY <1>0, <2>1, <2>2, <2>3 DEF PageState, pageFits, onlyOnce
  <2>. QED
    BY <1>0, <1>1, <2>1, <2>4
<1>8. CASE \/ \E f \in fetches : DetailArrives(f)
           \/ \E t \in timers : Timeout(t)
           \/ \E c \in changes : Changed(c)
           \/ OnGetMoreMsg \/ OpenRoomDetail \/ CloseRoomDetail
           \/ \E m \in 1..Len(stored) : OnRedirectSearch(m)
  <2>1. /\ state' \in PageState
        /\ state'.officialMessages = state.officialMessages
        /\ state'.lastMessage = state.lastMessage
        /\ UNCHANGED <<committed, closure, page, stored>>
    BY <1>8, KeepsLists
  <2>2. pageFits(state)'
    BY <1>0, <2>1 DEF pageFits, onlyOnce, page
  <2>. QED
    BY <1>0, <1>1, <2>1, <2>2 DEF page
<1>9. \/ UNCHANGED <<state, committed, closure, room>>
      \/ \E r \in Rooms : OpenPage(r)
      \/ \E f \in fetches : MessagesArrive(f) \/ DetailArrives(f)
      \/ \E t \in timers : Timeout(t)
      \/ \E c \in changes : Changed(c)
      \/ \E m \in events : HandleSendMessageEvent(m)
      \/ Render \/ Effects \/ OnGetMoreMsg \/ OpenRoomDetail \/ CloseRoomDetail
      \/ \E m \in 1..Len(stored) : OnRedirectSearch(m)
  BY DEF Next, Store, Answer, Fails, SearchArrives, ChangeFails, HandleSearchMessages,
         ChangeRoom, page, react
<1>. QED
  BY <1>2, <1>3, <1>4, <1>5, <1>6, <1>7, <1>8, <1>9

\* A fetch in flight was there before, asks for what a page or its sidebar asks for, or
\* has got the server's answer.
LEMMA FetchStep ==
  ASSUME TypeOK, InputsAreCounted, ListsFit, Next, NEW f \in fetches'
  PROVE  /\ f \in Fetch /\ dataFits(f)'
         /\ \/ f \in fetches
            \/ f.query = "messages"
            \/ f.query = "detail" /\ f.room = room'
            \/ f.query = "search" /\ f.room = committed.roomCurrentSelected /\ UNCHANGED room
<1> DEFINE Goal == /\ f \in Fetch /\ dataFits(f)'
                   /\ \/ f \in fetches
                      \/ f.query = "messages"
                      \/ f.query = "detail" /\ f.room = room'
                      \/ f.query = "search" /\ f.room = committed.roomCurrentSelected
                         /\ UNCHANGED room
<1>0. /\ fetches \subseteq Fetch /\ \A g \in fetches : dataFits(g)
      /\ room \in Rooms /\ committed \in PageState /\ closure \in PageState
  BY DEF TypeOK, ListsFit
<1>1. ASSUME f \in fetches
      PROVE  Goal
  BY <1>0, <1>1, CountStep, StillFits
<1>2. ASSUME NEW r \in Rooms, NEW s \in PageState, f = messagesQuery(r, s)
      PROVE  Goal
  BY <1>2, Queries DEF dataFits
<1>3. ASSUME f = detailQuery(room'), room' \in Rooms
      PROVE  Goal
  BY <1>3, Queries DEF dataFits, detailQuery
<1>4. CASE Effects
  <2>1. f \in fetches \/ f = messagesQuery(room, committed)
    BY <1>4, WithFetch DEF Effects
  <2>. HIDE DEF Goal
  <2>2. Goal
    BY <1>0, <1>1, <1>2, <2>1
  <2>. QED
    BY <2>2 DEF Goal
<1>5. ASSUME NEW g \in fetches, Answer(g)
      PROVE  Goal
  <2> DEFINE answer == [g EXCEPT !.data = findAll(g.room)]
  <2>1. g \in Fetch /\ g.query = "messages"
    BY <1>0, <1>5 DEF Answer
  <2>2. CASE f \in fetches
    BY <1>1, <2>2
  <2>3. CASE f = answer
    <3>1. findAll(g.room) \in Seq(Message) /\ onlyOnce(findAll(g.room), g.room)
      BY Bounds, FindAll, SeqMonotonic DEF TypeOK
    <3>2. /\ f \in Fetch /\ f.query = "messages"
          /\ f.data = findAll(g.room) /\ f.room = g.room
      BY <2>1, <2>3, <3>1 DEF Fetch
    <3>3. stored' = stored
      BY <1>5 DEF Answer, server
    <3>4. dataFits(f)'
      BY <3>1, <3>2, <3>3 DEF dataFits, onlyOnce
    <3>. QED
      BY <3>2, <3>4
  <2>4. f \in fetches \/ f = answer
    BY <1>5 DEF Answer
  <2>. QED
    BY <2>2, <2>3, <2>4
<1>6. ASSUME NEW g \in fetches, DetailArrives(g)
      PROVE  Goal
  <2>1. f \in fetches \/ f = messagesQuery(room, closure)
    BY <1>6, WithFetch DEF DetailArrives, refetched
  <2>. HIDE DEF Goal
  <2>. QED
    BY <1>0, <1>1, <1>2, <2>1
<1>7. ASSUME OpenRoomDetail
      PROVE  Goal
  <2>1. (f \in fetches \/ f = detailQuery(room)) /\ room' = room
    BY <1>7, WithFetch DEF OpenRoomDetail, page
  <2>. HIDE DEF Goal
  <2>. QED
    BY <1>0, <1>1, <1>3, <2>1
<1>8. ASSUME HandleSearchMessages
      PROVE  Goal
  <2> DEFINE searched == query("search", committed.roomCurrentSelected, none)
  <2>1. (f \in fetches \/ f = searched) /\ room' = room
    BY <1>8, WithFetch DEF HandleSearchMessages, page
  <2>2. committed.roomCurrentSelected \in Rooms
    BY <1>0, <1>8 DEF HandleSearchMessages, PageState
  <2>3. CASE f = searched
    BY <2>1, <2>2, <2>3, Queries DEF dataFits
  <2>. QED
    BY <1>1, <2>1, <2>3
<1>9. ASSUME NEW r \in Rooms, OpenPage(r)
      PROVE  Goal
  <2>1. \/ f \in fetches \/ f = messagesQuery(r, newPage)
        \/ f = detailQuery(r)
    BY <1>9, WithFetch DEF OpenPage
  <2>2. newPage \in PageState /\ room' = r
    BY <1>9, NewPage DEF TypeOK, OpenPage
  <2>. HIDE DEF Goal
  <2>. QED
    BY <1>1, <1>2, <1>3, <2>1, <2>2
<1>10. CASE fetches' \subseteq fetches
  BY <1>1, <1>10
<1>11. \/ Effects \/ OpenRoomDetail \/ HandleSearchMessages
       \/ \E g \in fetches : Answer(g) \/ DetailArrives(g)
       \/ \E r \in Rooms : OpenPage(r)
       \/ fetches' \subseteq fetches
  <2> DEFINE Less == fetches' \subseteq fetches
  <2>1. Render \/ OnGetMoreMsg \/ CloseRoomDetail \/ ChangeRoom => Less
    BY DEF Render, OnGetMoreMsg, CloseRoomDetail, ChangeRoom
  <2>2. ASSUME NEW g, Store(g) \/ Fails(g) \/ MessagesArrive(g) \/ SearchArrives(g)
        PROVE  Less
    BY <2>2 DEF Store, Fails, MessagesArrive, SearchArrives
  <2>3. ASSUME NEW t, Timeout(t) \/ Changed(t) \/ ChangeFails(t) \/ HandleSendMessageEvent(t)
                      \/ OnRedirectSearch(t)
        PROVE  Less
    BY <2>3 DEF Timeout, Changed, ChangeFails, HandleSendMessageEvent, OnRedirectSearch
  <2>. HIDE DEF Less
  <2>4. \/ Effects \/ OpenRoomDetail \/ HandleSearchMessages
        \/ \E g \in fetches : Answer(g) \/ DetailArrives(g)
        \/ \E r \in Rooms : OpenPage(r)
        \/ Less
    BY <2>1, <2>2, <2>3 DEF Next
  <2>. QED
    BY <2>4 DEF Less
<1>. QED
  BY <1>4, <1>5, <1>6, <1>7, <1>8, <1>9, <1>10, <1>11

\* The rest of the state.
LEMMA RestStep ==
  ASSUME TypeOK, Next
  PROVE  /\ sidebar' \in Sidebar
         /\ timers' \subseteq (1..(MaxInputs + 1)) \X (Message \cup {none})
         /\ changes' \subseteq (1..(MaxInputs + 1)) \X Rooms
         /\ {disturbed', crossed'} \subseteq BOOLEAN
<1>0. /\ sidebar \in Sidebar /\ fetches \subseteq Fetch /\ closure \in PageState
      /\ committed \in PageState /\ visit \in 1..(MaxInputs + 1)
      /\ timers \subseteq (1..(MaxInputs + 1)) \X (Message \cup {none})
      /\ changes \subseteq (1..(MaxInputs + 1)) \X Rooms
      /\ disturbed \in BOOLEAN /\ crossed \in BOOLEAN
  BY DEF TypeOK
<1>1. sidebar' \in Sidebar
  <2>1. ASSUME NEW f \in fetches, SearchArrives(f)
        PROVE  sidebar' \in Sidebar
    <3>1. f.room \in Rooms
      BY <1>0 DEF Fetch
    <3>. QED
      BY <1>0, <2>1, <3>1 DEF SearchArrives, Sidebar
  <2>2. CASE HandleSearchMessages
    BY <1>0, <2>2 DEF HandleSearchMessages, Sidebar
  <2>3. CASE sidebar' \in {sidebar, newSidebar}
    <3>1. newSidebar \in Sidebar
      BY DEF Sidebar, newSidebar
    <3>. QED
      BY <1>0, <2>3, <3>1
  <2>4. \/ \E f \in fetches : SearchArrives(f)
        \/ HandleSearchMessages
        \/ sidebar' \in {sidebar, newSidebar}
    BY DEF Next, Render, Effects, Store, OpenPage, Answer, Fails, MessagesArrive,
           DetailArrives, Timeout, Changed, ChangeFails, HandleSendMessageEvent,
           OnGetMoreMsg, OpenRoomDetail, CloseRoomDetail, ChangeRoom, OnRedirectSearch, react
  <2>. QED
    BY <2>1, <2>2, <2>3, <2>4
<1>2. timers' \subseteq (1..(MaxInputs + 1)) \X (Message \cup {none})
  <2>1. <<visit, closure.lastRecord>> \in (1..(MaxInputs + 1)) \X (Message \cup {none})
    BY <1>0 DEF PageState
  <2>2. timers' \subseteq timers \cup {<<visit, closure.lastRecord>>}
    BY DEF Next, Render, Effects, Store, OpenPage, Answer, Fails, MessagesArrive,
           DetailArrives, SearchArrives, Timeout, Changed, ChangeFails,
           HandleSendMessageEvent, OnGetMoreMsg, OpenRoomDetail, CloseRoomDetail,
           HandleSearchMessages, ChangeRoom, OnRedirectSearch
  <2>. QED
    BY <1>0, <2>1, <2>2
<1>3. changes' \subseteq (1..(MaxInputs + 1)) \X Rooms
  <2>1. CASE ChangeRoom
    <3>1. <<visit, committed.roomCurrentSelected>> \in (1..(MaxInputs + 1)) \X Rooms
      BY <1>0, <2>1 DEF ChangeRoom, PageState
    <3>. QED
      BY <1>0, <2>1, <3>1 DEF ChangeRoom
  <2>2. CASE changes' \subseteq changes
    BY <1>0, <2>2
  <2>3. ChangeRoom \/ changes' \subseteq changes
    BY DEF Next, Render, Effects, Store, OpenPage, Answer, Fails, MessagesArrive,
           DetailArrives, SearchArrives, Timeout, Changed, ChangeFails,
           HandleSendMessageEvent, OnGetMoreMsg, OpenRoomDetail, CloseRoomDetail,
           HandleSearchMessages, OnRedirectSearch
  <2>. QED
    BY <2>1, <2>2, <2>3
<1>4. disturbed' \in BOOLEAN /\ crossed' \in BOOLEAN
  <2>1. ASSUME NEW r \in Rooms, OpenPage(r)
        PROVE  disturbed' \in BOOLEAN /\ crossed' \in BOOLEAN
    BY <2>1 DEF OpenPage
  <2>2. ASSUME NEW f \in fetches, MessagesArrive(f)
        PROVE  disturbed' \in BOOLEAN /\ crossed' \in BOOLEAN
    BY <1>0, <2>2 DEF MessagesArrive
  <2>3. ASSUME NEW m \in events, HandleSendMessageEvent(m)
        PROVE  disturbed' \in BOOLEAN /\ crossed' \in BOOLEAN
    BY <1>0, <2>3 DEF HandleSendMessageEvent
  <2>4. ASSUME NEW f \in fetches, Fails(f)
        PROVE  disturbed' \in BOOLEAN /\ crossed' \in BOOLEAN
    BY <1>0, <2>4 DEF Fails
  <2>5. \/ \E r \in Rooms : OpenPage(r)
        \/ \E f \in fetches : MessagesArrive(f) \/ Fails(f)
        \/ \E m \in events : HandleSendMessageEvent(m)
        \/ UNCHANGED <<disturbed, crossed>>
    BY DEF Next, Render, Effects, Store, Answer, DetailArrives, SearchArrives,
           Timeout, Changed, ChangeFails, OnGetMoreMsg, OpenRoomDetail, CloseRoomDetail,
           HandleSearchMessages, ChangeRoom, OnRedirectSearch, history
  <2>. QED
    BY <1>0, <2>1, <2>2, <2>3, <2>4, <2>5
<1>. QED
  BY <1>1, <1>2, <1>3, <1>4

\* Details and search results in flight are of the page's room, and so are those shown
\* and what is changed.
LEMMA OwnRoomStep ==
  ASSUME IInv, Next
  PROVE  OwnRoomOnly'
<1> DEFINE own == {room, undefined}
           Own == /\ \A s \in {state, committed, closure} :
                       s.roomCurrentSelected \in {room, undefined}
                  /\ sidebar.results \in {room, undefined}
                  /\ \A c \in changes : c[1] = visit => c[2] = room
                  /\ \A f \in fetches : f.query \in {"detail", "search"} => f.room = room
<1>0. TypeOK /\ InputsAreCounted /\ ListsFit /\ OwnRoomOnly
  BY DEF IInv
<1>1. (\A c \in changes : c[1] <= visit) /\ (crossed \/ Own) /\ visit \in Nat
      /\ state \in PageState /\ committed \in PageState
  BY <1>0, Bounds DEF OwnRoomOnly, TypeOK
<1>2. ASSUME NEW r \in Rooms, OpenPage(r)
      PROVE  OwnRoomOnly'
  <2>1. /\ room' = r /\ visit' = visit + 1 /\ changes' = changes
        /\ state' = newPage /\ committed' = newPage /\ closure' = newPage
        /\ sidebar' = newSidebar
        /\ crossed' = (\E f \in fetches : f.query \in {"detail", "search"} /\ f.room # r)
    BY <1>2 DEF OpenPage, mounted
  <2>2. \A c \in changes' : c[1] <= visit' /\ c[1] # visit'
    <3> SUFFICES ASSUME NEW c \in changes PROVE c[1] <= visit + 1 /\ c[1] # visit + 1
      BY <2>1
    <3>1. c[1] \in Nat /\ c[1] <= visit
      BY <1>0, <1>1 DEF TypeOK
    <3>. QED
      BY <1>1, <3>1
  <2>3. newPage.roomCurrentSelected = undefined /\ newSidebar.results = undefined
    BY DEF newPage, newSidebar
  <2>4. ASSUME NEW f \in fetches', ~crossed', f.query \in {"detail", "search"}
        PROVE  f.room = r
    <3>1. f \in fetches \/ f = messagesQuery(r, newPage) \/ f = detailQuery(r)
      BY <1>2, WithFetch DEF OpenPage
    <3>2. messagesQuery(r, newPage).query = "messages" /\ detailQuery(r).room = r
      BY DEF messagesQuery, detailQuery, query
    <3>. QED
      BY <2>1, <2>4, <3>1, <3>2
  <2>. QED
    BY <2>1, <2>2, <2>3, <2>4 DEF OwnRoomOnly
<1>3. ASSUME ~\E r \in Rooms : OpenPage(r)
      PROVE  OwnRoomOnly'
  <2>0. UNCHANGED <<room, visit, crossed>>
    <3> DEFINE Goal == UNCHANGED <<room, visit, crossed>>
    <3>1. Render \/ Effects \/ OnGetMoreMsg \/ OpenRoomDetail \/ CloseRoomDetail
          \/ HandleSearchMessages \/ ChangeRoom => Goal
      BY DEF Render, Effects, OnGetMoreMsg, OpenRoomDetail, CloseRoomDetail,
             HandleSearchMessages, ChangeRoom, page, history
    <3>2. ASSUME NEW f, \/ Store(f) \/ Answer(f) \/ Fails(f)
                        \/ MessagesArrive(f) \/ DetailArrives(f) \/ SearchArrives(f)
          PROVE  Goal
      BY <3>2 DEF Store, Answer, Fails, MessagesArrive, DetailArrives, SearchArrives,
                  page, history
    <3>3. ASSUME NEW t, Timeout(t) \/ Changed(t) \/ ChangeFails(t)
                        \/ HandleSendMessageEvent(t) \/ OnRedirectSearch(t)
          PROVE  Goal
      BY <3>3 DEF Timeout, Changed, ChangeFails, HandleSendMessageEvent, OnRedirectSearch,
                  page, history
    <3>. HIDE DEF Goal
    <3>4. Goal
      BY <1>3, <3>1, <3>2, <3>3 DEF Next
    <3>. QED
      BY <3>4 DEF Goal
  <2>1. /\ changes' \subseteq changes \cup {<<visit, committed.roomCurrentSelected>>}
        /\ ChangeRoom \/ changes' \subseteq changes
    BY <1>3 DEF Next, Render, Effects, Store, Answer, Fails, MessagesArrive,
           DetailArrives, SearchArrives, Timeout, Changed, ChangeFails, ChangeRoom,
           HandleSendMessageEvent, OnGetMoreMsg, OpenRoomDetail, CloseRoomDetail,
           HandleSearchMessages, OnRedirectSearch
  <2>2. \A c \in changes' : c[1] <= visit'
    BY <1>1, <2>0, <2>1
  <2> SUFFICES ASSUME ~crossed PROVE Own'
    BY <2>0, <2>2 DEF OwnRoomOnly
  <2>3. Own
    BY <1>1
  <2>4. state'.roomCurrentSelected \in {room, undefined}
    <3>1. ASSUME NEW f \in fetches, DetailArrives(f)
          PROVE  state'.roomCurrentSelected \in {room, undefined}
      BY <1>1, <2>3, <3>1 DEF DetailArrives, PageState
    <3>2. ASSUME NEW c \in changes, Changed(c)
          PROVE  state'.roomCurrentSelected \in {room, undefined}
      BY <1>1, <2>3, <3>2 DEF Changed, PageState
    <3>3. ASSUME state'.roomCurrentSelected = state.roomCurrentSelected
          PROVE  state'.roomCurrentSelected \in {room, undefined}
      BY <2>3, <3>3
    <3>4. \/ \E f \in fetches : DetailArrives(f)
          \/ \E c \in changes : Changed(c)
          \/ state'.roomCurrentSelected = state.roomCurrentSelected
      <4> DEFINE Same == state'.roomCurrentSelected = state.roomCurrentSelected
      <4>1. Render \/ OnGetMoreMsg \/ OpenRoomDetail \/ CloseRoomDetail
            \/ HandleSearchMessages \/ ChangeRoom => Same
        BY <1>1 DEF Render, OnGetMoreMsg, OpenRoomDetail, CloseRoomDetail,
                    HandleSearchMessages, ChangeRoom, react, PageState
      <4>2. Effects => Same
        BY <1>1 DEF Effects, PageState
      <4>3. ASSUME NEW f, Store(f) \/ Answer(f) \/ Fails(f) \/ SearchArrives(f)
                          \/ ChangeFails(f)
            PROVE  Same
        BY <4>3 DEF Store, Answer, Fails, SearchArrives, ChangeFails, react
      <4>4. ASSUME NEW t, MessagesArrive(t) \/ Timeout(t) \/ HandleSendMessageEvent(t)
                          \/ OnRedirectSearch(t)
            PROVE  Same
        BY <1>1, <4>4 DEF MessagesArrive, Timeout, HandleSendMessageEvent, OnRedirectSearch,
                          PageState
      <4>. HIDE DEF Same
      <4>5. \/ \E f \in fetches : DetailArrives(f)
            \/ \E c \in changes : Changed(c)
            \/ Same
        BY <1>3, <4>1, <4>2, <4>3, <4>4 DEF Next
      <4>. QED
        BY <4>5 DEF Same
    <3>. QED
      BY <3>1, <3>2, <3>3, <3>4
  <2>5. committed' \in {committed, state} /\ closure' \in {closure, committed}
    BY <1>3 DEF Next, Render, Effects, Store, Answer, Fails, MessagesArrive,
           DetailArrives, SearchArrives, Timeout, Changed, ChangeFails, ChangeRoom,
           HandleSendMessageEvent, OnGetMoreMsg, OpenRoomDetail, CloseRoomDetail,
           HandleSearchMessages, OnRedirectSearch, react
  <2>6. sidebar'.results \in {room, undefined}
    <3>1. sidebar \in Sidebar
      BY <1>0 DEF TypeOK
    <3>2. ASSUME NEW f \in fetches, SearchArrives(f)
          PROVE  sidebar'.results \in {room, undefined}
      BY <2>3, <3>1, <3>2 DEF SearchArrives, Sidebar
    <3>3. CASE HandleSearchMessages
      BY <2>3, <3>1, <3>3 DEF HandleSearchMessages, Sidebar
    <3>4. CASE sidebar' \in {sidebar, newSidebar}
      BY <2>3, <3>4 DEF newSidebar
    <3>5. \/ \E f \in fetches : SearchArrives(f)
          \/ HandleSearchMessages
          \/ sidebar' \in {sidebar, newSidebar}
      BY DEF Next, Render, Effects, Store, OpenPage, Answer, Fails, MessagesArrive,
             DetailArrives, Timeout, Changed, ChangeFails, HandleSendMessageEvent,
             OnGetMoreMsg, OpenRoomDetail, CloseRoomDetail, ChangeRoom, OnRedirectSearch, react
    <3>. QED
      BY <3>2, <3>3, <3>4, <3>5
  <2>7. \A c \in changes' : c[1] = visit' => c[2] = room'
    <3>1. CASE ChangeRoom
      BY <2>0, <2>1, <2>3, <3>1 DEF ChangeRoom
    <3>2. CASE changes' \subseteq changes
      BY <2>0, <2>3, <3>2
    <3>. QED
      BY <2>1, <3>1, <3>2
  <2>8. \A f \in fetches' : f.query \in {"detail", "search"} => f.room = room'
    <3> SUFFICES ASSUME NEW f \in fetches', f.query \in {"detail", "search"}
                 PROVE  f.room = room
      BY <2>0
    <3>1. f \in Fetch
      BY <1>0, FetchStep
    <3>2. f.room # undefined
      BY <3>1, BoundsAssumption DEF Fetch
    <3>. QED
      BY <1>0, <2>0, <2>3, <3>2, FetchStep
  <2>. QED
    BY <2>0, <2>3, <2>4, <2>5, <2>6, <2>7, <2>8
<1>. QED
  BY <1>2, <1>3

-----------------------------------------------------------------------------
(* The list and the events.                                                  *)

LEMMA Keys ==
  ASSUME NEW f, NEW r, NEW s, queryKey(f) = queryKey(messagesQuery(r, s))
  PROVE  f.query = "messages" /\ f.room = r /\ f.lastRecord = s.lastRecord
<1>1. queryKey(messagesQuery(r, s)) = <<"messages", r, s.lastRecord>>
  BY DEF queryKey, messagesQuery, query
<1>2. queryKey(f) = (IF f.query = "messages" THEN <<f.query, f.room, f.lastRecord>> ELSE <<f.query>>)
  BY DEF queryKey
<1>3. f.query = "messages"
  <2> SUFFICES ASSUME f.query # "messages" PROVE FALSE
    OBVIOUS
  <2>1. <<f.query>> = <<"messages", r, s.lastRecord>>
    BY <1>1, <1>2
  <2>2. Len(<<f.query>>) = 1 /\ Len(<<"messages", r, s.lastRecord>>) = 3
    OBVIOUS
  <2>. QED
    BY <2>1, <2>2
<1>. QED
  BY <1>1, <1>2, <1>3

\* What is asked for is under way.
LEMMA AskedFor ==
  ASSUME NEW fs, NEW f
  PROVE  fs \subseteq withFetch(fs, f) /\ \E g \in withFetch(fs, f) : queryKey(g) = queryKey(f)
BY DEF withFetch

\* The query of the page is among fs.
asked(fs) == \E f \in fs : queryKey(f) = queryKey(messagesQuery(room, closure))

\* A step that leaves the list, the messages and their events alone.  The query of the page
\* goes on, and new data is the server's answer.
KeepsMessages ==
  /\ UNCHANGED <<room, stored, events, closure, disturbed>>
  /\ state'.officialMessages = state.officialMessages
  /\ state'.lastMessage = state.lastMessage
  /\ committed' \in {committed, state}
  /\ asked(fetches) => asked(fetches')
  /\ \A f \in fetches' : f.query = "messages" /\ f.data # undefined =>
       f \in fetches \/ f.data = findAll(f.room)

Arrives(f) == MessagesArrive(f) /\ queryKey(f) = queryKey(messagesQuery(room, closure))

LEMMA Steps ==
  ASSUME TypeOK, Next
  PROVE  \/ \E r \in Rooms : Store(r) \/ OpenPage(r)
         \/ \E f \in fetches : Fails(f) \/ Arrives(f)
         \/ \E m \in events : HandleSendMessageEvent(m)
         \/ Effects \/ KeepsMessages
<1> DEFINE Rest == /\ UNCHANGED <<room, stored, events, closure, disturbed>>
                   /\ state'.officialMessages = state.officialMessages
                   /\ state'.lastMessage = state.lastMessage
                   /\ committed' \in {committed, state}
           GoesOn == asked(fetches) => asked(fetches')
           Told(f) == f.query = "messages" /\ f.data # undefined =>
                        f \in fetches \/ f.data = findAll(f.room)
<1>0. closure \in PageState /\ fetches \subseteq Fetch /\ room \in Rooms /\ committed \in PageState
  BY DEF TypeOK
<1>1. ASSUME Rest, GoesOn, \A f \in fetches' : Told(f)
      PROVE  KeepsMessages
  BY <1>1 DEF KeepsMessages
<1>2. ASSUME fetches' = fetches
      PROVE  GoesOn /\ (\A f \in fetches' : Told(f))
  BY <1>2
<1>3. ASSUME NEW g, queryKey(g) # queryKey(messagesQuery(room, closure)), fetches' = fetches \ {g}
      PROVE  GoesOn /\ (\A f \in fetches' : Told(f))
  BY <1>3 DEF asked
<1>4. ASSUME NEW g, g.data = undefined, fetches' = withFetch(fetches, g)
      PROVE  GoesOn /\ (\A f \in fetches' : Told(f))
  <2>1. fetches \subseteq fetches' /\ fetches' \subseteq fetches \cup {g}
    BY <1>4, WithFetch, AskedFor
  <2>. QED
    BY <1>4, <2>1 DEF asked
<1>5. ASSUME Render \/ HandleSearchMessages \/ ChangeRoom
      PROVE  KeepsMessages
  <2>1. CASE Render \/ ChangeRoom
    <3>1. Rest /\ fetches' = fetches
      BY <2>1 DEF Render, ChangeRoom, page, react, server, history
    <3>. HIDE DEF Rest, GoesOn, Told
    <3>. QED
      BY <1>1, <1>2, <3>1
  <2>2. CASE HandleSearchMessages
    <3> DEFINE search == query("search", committed.roomCurrentSelected, none)
    <3>1. Rest /\ fetches' = withFetch(fetches, search) /\ search.data = undefined
      BY <2>2 DEF HandleSearchMessages, page, server, history, query
    <3>. HIDE DEF Rest, GoesOn, Told, search
    <3>. QED
      BY <1>1, <1>4, <3>1
  <2>. QED
    BY <1>5, <2>1, <2>2
<1>6. ASSUME \/ \E t \in timers : Timeout(t)
             \/ \E c \in changes : Changed(c)
             \/ OnGetMoreMsg \/ OpenRoomDetail \/ CloseRoomDetail
             \/ \E m \in 1..Len(stored) : OnRedirectSearch(m)
      PROVE  KeepsMessages
  <2>1. Rest
    <3>1. /\ state'.officialMessages = state.officialMessages
          /\ state'.lastMessage = state.lastMessage
          /\ UNCHANGED <<committed, closure, page, stored>>
      BY <1>6, KeepsLists
    <3>2. UNCHANGED <<events, disturbed>>
      BY <1>6 DEF Timeout, Changed, OnGetMoreMsg, OpenRoomDetail, CloseRoomDetail,
                  OnRedirectSearch, server, history
    <3>. QED
      BY <3>1, <3>2 DEF page
  <2>2. fetches' = fetches \/ fetches' = withFetch(fetches, detailQuery(room))
    BY <1>6 DEF Timeout, Changed, OnGetMoreMsg, OpenRoomDetail, CloseRoomDetail, OnRedirectSearch
  <2>3. detailQuery(room).data = undefined
    BY DEF detailQuery, query
  <2>. HIDE DEF Rest, GoesOn, Told
  <2>. QED
    BY <1>1, <1>2, <1>4, <2>1, <2>2, <2>3
<1>7. ASSUME NEW g \in fetches, DetailArrives(g)
      PROVE  KeepsMessages
  <2>1. Rest
    <3>1. /\ state'.officialMessages = state.officialMessages
          /\ state'.lastMessage = state.lastMessage
          /\ UNCHANGED <<committed, closure, page, stored>>
      BY <1>7, KeepsLists
    <3>2. UNCHANGED <<events, disturbed>>
      BY <1>7 DEF DetailArrives, server, history
    <3>. QED
      BY <3>1, <3>2 DEF page
  <2> DEFINE again == messagesQuery(room, closure)
  <2>2. /\ g.query # "messages" /\ again.data = undefined
        /\ \/ fetches' = fetches \ {g}
           \/ fetches' = withFetch(fetches \ {g}, again)
    BY <1>7 DEF DetailArrives, refetched, messagesQuery, query
  <2>3. queryKey(g) # queryKey(messagesQuery(room, closure))
    BY <2>2, Keys
  <2>. HIDE DEF again
  <2>4. fetches \ {g} \subseteq fetches' /\ fetches' \subseteq fetches \cup {again}
    BY <2>2, WithFetch, AskedFor
  <2>5. GoesOn /\ (\A f \in fetches' : Told(f))
    BY <2>2, <2>3, <2>4 DEF asked
  <2>. HIDE DEF Rest, GoesOn, Told
  <2>. QED
    BY <1>1, <2>1, <2>5
<1>8. ASSUME NEW g \in fetches, Answer(g)
      PROVE  KeepsMessages
  <2> DEFINE answer == [g EXCEPT !.data = findAll(g.room)]
  <2>1. Rest
    BY <1>8 DEF Answer, page, react, server, history
  <2>2. g \in Fetch /\ fetches' = (fetches \ {g}) \cup {answer}
    BY <1>0, <1>8 DEF Answer
  <2>3. /\ answer.query = g.query /\ answer.room = g.room /\ answer.lastRecord = g.lastRecord
        /\ answer.data = findAll(g.room)
    BY <2>2 DEF Fetch
  <2>. HIDE DEF answer
  <2>4. queryKey(answer) = queryKey(g)
    BY <2>3 DEF queryKey
  <2>5. GoesOn /\ (\A f \in fetches' : Told(f))
    BY <2>2, <2>3, <2>4 DEF asked
  <2>. HIDE DEF Rest, GoesOn, Told
  <2>. QED
    BY <1>1, <2>1, <2>5
<1>9. ASSUME NEW g \in fetches, SearchArrives(g) \/ (MessagesArrive(g) /\ ~Arrives(g))
      PROVE  KeepsMessages
  <2>1. Rest /\ fetches' = fetches \ {g}
    BY <1>9 DEF SearchArrives, MessagesArrive, Arrives, page, server, history
  <2>2. queryKey(g) # queryKey(messagesQuery(room, closure))
    BY <1>9, Keys DEF SearchArrives, Arrives
  <2>. HIDE DEF Rest, GoesOn, Told
  <2>. QED
    BY <1>1, <1>3, <2>1, <2>2
<1>10. ASSUME NEW c \in changes, ChangeFails(c)
       PROVE  KeepsMessages
  <2>1. Rest /\ fetches' = fetches
    BY <1>10 DEF ChangeFails, page, react, server, history
  <2>. HIDE DEF Rest, GoesOn, Told
  <2>. QED
    BY <1>1, <1>2, <2>1
<1>. HIDE DEF Rest, GoesOn, Told
<1>. QED
  BY <1>5, <1>6, <1>7, <1>8, <1>9, <1>10 DEF Next

\* What happened to the page is not forgotten before another is opened.
LEMMA DisturbedStays ==
  ASSUME TypeOK, Next, ~disturbed', ~\E r \in Rooms : OpenPage(r)
  PROVE  ~disturbed
<1>1. ASSUME NEW r, Store(r) \/ Effects
      PROVE  ~disturbed
  BY <1>1 DEF Store, Effects, history
<1>2. ASSUME NEW f, Fails(f) \/ Arrives(f)
      PROVE  ~disturbed
  BY <1>2 DEF Fails, Arrives, MessagesArrive
<1>3. ASSUME NEW m, HandleSendMessageEvent(m)
      PROVE  ~disturbed
  BY <1>3 DEF HandleSendMessageEvent
<1>4. ASSUME KeepsMessages
      PROVE  ~disturbed
  BY <1>4 DEF KeepsMessages
<1>. QED
  BY <1>1, <1>2, <1>3, <1>4, Steps

\* Events are put in front one at a time and in order.
LEMMA EventsStep ==
  ASSUME TypeOK, ListsFit, EventsAreInOrder, Next
  PROVE  EventsAreInOrder'
<1> DEFINE Seen == {state.lastMessage, committed.lastMessage, closure.lastMessage}
           One == committed.lastMessage \in {closure.lastMessage, state.lastMessage}
           First == \A m \in arriving \cap messagesOf(room) :
                      \A n \in messagesOf(room) \ {m} : n > m <=> n \in events
<1>0. /\ Seen \cap events = {} /\ (~disturbed => One /\ First)
      /\ state \in PageState /\ committed \in PageState /\ closure \in PageState
      /\ Seen \subseteq 0..Len(stored) /\ Len(stored) \in Nat /\ stored \in Seq(Rooms)
      /\ events \subseteq 1..Len(stored)
  BY DEF EventsAreInOrder, TypeOK, ListsFit, pageFits
<1>1. ASSUME Seen' \cap events' = {}, ~disturbed' => One' /\ First'
      PROVE  EventsAreInOrder'
  BY <1>1 DEF EventsAreInOrder
<1>2. ASSUME NEW r \in Rooms, Store(r)
      PROVE  EventsAreInOrder'
  <2> DEFINE n == Len(stored) + 1
  <2>1. /\ UNCHANGED <<state, committed, closure, room, disturbed>> /\ events' = events \cup {n}
        /\ Len(stored') = n /\ \A m \in 1..Len(stored) : stored'[m] = stored[m]
    BY <1>0, <1>2, AppendProperties DEF Store, page, react, history
  <2>2. n \notin 0..Len(stored) /\ \A m \in 0..Len(stored) : n > m
    BY <1>0
  <2>3. messagesOf(room)' \subseteq messagesOf(room) \cup {n}
    BY <1>0, <2>1 DEF messagesOf
  <2>. HIDE DEF n
  <2>4. Seen' \cap events' = {}
    BY <1>0, <2>1, <2>2
  <2>5. arriving' = arriving /\ arriving \subseteq Seen
    BY <2>1 DEF arriving
  <2>6. ASSUME ~disturbed'
        PROVE  One' /\ First'
    <3>1. One' /\ First
      BY <1>0, <2>1, <2>6
    <3>2. ASSUME NEW m \in arriving \cap messagesOf(room)', NEW o \in messagesOf(room)', o # m
          PROVE  o > m <=> o \in events'
      <4>1. m \in 0..Len(stored) /\ m # n
        BY <1>0, <2>2, <2>5, <3>2
      <4>2. m \in messagesOf(room)
        BY <2>3, <3>2, <4>1
      <4>3. CASE o = n
        BY <2>1, <2>2, <4>1, <4>3
      <4>4. CASE o # n
        <5>1. o \in messagesOf(room)
          BY <2>3, <3>2, <4>4
        <5>. QED
          BY <2>1, <3>1, <3>2, <4>2, <4>4, <5>1
      <4>. QED
        BY <4>3, <4>4
    <3>3. First'
      BY <2>5, <3>2
    <3>. QED
      BY <3>1, <3>3
  <2>. HIDE DEF Seen, One, First
  <2>. QED
    BY <1>1, <2>4, <2>6
<1>3. ASSUME NEW r \in Rooms, OpenPage(r)
      PROVE  EventsAreInOrder'
  <2>1. /\ state' = newPage /\ committed' = newPage /\ closure' = newPage /\ UNCHANGED server
        /\ newPage.lastMessage = 0
    BY <1>3 DEF OpenPage, mounted, newPage, none
  <2>2. Seen' \cap events' = {} /\ One' /\ arriving' = {}
    BY <1>0, <2>1 DEF server, arriving
  <2>3. First'
    BY <2>2
  <2>. HIDE DEF Seen, One, First
  <2>. QED
    BY <1>1, <2>2, <2>3
<1>4. ASSUME Effects
      PROVE  EventsAreInOrder'
  <2>1. /\ UNCHANGED <<committed, room, stored, events, disturbed>> /\ closure' = committed
        /\ state'.lastMessage = state.lastMessage
    <3>1. /\ UNCHANGED <<committed, room, stored, events, disturbed>> /\ closure' = committed
          /\ state' = state \/ \E s : state' = [state EXCEPT !.officialMessages = s]
      BY <1>4 DEF Effects, page, server, history
    <3>. QED
      BY <1>0, <3>1 DEF PageState
  <2>2. Seen' \cap events' = {} /\ One'
    BY <1>0, <2>1
  <2>3. ASSUME ~disturbed
        PROVE  arriving' \subseteq arriving
    BY <1>0, <2>1, <2>3 DEF arriving
  <2>4. ASSUME ~disturbed'
        PROVE  First'
    <3>1. First /\ arriving' \subseteq arriving /\ messagesOf(room)' = messagesOf(room)
      BY <1>0, <2>1, <2>3, <2>4 DEF messagesOf
    <3>. QED
      BY <2>1, <3>1
  <2>. HIDE DEF Seen, One, First
  <2>. QED
    BY <1>1, <2>2, <2>4
<1>5. ASSUME NEW m \in events, HandleSendMessageEvent(m)
      PROVE  EventsAreInOrder'
  <2>1. /\ UNCHANGED <<committed, closure, room, stored>> /\ events' = events \ {m}
        /\ state'.lastMessage = m
        /\ disturbed' = (\/ disturbed
                         \/ state.lastMessage # closure.lastMessage
                         \/ \E n \in 1..Len(stored) : /\ n # m /\ stored[n] = stored[m]
                                                      /\ (n < m) = (n \in events))
    BY <1>0, <1>5 DEF HandleSendMessageEvent, page, PageState
  <2>2. Seen' \cap events' = {}
    BY <1>0, <2>1
  <2>3. ASSUME ~disturbed'
        PROVE  One' /\ First'
    <3>1. /\ ~disturbed /\ state.lastMessage = closure.lastMessage
          /\ \A n \in 1..Len(stored) : n # m /\ stored[n] = stored[m] => ~((n < m) = (n \in events))
      BY <2>1, <2>3
    <3>2. One'
      BY <1>0, <2>1, <3>1
    <3>3. arriving' \subseteq {m} /\ messagesOf(room)' = messagesOf(room)
      BY <2>1 DEF arriving, messagesOf
    <3>4. ASSUME m \in messagesOf(room), NEW n \in messagesOf(room), n # m
          PROVE  n > m <=> n \in events'
      <4>1. n \in 1..Len(stored) /\ stored[n] = stored[m] /\ n \in Nat /\ m \in Nat
        BY <1>0, <3>4 DEF messagesOf
      <4>2. (n < m) \in BOOLEAN /\ (n \in events) \in BOOLEAN /\ ~((n < m) = (n \in events))
        BY <3>1, <3>4, <4>1
      <4>3. n < m <=> n \notin events
        BY <4>2
      <4>4. n > m <=> ~(n < m)
        BY <3>4, <4>1
      <4>. QED
        BY <2>1, <3>4, <4>3, <4>4
    <3>5. First'
      BY <3>3, <3>4
    <3>. QED
      BY <3>2, <3>5
  <2>. HIDE DEF Seen, One, First
  <2>. QED
    BY <1>1, <2>2, <2>3
<1>6. ASSUME NEW f \in fetches, Fails(f)
      PROVE  EventsAreInOrder'
  <2>1. disturbed' /\ UNCHANGED <<state, committed, closure, events>>
    BY <1>6 DEF Fails, react, server
  <2>. QED
    BY <1>0, <1>1, <2>1
<1>7. ASSUME KeepsMessages \/ \E f \in fetches : Arrives(f)
      PROVE  EventsAreInOrder'
  <2>1. /\ UNCHANGED <<room, stored, events, closure>> /\ state'.lastMessage = state.lastMessage
        /\ committed' \in {committed, state} /\ (disturbed => disturbed')
    <3>1. ASSUME NEW f \in fetches, Arrives(f)
          PROVE  /\ UNCHANGED <<room, stored, events, closure, committed>>
                 /\ state'.lastMessage = state.lastMessage /\ (disturbed => disturbed')
      BY <1>0, <3>1 DEF Arrives, MessagesArrive, page, server, PageState
    <3>. QED
      BY <1>7, <3>1 DEF KeepsMessages
  <2>2. Seen' \subseteq Seen /\ (~disturbed' => ~disturbed)
    BY <2>1
  <2>3. (One => One') /\ arriving' = arriving /\ messagesOf(room)' = messagesOf(room)
    BY <2>1 DEF arriving, messagesOf
  <2>4. First => First'
    BY <2>1, <2>3
  <2>5. Seen' \cap events' = {} /\ (~disturbed' => One' /\ First')
    BY <1>0, <2>1, <2>2, <2>3, <2>4
  <2>. HIDE DEF Seen, One, First
  <2>. QED
    BY <1>1, <2>5
<1>. QED
  BY <1>2, <1>3, <1>4, <1>5, <1>6, <1>7, Steps

\* A page without its room's detail goes on asking for it.
LEMMA DetailStep ==
  ASSUME TypeOK, OwnRoomOnly, DetailIsAskedFor, Next
  PROVE  DetailIsAskedFor'
<1> DEFINE Same == /\ UNCHANGED <<room, crossed>>
                   /\ state'.roomCurrentSelected = state.roomCurrentSelected
                   /\ \A f \in fetches : f.query = "detail" => f \in fetches'
<1>0. /\ state \in PageState /\ changes \subseteq (1..(MaxInputs + 1)) \X Rooms
      /\ fetches \subseteq Fetch
  BY DEF TypeOK
<1>1. ASSUME NEW r \in Rooms, OpenPage(r)
      PROVE  DetailIsAskedFor'
  <2> DEFINE before == withFetch(fetches, messagesQuery(r, newPage))
  <2>1. fetches' = withFetch(before, detailQuery(r))
    BY <1>1 DEF OpenPage
  <2>. HIDE DEF before
  <2>2. PICK g \in fetches' : queryKey(g) = queryKey(detailQuery(r))
    BY <2>1, AskedFor
  <2>3. queryKey(g) = <<"detail">>
    BY <2>2 DEF queryKey, detailQuery, query
  <2>4. g.query = "detail"
    <3>1. queryKey(g) = (IF g.query = "messages" THEN <<g.query, g.room, g.lastRecord>> ELSE <<g.query>>)
      BY DEF queryKey
    <3>2. Len(<<"detail">>) = 1 /\ Len(<<g.query, g.room, g.lastRecord>>) = 3
      OBVIOUS
    <3>3. <<g.query>> = <<"detail">>
      BY <2>3, <3>1, <3>2
    <3>. QED
      BY <3>3
  <2>. QED
    BY <2>4 DEF DetailIsAskedFor
<1>2. ASSUME NEW f \in fetches, Fails(f)
      PROVE  DetailIsAskedFor'
  BY <1>2 DEF Fails, DetailIsAskedFor
<1>3. ASSUME NEW f \in fetches, DetailArrives(f)
      PROVE  DetailIsAskedFor'
  <2>1. f.query = "detail" /\ state'.roomCurrentSelected = f.room /\ UNCHANGED <<room, crossed>>
    BY <1>0, <1>3 DEF DetailArrives, PageState, page, history
  <2>. QED
    BY <2>1 DEF OwnRoomOnly, DetailIsAskedFor
<1>4. ASSUME NEW c \in changes, Changed(c), ~crossed', c[1] = visit
      PROVE  DetailIsAskedFor'
  <2>1. state'.roomCurrentSelected = c[2] /\ UNCHANGED <<room, crossed>>
    BY <1>0, <1>4 DEF Changed, PageState, page, history
  <2>. QED
    BY <1>4, <2>1 DEF OwnRoomOnly, DetailIsAskedFor
<1>5. ASSUME Same, ~disturbed' => ~disturbed
      PROVE  DetailIsAskedFor'
  BY <1>5 DEF DetailIsAskedFor
<1>6. ASSUME Render \/ OnGetMoreMsg \/ OpenRoomDetail \/ CloseRoomDetail
             \/ HandleSearchMessages \/ ChangeRoom
      PROVE  Same
  <2>1. /\ UNCHANGED <<room, crossed>>
        /\ state'.roomCurrentSelected = state.roomCurrentSelected
    BY <1>0, <1>6 DEF Render, OnGetMoreMsg, OpenRoomDetail, CloseRoomDetail,
                      HandleSearchMessages, ChangeRoom, page, react, history, PageState
  <2>2. fetches' = fetches \/ \E f : fetches' = withFetch(fetches, f)
    BY <1>6 DEF Render, OnGetMoreMsg, OpenRoomDetail, CloseRoomDetail,
                HandleSearchMessages, ChangeRoom
  <2>. QED
    BY <2>1, <2>2, AskedFor
<1>7. ASSUME Effects
      PROVE  Same
  <2>1. /\ UNCHANGED <<room, crossed>>
        /\ state'.roomCurrentSelected = state.roomCurrentSelected
    BY <1>0, <1>7 DEF Effects, page, history, PageState
  <2>2. fetches' = fetches \/ \E f : fetches' = withFetch(fetches, f)
    BY <1>7 DEF Effects
  <2>. QED
    BY <2>1, <2>2, AskedFor
<1>8. ASSUME NEW f, Store(f) \/ Answer(f) \/ SearchArrives(f) \/ ChangeFails(f)
      PROVE  Same
  BY <1>8 DEF Store, Answer, SearchArrives, ChangeFails, page, react, history
<1>9. ASSUME NEW f, MessagesArrive(f)
      PROVE  Same
  BY <1>0, <1>9 DEF MessagesArrive, page, PageState
<1>10. ASSUME NEW t, \/ Timeout(t) \/ HandleSendMessageEvent(t) \/ OnRedirectSearch(t)
                     \/ Changed(t) /\ t[1] # visit
       PROVE  Same
  BY <1>0, <1>10 DEF Timeout, HandleSendMessageEvent, OnRedirectSearch, Changed,
                     page, history, PageState
<1>11. ASSUME NEW c \in changes, Changed(c), crossed'
       PROVE  DetailIsAskedFor'
  BY <1>11 DEF DetailIsAskedFor
<1>12. (~\E r \in Rooms : OpenPage(r)) => (~disturbed' => ~disturbed)
  BY DisturbedStays
<1>. HIDE DEF Same
<1>13. ~(\E r \in Rooms : OpenPage(r)) => DetailIsAskedFor'
  <2>1. ASSUME ~\E r \in Rooms : OpenPage(r), Same
        PROVE  DetailIsAskedFor'
    BY <1>5, <1>12, <2>1
  <2>. QED
    BY <1>2, <1>3, <1>4, <1>6, <1>7, <1>8, <1>9, <1>10, <1>11, <2>1 DEF Next
<1>. QED
  BY <1>1, <1>13

\* What a room's list has to do with messages that are stored.
LEMMA Stored ==
  ASSUME TypeOK, NEW r \in Rooms, stored' = Append(stored, r), room' = room
  PROVE  /\ messagesOf(room)' = messagesOf(room) \cup (IF r = room THEN {Len(stored) + 1} ELSE {})
         /\ Len(stored') = Len(stored) + 1
<1>1. /\ Len(stored) \in Nat /\ Len(stored') = Len(stored) + 1
      /\ \A m \in 1..Len(stored) : stored'[m] = stored[m]
      /\ stored'[Len(stored) + 1] = r
  BY AppendProperties DEF TypeOK
<1>2. 1..(Len(stored) + 1) = 1..Len(stored) \cup {Len(stored) + 1}
  BY <1>1
<1>. QED
  BY <1>1, <1>2 DEF messagesOf

\* What is known of the room are finitely many messages.
LEMMA Known ==
  ASSUME stored \in Seq(Rooms), NEW S, NEW seq \in Seq(S),
         NEW known, known \subseteq Range(seq) \cup messagesOf(room)
  PROVE  IsFiniteSet(known) /\ Cardinality(known) \in Nat
<1>1. newestFirst(room) \in Seq(messagesOf(room)) /\ Range(newestFirst(room)) = messagesOf(room)
  BY NewestFirst
<1>2. IsFiniteSet(Range(newestFirst(room)))
  BY <1>1, RangeSize
<1>3. IsFiniteSet(messagesOf(room)) /\ IsFiniteSet(Range(seq))
  BY <1>1, <1>2, RangeSize
<1>4. IsFiniteSet(Range(seq) \cup messagesOf(room))
  BY <1>3, FS_Union
<1>5. IsFiniteSet(known)
  BY <1>4, FS_Subset
<1>. QED
  BY <1>5, FS_CardinalityType

\* A step that leaves alone what the list depends on.
LEMMA NewestStays ==
  ASSUME TypeOK, ListIsNewest,
         UNCHANGED <<room, stored>>,
         state'.officialMessages = state.officialMessages,
         ~disturbed' => ~disturbed /\ pending' = pending,
         asked(fetches) => asked(fetches)',
         \A f \in fetches' : f.query = "messages" /\ f.data # undefined =>
           f \in fetches \/ f.data = findAll(f.room)
  PROVE  ListIsNewest'
<1> SUFFICES ASSUME ~disturbed', pendingAreNewest'
             PROVE  toldAreNewest' /\ isFull' /\ \A f \in fetches' : joinsOn(f)'
  BY DEF ListIsNewest
<1>1. messagesOf(room)' = messagesOf(room) /\ pending' = pending /\ told' = told /\ ~disturbed
  BY DEF messagesOf, told
<1>2. pendingAreNewest
  BY <1>1 DEF pendingAreNewest
<1>3. toldAreNewest /\ isFull /\ \A f \in fetches : joinsOn(f)
  BY <1>1, <1>2 DEF ListIsNewest
<1>4. toldAreNewest'
  BY <1>1, <1>3 DEF toldAreNewest
<1>5. isFull'
  BY <1>1, <1>3 DEF isFull, asked
<1>6. ASSUME NEW f \in fetches'
      PROVE  joinsOn(f)'
  <2>1. CASE f \in fetches
    BY <1>1, <1>3, <2>1 DEF joinsOn, answeredAt
  <2>2. ASSUME f.data = findAll(f.room), f.room = room
        PROVE  joinsOn(f)'
    <3>1. /\ Len(stored) \in Nat /\ stored \in Seq(Rooms)
          /\ messagesOf(room) \subseteq 1..Len(stored)
      BY Bounds, NewestFirst
    <3>2. PICK k : k = Len(stored)
      OBVIOUS
    <3>3. k \in Nat /\ k \in 0..Len(stored') /\ messagesOf(room) \subseteq 1..k
      BY <3>1, <3>2
    <3>4. /\ findAll(room) \in Seq(1..Len(stored)) /\ newestOf(findAll(room), messagesOf(room))
          /\ (Len(findAll(room)) = Limit \/ messagesOf(room) \subseteq Range(findAll(room)))
      BY <3>1, FindAll
    <3>5. /\ f.data \in Seq(1..k) /\ newestOf(f.data, messagesOf(room))
          /\ (Len(f.data) = Limit \/ messagesOf(room) \subseteq Range(f.data))
      BY <2>2, <3>2, <3>4
    <3>6. messagesOf(room) \cap 1..k = messagesOf(room) /\ Range(f.data) \subseteq 1..k
      BY <3>3, <3>5 DEF Range
    <3>7. answeredAt(f.data, k)
      BY <3>5, <3>6 DEF answeredAt
    <3>8. answeredAt(f.data, k)'
      BY <1>1, <3>7 DEF answeredAt
    <3>9. \A m \in told' : ~(m > k)
      BY <1>1, <3>3 DEF told
    <3>. QED
      BY <3>3, <3>8, <3>9 DEF joinsOn
  <2>. QED
    BY <2>1, <2>2 DEF joinsOn
<1>. QED
  BY <1>4, <1>5, <1>6

\* A message that is stored is one whose event is still to come.
LEMMA NewestStored ==
  ASSUME TypeOK, InputsAreCounted, ListsFit, EventsAreInOrder, ListIsNewest, NEW r \in Rooms, Store(r)
  PROVE  ListIsNewest'
<1> DEFINE n == Len(stored) + 1
           new == IF r = room THEN {n} ELSE {}
<1>1. /\ UNCHANGED <<state, closure, fetches, room, disturbed>> /\ stored' = Append(stored, r)
      /\ events' = events \cup {Len(stored')}
  BY DEF Store, page, react, history
<1>2. /\ messagesOf(room)' = messagesOf(room) \cup new /\ Len(stored') = n
      /\ Len(stored) \in Nat /\ messagesOf(room) \subseteq 1..Len(stored)
      /\ state.lastMessage \in 0..Len(stored)
  BY <1>1, Stored, Bounds, NewestFirst DEF ListsFit, pageFits
<1>3. n \notin 0..Len(stored) /\ n \notin messagesOf(room) /\ \A m \in 1..Len(stored) : n > m
  BY <1>2
<1>4. arriving' = arriving /\ arriving \subseteq {state.lastMessage}
  BY <1>1 DEF arriving
<1>5. pending' = pending \cup new
  BY <1>1, <1>2, <1>3, <1>4 DEF pending
<1>6. told' = told /\ told \subseteq messagesOf(room)
  BY <1>2, <1>3, <1>5 DEF told, pending
<1> SUFFICES ASSUME ~disturbed', pendingAreNewest'
             PROVE  toldAreNewest' /\ isFull' /\ \A f \in fetches' : joinsOn(f)'
  BY DEF ListIsNewest
<1>7. pendingAreNewest
  <2> SUFFICES ASSUME NEW m \in pending, NEW o \in messagesOf(room), o > m PROVE o \in pending
    BY DEF pendingAreNewest
  <2>1. o \in pending'
    BY <1>2, <1>5 DEF pendingAreNewest
  <2>. QED
    BY <1>3, <1>5, <2>1
<1>8. toldAreNewest /\ isFull /\ \A f \in fetches : joinsOn(f)
  BY <1>1, <1>7 DEF ListIsNewest
<1>9. toldAreNewest'
  BY <1>1, <1>6, <1>8 DEF toldAreNewest
<1>10. ASSUME NEW f \in fetches'
       PROVE  joinsOn(f)'
  <2> SUFFICES ASSUME f.query = "messages", f.room = room, f.data # undefined
               PROVE  joinsOn(f)'
    BY <1>1 DEF joinsOn
  <2>1. PICK k \in 0..Len(stored) : /\ answeredAt(f.data, k)
                                    /\ \A m \in told : m > k => m \in Range(state.officialMessages)
    BY <1>1, <1>8 DEF joinsOn
  <2>2. messagesOf(room)' \cap 1..k = messagesOf(room) \cap 1..k /\ k \in 0..Len(stored')
    BY <1>2, <1>3
  <2>3. answeredAt(f.data, k)'
    BY <2>1, <2>2 DEF answeredAt
  <2>. QED
    BY <1>1, <1>6, <2>1, <2>2, <2>3 DEF joinsOn
<1>11. isFull'
  <2> DEFINE before == Range(state.officialMessages) \cup pending
             after == Range(state'.officialMessages) \cup pending'
  <2>1. after = before \cup new
    BY <1>1, <1>5
  <2>2. CASE messagesOf(room) \subseteq before
    BY <1>2, <2>1, <2>2 DEF isFull
  <2>3. CASE Cardinality(before) >= Limit
    <3>1. IsFiniteSet(before) /\ Cardinality(before) \in Nat
      <4>1. state.officialMessages \in Seq(Message) /\ stored \in Seq(Rooms)
        BY DEF TypeOK, PageState
      <4>2. before \subseteq Range(state.officialMessages) \cup messagesOf(room)
        BY DEF pending
      <4>. HIDE DEF before
      <4>. QED
        BY <4>1, <4>2, Known
    <3>. HIDE DEF before, after
    <3>2. IsFiniteSet(after)
      <4>1. IsFiniteSet(before \cup {n})
        BY <3>1, FS_AddElement
      <4>2. after \subseteq before \cup {n}
        BY <2>1
      <4>. QED
        BY <4>1, <4>2, FS_Subset
    <3>3. Cardinality(before) <= Cardinality(after) /\ Cardinality(after) \in Nat
      BY <2>1, <3>2, FS_Subset, FS_CardinalityType
    <3>4. Cardinality(after) >= Limit
      BY <2>3, <3>1, <3>3, BoundsAssumption
    <3>. QED
      BY <3>4 DEF isFull, after
  <2>4. CASE asked(fetches)
    BY <1>1, <2>4 DEF isFull, asked
  <2>. QED
    BY <1>8, <2>2, <2>3, <2>4 DEF isFull, asked
<1>. QED
  BY <1>9, <1>10, <1>11

\* A page that is opened asks for its messages.
LEMMA NewestOpened ==
  ASSUME TypeOK, NEW r \in Rooms, OpenPage(r)
  PROVE  ListIsNewest'
<1> DEFINE messages == withFetch(fetches, messagesQuery(r, newPage))
<1>1. /\ state' = newPage /\ closure' = newPage /\ room' = r
      /\ fetches' = withFetch(messages, detailQuery(r))
      /\ disturbed' = (\E f \in fetches : f.query = "messages" /\ f.room = r)
  BY DEF OpenPage, mounted
<1>2. /\ messages \subseteq fetches'
      /\ fetches' \subseteq fetches \cup {messagesQuery(r, newPage), detailQuery(r)}
      /\ \E g \in messages : queryKey(g) = queryKey(messagesQuery(r, newPage))
  BY <1>1, WithFetch, AskedFor
<1>3. isFull'
  BY <1>1, <1>2 DEF isFull
<1>4. toldAreNewest'
  BY <1>1 DEF toldAreNewest, newestOf, newPage
<1>5. ASSUME NEW f \in fetches', ~disturbed'
      PROVE  joinsOn(f)'
  <2>1. messagesQuery(r, newPage).data = undefined /\ detailQuery(r).data = undefined
    BY DEF messagesQuery, detailQuery, query
  <2>. QED
    BY <1>1, <1>2, <1>5, <2>1 DEF joinsOn
<1>. QED
  BY <1>3, <1>4, <1>5 DEF ListIsNewest

\* An event is put in front of what was told.
LEMMA NewestWithEvent ==
  ASSUME TypeOK, ListsFit, EventsAreInOrder, ListIsNewest, Effects
  PROVE  ListIsNewest'
<1> DEFINE p == committed.lastMessage
           list == state.officialMessages
<1>1. /\ UNCHANGED <<committed, room, stored, events, disturbed>> /\ closure' = committed
      /\ fetches' = (IF committed.lastRecord # closure.lastRecord
                     THEN withFetch(fetches, messagesQuery(room, committed)) ELSE fetches)
  BY DEF Effects, page, server, history
<1>2. /\ state \in PageState /\ list \in Seq(Message) /\ list \in Seq(Nat)
      /\ p \in 0..Len(stored) /\ Len(stored) \in Nat
      /\ messagesOf(room)' = messagesOf(room) /\ messagesOf(room) \in SUBSET Nat
  <2>1. state \in PageState /\ p \in 0..Len(stored)
    BY DEF TypeOK, ListsFit, pageFits
  <2>2. Message \subseteq Nat /\ Len(stored) \in Nat /\ stored \in Seq(Rooms)
    BY Bounds
  <2>3. list \in Seq(Message)
    BY <2>1 DEF PageState
  <2>4. list \in Seq(Nat)
    BY <2>2, <2>3, SeqMonotonic
  <2>5. messagesOf(room)' = messagesOf(room) /\ messagesOf(room) \in SUBSET Nat
    BY <1>1, <2>2, NewestFirst DEF messagesOf
  <2>. QED
    BY <2>1, <2>2, <2>3, <2>4, <2>5
<1>3. asked(fetches) => asked(fetches)'
  <2>1. CASE committed.lastRecord # closure.lastRecord
    BY <1>1, <2>1, AskedFor DEF asked
  <2>2. CASE committed.lastRecord = closure.lastRecord
    <3>1. messagesQuery(room, committed) = messagesQuery(room, closure)
      BY <2>2 DEF messagesQuery
    <3>. QED
      BY <1>1, <2>2, <3>1 DEF asked
  <2>. QED
    BY <2>1, <2>2
<1>4. ASSUME NEW f \in fetches', f.data # undefined
      PROVE  f \in fetches
  <2>1. messagesQuery(room, committed).data = undefined
    BY DEF messagesQuery, query
  <2>. QED
    BY <1>1, <1>4, <2>1, WithFetch
<1>5. /\ p \notin events /\ state.lastMessage \notin events
      /\ ~disturbed => /\ p \in {closure.lastMessage, state.lastMessage}
                       /\ \A m \in arriving \cap messagesOf(room) :
                            \A n \in messagesOf(room) \ {m} : n > m <=> n \in events
  BY DEF EventsAreInOrder
<1>6. ASSUME state' = state, ~disturbed => pending' = pending
      PROVE  ListIsNewest'
  BY <1>1, <1>3, <1>4, <1>6, NewestStays
<1>7. CASE p = closure.lastMessage
  <2>1. state' = state
    BY <1>7 DEF Effects
  <2>2. pending' = pending
    BY <1>1, <1>2, <1>7, <2>1 DEF pending, arriving
  <2>. QED
    BY <1>6, <2>1, <2>2
<1>8. CASE p # closure.lastMessage /\ p \notin messagesOf(room)
  <2>1. state' = state
    BY <1>2, <1>8 DEF Effects, messagesOf, none
  <2>2. ASSUME ~disturbed
        PROVE  pending' = pending
    <3>1. p = state.lastMessage
      BY <1>5, <1>8, <2>2
    <3>2. arriving = {p} /\ arriving' = {}
      BY <1>1, <1>8, <2>1, <3>1 DEF arriving
    <3>. QED
      BY <1>1, <1>2, <1>8, <3>2 DEF pending
  <2>. QED
    BY <1>6, <2>1, <2>2
<1>9. CASE p # closure.lastMessage /\ p \in messagesOf(room)
  <2> DEFINE both == uniqBy(<<p>> \o list)
  <2> SUFFICES ASSUME ~disturbed', pendingAreNewest'
               PROVE  toldAreNewest' /\ isFull' /\ \A f \in fetches' : joinsOn(f)'
    BY DEF ListIsNewest
  <2>1. p \in 1..Len(stored) /\ stored[p] = room /\ p \notin {closure.lastMessage, none} /\ p \in Nat
    BY <1>2, <1>9 DEF messagesOf, none
  <2>2. state' = [state EXCEPT !.officialMessages = both]
    BY <2>1 DEF Effects
  <2>3. state'.officialMessages = both /\ state'.lastMessage = state.lastMessage
    BY <1>2, <2>2 DEF PageState
  <2>4. p = state.lastMessage
    BY <1>1, <1>5, <1>9
  <2>5. arriving = {p} /\ arriving' = {}
    BY <1>1, <1>9, <2>3, <2>4 DEF arriving
  <2>6. \A n \in messagesOf(room) \ {p} : n > p <=> n \in events
    BY <1>1, <1>5, <1>9, <2>5
  <2>7. pending' = messagesOf(room) \cap events /\ pending = pending' \cup {p} /\ p \notin pending'
    BY <1>1, <1>2, <1>5, <1>9, <2>5 DEF pending
  <2>8. told' = told \cup {p} /\ p \notin told /\ told \in SUBSET Nat
    BY <1>2, <1>9, <2>7 DEF told
  <2>9. pendingAreNewest
    <3> SUFFICES ASSUME NEW m \in pending, NEW n \in messagesOf(room), n > m PROVE n \in pending
      BY DEF pendingAreNewest
    <3>1. CASE m = p
      BY <2>6, <2>7, <3>1
    <3>2. CASE m # p
      BY <1>2, <2>7, <3>2 DEF pendingAreNewest
    <3>. QED
      BY <3>1, <3>2
  <2>10. toldAreNewest /\ isFull /\ \A f \in fetches : joinsOn(f)
    BY <1>1, <2>9 DEF ListIsNewest
  <2>11. \A n \in told : p > n
    <3> SUFFICES ASSUME NEW n \in told PROVE p > n
      OBVIOUS
    <3>1. n \in messagesOf(room) /\ n # p /\ n \notin events /\ n \in Nat
      BY <1>2, <2>7, <2>8 DEF told, pending
    <3>2. ~(n > p)
      BY <2>6, <3>1
    <3>. QED
      BY <2>1, <3>1, <3>2
  <2>12. newestOf(both, told \cup {p}) /\ Range(both) = Range(list) \cup {p}
    <3>1. newestOf(list, told)
      BY <2>10 DEF toldAreNewest
    <3>2. list \in Seq(Nat) /\ told \in SUBSET Nat /\ p \in Nat /\ p \notin told
      BY <1>2, <2>1, <2>8
    <3>. HIDE DEF p, list
    <3>. QED
      BY <2>11, <3>1, <3>2, NewestInFront, ZenonT(30)
  <2>. HIDE DEF both
  <2>13. toldAreNewest'
    BY <2>3, <2>8, <2>12 DEF toldAreNewest
  <2>14. Range(state'.officialMessages) \cup pending' = Range(list) \cup pending
    BY <2>3, <2>7, <2>12
  <2>15. isFull'
    BY <1>2, <1>3, <2>10, <2>14 DEF isFull, asked
  <2>16. ASSUME NEW f \in fetches'
         PROVE  joinsOn(f)'
    <3> SUFFICES ASSUME f.query = "messages", f.room = room, f.data # undefined
                 PROVE  joinsOn(f)'
      BY <1>1 DEF joinsOn
    <3>1. PICK k \in 0..Len(stored) : /\ answeredAt(f.data, k)
                                      /\ \A m \in told : m > k => m \in Range(list)
      BY <1>4, <2>10 DEF joinsOn
    <3>2. answeredAt(f.data, k)' /\ k \in 0..Len(stored')
      BY <1>1, <1>2, <3>1 DEF answeredAt
    <3>3. \A m \in told' : m > k => m \in Range(state'.officialMessages)
      BY <2>3, <2>8, <2>12, <3>1
    <3>. QED
      BY <3>2, <3>3 DEF joinsOn
  <2>. QED
    BY <2>13, <2>15, <2>16
<1>. QED
  BY <1>7, <1>8, <1>9

\* An answer is put behind what was told, or a jump puts it in its place.
LEMMA NewestWithAnswer ==
  ASSUME TypeOK, ListsFit, ListIsNewest, NEW f \in fetches, Arrives(f)
  PROVE  ListIsNewest'
<1> DEFINE list == state.officialMessages
           result == resultData(closure, f.data)
<1>1. /\ f.query = "messages" /\ f.room = room /\ f.data # undefined
      /\ queryKey(f) = queryKey(messagesQuery(room, closure))
  BY Keys DEF Arrives, MessagesArrive
<1>2. /\ UNCHANGED <<committed, closure, room, stored, events>> /\ fetches' = fetches \ {f}
      /\ state' = [state EXCEPT !.officialMessages = result]
      /\ disturbed' = (\/ disturbed
                       \/ list # closure.officialMessages
                       \/ closure.isJumpToMessages /\ overtakes(f))
  BY DEF Arrives, MessagesArrive, page, server
<1>3. /\ state \in PageState /\ list \in Seq(Message) /\ list \in Seq(Nat)
      /\ stored \in Seq(Rooms) /\ Len(stored) \in Nat
      /\ messagesOf(room) \in SUBSET Nat /\ messagesOf(room) \in SUBSET (1..Len(stored))
  <2>1. state \in PageState /\ Message \subseteq Nat /\ stored \in Seq(Rooms) /\ Len(stored) \in Nat
    BY Bounds DEF TypeOK
  <2>2. list \in Seq(Message)
    BY <2>1 DEF PageState
  <2>. QED
    BY <2>1, <2>2, NewestFirst, SeqMonotonic
<1>4. state'.officialMessages = result /\ state'.lastMessage = state.lastMessage
  BY <1>2, <1>3 DEF PageState
<1>5. messagesOf(room)' = messagesOf(room) /\ pending' = pending /\ told' = told
  BY <1>2, <1>4 DEF messagesOf, arriving, pending, told
<1>6. /\ f.data \in Seq(Message) /\ f.data \in Seq(Nat) /\ IsInjective(f.data)
      /\ Range(f.data) \subseteq messagesOf(room)
  <2>1. f.data \in Seq(Message) /\ onlyOnce(f.data, room)
    BY <1>1 DEF TypeOK, Fetch, ListsFit, dataFits
  <2>2. Range(f.data) \subseteq messagesOf(room)
    BY <2>1 DEF onlyOnce, Range, messagesOf
  <2>. QED
    BY <2>1, <2>2, Bounds, SeqMonotonic DEF onlyOnce
<1>7. result \in Seq(Message)
  BY <1>1, ResultData
<1> SUFFICES ASSUME ~disturbed', pendingAreNewest'
             PROVE  toldAreNewest' /\ isFull' /\ \A g \in fetches' : joinsOn(g)'
  BY DEF ListIsNewest
<1>8. /\ ~disturbed /\ list = closure.officialMessages
      /\ ~(closure.isJumpToMessages /\ overtakes(f))
  BY <1>2
<1>9. toldAreNewest /\ \A g \in fetches : joinsOn(g)
  <2>1. pendingAreNewest
    BY <1>5 DEF pendingAreNewest
  <2>. QED
    BY <1>8, <2>1 DEF ListIsNewest
<1>10. PICK k \in 0..Len(stored) : /\ answeredAt(f.data, k)
                                   /\ \A m \in told : m > k => m \in Range(list)
  BY <1>1, <1>9 DEF joinsOn
<1>. HIDE DEF list, result
<1>11. /\ k \in Nat /\ Range(f.data) \subseteq 1..k /\ newestOf(f.data, messagesOf(room) \cap 1..k)
       /\ (Len(f.data) = Limit \/ messagesOf(room) \cap 1..k \subseteq Range(f.data))
       /\ told \in SUBSET messagesOf(room) /\ newestOf(list, told)
  BY <1>3, <1>9, <1>10 DEF answeredAt, told, toldAreNewest, list
<1>12. ASSUME Range(f.data) \subseteq Range(result),
              \A m \in told : m > k => m \in Range(result)
       PROVE  isFull'
  <2> DEFINE known == Range(result) \cup pending
  <2>1. CASE Len(f.data) = Limit
    <3>1. Cardinality(Range(f.data)) = Limit
      BY <1>6, <2>1, RangeSize
    <3>2. known \subseteq Range(result) \cup messagesOf(room) /\ Range(f.data) \subseteq known
      BY <1>12 DEF pending
    <3>. HIDE DEF known
    <3>3. IsFiniteSet(known) /\ Cardinality(known) \in Nat
      BY <1>3, <1>7, <3>2, Known
    <3>4. Cardinality(Range(f.data)) <= Cardinality(known)
      BY <3>2, <3>3, FS_Subset
    <3>5. Cardinality(known) >= Limit
      BY <3>1, <3>3, <3>4, BoundsAssumption
    <3>. QED
      BY <1>4, <1>5, <3>5 DEF isFull, known
  <2>2. CASE messagesOf(room) \cap 1..k \subseteq Range(f.data)
    <3>1. ASSUME NEW m \in messagesOf(room)
          PROVE  m \in known
      <4>1. CASE m \in 1..k
        BY <1>12, <2>2, <4>1
      <4>2. CASE m \notin 1..k
        <5>1. m > k
          BY <1>3, <1>11, <4>2
        <5>. QED
          BY <1>12, <5>1 DEF told
      <4>. QED
        BY <4>1, <4>2
    <3>2. messagesOf(room) \subseteq known
      BY <3>1
    <3>. HIDE DEF known
    <3>. QED
      BY <1>4, <1>5, <3>2 DEF isFull, known
  <2>. QED
    BY <1>11, <2>1, <2>2
<1>13. CASE ~closure.isJumpToMessages
  <2>1. result = uniqBy(list \o f.data)
    BY <1>8, <1>13 DEF result, resultData, list
  <2>2. newestOf(result, told) /\ Range(result) = Range(list) \cup Range(f.data)
    <3> DEFINE S == messagesOf(room)
               data == f.data
    <3>1. S \in SUBSET Nat /\ told \in SUBSET S /\ k \in Nat
      BY <1>3, <1>11
    <3>2. list \in Seq(Nat) /\ newestOf(list, told)
      BY <1>3, <1>11 DEF list
    <3>3. data \in Seq(Nat) /\ newestOf(data, S \cap 1..k)
      BY <1>6, <1>11
    <3>4. Range(data) \subseteq S \cap 1..k
      BY <1>6, <1>11
    <3>5. \A m \in told : m > k => m \in Range(list)
      BY <1>10 DEF list
    <3>. HIDE DEF S, data
    <3>6. newestOf(uniqBy(list \o data), told)
      BY <3>1, <3>2, <3>3, <3>4, <3>5, NewestBehind
    <3>7. Range(uniqBy(list \o data)) = Range(list) \cup Range(data)
      <4>1. putBehind(list, data, uniqBy(list \o data))
        BY <3>2, <3>3, Behind
      <4>. QED
        BY <4>1 DEF putBehind
    <3>. QED
      BY <2>1, <3>6, <3>7 DEF data
  <2>3. toldAreNewest'
    BY <1>4, <1>5, <2>2 DEF toldAreNewest, result
  <2>4. isFull'
    BY <1>10, <1>12, <2>2
  <2>5. ASSUME NEW g \in fetches'
        PROVE  joinsOn(g)'
    <3> SUFFICES ASSUME g.query = "messages", g.room = room, g.data # undefined
                 PROVE  joinsOn(g)'
      BY <1>2 DEF joinsOn
    <3>1. PICK l \in 0..Len(stored) : /\ answeredAt(g.data, l)
                                      /\ \A m \in told : m > l => m \in Range(list)
      BY <1>2, <1>9 DEF joinsOn, list
    <3>2. answeredAt(g.data, l)' /\ l \in 0..Len(stored')
      BY <1>2, <1>5, <3>1 DEF answeredAt
    <3>3. \A m \in told' : m > l => m \in Range(state'.officialMessages)
      BY <1>4, <1>5, <2>2, <3>1 DEF result
    <3>. QED
      BY <3>2, <3>3 DEF joinsOn
  <2>. QED
    BY <2>3, <2>4, <2>5
<1>14. CASE closure.isJumpToMessages
  <2>1. result = f.data /\ ~overtakes(f)
    BY <1>8, <1>14 DEF result, resultData
  <2>2. ASSUME NEW m \in told
        PROVE  ~(m > k)
    <3> SUFFICES ASSUME m > k PROVE FALSE
      OBVIOUS
    <3>1. m \in Range(list)
      BY <1>10
    <3>2. PICK n \in Range(f.data) : ~(n < m)
      BY <1>8, <2>1, <3>1 DEF overtakes, list
    <3>3. n \in Nat /\ n <= k /\ m \in Nat
      BY <1>3, <1>11
    <3>. QED
      BY <1>11, <3>2, <3>3
  <2>3. told \subseteq messagesOf(room) \cap 1..k
    <3>1. \A m \in told : m \in 1..k
      BY <1>3, <1>11, <2>2
    <3>. QED
      BY <1>11, <3>1
  <2>4. newestOf(result, told)
    BY <1>11, <2>1, <2>3, NewestOfFewer
  <2>5. toldAreNewest'
    BY <1>4, <1>5, <2>4 DEF toldAreNewest
  <2>6. isFull'
    BY <1>12, <2>1, <2>2
  <2>7. ASSUME NEW g \in fetches'
        PROVE  joinsOn(g)'
    BY <1>2, <2>1 DEF joinsOn, overtakes
  <2>. QED
    BY <2>5, <2>6, <2>7
<1>. QED
  BY <1>13, <1>14

\* The newest of what was told stays in the list.
LEMMA NewestStep ==
  ASSUME TypeOK, InputsAreCounted, ListsFit, EventsAreInOrder, ListIsNewest, Next
  PROVE  ListIsNewest'
<1>1. ASSUME NEW f \in fetches, Fails(f)
      PROVE  ListIsNewest'
  BY <1>1 DEF Fails, ListIsNewest
<1>2. ASSUME NEW m \in events, HandleSendMessageEvent(m)
      PROVE  ListIsNewest'
  <2>1. /\ UNCHANGED <<closure, room, stored, fetches>> /\ events' = events \ {m}
        /\ state' = [state EXCEPT !.lastMessage = m]
        /\ ~disturbed' => ~disturbed /\ state.lastMessage = closure.lastMessage
    BY <1>2 DEF HandleSendMessageEvent, page
  <2>2. state'.officialMessages = state.officialMessages /\ state'.lastMessage = m
    BY <2>1 DEF TypeOK, PageState
  <2>3. m # closure.lastMessage
    BY DEF EventsAreInOrder
  <2>4. ASSUME ~disturbed'
        PROVE  pending' = pending
    <3>1. arriving = {} /\ arriving' = {m} /\ messagesOf(room)' = messagesOf(room)
      BY <2>1, <2>2, <2>3, <2>4 DEF arriving, messagesOf
    <3>. QED
      BY <2>1, <3>1 DEF pending
  <2>5. asked(fetches) => asked(fetches)'
    BY <2>1 DEF asked
  <2>. QED
    BY <2>1, <2>2, <2>4, <2>5, NewestStays
<1>3. ASSUME KeepsMessages
      PROVE  ListIsNewest'
  <2>1. /\ UNCHANGED <<room, stored, events, closure, disturbed>>
        /\ state'.officialMessages = state.officialMessages
        /\ state'.lastMessage = state.lastMessage
        /\ (asked(fetches) => asked(fetches'))
        /\ \A f \in fetches' : f.query = "messages" /\ f.data # undefined =>
             f \in fetches \/ f.data = findAll(f.room)
    BY <1>3 DEF KeepsMessages
  <2>2. pending' = pending
    BY <2>1 DEF pending, arriving, messagesOf
  <2>3. asked(fetches) => asked(fetches)'
    BY <2>1 DEF asked
  <2>. QED
    BY <2>1, <2>2, <2>3, NewestStays
<1>. QED
  BY <1>1, <1>2, <1>3, Steps, NewestStored, NewestOpened, NewestWithEvent, NewestWithAnswer

-----------------------------------------------------------------------------
\* Types, lists and rooms stay in order.
THEOREM Invariance == Spec => []IInv
<1>1. ASSUME IInv, Next
      PROVE  IInv'
  <2>0. TypeOK /\ InputsAreCounted /\ ListsFit
    BY <1>1 DEF IInv
  <2>1. TypeOK'
    <3>1. fetches' \subseteq Fetch
      BY <1>1, <2>0, FetchStep
    <3>. QED
      BY <1>1, <2>0, <3>1, CountStep, PageStep, RestStep DEF TypeOK
  <2>2. InputsAreCounted'
    BY <1>1, <2>0, CountStep
  <2>3. ListsFit'
    BY <1>1, <2>0, PageStep, FetchStep DEF ListsFit
  <2>4. OwnRoomOnly' /\ DetailIsAskedFor'
    BY <1>1, OwnRoomStep, DetailStep DEF IInv
  <2>5. EventsAreInOrder' /\ ListIsNewest'
    BY <1>1, EventsStep, NewestStep DEF IInv
  <2>. QED
    BY <2>1, <2>2, <2>3, <2>4, <2>5 DEF IInv
<1>2. ASSUME IInv, UNCHANGED vars
      PROVE  IInv'
  <2> USE <1>2 DEF IInv, vars, page, react, server, history
  <2>1. TypeOK' /\ InputsAreCounted'
    BY DEF TypeOK, InputsAreCounted
  <2>2. ListsFit'
    BY DEF ListsFit, pageFits, dataFits, onlyOnce
  <2>3. OwnRoomOnly' /\ DetailIsAskedFor'
    BY DEF OwnRoomOnly, DetailIsAskedFor
  <2>4. EventsAreInOrder'
    BY DEF EventsAreInOrder, arriving, messagesOf
  <2>5. ListIsNewest'
    <3>1. TypeOK /\ ListIsNewest /\ (asked(fetches) => asked(fetches)') /\ pending' = pending
      BY DEF asked, pending, arriving, messagesOf
    <3>. QED
      BY <3>1, NewestStays
  <2>. QED
    BY <2>1, <2>2, <2>3, <2>4, <2>5
<1>3. IInv /\ [Next]_vars => IInv'
  BY <1>1, <1>2
<1>. QED
  BY InitInvariant, <1>3, PTL DEF Spec

\* What the tab of a page keeps has its types.
THEOREM TypeCorrect == Spec => []TypeOK
<1>1. IInv => TypeOK
  BY DEF IInv
<1>. QED
  BY Invariance, <1>1, PTL

\* However pages, events and answers of queries mix, the list shows each message once
\* and only messages of the page's room.
THEOREM NoMessageTwice == Spec => []ShownOnce
<1>1. IInv => ShownOnce
  BY DEF IInv, ListsFit, pageFits, onlyOnce, ShownOnce, Range
<1>. QED
  BY Invariance, <1>1, PTL

\* The detail and the search results shown, and the room that changes go to, are of the
\* page's room, unless a fetch under a key without room was in flight when the page was
\* opened.
THEOREM NoForeignDetail == Spec => []DetailIsOfRoom
<1>1. IInv => DetailIsOfRoom
  BY DEF IInv, OwnRoomOnly, DetailIsOfRoom
<1>. QED
  BY Invariance, <1>1, PTL
\* When nothing is under way any more, the page shows its room's detail and the room's
\* newest messages, newest first and without a gap: the answers of overlapping queries,
\* which are appended, and the events, which go in front, fit together.
THEOREM QuietPage == Spec => []QuietPageIsNewest
<1>1. ASSUME IInv
      PROVE  QuietPageIsNewest
  <2> SUFFICES ASSUME quiet, ~disturbed, ~crossed, \A m \in events : stored[m] # room
               PROVE  /\ state.roomCurrentSelected = room
                      /\ IsPrefix(state.officialMessages, newestFirst(room))
                      /\ IsPrefix(findAll(room), state.officialMessages)
    BY DEF QuietPageIsNewest
  <2> DEFINE list == state.officialMessages
             found == messagesOf(room)
  <2>1. /\ TypeOK /\ ListsFit /\ ListIsNewest /\ DetailIsAskedFor
        /\ stored \in Seq(Rooms) /\ state \in PageState
    BY <1>1 DEF IInv, TypeOK
  <2>2. state.roomCurrentSelected = room
    BY <2>1 DEF DetailIsAskedFor, quiet
  <2>3. pending = {} /\ told = found
    BY DEF quiet, arriving, pending, told, messagesOf
  <2>4. toldAreNewest /\ isFull
    BY <2>1, <2>3 DEF ListIsNewest, pendingAreNewest
  <2>5. list \in Seq(found) /\ newestOf(list, found)
    <3>1. list \in Seq(Message) /\ \A k \in DOMAIN list : list[k] \in found
      BY <2>1 DEF PageState, ListsFit, pageFits, onlyOnce, messagesOf
    <3>. HIDE DEF found
    <3>2. list \in Seq(found)
      BY <3>1
    <3>. QED
      BY <2>3, <2>4, <3>2 DEF toldAreNewest
  <2>6. /\ found \in SUBSET Nat /\ newestFirst(room) \in Seq(found)
        /\ newestOf(newestFirst(room), found) /\ found \subseteq Range(newestFirst(room))
    BY <2>1, NewestFirst
  <2>7. /\ findAll(room) \in Seq(found) /\ newestOf(findAll(room), found)
        /\ Len(findAll(room)) <= Limit
    BY <2>1, FindAll
  <2>8. found \subseteq Range(list) \/ Cardinality(Range(list)) >= Limit
    BY <2>3, <2>4 DEF isFull, quiet
  <2>. HIDE DEF list, found
  <2>9. Len(findAll(room)) <= Len(list) \/ found \subseteq Range(list)
    <3>1. Len(findAll(room)) \in Nat /\ Len(list) \in Nat
      BY <2>5, <2>7
    <3>2. Cardinality(Range(list)) \in Nat /\ Cardinality(Range(list)) <= Len(list)
      BY <2>5, RangeSize
    <3>. QED
      BY <2>7, <2>8, <3>1, <3>2, BoundsAssumption
  <2>10. IsPrefix(list, newestFirst(room))
    BY <2>5, <2>6, NewestIsPrefix
  <2>11. IsPrefix(findAll(room), list)
    BY <2>5, <2>6, <2>7, <2>9, NewestIsPrefix
  <2>. QED
    BY <2>2, <2>10, <2>11 DEF list
<1>2. IInv => QuietPageIsNewest
  BY <1>1
<1>. QED
  BY Invariance, <1>2, PTL
=============================================================================
