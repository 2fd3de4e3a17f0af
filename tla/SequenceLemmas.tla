--------------------------- MODULE SequenceLemmas ---------------------------
(***************************************************************************)
(* Lemmas about the numbers, sequences and frames that the models are      *)
(* built from.  What a recursive function computes is shown by induction   *)
(* on the set of the numbers it is right for.                              *)
(***************************************************************************)
EXTENDS SerialFrames, WellFoundedInduction, SequenceTheorems, FiniteSetTheorems, TLAPS

-----------------------------------------------------------------------------
(* Numbers *)

(* A non-empty set of natural numbers has a least element. *)
LEMMA LeastElement ==
  ASSUME NEW S \in SUBSET Nat, S # {}
  PROVE  \E m \in S : \A k \in S : m <= k
<1>1. PICK m \in S : \A k \in S : ~ (<<k, m>> \in OpToRel(<, Nat))
  BY NatLessThanWellFounded, WFMin
<1>2. \A k \in S : <<k, m>> \in Nat \X Nat
  OBVIOUS
<1>3. \A k \in S : ~ (k < m)
  BY <1>1, <1>2 DEF OpToRel
<1> QED BY <1>3

(* A set with zero and every successor up to n has the numbers up to n. *)
LEMMA Induction ==
  ASSUME NEW n \in Nat, NEW T, 0 \in T, \A k \in 0..(n - 1) : k \in T => k + 1 \in T
  PROVE  \A k \in 0..n : k \in T
<1> DEFINE S == {k \in 0..n : k \notin T}
<1> SUFFICES ASSUME S # {} PROVE FALSE
  OBVIOUS
<1>1. S \in SUBSET Nat
  OBVIOUS
<1> HIDE DEF S
<1>2. PICK m \in S : \A k \in S : m <= k
  BY <1>1, LeastElement
<1>3. m \in 0..n /\ m \notin T
  BY <1>2 DEF S
<1>4. m # 0 /\ m - 1 \in 0..(n - 1)
  BY <1>3
<1>5. ~ (m <= m - 1)
  BY <1>3
<1>6. m - 1 \notin S
  BY <1>2, <1>5
<1>7. m - 1 \in T
  BY <1>3, <1>4, <1>6 DEF S
<1>8. (m - 1) + 1 = m
  BY <1>3
<1>9. (m - 1) + 1 \in T
  BY <1>4, <1>7
<1> QED BY <1>3, <1>8, <1>9

-----------------------------------------------------------------------------
(* Parts of a sequence: some of its elements are left out *)

(* The places in t of the elements of s. *)
IsEmbedding(g, s, t) ==
  /\ g \in [1..Len(s) -> 1..Len(t)]
  /\ \A i \in 1..Len(s) : s[i] = t[g[i]]
  /\ \A i, j \in 1..Len(s) : i < j => g[i] < g[j]

IsPart(s, t) == \E g : IsEmbedding(g, s, t)

(* A sequence is a part of itself. *)
LEMMA PartOfItself ==
  ASSUME NEW S, NEW s \in Seq(S)
  PROVE  IsPart(s, s)
<1>1. IsEmbedding([i \in 1..Len(s) |-> i], s, s)
  BY DEF IsEmbedding
<1> QED BY <1>1 DEF IsPart

(* The empty sequence is a part of any other. *)
LEMMA EmptyPart ==
  ASSUME NEW t
  PROVE  IsPart(<<>>, t)
<1>1. Len(<<>>) = 0
  OBVIOUS
<1>2. IsEmbedding([i \in 1..0 |-> i], <<>>, t)
  BY <1>1 DEF IsEmbedding
<1> QED BY <1>2 DEF IsPart

(* A part of a part is a part. *)
LEMMA PartOfPart ==
  ASSUME NEW S, NEW s \in Seq(S), NEW t \in Seq(S), NEW u \in Seq(S), IsPart(s, t), IsPart(t, u)
  PROVE  IsPart(s, u)
<1>1. PICK g : IsEmbedding(g, s, t)
  BY DEF IsPart
<1>2. PICK h : IsEmbedding(h, t, u)
  BY DEF IsPart
<1> DEFINE k == [i \in 1..Len(s) |-> h[g[i]]]
<1>3. k \in [1..Len(s) -> 1..Len(u)] /\ \A i \in 1..Len(s) : s[i] = u[k[i]]
  BY <1>1, <1>2 DEF IsEmbedding
<1>4. \A i, j \in 1..Len(s) : i < j => k[i] < k[j]
  BY <1>1, <1>2 DEF IsEmbedding
<1> HIDE DEF k
<1>5. IsEmbedding(k, s, u)
  BY <1>3, <1>4 DEF IsEmbedding
<1> QED BY <1>5 DEF IsPart

(* The first elements of a sequence. *)
LEMMA PrefixIsPart ==
  ASSUME NEW S, NEW s \in Seq(S), NEW k \in 0..Len(s)
  PROVE  SubSeq(s, 1, k) \in Seq(S) /\ IsPart(SubSeq(s, 1, k), s)
<1>1. /\ SubSeq(s, 1, k) \in Seq(S) /\ Len(SubSeq(s, 1, k)) = k
      /\ \A i \in 1..k : SubSeq(s, 1, k)[i] = s[i]
  <2>1. k \in Int /\ Len(s) \in Nat /\ \A i \in 1..k : s[i] \in S
    OBVIOUS
  <2> QED BY <2>1, SubSeqProperties
<1>2. IsEmbedding([i \in 1..k |-> i], SubSeq(s, 1, k), s)
  BY <1>1 DEF IsEmbedding
<1> QED BY <1>1, <1>2 DEF IsPart

(* Parts of two sequences, one behind the other, are a part of the two     *)
(* sequences one behind the other.                                         *)
LEMMA PartsConcat ==
  ASSUME NEW S, NEW s \in Seq(S), NEW t \in Seq(S), NEW u \in Seq(S), NEW v \in Seq(S),
         IsPart(s, u), IsPart(t, v)
  PROVE  IsPart(s \o t, u \o v)
<1>1. PICK g : IsEmbedding(g, s, u)
  BY DEF IsPart
<1>2. PICK h : IsEmbedding(h, t, v)
  BY DEF IsPart
<1>3. /\ Len(s) \in Nat /\ Len(t) \in Nat /\ Len(u) \in Nat /\ Len(v) \in Nat
      /\ Len(s \o t) = Len(s) + Len(t) /\ Len(u \o v) = Len(u) + Len(v)
      /\ \A i \in 1..(Len(s) + Len(t)) :
           (s \o t)[i] = IF i <= Len(s) THEN s[i] ELSE t[i - Len(s)]
      /\ \A i \in 1..(Len(u) + Len(v)) :
           (u \o v)[i] = IF i <= Len(u) THEN u[i] ELSE v[i - Len(u)]
  BY ConcatProperties, LenProperties
<1> DEFINE k == [i \in 1..(Len(s) + Len(t)) |->
                   IF i <= Len(s) THEN g[i] ELSE Len(u) + h[i - Len(s)]]
<1>4. ASSUME NEW i \in 1..(Len(s) + Len(t))
      PROVE  /\ i <= Len(s) => k[i] = g[i] /\ k[i] \in 1..Len(u)
             /\ ~(i <= Len(s)) => /\ k[i] = Len(u) + h[i - Len(s)]
                                  /\ k[i] \in (Len(u) + 1)..(Len(u) + Len(v))
             /\ (s \o t)[i] = (u \o v)[k[i]]
  <2>1. CASE i <= Len(s)
    <3>1. i \in 1..Len(s) /\ k[i] = g[i]
      BY <1>3, <2>1
    <3>2. g[i] \in 1..Len(u) /\ s[i] = u[g[i]]
      BY <1>1, <3>1 DEF IsEmbedding
    <3>3. g[i] \in 1..(Len(u) + Len(v)) /\ g[i] <= Len(u)
      BY <1>3, <3>2
    <3> QED BY <1>3, <2>1, <3>1, <3>2, <3>3
  <2>2. CASE ~(i <= Len(s))
    <3>1. i - Len(s) \in 1..Len(t) /\ k[i] = Len(u) + h[i - Len(s)]
      BY <1>3, <2>2
    <3>2. h[i - Len(s)] \in 1..Len(v) /\ t[i - Len(s)] = v[h[i - Len(s)]]
      BY <1>2, <3>1 DEF IsEmbedding
    <3> HIDE DEF k
    <3>3. /\ k[i] \in 1..(Len(u) + Len(v)) /\ ~(k[i] <= Len(u))
          /\ k[i] - Len(u) = h[i - Len(s)]
          /\ k[i] \in (Len(u) + 1)..(Len(u) + Len(v))
      BY <1>3, <3>1, <3>2
    <3> QED BY <1>3, <2>2, <3>1, <3>2, <3>3
  <2> QED BY <2>1, <2>2
<1>5. DOMAIN k = 1..Len(s \o t)
  BY <1>3
<1>6. k = [i \in 1..Len(s \o t) |-> k[i]]
  BY <1>3
<1> HIDE DEF k
<1>7. \A i \in 1..Len(s \o t) : k[i] \in 1..Len(u \o v)
  BY <1>3, <1>4
<1>8. ASSUME NEW i \in 1..Len(s \o t), NEW j \in 1..Len(s \o t), i < j
      PROVE  k[i] < k[j]
  <2>1. CASE j <= Len(s)
    <3>1. i \in 1..Len(s) /\ j \in 1..Len(s)
      BY <1>3, <1>8, <2>1
    <3>2. g[i] < g[j]
      BY <1>1, <1>8, <3>1 DEF IsEmbedding
    <3> QED BY <1>3, <1>4, <3>1, <3>2
  <2>2. CASE ~(j <= Len(s)) /\ i <= Len(s)
    BY <1>3, <1>4, <2>2
  <2>3. CASE ~(i <= Len(s))
    <3>1. i - Len(s) \in 1..Len(t) /\ j - Len(s) \in 1..Len(t) /\ i - Len(s) < j - Len(s)
      BY <1>3, <1>8, <2>3
    <3>2. /\ h[i - Len(s)] < h[j - Len(s)]
          /\ h[i - Len(s)] \in 1..Len(v) /\ h[j - Len(s)] \in 1..Len(v)
      BY <1>2, <3>1 DEF IsEmbedding
    <3>3. ~(j <= Len(s))
      BY <1>3, <1>8, <2>3
    <3>4. k[i] = Len(u) + h[i - Len(s)] /\ k[j] = Len(u) + h[j - Len(s)]
      BY <1>3, <1>4, <2>3, <3>3
    <3> QED BY <1>3, <3>2, <3>4
  <2> QED BY <2>1, <2>2, <2>3
<1>9. IsEmbedding(k, s \o t, u \o v)
  BY <1>3, <1>4, <1>6, <1>7, <1>8 DEF IsEmbedding
<1> QED BY <1>9 DEF IsPart

-----------------------------------------------------------------------------
(* Functions that are defined by recursion on numbers                      *)

(* The function that starts with base and goes on with step. *)
Recurs(f, n, base, step) ==
  f[0] = base /\ \A k \in 1..n : f[k] = step[<<f[k - 1], k>>]

(* There is such a function. *)
LEMMA RecursionExists ==
  ASSUME NEW N \in Nat, NEW S, NEW base \in S, NEW step \in [S \X (1..N) -> S]
  PROVE  \E f \in [0..N -> S] : Recurs(f, N, base, step)
<1> DEFINE T == {n \in 0..N : \E f \in [0..n -> S] : Recurs(f, n, base, step)}
<1>1. 0 \in T
  <2> DEFINE f == [k \in 0..0 |-> base]
  <2>1. f \in [0..0 -> S] /\ Recurs(f, 0, base, step)
    BY DEF Recurs
  <2> QED BY <2>1
<1>2. ASSUME NEW n \in 0..(N - 1), n \in T PROVE n + 1 \in T
  <2>1. PICK f \in [0..n -> S] : Recurs(f, n, base, step)
    BY <1>2
  <2>2. PICK x \in S : x = step[<<f[n], n + 1>>]
    <3>1. f[n] \in S /\ n + 1 \in 1..N
      OBVIOUS
    <3> QED BY <3>1
  <2> DEFINE g == [k \in 0..(n + 1) |-> IF k = n + 1 THEN x ELSE f[k]]
  <2>3. g \in [0..(n + 1) -> S] /\ g[0] = f[0]
    OBVIOUS
  <2>4. ASSUME NEW k \in 1..(n + 1) PROVE g[k] = step[<<g[k - 1], k>>]
    <3>1. CASE k = n + 1
      <4>1. g[n + 1] = x /\ g[n] = f[n]
        OBVIOUS
      <4>2. k - 1 = n
        BY <3>1
      <4> HIDE DEF g
      <4> QED BY <2>2, <3>1, <4>1, <4>2
    <3>2. CASE k # n + 1
      <4>1. k \in 1..n /\ g[k] = f[k] /\ g[k - 1] = f[k - 1]
        BY <3>2
      <4> QED BY <2>1, <4>1 DEF Recurs
    <3> QED BY <3>1, <3>2
  <2> HIDE DEF g
  <2>5. Recurs(g, n + 1, base, step)
    BY <2>1, <2>3, <2>4 DEF Recurs
  <2>6. n + 1 \in 0..N
    OBVIOUS
  <2> QED BY <2>3, <2>5, <2>6
<1> HIDE DEF T
<1>3. \A n \in 0..N : n \in T
  BY <1>1, <1>2, Induction
<1>4. N \in T
  BY <1>3
<1> QED BY <1>4 DEF T

RecursForEver(f, base, step) ==
  f[0] = base /\ \A k \in Nat \ {0} : f[k] = step[<<f[k - 1], k>>]

(* So is there one on all numbers. *)
LEMMA RecursionOnNat ==
  ASSUME NEW S, NEW base \in S, NEW step \in [S \X Nat -> S]
  PROVE  \E f \in [Nat -> S] : RecursForEver(f, base, step)
<1> DEFINE upto(n) == CHOOSE f \in [0..n -> S] : Recurs(f, n, base, step)
<1>1. ASSUME NEW n \in Nat
      PROVE  upto(n) \in [0..n -> S] /\ Recurs(upto(n), n, base, step)
  <2> DEFINE bounded == [x \in S \X (1..n) |-> step[x]]
  <2>1. bounded \in [S \X (1..n) -> S]
    OBVIOUS
  <2>2. \A y \in S, k \in 1..n : bounded[<<y, k>>] = step[<<y, k>>]
    OBVIOUS
  <2> HIDE DEF bounded
  <2>3. PICK f \in [0..n -> S] : Recurs(f, n, base, bounded)
    BY <2>1, RecursionExists
  <2>4. \A k \in 1..n : f[k - 1] \in S
    OBVIOUS
  <2>5. Recurs(f, n, base, step)
    BY <2>2, <2>3, <2>4 DEF Recurs
  <2> QED BY <2>5
<1> HIDE DEF upto
<1>2. ASSUME NEW n \in Nat PROVE upto(n + 1)[n] = upto(n)[n]
  <2> DEFINE T == {k \in 0..n : upto(n + 1)[k] = upto(n)[k]}
  <2>1. n + 1 \in Nat
    OBVIOUS
  <2>2. Recurs(upto(n + 1), n + 1, base, step) /\ Recurs(upto(n), n, base, step)
    BY <1>1, <2>1
  <2>3. 0 \in T
    BY <2>2 DEF Recurs
  <2>4. ASSUME NEW k \in 0..(n - 1), k \in T PROVE k + 1 \in T
    <3>1. k + 1 \in 1..n /\ k + 1 \in 1..(n + 1) /\ (k + 1) - 1 = k /\ k + 1 \in 0..n
      OBVIOUS
    <3>2. upto(n + 1)[k + 1] = step[<<upto(n + 1)[k], k + 1>>]
      BY <2>2, <3>1 DEF Recurs
    <3>3. upto(n)[k + 1] = step[<<upto(n)[k], k + 1>>]
      BY <2>2, <3>1 DEF Recurs
    <3> QED BY <2>4, <3>1, <3>2, <3>3
  <2> HIDE DEF T
  <2>5. \A k \in 0..n : k \in T
    BY <2>3, <2>4, Induction
  <2>6. n \in T
    BY <2>5
  <2> QED BY <2>6 DEF T
<1> DEFINE g == [n \in Nat |-> upto(n)[n]]
<1>3. g \in [Nat -> S]
  <2>1. \A n \in Nat : upto(n)[n] \in S
    BY <1>1
  <2> QED BY <2>1
<1>4. g[0] = base
  <2>1. g[0] = upto(0)[0]
    OBVIOUS
  <2>2. Recurs(upto(0), 0, base, step)
    BY <1>1
  <2> QED BY <2>1, <2>2 DEF Recurs
<1>5. ASSUME NEW k \in Nat \ {0} PROVE g[k] = step[<<g[k - 1], k>>]
  <2>1. k \in Nat /\ k - 1 \in Nat /\ (k - 1) + 1 = k /\ k \in 1..k
    OBVIOUS
  <2>2. g[k] = upto(k)[k] /\ g[k - 1] = upto(k - 1)[k - 1]
    BY <2>1
  <2>3. upto(k)[k - 1] = upto(k - 1)[k - 1]
    BY <1>2, <2>1
  <2>4. Recurs(upto(k), k, base, step)
    BY <1>1, <2>1
  <2>5. upto(k)[k] = step[<<upto(k)[k - 1], k>>]
    BY <2>1, <2>4 DEF Recurs
  <2> QED BY <2>2, <2>3, <2>5
<1> HIDE DEF g
<1> QED BY <1>3, <1>4, <1>5 DEF RecursForEver

-----------------------------------------------------------------------------
(* The search of std::find *)

(* findit returns the index of the first byte of a field the frame has. *)
LEMMA FinditFirst ==
  ASSUME NEW frame \in Seq(Nat), NEW field, Positions(frame, field) # {}
  PROVE  /\ findit(frame, field) \in 0..(Len(frame) - 1)
         /\ frame[findit(frame, field) + 1] = field
         /\ \A i \in 1..findit(frame, field) : frame[i] # field
<1> DEFINE P == Positions(frame, field)
           first == CHOOSE i \in P : \A j \in P : i <= j
<1>1. P \in SUBSET Nat
  BY DEF Positions
<1>2. \E i \in P : \A j \in P : i <= j
  BY <1>1, LeastElement
<1>3. first \in P /\ \A j \in P : first <= j
  BY <1>2
<1>4. findit(frame, field) = first - 1
  BY DEF findit
<1> HIDE DEF first
<1>5. first \in 1..Len(frame) /\ frame[first] = field
  BY <1>3 DEF Positions
<1>6. \A i \in 1..(first - 1) : frame[i] # field
  BY <1>3, <1>5 DEF Positions
<1> QED BY <1>4, <1>5, <1>6

-----------------------------------------------------------------------------
(* The places of fields in a frame *)

(* The places among the first n with a field of the set. *)
PlacesWithin(frame, fields, n) == {p \in 1..n : frame[p] \in fields}

(* s holds these places, in order: the k-th has k - 1 of them before it. *)
IsPlaces(s, frame, fields, n) ==
  /\ s \in Seq(1..n) /\ Len(s) = Cardinality(PlacesWithin(frame, fields, n))
  /\ \A k \in 1..Len(s) : /\ frame[s[k]] \in fields
                          /\ Cardinality(PlacesWithin(frame, fields, s[k])) = k
  /\ \A p \in 1..n : frame[p] \in fields => \E k \in 1..Len(s) : s[k] = p

(* There are finitely many places. *)
LEMMA PlacesFinite ==
  ASSUME NEW frame, NEW fields, NEW n \in Nat
  PROVE  /\ IsFiniteSet(PlacesWithin(frame, fields, n))
         /\ Cardinality(PlacesWithin(frame, fields, n)) \in Nat
<1>1. IsFiniteSet(1..n)
  BY FS_Interval
<1>2. PlacesWithin(frame, fields, n) \in SUBSET (1..n)
  BY DEF PlacesWithin
<1>3. IsFiniteSet(PlacesWithin(frame, fields, n))
  BY <1>1, <1>2, FS_Subset
<1> QED BY <1>3, FS_CardinalityType

(* The next place of a frame is one more, or none. *)
LEMMA PlacesNext ==
  ASSUME NEW frame, NEW fields, NEW n \in Nat
  PROVE  Cardinality(PlacesWithin(frame, fields, n + 1)) =
           Cardinality(PlacesWithin(frame, fields, n)) + (IF frame[n + 1] \in fields THEN 1 ELSE 0)
<1>1. /\ IsFiniteSet(PlacesWithin(frame, fields, n))
      /\ Cardinality(PlacesWithin(frame, fields, n)) \in Nat
  BY PlacesFinite
<1>2. CASE frame[n + 1] \in fields
  <2>1. PlacesWithin(frame, fields, n + 1) = PlacesWithin(frame, fields, n) \cup {n + 1}
    BY <1>2 DEF PlacesWithin
  <2>2. n + 1 \notin PlacesWithin(frame, fields, n)
    BY DEF PlacesWithin
  <2>3. Cardinality(PlacesWithin(frame, fields, n) \cup {n + 1})
          = Cardinality(PlacesWithin(frame, fields, n)) + 1
    BY <1>1, <2>2, FS_AddElement
  <2> QED BY <1>2, <2>1, <2>3
<1>3. CASE frame[n + 1] \notin fields
  <2>1. PlacesWithin(frame, fields, n + 1) = PlacesWithin(frame, fields, n)
    BY <1>3 DEF PlacesWithin
  <2> QED BY <1>1, <1>3, <2>1
<1> QED BY <1>2, <1>3

(* A loop over a frame that appends each place it meets has the places.    *)
LEMMA PlacesGrow ==
  ASSUME NEW frame, NEW fields, NEW n \in Nat, NEW s, IsPlaces(s, frame, fields, n)
  PROVE  IsPlaces(IF frame[n + 1] \in fields THEN Append(s, n + 1) ELSE s,
                  frame, fields, n + 1)
<1>1. /\ s \in Seq(1..n) /\ Len(s) = Cardinality(PlacesWithin(frame, fields, n))
      /\ \A k \in 1..Len(s) : /\ frame[s[k]] \in fields
                              /\ Cardinality(PlacesWithin(frame, fields, s[k])) = k
      /\ \A p \in 1..n : frame[p] \in fields => \E k \in 1..Len(s) : s[k] = p
  BY DEF IsPlaces
<1>2. s \in Seq(1..(n + 1)) /\ Len(s) \in Nat
  BY <1>1
<1>3. \A p \in 1..(n + 1) : p = n + 1 \/ p \in 1..n
  OBVIOUS
<1>4. CASE frame[n + 1] \in fields
  <2> DEFINE t == Append(s, n + 1)
  <2>1. /\ t \in Seq(1..(n + 1)) /\ Len(t) = Len(s) + 1
        /\ \A k \in 1..Len(s) : t[k] = s[k]
        /\ t[Len(s) + 1] = n + 1
    BY <1>2, AppendProperties
  <2> HIDE DEF t
  <2>2. Cardinality(PlacesWithin(frame, fields, n + 1)) = Len(s) + 1
    BY <1>1, <1>4, PlacesNext
  <2>3. \A k \in 1..Len(t) : /\ frame[t[k]] \in fields
                             /\ Cardinality(PlacesWithin(frame, fields, t[k])) = k
    <3>1. ASSUME NEW k \in 1..Len(t), k # Len(s) + 1 PROVE k \in 1..Len(s)
      BY <1>2, <2>1, <3>1
    <3> QED BY <1>1, <1>4, <2>1, <2>2, <3>1
  <2>4. \A p \in 1..(n + 1) : frame[p] \in fields => \E k \in 1..Len(t) : t[k] = p
    <3>1. Len(s) + 1 \in 1..Len(t) /\ \A k \in 1..Len(s) : k \in 1..Len(t)
      BY <1>2, <2>1
    <3> QED BY <1>1, <1>3, <2>1, <3>1
  <2>5. IsPlaces(t, frame, fields, n + 1)
    BY <2>1, <2>2, <2>3, <2>4 DEF IsPlaces
  <2> QED BY <1>4, <2>5 DEF t
<1>5. CASE frame[n + 1] \notin fields
  <2>1. Cardinality(PlacesWithin(frame, fields, n + 1)) = Len(s)
    BY <1>1, <1>2, <1>5, PlacesNext
  <2>2. \A p \in 1..(n + 1) : frame[p] \in fields => \E k \in 1..Len(s) : s[k] = p
    BY <1>1, <1>3, <1>5
  <2>3. IsPlaces(s, frame, fields, n + 1)
    BY <1>1, <1>2, <2>1, <2>2 DEF IsPlaces
  <2> QED BY <1>5, <2>3
<1> QED BY <1>4, <1>5

(* What PlacesUpTo computes, step by step. *)
LEMMA PlacesSteps ==
  ASSUME NEW frame, Len(frame) \in Nat, NEW fields
  PROVE  /\ PlacesUpTo(frame, fields)[0] = <<>>
         /\ \A n \in 1..Len(frame) :
              PlacesUpTo(frame, fields)[n] =
                IF frame[n] \in fields THEN Append(PlacesUpTo(frame, fields)[n - 1], n)
                ELSE PlacesUpTo(frame, fields)[n - 1]
<1> DEFINE N == Len(frame)
           S == Seq(1..N)
           IsIt(f) == f = [n \in 0..N |-> IF n = 0 THEN <<>>
                                          ELSE IF frame[n] \in fields THEN Append(f[n - 1], n)
                                          ELSE f[n - 1]]
           step == [x \in S \X (1..N) |->
                      IF frame[x[2]] \in fields THEN Append(x[1], x[2]) ELSE x[1]]
<1>1. <<>> \in S
  OBVIOUS
<1>2. step \in [S \X (1..N) -> S]
  <2>1. ASSUME NEW x \in S \X (1..N)
        PROVE  (IF frame[x[2]] \in fields THEN Append(x[1], x[2]) ELSE x[1]) \in S
    <3>1. x[1] \in S /\ x[2] \in 1..N
      OBVIOUS
    <3>2. Append(x[1], x[2]) \in S
      BY <3>1, AppendProperties
    <3> QED BY <3>1, <3>2
  <2> QED BY <2>1
<1>3. \A y \in S, n \in 1..N : step[<<y, n>>] = IF frame[n] \in fields THEN Append(y, n) ELSE y
  OBVIOUS
<1> HIDE DEF S, step
<1>4. PICK f \in [0..N -> S] : Recurs(f, N, <<>>, step)
  BY <1>1, <1>2, RecursionExists
<1>5. /\ f[0] = <<>>
      /\ \A n \in 1..N : f[n] = IF frame[n] \in fields THEN Append(f[n - 1], n) ELSE f[n - 1]
  <2>1. \A n \in 1..N : n - 1 \in 0..N /\ f[n - 1] \in S
    OBVIOUS
  <2> QED BY <1>3, <1>4, <2>1 DEF Recurs
<1>6. IsIt(f)
  <2>1. \A n \in 0..N : n # 0 => n \in 1..N
    OBVIOUS
  <2>2. f = [n \in 0..N |-> f[n]]
    OBVIOUS
  <2> QED BY <1>5, <2>1, <2>2
<1>7. PICK u : u = PlacesUpTo(frame, fields) /\ IsIt(u)
  BY <1>6 DEF PlacesUpTo
<1>8. 0 \in 0..N /\ \A n \in 1..N : n \in 0..N /\ n # 0
  OBVIOUS
<1>9. /\ u[0] = <<>>
      /\ \A n \in 1..N : u[n] = IF frame[n] \in fields THEN Append(u[n - 1], n) ELSE u[n - 1]
  BY <1>7, <1>8
<1> QED BY <1>7, <1>9

(* PlacesUpTo returns the places it is meant to. *)
LEMMA PlacesUpToIs ==
  ASSUME NEW frame, Len(frame) \in Nat, NEW fields, NEW n \in 0..Len(frame)
  PROVE  IsPlaces(PlacesUpTo(frame, fields)[n], frame, fields, n)
<1> DEFINE T == {m \in 0..Len(frame) : IsPlaces(PlacesUpTo(frame, fields)[m], frame, fields, m)}
<1>1. 0 \in T
  <2>1. PlacesWithin(frame, fields, 0) = {}
    BY DEF PlacesWithin
  <2>2. <<>> \in Seq(1..0) /\ Len(<<>>) = 0
    OBVIOUS
  <2>3. IsPlaces(<<>>, frame, fields, 0)
    BY <2>1, <2>2, FS_EmptySet DEF IsPlaces
  <2> QED BY <2>3, PlacesSteps
<1>2. ASSUME NEW m \in 0..(Len(frame) - 1), m \in T PROVE m + 1 \in T
  <2>1. PICK s : s = PlacesUpTo(frame, fields)[m]
    OBVIOUS
  <2>2. IsPlaces(s, frame, fields, m)
    BY <1>2, <2>1
  <2>3. m + 1 \in 1..Len(frame) /\ (m + 1) - 1 = m /\ m \in Nat /\ m + 1 \in 0..Len(frame)
    OBVIOUS
  <2>4. PlacesUpTo(frame, fields)[m + 1] = IF frame[m + 1] \in fields THEN Append(s, m + 1) ELSE s
    BY <2>1, <2>3, PlacesSteps
  <2>5. IsPlaces(PlacesUpTo(frame, fields)[m + 1], frame, fields, m + 1)
    BY <2>2, <2>3, <2>4, PlacesGrow
  <2> QED BY <2>3, <2>5
<1> HIDE DEF T
<1>3. \A m \in 0..Len(frame) : m \in T
  BY <1>1, <1>2, Induction
<1> QED BY <1>3 DEF T

(* PlacesOf returns all places, in order. *)
LEMMA PlacesOfIs ==
  ASSUME NEW frame, Len(frame) \in Nat, NEW fields
  PROVE  IsPlaces(PlacesOf(frame, fields), frame, fields, Len(frame))
<1>1. Len(frame) \in 0..Len(frame)
  OBVIOUS
<1> QED BY <1>1, PlacesUpToIs DEF PlacesOf

(* The place that has k - 1 of them before it is the k-th one. *)
LEMMA PlaceOfRank ==
  ASSUME NEW frame, NEW fields, NEW n \in Nat, NEW s, IsPlaces(s, frame, fields, n),
         NEW k \in 1..Len(s), NEW p \in PlacesWithin(frame, fields, n)
  PROVE  Cardinality(PlacesWithin(frame, fields, p)) = k <=> p = s[k]
<1>1. PICK j \in 1..Len(s) : s[j] = p
  BY DEF IsPlaces, PlacesWithin
<1>2. Cardinality(PlacesWithin(frame, fields, p)) = j
  BY <1>1 DEF IsPlaces
<1>3. Cardinality(PlacesWithin(frame, fields, s[k])) = k
  BY DEF IsPlaces
<1> QED BY <1>1, <1>2, <1>3

(* How many of the first p places of a frame a field has. *)
Rank(frame, field, p) == Cardinality(PlacesWithin(frame, {field}, p))

(* The number grows by one at the places of the field. *)
LEMMA RankSteps ==
  ASSUME NEW frame, NEW field, NEW p \in Nat
  PROVE  /\ Rank(frame, field, p) \in Nat
         /\ Rank(frame, field, 0) = 0
         /\ Rank(frame, field, p + 1)
              = Rank(frame, field, p) + (IF frame[p + 1] = field THEN 1 ELSE 0)
         /\ \A q \in 0..p : Rank(frame, field, q) <= Rank(frame, field, p)
<1>1. Rank(frame, field, p) \in Nat
  BY PlacesFinite DEF Rank
<1>2. Rank(frame, field, 0) = 0
  <2>1. PlacesWithin(frame, {field}, 0) = {}
    BY DEF PlacesWithin
  <2> QED BY <2>1, FS_EmptySet DEF Rank
<1>3. Rank(frame, field, p + 1)
        = Rank(frame, field, p) + (IF frame[p + 1] = field THEN 1 ELSE 0)
  <2>1. frame[p + 1] \in {field} <=> frame[p + 1] = field
    OBVIOUS
  <2> QED BY <2>1, PlacesNext DEF Rank
<1>4. ASSUME NEW q \in 0..p PROVE Rank(frame, field, q) <= Rank(frame, field, p)
  <2>1. PlacesWithin(frame, {field}, q) \in SUBSET PlacesWithin(frame, {field}, p)
    BY DEF PlacesWithin
  <2>2. IsFiniteSet(PlacesWithin(frame, {field}, p))
    BY PlacesFinite
  <2> QED BY <2>1, <2>2, FS_Subset DEF Rank
<1> QED BY <1>1, <1>2, <1>3, <1>4

(* Where the field has no place, the number stays. *)
LEMMA RankStays ==
  ASSUME NEW frame, NEW field, NEW p \in Nat, NEW q \in Nat, p <= q,
         \A place \in (p + 1)..q : frame[place] # field
  PROVE  Rank(frame, field, q) = Rank(frame, field, p)
<1>1. PlacesWithin(frame, {field}, q) = PlacesWithin(frame, {field}, p)
  BY DEF PlacesWithin
<1> QED BY <1>1 DEF Rank

(* s holds the places of a field, the k-th one at k. *)
IsRanked(s, frame, field) ==
  /\ Len(s) = Rank(frame, field, Len(frame))
  /\ \A k \in 1..Len(s) : /\ s[k] \in 1..Len(frame) /\ frame[s[k]] = field
                          /\ Rank(frame, field, s[k]) = k
  /\ \A p \in 1..Len(frame) : frame[p] = field =>
       Rank(frame, field, p) \in 1..Len(s) /\ s[Rank(frame, field, p)] = p

(* PlacesOf returns the places of a field so. *)
LEMMA PlacesAndRanks ==
  ASSUME NEW frame, Len(frame) \in Nat, NEW field
  PROVE  IsRanked(PlacesOf(frame, {field}), frame, field)
<1>1. PICK s : s = PlacesOf(frame, {field})
  OBVIOUS
<1>2. IsPlaces(s, frame, {field}, Len(frame))
  BY <1>1, PlacesOfIs
<1>3. Len(s) = Rank(frame, field, Len(frame)) /\ s \in Seq(1..Len(frame))
  BY <1>2 DEF IsPlaces, Rank
<1>4. \A k \in 1..Len(s) : /\ s[k] \in 1..Len(frame)
                           /\ frame[s[k]] = field
                           /\ Rank(frame, field, s[k]) = k
  <2>1. \A k \in 1..Len(s) : s[k] \in 1..Len(frame)
    BY <1>3
  <2>2. \A k \in 1..Len(s) : frame[s[k]] \in {field} /\ Rank(frame, field, s[k]) = k
    BY <1>2 DEF IsPlaces, Rank
  <2> QED BY <2>1, <2>2
<1>5. ASSUME NEW p \in 1..Len(frame), frame[p] = field
      PROVE  Rank(frame, field, p) \in 1..Len(s) /\ s[Rank(frame, field, p)] = p
  <2>1. PICK k \in 1..Len(s) : s[k] = p
    BY <1>2, <1>5 DEF IsPlaces
  <2> QED BY <1>4, <2>1
<1>6. IsRanked(s, frame, field)
  BY <1>3, <1>4, <1>5 DEF IsRanked
<1> QED BY <1>1, <1>6

(* insertFieldToBuffer writes the k-th byte to the k-th place. *)
LEMMA InsertIs ==
  ASSUME NEW frame, Len(frame) \in Nat, NEW field, NEW dst, NEW data, Len(data) \in Nat
  PROVE  insertFieldToBuffer(dst, frame, field, data)
           = [a \in DOMAIN dst |->
                IF /\ a + 1 \in 1..Len(frame) /\ frame[a + 1] = field
                   /\ Rank(frame, field, a + 1) <= Len(data)
                THEN data[Rank(frame, field, a + 1)]
                ELSE dst[a]]
<1>1. PICK s : s = PlacesOf(frame, {field})
  OBVIOUS
<1>2. /\ \A k \in 1..Len(s) : /\ s[k] \in 1..Len(frame) /\ frame[s[k]] = field
                              /\ Rank(frame, field, s[k]) = k
      /\ \A p \in 1..Len(frame) : frame[p] = field =>
           Rank(frame, field, p) \in 1..Len(s) /\ s[Rank(frame, field, p)] = p
  <2>1. IsRanked(s, frame, field)
    BY <1>1, PlacesAndRanks
  <2> QED BY <2>1 DEF IsRanked
<1> DEFINE has(p) == \E k \in 1..Len(s) : k <= Len(data) /\ s[k] = p
           which(p) == CHOOSE k \in 1..Len(s) : s[k] = p
<1>3. ASSUME NEW p
      PROVE  /\ has(p) <=> /\ p \in 1..Len(frame) /\ frame[p] = field
                           /\ Rank(frame, field, p) <= Len(data)
             /\ has(p) => which(p) = Rank(frame, field, p)
  <2>1. ASSUME has(p)
        PROVE  /\ p \in 1..Len(frame) /\ frame[p] = field
               /\ Rank(frame, field, p) <= Len(data)
               /\ which(p) = Rank(frame, field, p)
    <3>1. PICK k \in 1..Len(s) : k <= Len(data) /\ s[k] = p
      BY <2>1
    <3>2. which(p) \in 1..Len(s) /\ s[which(p)] = p
      BY <3>1
    <3> HIDE DEF which
    <3> QED BY <1>2, <3>1, <3>2
  <2>2. ASSUME p \in 1..Len(frame), frame[p] = field, Rank(frame, field, p) <= Len(data)
        PROVE  has(p)
    BY <1>2, <2>2
  <2> QED BY <2>1, <2>2
<1>4. insertFieldToBuffer(dst, frame, field, data)
        = [a \in DOMAIN dst |-> IF has(a + 1) THEN data[which(a + 1)] ELSE dst[a]]
  BY <1>1 DEF insertFieldToBuffer
<1> HIDE DEF has, which
<1> QED BY <1>3, <1>4

(* got holds the bytes at the places of a field, the k-th one at k.        *)
IsExtracted(got, buf, len, frame, field, dst, most) ==
  /\ Len(got) = IF Rank(frame, field, Len(frame)) < most
                THEN Rank(frame, field, Len(frame)) ELSE most
  /\ \A k \in 1..Len(got) : \E p \in 1..Len(frame) :
       /\ frame[p] = field /\ Rank(frame, field, p) = k
       /\ got[k] = IF p - 1 < len THEN buf[p - 1] ELSE dst[k]
  /\ \A p \in 1..Len(frame) :
       frame[p] = field /\ Rank(frame, field, p) <= Len(got) =>
         got[Rank(frame, field, p)] =
           IF p - 1 < len THEN buf[p - 1] ELSE dst[Rank(frame, field, p)]

(* extractFieldFromBuffer returns the bytes so.                            *)
LEMMA ExtractIs ==
  ASSUME NEW frame, Len(frame) \in Nat, NEW field, NEW buf, NEW len, NEW dst, NEW most \in Nat
  PROVE  IsExtracted(extractFieldFromBuffer(buf, len, frame, field, dst, most),
                     buf, len, frame, field, dst, most)
<1>1. PICK s, m : /\ s = PlacesOf(frame, {field})
                  /\ m = IF Rank(frame, field, Len(frame)) < most
                         THEN Rank(frame, field, Len(frame)) ELSE most
  OBVIOUS
<1>2. /\ Len(s) = Rank(frame, field, Len(frame))
      /\ \A k \in 1..Len(s) : /\ s[k] \in 1..Len(frame) /\ frame[s[k]] = field
                              /\ Rank(frame, field, s[k]) = k
  <2>1. IsRanked(s, frame, field)
    BY <1>1, PlacesAndRanks
  <2> QED BY <2>1 DEF IsRanked
<1>3. \A p \in 1..Len(frame) : frame[p] = field =>
         Rank(frame, field, p) \in 1..Len(s) /\ s[Rank(frame, field, p)] = p
  <2>1. IsRanked(s, frame, field)
    BY <1>1, PlacesAndRanks
  <2> QED BY <2>1 DEF IsRanked
<1>4. Rank(frame, field, Len(frame)) \in Nat
  BY RankSteps
<1>5. m \in Nat /\ m <= Len(s)
  BY <1>1, <1>2, <1>4
<1>6. extractFieldFromBuffer(buf, len, frame, field, dst, most)
        = [k \in 1..m |-> IF s[k] - 1 < len THEN buf[s[k] - 1] ELSE dst[k]]
  BY <1>1, <1>2 DEF extractFieldFromBuffer
<1>7. PICK got : got = extractFieldFromBuffer(buf, len, frame, field, dst, most)
  OBVIOUS
<1>8. Len(got) = m
  BY <1>5, <1>6, <1>7
<1>9. ASSUME NEW k \in 1..m
      PROVE  \E p \in 1..Len(frame) :
               /\ frame[p] = field /\ Rank(frame, field, p) = k
               /\ got[k] = IF p - 1 < len THEN buf[p - 1] ELSE dst[k]
  <2>1. k \in 1..Len(s)
    BY <1>2, <1>4, <1>5
  <2>2. got[k] = IF s[k] - 1 < len THEN buf[s[k] - 1] ELSE dst[k]
    BY <1>6, <1>7
  <2> QED BY <1>2, <2>1, <2>2
<1>10. ASSUME NEW p \in 1..Len(frame), frame[p] = field, Rank(frame, field, p) <= m
      PROVE  got[Rank(frame, field, p)] =
               IF p - 1 < len THEN buf[p - 1] ELSE dst[Rank(frame, field, p)]
  <2>1. PICK k : k = Rank(frame, field, p)
    OBVIOUS
  <2>2. k \in 1..Len(s) /\ s[k] = p
    BY <1>3, <1>10, <2>1
  <2>3. k \in 1..m
    BY <1>2, <1>4, <1>5, <1>10, <2>1, <2>2
  <2>4. got[k] = IF s[k] - 1 < len THEN buf[s[k] - 1] ELSE dst[k]
    BY <1>6, <1>7, <2>3
  <2> QED BY <2>1, <2>2, <2>4
<1>11. IsExtracted(got, buf, len, frame, field, dst, most)
  BY <1>1, <1>8, <1>9, <1>10 DEF IsExtracted
<1> QED BY <1>7, <1>11
=============================================================================
