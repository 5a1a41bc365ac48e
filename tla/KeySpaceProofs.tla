--------------------------- MODULE KeySpaceProofs ---------------------------
(***************************************************************************)
(* Proofs about KeySpace, for any finite or infinite sets of names, keys,  *)
(* filters, limits and scanners.                                           *)
(***************************************************************************)
EXTENDS KeySpace, SequenceTheorems, FiniteSetTheorems, TLAPS

Byte == 0..255
Bytes == Seq(Byte)

-----------------------------------------------------------------------------
(* Finite orders have a first element.                                     *)

\* A strict order has a minimal element in every finite set that is not empty.
LEMMA FiniteHasMinimal ==
  ASSUME NEW S, IsFiniteSet(S), S # {}, NEW R,
         \A x \in S : <<x, x>> \notin R,
         \A x, y, z \in S : <<x, y>> \in R /\ <<y, z>> \in R => <<x, z>> \in R
  PROVE  \E x \in S : \A y \in S : <<y, x>> \notin R
<1> DEFINE Lower(x) == {y \in S : <<y, x>> \in R}
           All == {Lower(x) : x \in S}
<1>1. IsWellFoundedOn(StrictSubsetOrdering(S), SUBSET S)
  <2>1. IsWellFoundedOn(StrictSubsetOrdering(S), FiniteSubsetsOf(S))
    BY FS_StrictSubsetOrderingWellFounded
  <2>2. FiniteSubsetsOf(S) = SUBSET S
    BY FS_FiniteSubsetsOfFinite
  <2> QED
    BY <2>1, <2>2
<1>2. All \subseteq SUBSET S /\ All # {}
  <2>1. PICK x : x \in S
    OBVIOUS
  <2>2. Lower(x) \in All
    BY <2>1
  <2> QED
    BY <2>2
<1>3. PICK T \in All : \A U \in All : <<U, T>> \notin StrictSubsetOrdering(S)
  BY <1>1, <1>2, WFMin
<1>4. PICK x \in S : T = Lower(x)
  OBVIOUS
<1>5. ASSUME NEW y \in S, <<y, x>> \in R PROVE FALSE
  <2>1. Lower(y) \in All /\ Lower(y) \subseteq S /\ Lower(x) \subseteq S
    OBVIOUS
  <2>2. Lower(y) \subseteq Lower(x)
    BY <1>5
  <2>3. y \in Lower(x) /\ y \notin Lower(y)
    BY <1>5
  <2>4. <<Lower(y), Lower(x)>> \in StrictSubsetOrdering(S)
    BY <2>1, <2>2, <2>3 DEF StrictSubsetOrdering
  <2> QED
    BY <1>3, <1>4, <2>1, <2>4
<1> QED
  BY <1>5

-----------------------------------------------------------------------------
(* The order of byte strings.                                              *)

\* Prefixes, byte by byte.
LEMMA PrefixBytes ==
  ASSUME NEW s \in Bytes, NEW t \in Bytes
  PROVE  IsPrefix(s, t) <=> Len(s) <= Len(t) /\ \A i \in 1..Len(s) : s[i] = t[i]
<1>1. CASE Len(s) <= Len(t)
  <2>1. /\ Len(SubSeq(s, 1, Len(s))) = Len(s)
        /\ \A i \in 1..Len(s) : SubSeq(s, 1, Len(s))[i] = s[i]
    BY SubSeqProperties, LenProperties DEF Bytes
  <2>2. /\ Len(SubSeq(t, 1, Len(s))) = Len(s)
        /\ \A i \in 1..Len(s) : SubSeq(t, 1, Len(s))[i] = t[i]
    BY <1>1, SubSeqProperties, LenProperties DEF Bytes
  <2>3. SubSeq(s, 1, Len(s)) \in Bytes /\ SubSeq(t, 1, Len(s)) \in Bytes
    <3>1. Len(s) \in Nat /\ Len(t) \in Nat
      BY LenProperties DEF Bytes
    <3>2. /\ \A i \in 1..Len(s) : s[i] \in Byte
          /\ \A i \in 1..Len(s) : t[i] \in Byte
      BY <1>1, <3>1, ElementOfSeq DEF Bytes
    <3> QED
      BY <1>1, <3>1, <3>2, SubSeqProperties DEF Bytes
  <2>4. SubSeq(s, 1, Len(s)) = SubSeq(t, 1, Len(s))
        <=> \A i \in 1..Len(s) : s[i] = t[i]
    BY <2>1, <2>2, <2>3, SeqEqual DEF Bytes
  <2> QED
    BY <1>1, <2>4 DEF IsPrefix
<1>2. CASE ~(Len(s) <= Len(t))
  BY <1>2 DEF IsPrefix
<1> QED
  BY <1>1, <1>2

\* Bytes are integers.
LEMMA ByteInt ==
  ASSUME NEW s \in Bytes, NEW i \in 1..Len(s)
  PROVE  s[i] \in Int
<1>1. s[i] \in Byte
  BY ElementOfSeq DEF Bytes
<1>2. Byte \subseteq Int
  BY DEF Byte
<1> QED
  BY <1>1, <1>2

\* s and t part at i, where s ends or has the smaller byte.
Parts(i, s, t) ==
    /\ i \in 1..Len(t)
    /\ i <= Len(s) + 1
    /\ \A j \in 1..i - 1 : s[j] = t[j]
    /\ i <= Len(s) => s[i] < t[i]

LEMMA BeforeParts ==
  ASSUME NEW s \in Bytes, NEW t \in Bytes
  PROVE  Before(s, t) <=> \E i \in Nat : Parts(i, s, t)
<1> USE LenProperties DEF Bytes
<1>1. ASSUME Before(s, t) PROVE \E i \in Nat : Parts(i, s, t)
  <2>1. CASE IsStrictPrefix(s, t)
    <3>1. Len(s) <= Len(t) /\ (\A i \in 1..Len(s) : s[i] = t[i]) /\ s # t
      BY <2>1, PrefixBytes DEF IsStrictPrefix
    <3>2. Len(s) < Len(t)
      BY <3>1, SeqEqual
    <3>3. Parts(Len(s) + 1, s, t)
      BY <3>1, <3>2 DEF Parts
    <3> QED
      BY <3>3
  <2>2. ASSUME NEW i \in DOMAIN s \intersect DOMAIN t,
               s[i] < t[i] /\ \A j \in 1..i - 1 : s[j] = t[j]
        PROVE \E k \in Nat : Parts(k, s, t)
    BY <2>2 DEF Parts
  <2> QED
    BY <1>1, <2>1, <2>2 DEF Before
<1>2. ASSUME NEW i \in Nat, Parts(i, s, t) PROVE Before(s, t)
  <2>1. CASE i <= Len(s)
    BY <1>2, <2>1 DEF Parts, Before
  <2>2. CASE i = Len(s) + 1
    <3>1. Len(s) < Len(t) /\ \A j \in 1..Len(s) : s[j] = t[j]
      BY <1>2, <2>2 DEF Parts
    <3> QED
      BY <3>1, PrefixBytes DEF Before, IsStrictPrefix
  <2> QED
    BY <1>2, <2>1, <2>2 DEF Parts
<1> QED
  BY <1>1, <1>2

LEMMA BeforeIrreflexive ==
  ASSUME NEW s \in Bytes
  PROVE  ~Before(s, s)
<1>1. ASSUME NEW i \in Nat, Parts(i, s, s) PROVE FALSE
  <2>1. i \in 1..Len(s) /\ s[i] < s[i]
    BY <1>1, LenProperties DEF Parts, Bytes
  <2>2. s[i] \in Int
    BY <2>1, ByteInt
  <2> QED
    BY <2>1, <2>2
<1> QED
  BY <1>1, BeforeParts

LEMMA BeforeTransitive ==
  ASSUME NEW s \in Bytes, NEW t \in Bytes, NEW u \in Bytes, Before(s, t), Before(t, u)
  PROVE  Before(s, u)
<1> USE LenProperties DEF Bytes
<1>1. PICK i \in Nat : Parts(i, s, t)
  BY BeforeParts
<1>2. PICK j \in Nat : Parts(j, t, u)
  BY BeforeParts
<1>3. (\A k \in 1..Len(s) : s[k] \in Int) /\ (\A k \in 1..Len(t) : t[k] \in Int)
      /\ \A k \in 1..Len(u) : u[k] \in Int
  BY ByteInt
<1>4. CASE i < j
  <2>1. Parts(i, s, u)
    BY <1>1, <1>2, <1>3, <1>4 DEF Parts
  <2> QED
    BY <2>1, BeforeParts
<1>5. CASE j <= i
  <2>1. Parts(j, s, u)
    BY <1>1, <1>2, <1>3, <1>5 DEF Parts
  <2> QED
    BY <2>1, BeforeParts
<1> QED
  BY <1>4, <1>5

LEMMA BeforeTotal ==
  ASSUME NEW s \in Bytes, NEW t \in Bytes, s # t
  PROVE  Before(s, t) \/ Before(t, s)
<1> USE LenProperties DEF Bytes
<1> DEFINE Differ == {i \in 1..Len(s) + 1 :
                        i > Len(s) \/ i > Len(t) \/ s[i] # t[i]}
           Less == {p \in Differ \X Differ : p[1] < p[2]}
<1>1. Differ \subseteq 1..Len(s) + 1 /\ Len(s) + 1 \in Differ
  OBVIOUS
<1>2. IsFiniteSet(Differ)
  BY <1>1, FS_Interval, FS_Subset, Len(s) + 1 \in Int, 1 \in Int
<1>3. PICK i \in Differ : \A j \in Differ : <<j, i>> \notin Less
  <2> HIDE DEF Differ
  <2>1. \A x \in Differ : <<x, x>> \notin Less
    BY <1>1
  <2>2. \A x, y, z \in Differ : <<x, y>> \in Less /\ <<y, z>> \in Less => <<x, z>> \in Less
    BY <1>1
  <2> HIDE DEF Less
  <2> QED
    BY <1>1, <1>2, <2>1, <2>2, FiniteHasMinimal
<1>4. \A j \in 1..i - 1 : j <= Len(s) /\ j <= Len(t) /\ s[j] = t[j]
  <2> SUFFICES ASSUME NEW j \in 1..i - 1 PROVE j \notin Differ
    BY <1>1
  <2>1. j \in Nat /\ j < i
    BY <1>1
  <2>2. j \notin Differ
    <3> HIDE DEF Differ
    <3> QED
      BY <1>3, <2>1
  <2> QED
    BY <2>2
<1>5. (\A k \in 1..Len(s) : s[k] \in Int) /\ \A k \in 1..Len(t) : t[k] \in Int
  BY ByteInt
<1>6. i \in 1..Len(s) + 1 /\ (i > Len(s) \/ i > Len(t) \/ s[i] # t[i])
  OBVIOUS
<1>7. i <= Len(t) + 1
  BY <1>4, <1>6
<1> HIDE DEF Differ, Less
<1>8. CASE i > Len(s) /\ i > Len(t)
  <2>1. Len(s) = Len(t) /\ \A j \in 1..Len(s) : s[j] = t[j]
    BY <1>4, <1>6, <1>7, <1>8
  <2> QED
    BY <2>1, SeqEqual
<1>9. CASE i > Len(s) /\ i <= Len(t)
  <2>1. Parts(i, s, t)
    BY <1>4, <1>6, <1>9 DEF Parts
  <2> QED
    BY <2>1, <1>6, BeforeParts
<1>10. CASE i <= Len(s) /\ i > Len(t)
  <2>1. Parts(i, t, s)
    BY <1>4, <1>6, <1>7, <1>10 DEF Parts
  <2> QED
    BY <2>1, <1>6, BeforeParts
<1>11. CASE i <= Len(s) /\ i <= Len(t)
  <2>1. Parts(i, s, t) \/ Parts(i, t, s)
    BY <1>4, <1>5, <1>6, <1>11 DEF Parts
  <2> QED
    BY <2>1, <1>6, BeforeParts
<1> QED
  BY <1>6, <1>8, <1>9, <1>10, <1>11

\* A cursor that has keys left is at the first of them.
LEMMA FirstOfKeys ==
  ASSUME NEW K \in SUBSET Bytes, K # {}, IsFiniteSet(K)
  PROVE  /\ First(K) \in K
         /\ \A y \in K : First(K) = y \/ Before(First(K), y)
<1> DEFINE R == {p \in K \X K : Before(p[1], p[2])}
<1>1. \A x, y \in K : <<x, y>> \in R <=> Before(x, y)
  OBVIOUS
<1>2. \A x \in K : <<x, x>> \notin R
  BY <1>1, BeforeIrreflexive
<1>3. \A x, y, z \in K : <<x, y>> \in R /\ <<y, z>> \in R => <<x, z>> \in R
  BY <1>1, BeforeTransitive
<1> HIDE DEF R
<1>4. PICK x \in K : \A y \in K : <<y, x>> \notin R
  BY <1>2, <1>3, FiniteHasMinimal
<1>5. \A y \in K : x = y \/ Before(x, y)
  BY <1>1, <1>4, BeforeTotal
<1> QED
  BY <1>5 DEF First

\* Past the keys with a prefix there are none with it.
LEMMA PrefixRange ==
  ASSUME NEW p \in Bytes, NEW x \in Bytes, NEW y \in Bytes,
         IsPrefix(p, x), ~Before(y, p), ~IsPrefix(p, y)
  PROVE  Before(x, y)
<1> USE LenProperties DEF Bytes
<1>1. y # p
  BY PrefixBytes
<1>2. PICK i \in Nat : Parts(i, p, y)
  BY <1>1, BeforeTotal, BeforeParts
<1>3. Len(p) <= Len(x) /\ \A j \in 1..Len(p) : p[j] = x[j]
  BY PrefixBytes
<1>4. i <= Len(p)
  <2> SUFFICES ASSUME i = Len(p) + 1 PROVE FALSE
    BY <1>2 DEF Parts
  <2>1. Len(p) <= Len(y) /\ \A j \in 1..Len(p) : p[j] = y[j]
    BY <1>2 DEF Parts
  <2> QED
    BY <2>1, PrefixBytes
<1>5. Parts(i, x, y)
  BY <1>2, <1>3, <1>4 DEF Parts
<1> QED
  BY <1>5, BeforeParts

-----------------------------------------------------------------------------
(* The keys.                                                               *)

\* The bytes of two strings, one after the other.
LEMMA JoinedBytes ==
  ASSUME NEW s \in Seq(Byte), NEW t \in Seq(Byte)
  PROVE  /\ s \o t \in Seq(Byte)
         /\ Len(s) \in Nat /\ Len(t) \in Nat
         /\ Len(s \o t) = Len(s) + Len(t)
         /\ \A i \in 1..Len(s) : (s \o t)[i] = s[i]
         /\ \A i \in 1..Len(t) : (s \o t)[Len(s) + i] = t[i]
<1>1. Len(s) \in Nat /\ Len(t) \in Nat
  BY LenProperties
<1>2. s \o t \in Seq(Byte) /\ Len(s \o t) = Len(s) + Len(t)
  BY ConcatProperties
<1>3. \A i \in 1..Len(s) + Len(t) :
        (s \o t)[i] = IF i <= Len(s) THEN s[i] ELSE t[i - Len(s)]
  BY ConcatProperties
<1>4. ASSUME NEW i \in 1..Len(s) PROVE (s \o t)[i] = s[i]
  BY <1>1, <1>3
<1>5. ASSUME NEW i \in 1..Len(t) PROVE (s \o t)[Len(s) + i] = t[i]
  <2>1. /\ Len(s) + i \in 1..Len(s) + Len(t)
        /\ ~(Len(s) + i <= Len(s))
        /\ Len(s) + i - Len(s) = i
    BY <1>1
  <2>2. (s \o t)[Len(s) + i] = t[Len(s) + i - Len(s)]
    BY <1>3, <2>1
  <2> QED
    BY <2>1, <2>2
<1> QED
  BY <1>1, <1>2, <1>4, <1>5

\* The bytes of a key: the name, the separator, the rest.
LEMMA KeyBytes ==
  ASSUME NEW n \in Bytes, NEW k \in Bytes
  PROVE  /\ ObjectKey(n, k) \in Bytes
         /\ Len(ObjectKey(n, k)) = Len(n) + 1 + Len(k)
         /\ \A i \in 1..Len(n) : ObjectKey(n, k)[i] = n[i]
         /\ ObjectKey(n, k)[Len(n) + 1] = keySeparator
         /\ \A i \in 1..Len(k) : ObjectKey(n, k)[Len(n) + 1 + i] = k[i]
<1> DEFINE sep == <<keySeparator>>
           head == n \o sep
<1>1. keySeparator \in Byte
  BY DEF keySeparator, Byte
<1>2. sep \in Seq(Byte) /\ Len(sep) = 1 /\ sep[1] = keySeparator
  BY <1>1
<1>3. n \in Seq(Byte) /\ k \in Seq(Byte)
  BY DEF Bytes
<1> HIDE DEF sep
<1>4. /\ head \in Seq(Byte)
      /\ Len(n) \in Nat
      /\ Len(head) = Len(n) + 1
      /\ \A i \in 1..Len(n) : head[i] = n[i]
      /\ head[Len(n) + 1] = keySeparator
  <2>1. /\ head \in Seq(Byte)
        /\ Len(n) \in Nat
        /\ Len(head) = Len(n) + Len(sep)
        /\ \A i \in 1..Len(n) : head[i] = n[i]
        /\ \A i \in 1..Len(sep) : head[Len(n) + i] = sep[i]
    BY <1>2, <1>3, JoinedBytes
  <2> HIDE DEF head
  <2>2. 1 \in 1..Len(sep)
    BY <1>2
  <2>3. head[Len(n) + 1] = sep[1]
    BY <2>1, <2>2
  <2> QED
    BY <1>2, <2>1, <2>3
<1>5. ObjectKey(n, k) = head \o k
  BY DEF ObjectKey, sep
<1> HIDE DEF head
<1>6. /\ head \o k \in Seq(Byte)
      /\ Len(head \o k) = Len(head) + Len(k)
      /\ \A i \in 1..Len(head) : (head \o k)[i] = head[i]
      /\ \A i \in 1..Len(k) : (head \o k)[Len(head) + i] = k[i]
  BY <1>3, <1>4, JoinedBytes
<1>7. \A i \in 1..Len(n) : (head \o k)[i] = n[i]
  BY <1>4, <1>6
<1>8. (head \o k)[Len(n) + 1] = keySeparator
  BY <1>4, <1>6
<1>9. \A i \in 1..Len(k) : (head \o k)[Len(n) + 1 + i] = k[i]
  BY <1>4, <1>6
<1> QED
  BY <1>4, <1>5, <1>6, <1>7, <1>8, <1>9 DEF Bytes

\* Keys begin with one another only within a bucket.
LEMMA KeyPrefix ==
  ASSUME NEW n \in Bytes, NEW p \in Bytes, NEW m \in Bytes, NEW k \in Bytes,
         ValidateKeyComponent(n), ValidateKeyComponent(m)
  PROVE  IsPrefix(ObjectKey(n, p), ObjectKey(m, k)) <=> n = m /\ IsPrefix(p, k)
<1> DEFINE x == ObjectKey(n, p)
           y == ObjectKey(m, k)
<1>0. /\ Len(n) \in Nat /\ Len(p) \in Nat /\ Len(m) \in Nat /\ Len(k) \in Nat
      /\ DOMAIN n = 1..Len(n) /\ DOMAIN m = 1..Len(m)
  BY LenProperties DEF Bytes
<1>1. /\ x \in Bytes /\ y \in Bytes
      /\ Len(x) = Len(n) + 1 + Len(p) /\ Len(y) = Len(m) + 1 + Len(k)
      /\ \A i \in 1..Len(n) : x[i] = n[i]
      /\ \A i \in 1..Len(m) : y[i] = m[i]
      /\ x[Len(n) + 1] = keySeparator /\ y[Len(m) + 1] = keySeparator
      /\ \A i \in 1..Len(p) : x[Len(n) + 1 + i] = p[i]
      /\ \A i \in 1..Len(k) : y[Len(m) + 1 + i] = k[i]
  BY KeyBytes
<1> HIDE DEF x, y
<1>2. ASSUME IsPrefix(x, y) PROVE n = m /\ IsPrefix(p, k)
  <2>1. Len(x) <= Len(y) /\ \A i \in 1..Len(x) : x[i] = y[i]
    BY <1>1, <1>2, PrefixBytes
  <2>2. ASSUME Len(n) < Len(m) PROVE FALSE
    <3> DEFINE i == Len(n) + 1
    <3>1. i \in 1..Len(m) /\ i \in 1..Len(x)
      BY <1>0, <1>1, <2>2
    <3>2. y[i] = m[i] /\ x[i] = y[i] /\ x[i] = keySeparator
      BY <1>1, <2>1, <3>1
    <3> QED
      BY <1>0, <3>1, <3>2 DEF ValidateKeyComponent
  <2>3. ASSUME Len(m) < Len(n) PROVE FALSE
    <3> DEFINE i == Len(m) + 1
    <3>1. i \in 1..Len(n) /\ i \in 1..Len(x)
      BY <1>0, <1>1, <2>3
    <3>2. x[i] = n[i] /\ x[i] = y[i] /\ y[i] = keySeparator
      BY <1>1, <2>1, <3>1
    <3> QED
      BY <1>0, <3>1, <3>2 DEF ValidateKeyComponent
  <2>4. Len(n) = Len(m)
    <3>1. Len(n) \in Nat /\ Len(m) \in Nat
      BY <1>0
    <3>2. ~(Len(n) < Len(m)) /\ ~(Len(m) < Len(n))
      BY <2>2, <2>3
    <3> QED
      BY <3>1, <3>2
  <2>5. \A i \in 1..Len(n) : n[i] = m[i]
    <3> SUFFICES ASSUME NEW i \in 1..Len(n) PROVE n[i] = m[i]
      OBVIOUS
    <3>1. i \in 1..Len(x) /\ i \in 1..Len(m)
      BY <1>0, <1>1, <2>4
    <3> QED
      BY <1>1, <2>1, <3>1
  <2>6. n = m
    BY <2>4, <2>5, SeqEqual DEF Bytes
  <2>7. Len(p) <= Len(k)
    BY <1>0, <1>1, <2>1, <2>4
  <2>8. ASSUME NEW i \in 1..Len(p) PROVE p[i] = k[i]
    <3>1. Len(n) + 1 + i \in 1..Len(x) /\ i \in 1..Len(k)
      BY <1>0, <1>1, <2>7
    <3> QED
      BY <1>1, <2>1, <2>4, <3>1
  <2> QED
    BY <2>6, <2>7, <2>8, PrefixBytes
<1>3. ASSUME n = m, IsPrefix(p, k) PROVE IsPrefix(x, y)
  <2>1. Len(p) <= Len(k) /\ \A i \in 1..Len(p) : p[i] = k[i]
    BY <1>3, PrefixBytes
  <2>2. ASSUME NEW i \in 1..Len(x) PROVE x[i] = y[i]
    <3>1. CASE i <= Len(n)
      <4>1. i \in 1..Len(n)
        BY <1>0, <3>1
      <4> QED
        BY <1>1, <1>3, <4>1
    <3>2. CASE i = Len(n) + 1
      BY <1>1, <1>3, <3>2
    <3>3. CASE i > Len(n) + 1
      <4> DEFINE j == i - (Len(n) + 1)
      <4>1. j \in 1..Len(p) /\ j \in 1..Len(k) /\ i = Len(n) + 1 + j
        BY <1>0, <1>1, <2>1, <3>3
      <4> HIDE DEF j
      <4>2. x[Len(n) + 1 + j] = p[j] /\ y[Len(n) + 1 + j] = k[j]
        BY <1>1, <1>3, <4>1
      <4> QED
        BY <2>1, <4>1, <4>2
    <3> QED
      BY <1>0, <1>1, <3>1, <3>2, <3>3
  <2>3. Len(x) <= Len(y)
    BY <1>0, <1>1, <1>3, <2>1
  <2> QED
    BY <1>1, <2>2, <2>3, PrefixBytes
<1> QED
  BY <1>2, <1>3 DEF x, y

\* Different objects have different keys.
LEMMA KeyInjective ==
  ASSUME NEW n \in Bytes, NEW p \in Bytes, NEW m \in Bytes, NEW k \in Bytes,
         ValidateKeyComponent(n), ValidateKeyComponent(m),
         ObjectKey(n, p) = ObjectKey(m, k)
  PROVE  n = m /\ p = k
<1>0. Len(p) \in Nat /\ Len(k) \in Nat
  BY LenProperties DEF Bytes
<1>1. IsPrefix(ObjectKey(n, p), ObjectKey(m, k)) /\ IsPrefix(ObjectKey(m, k), ObjectKey(n, p))
  <2>1. ObjectKey(n, p) \in Bytes /\ Len(ObjectKey(n, p)) \in Nat
    BY KeyBytes, LenProperties DEF Bytes
  <2> QED
    BY <2>1, PrefixBytes
<1>2. n = m /\ IsPrefix(p, k) /\ IsPrefix(k, p)
  BY <1>1, KeyPrefix
<1>3. Len(p) = Len(k) /\ \A i \in 1..Len(p) : p[i] = k[i]
  BY <1>0, <1>2, PrefixBytes
<1> QED
  BY <1>2, <1>3, SeqEqual DEF Bytes

\* The keys of a bucket are in the order of the objects.
LEMMA KeyOrder ==
  ASSUME NEW n \in Bytes, NEW k \in Bytes, NEW j \in Bytes,
         Before(ObjectKey(n, k), ObjectKey(n, j))
  PROVE  Before(k, j)
<1>0. Len(n) \in Nat /\ Len(k) \in Nat /\ Len(j) \in Nat
  BY LenProperties DEF Bytes
<1> DEFINE x == ObjectKey(n, k)
           y == ObjectKey(n, j)
<1>1. /\ x \in Bytes /\ y \in Bytes
      /\ Len(x) = Len(n) + 1 + Len(k) /\ Len(y) = Len(n) + 1 + Len(j)
      /\ \A i \in 1..Len(n) : x[i] = n[i] /\ y[i] = n[i]
      /\ x[Len(n) + 1] = keySeparator /\ y[Len(n) + 1] = keySeparator
      /\ \A i \in 1..Len(k) : x[Len(n) + 1 + i] = k[i]
      /\ \A i \in 1..Len(j) : y[Len(n) + 1 + i] = j[i]
  BY KeyBytes
<1>2. PICK i \in Nat : Parts(i, x, y)
  BY <1>1, BeforeParts
<1> HIDE DEF x, y
<1>3. \A l \in 1..Len(n) + 1 : x[l] = y[l]
  <2> SUFFICES ASSUME NEW l \in 1..Len(n) + 1 PROVE x[l] = y[l]
    OBVIOUS
  <2>1. l \in 1..Len(n) \/ l = Len(n) + 1
    BY <1>0
  <2> QED
    BY <1>1, <2>1
<1>4. \A l \in 1..Len(x) : x[l] \in Int
  BY <1>1, ByteInt
<1>5. i > Len(n) + 1
  <2> SUFFICES ASSUME i <= Len(n) + 1 PROVE FALSE
    BY <1>0
  <2>1. i \in 1..Len(n) + 1 /\ i \in 1..Len(x)
    BY <1>0, <1>1, <1>2 DEF Parts
  <2>2. x[i] < y[i] /\ x[i] = y[i] /\ x[i] \in Int
    BY <1>2, <1>3, <1>4, <2>1 DEF Parts
  <2> QED
    BY <2>2
<1> DEFINE h == i - (Len(n) + 1)
<1>6. h \in 1..Len(j) /\ h <= Len(k) + 1 /\ i = Len(n) + 1 + h
  BY <1>0, <1>1, <1>2, <1>5 DEF Parts
<1>7. ASSUME NEW l \in 1..h - 1 PROVE k[l] = j[l]
  <2>1. Len(n) + 1 + l \in 1..i - 1 /\ l \in 1..Len(k) /\ l \in 1..Len(j)
    BY <1>0, <1>6
  <2> QED
    BY <1>1, <1>2, <2>1 DEF Parts
<1> HIDE DEF h
<1>8. ASSUME h <= Len(k) PROVE k[h] < j[h]
  <2>1. h \in 1..Len(k) /\ i <= Len(x)
    BY <1>0, <1>1, <1>6, <1>8
  <2>2. x[Len(n) + 1 + h] = k[h] /\ y[Len(n) + 1 + h] = j[h]
    BY <1>1, <1>6, <2>1
  <2> QED
    BY <1>2, <1>6, <2>1, <2>2 DEF Parts
<1>9. Parts(h, k, j)
  BY <1>6, <1>7, <1>8 DEF Parts
<1> QED
  BY <1>6, <1>9, BeforeParts

-----------------------------------------------------------------------------
(* Tables and scans.                                                       *)

LEMMA Parameters ==
  /\ Names \subseteq Bytes /\ Keys \subseteq Bytes /\ Filters \subseteq Bytes
  /\ << >> \in Bytes
  BY KeySpaceAssumption DEF Bytes, Byte

LEMMA TableBytes ==
  ASSUME NEW t, IsTable(t)
  PROVE  /\ DOMAIN t \subseteq Bytes
         /\ \A x \in DOMAIN t : /\ t[x].name \in Bytes /\ t[x].key \in Bytes
                                /\ t[x].name \in Names /\ t[x].key \in Keys
                                /\ t[x].deleted \in BOOLEAN
                                /\ x = ObjectKey(t[x].name, t[x].key)
<1> SUFFICES ASSUME NEW x \in DOMAIN t
             PROVE  /\ x \in Bytes
                    /\ t[x].name \in Bytes /\ t[x].key \in Bytes
                    /\ t[x].name \in Names /\ t[x].key \in Keys
                    /\ t[x].deleted \in BOOLEAN
                    /\ x = ObjectKey(t[x].name, t[x].key)
  OBVIOUS
<1>1. t[x] \in Object /\ x = ObjectKey(t[x].name, t[x].key)
  BY DEF IsTable
<1>2. t[x].name \in Names /\ t[x].key \in Keys /\ t[x].deleted \in BOOLEAN
  BY <1>1 DEF Object
<1> QED
  BY <1>1, <1>2, Parameters, KeyBytes

LEMMA ScanBytes ==
  ASSUME NEW c, IsScan(c)
  PROVE  /\ c.name \in Bytes /\ c.prefix \in Bytes /\ Under(c) \in Bytes
         /\ c.rest \subseteq Bytes
<1>1. c.name \in Bytes /\ c.prefix \in Bytes
  BY Parameters DEF IsScan
<1> QED
  BY <1>1, KeyBytes, TableBytes DEF IsScan, Under

\* The key a cursor is at, while it is at one.
LEMMA CursorFirst ==
  ASSUME NEW c, IsScan(c), CursorPlaced(c), c.rest # {}
  PROVE  /\ First(c.rest) \in c.rest
         /\ First(c.rest) \in DOMAIN c.snap
         /\ \A y \in c.rest : First(c.rest) = y \/ Before(First(c.rest), y)
<1>1. c.rest \subseteq DOMAIN c.snap /\ IsFiniteSet(DOMAIN c.snap)
  BY DEF IsScan, CursorPlaced, Encodable
<1>2. IsFiniteSet(c.rest)
  BY <1>1, FS_Subset
<1> QED
  BY <1>1, <1>2, ScanBytes, FirstOfKeys

\* What a cursor has passed is before what it has not.
LEMMA PassedBefore ==
  ASSUME NEW c, IsScan(c), CursorPlaced(c),
         NEW x \in DOMAIN c.snap, x \notin c.rest, NEW y \in c.rest
  PROVE  Before(x, y)
<1>1. x \in Bytes /\ y \in Bytes
  BY TableBytes, ScanBytes DEF IsScan
<1>2. ~Before(y, x)
  BY DEF CursorPlaced
<1> QED
  BY <1>1, <1>2, BeforeTotal

\* A cursor under the prefix of a bucket is at an object of it.
LEMMA CursorInBucket ==
  ASSUME NEW c, IsScan(c), CursorPlaced(c), NEW x \in DOMAIN c.snap
  PROVE  IsPrefix(Under(c), x)
           <=> c.snap[x].name = c.name /\ IsPrefix(c.prefix, c.snap[x].key)
<1>1. /\ c.snap[x].name \in Bytes /\ c.snap[x].key \in Bytes
      /\ x = ObjectKey(c.snap[x].name, c.snap[x].key)
  BY TableBytes DEF IsScan
<1>2. /\ ValidateKeyComponent(c.snap[x].name) /\ ValidateKeyComponent(c.name)
  BY DEF CursorPlaced, Encodable
<1> QED
  BY <1>1, <1>2, ScanBytes, KeyPrefix DEF Under

\* A cursor that is over has passed everything it is after.
LEMMA OverPassed ==
  ASSUME NEW c, IsScan(c), CursorPlaced(c), Over(c), NEW x \in Wanted(c)
  PROVE  x \notin c.rest
<1> SUFFICES ASSUME x \in c.rest PROVE FALSE
  OBVIOUS
<1> DEFINE f == First(c.rest)
<1>1. f \in c.rest /\ (f = x \/ Before(f, x))
  BY CursorFirst
<1>2. ~IsPrefix(Under(c), f) /\ ~Before(f, Under(c)) /\ IsPrefix(Under(c), x)
  BY <1>1 DEF Over, CursorPlaced, Wanted
<1>3. f \in Bytes /\ x \in Bytes /\ Under(c) \in Bytes
  BY <1>1, ScanBytes
<1> HIDE DEF f
<1>4. Before(x, f) /\ f # x
  BY <1>2, <1>3, PrefixRange
<1> QED
  BY <1>1, <1>3, <1>4, BeforeTransitive, BeforeIrreflexive

\* A step of the cursor keeps its place.
LEMMA CursorMoves ==
  ASSUME NEW c, IsScan(c), CursorPlaced(c), c.rest # {},
         NEW d, d.snap = c.snap, d.name = c.name, d.prefix = c.prefix,
         d.rest = c.rest \ {First(c.rest)}
  PROVE  CursorPlaced(d)
<1> DEFINE f == First(c.rest)
<1>1. f \in c.rest /\ \A y \in c.rest : f = y \/ Before(f, y)
  BY CursorFirst
<1>2. Under(d) = Under(c)
  BY DEF Under
<1>3. ASSUME NEW x \in d.rest, NEW y \in DOMAIN d.snap, Before(x, y)
      PROVE  y \in d.rest
  <2>1. x \in c.rest /\ y \in c.rest /\ x # f /\ Before(f, x)
    BY <1>1, <1>3 DEF CursorPlaced
  <2>2. y # f
    BY <1>1, <1>3, <2>1, ScanBytes, BeforeTransitive, BeforeIrreflexive
  <2> QED
    BY <2>1, <2>2
<1> QED
  BY <1>2, <1>3 DEF CursorPlaced

\* A scan whose cursor has moved.
LEMMA PassScan ==
  ASSUME NEW c, IsScan(c), NEW p \in Seq(Keys), NEW d, d = Pass(c, p)
  PROVE  /\ IsScan(d)
         /\ d.op = c.op /\ d.name = c.name /\ d.prefix = c.prefix
         /\ d.limit = c.limit /\ d.snap = c.snap
         /\ d.rest = c.rest \ {First(c.rest)} /\ d.page = p
<1> DEFINE r == c.rest \ {First(c.rest)}
<1>1. c = [op |-> c.op, name |-> c.name, prefix |-> c.prefix, limit |-> c.limit,
           snap |-> c.snap, rest |-> c.rest, page |-> c.page]
  BY DEF IsScan
<1>2. d = [op |-> c.op, name |-> c.name, prefix |-> c.prefix, limit |-> c.limit,
           snap |-> c.snap, rest |-> r, page |-> p]
  BY <1>1 DEF Pass
<1>3. /\ d.op = c.op /\ d.name = c.name /\ d.prefix = c.prefix
      /\ d.limit = c.limit /\ d.snap = c.snap
      /\ d.rest = r /\ d.page = p
  BY <1>2
<1> QED
  BY <1>2, <1>3 DEF IsScan

\* A scan is not the idle state of a scanner.
LEMMA ScanBusy ==
  ASSUME NEW c, c.op \in {"List", "AskEmpty"}
  PROVE  c # NoScan
  BY DEF NoScan

\* A cursor at a deleted object passes nothing that is wanted.
LEMMA PassDeleted ==
  ASSUME NEW c, IsScan(c), ScanSound(c), ~Over(c), Current(c).deleted,
         NEW d, d = Pass(c, c.page)
  PROVE  IsScan(d) /\ ScanSound(d)
<1> DEFINE f == First(c.rest)
<1>1. CursorPlaced(c) /\ c.rest # {}
  BY DEF ScanSound, Over
<1>2. /\ IsScan(d)
      /\ d.op = c.op /\ d.name = c.name /\ d.prefix = c.prefix
      /\ d.limit = c.limit /\ d.snap = c.snap
      /\ d.rest = c.rest \ {f} /\ d.page = c.page
  BY PassScan DEF IsScan
<1>3. CursorPlaced(d)
  BY <1>1, <1>2, CursorMoves
<1>4. Wanted(d) = Wanted(c) /\ f \notin Wanted(c)
  BY <1>2 DEF Wanted, Under, Current
<1>5. Wanted(d) \ d.rest = Wanted(c) \ c.rest
  BY <1>2, <1>4
<1>6. ASSUME c.op = "List" PROVE PageCollected(d)
  <2>1. PageCollected(c)
    BY <1>6 DEF ScanSound
  <2>2. Len(d.page) <= Size(d)
    BY <1>2, <2>1 DEF PageCollected, Size
  <2>3. \A i, j \in DOMAIN d.page : i < j => Before(d.page[i], d.page[j])
    BY <1>2, <2>1 DEF PageCollected
  <2>4. \A i \in DOMAIN d.page : ObjectKey(d.name, d.page[i]) \in Wanted(d) \ d.rest
    <3> SUFFICES ASSUME NEW i \in DOMAIN c.page
                 PROVE  ObjectKey(c.name, c.page[i]) \in Wanted(d) \ d.rest
      BY <1>2, Zenon
    <3> QED
      BY <1>5, <2>1, Zenon DEF PageCollected
  <2>5. \A x \in Wanted(d) \ d.rest : \E i \in DOMAIN d.page : d.page[i] = d.snap[x].key
    <3> SUFFICES ASSUME NEW x \in Wanted(d) \ d.rest
                 PROVE  \E i \in DOMAIN d.page : d.page[i] = d.snap[x].key
      OBVIOUS
    <3>1. PICK i \in DOMAIN c.page : c.page[i] = c.snap[x].key
      BY <1>5, <2>1, Zenon DEF PageCollected
    <3> QED
      BY <1>2, <3>1
  <2> QED
    BY <2>2, <2>3, <2>4, <2>5 DEF PageCollected
<1>7. ASSUME c.op = "AskEmpty" PROVE NothingFound(d)
  BY <1>2, <1>4, <1>7 DEF ScanSound, NothingFound
<1> QED
  BY <1>2, <1>3, <1>6, <1>7 DEF ScanSound

\* A listing at a live object passes it and has it at the end of its page.
LEMMA PassLive ==
  ASSUME NEW c, IsScan(c), ScanSound(c), ~Over(c), ~Current(c).deleted,
         c.op = "List", Len(c.page) < Size(c),
         NEW d, d = Pass(c, Append(c.page, Current(c).key))
  PROVE  IsScan(d) /\ ScanSound(d)
<1> DEFINE f == First(c.rest)
           k == Current(c).key
           p == c.page
<1>1. CursorPlaced(c) /\ c.rest # {} /\ PageCollected(c)
  BY DEF ScanSound, Over
<1>2. f \in c.rest /\ f \in DOMAIN c.snap /\ IsPrefix(Under(c), f)
  BY <1>1, CursorFirst DEF Over
<1>3. f \in Wanted(c)
  BY <1>2 DEF Wanted, Current
<1>4. /\ c.snap[f].name = c.name /\ k = c.snap[f].key
      /\ k \in Keys /\ k \in Bytes /\ f = ObjectKey(c.name, k)
  BY <1>1, <1>2, CursorInBucket, TableBytes DEF Current, IsScan
<1>5. p \in Seq(Keys) /\ Len(p) \in Nat /\ DOMAIN p = 1..Len(p)
  BY LenProperties DEF IsScan
<1>6. /\ Append(p, k) \in Seq(Keys)
      /\ Len(Append(p, k)) = Len(p) + 1
      /\ DOMAIN Append(p, k) = 1..Len(p) + 1
      /\ \A i \in 1..Len(p) : Append(p, k)[i] = p[i]
      /\ Append(p, k)[Len(p) + 1] = k
  BY <1>4, <1>5, AppendProperties, LenProperties
<1>7. /\ IsScan(d)
      /\ d.op = c.op /\ d.name = c.name /\ d.prefix = c.prefix
      /\ d.limit = c.limit /\ d.snap = c.snap
      /\ d.rest = c.rest \ {f} /\ d.page = Append(p, k)
  <2> DEFINE q == Append(p, k)
  <2>1. q \in Seq(Keys) /\ d = Pass(c, q)
    BY <1>6
  <2> HIDE DEF q
  <2>2. /\ IsScan(d)
        /\ d.op = c.op /\ d.name = c.name /\ d.prefix = c.prefix
        /\ d.limit = c.limit /\ d.snap = c.snap
        /\ d.rest = c.rest \ {f} /\ d.page = q
    BY <2>1, PassScan
  <2> QED
    BY <2>2 DEF q
<1>8. CursorPlaced(d)
  BY <1>1, <1>7, CursorMoves
<1>9. Wanted(d) = Wanted(c)
  BY <1>7 DEF Wanted, Under
<1>10. Wanted(d) \ d.rest = (Wanted(c) \ c.rest) \union {f}
  BY <1>2, <1>3, <1>7, <1>9
<1>11. ASSUME NEW i \in 1..Len(p)
       PROVE  /\ ObjectKey(c.name, p[i]) \in Wanted(c) \ c.rest
              /\ Before(p[i], k)
  <2>1. ObjectKey(c.name, p[i]) \in Wanted(c) \ c.rest
    BY <1>1, <1>5 DEF PageCollected
  <2>2. Before(ObjectKey(c.name, p[i]), f)
    BY <1>1, <1>2, <2>1, PassedBefore DEF Wanted
  <2>3. p[i] \in Keys
    BY <1>5, ElementOfSeq
  <2>4. p[i] \in Bytes /\ c.name \in Bytes
    BY <2>3, Parameters, ScanBytes
  <2> QED
    BY <1>4, <2>1, <2>2, <2>4, KeyOrder
<1> HIDE DEF f, k, p
<1>12. PageCollected(d)
  <2>1. Len(d.page) <= Size(d)
    <3>1. Size(d) = Size(c) /\ Size(c) \in Nat
      BY <1>7, KeySpaceAssumption DEF Size, IsScan
    <3> QED
      BY <1>5, <1>6, <1>7, <3>1 DEF p
  <2>2. ASSUME NEW i \in DOMAIN d.page, NEW j \in DOMAIN d.page, i < j
        PROVE  Before(d.page[i], d.page[j])
    <3>1. i \in 1..Len(p) /\ (j \in 1..Len(p) \/ j = Len(p) + 1)
      BY <1>5, <1>6, <1>7, <2>2
    <3>2. CASE j \in 1..Len(p)
      <4>1. Before(p[i], p[j])
        BY <1>1, <1>5, <2>2, <3>1, <3>2 DEF PageCollected, p
      <4> QED
        BY <1>6, <1>7, <3>1, <3>2, <4>1
    <3>3. CASE j = Len(p) + 1
      BY <1>6, <1>7, <1>11, <3>1, <3>3
    <3> QED
      BY <3>1, <3>2, <3>3
  <2>3. ASSUME NEW i \in DOMAIN d.page
        PROVE  ObjectKey(d.name, d.page[i]) \in Wanted(d) \ d.rest
    <3>1. i \in 1..Len(p) \/ i = Len(p) + 1
      BY <1>5, <1>6, <1>7
    <3> QED
      BY <1>4, <1>6, <1>7, <1>10, <1>11, <3>1
  <2>4. ASSUME NEW x \in Wanted(d) \ d.rest
        PROVE  \E i \in DOMAIN d.page : d.page[i] = d.snap[x].key
    <3>1. CASE x = f
      <4>1. Len(p) + 1 \in DOMAIN d.page
        BY <1>5, <1>6, <1>7
      <4> QED
        BY <1>4, <1>6, <1>7, <3>1, <4>1
    <3>2. CASE x \in Wanted(c) \ c.rest
      <4>1. PICK i \in DOMAIN p : p[i] = c.snap[x].key
        BY <1>1, <3>2 DEF PageCollected, p
      <4>2. i \in 1..Len(p) /\ i \in DOMAIN d.page
        BY <1>5, <1>6, <1>7
      <4> QED
        BY <1>6, <1>7, <4>1, <4>2
    <3> QED
      BY <1>10, <3>1, <3>2
  <2> QED
    BY <2>1, <2>2, <2>3, <2>4 DEF PageCollected
<1> QED
  BY <1>7, <1>8, <1>12 DEF ScanSound

\* A key with a prefix is not before it.
LEMMA PrefixFirst ==
  ASSUME NEW p \in Bytes, NEW x \in Bytes, IsPrefix(p, x)
  PROVE  ~Before(x, p)
<1>1. Len(p) \in Nat /\ Len(x) \in Nat
  BY LenProperties DEF Bytes
<1>2. Len(p) <= Len(x) /\ \A i \in 1..Len(p) : p[i] = x[i]
  BY PrefixBytes
<1>3. ASSUME NEW i \in Nat, Parts(i, x, p) PROVE FALSE
  <2>1. i \in 1..Len(p) /\ i <= Len(x) /\ x[i] < p[i]
    BY <1>1, <1>2, <1>3 DEF Parts
  <2>2. p[i] = x[i] /\ p[i] \in Int
    BY <1>2, <2>1, ByteInt
  <2> QED
    BY <2>1, <2>2
<1> QED
  BY <1>3, BeforeParts

\* A transaction that begins.
LEMMA SeekSound ==
  ASSUME NEW t, IsTable(t), Encodable(t), NEW op \in {"List", "AskEmpty"},
         NEW n \in Names, NEW prefix \in Filters \union {<< >>}, NEW limit \in Nat,
         ValidateKeyComponent(n), ValidateKeyComponent(prefix),
         op = "AskEmpty" => prefix = << >>,
         NEW d, d = [op |-> op, name |-> n, prefix |-> prefix, limit |-> limit,
                     snap |-> t, page |-> << >>,
                     rest |-> {x \in DOMAIN t : ~Before(x, ObjectKey(n, prefix))}]
  PROVE  IsScan(d) /\ ScanSound(d)
<1>1. /\ d.op = op /\ d.name = n /\ d.prefix = prefix /\ d.limit = limit
      /\ d.snap = t /\ d.page = << >>
      /\ d.rest = {x \in DOMAIN t : ~Before(x, Under(d))}
  BY DEF Under
<1>2. d = [op |-> d.op, name |-> d.name, prefix |-> d.prefix, limit |-> d.limit,
           snap |-> d.snap, rest |-> d.rest, page |-> d.page]
  OBVIOUS
<1>3. IsScan(d)
  BY <1>1, <1>2 DEF IsScan
<1>4. Under(d) \in Bytes /\ DOMAIN t \subseteq Bytes
  BY <1>3, ScanBytes, TableBytes
<1>5. CursorPlaced(d)
  <2>1. ASSUME NEW x \in d.rest, NEW y \in DOMAIN d.snap, Before(x, y)
        PROVE  y \in d.rest
    BY <1>1, <1>4, <2>1, BeforeTransitive
  <2> QED
    BY <1>1, <2>1 DEF CursorPlaced
<1>6. Wanted(d) \subseteq d.rest
  BY <1>1, <1>4, PrefixFirst DEF Wanted
<1>7. ASSUME op = "List" PROVE PageCollected(d)
  <2>1. Len(d.page) = 0 /\ DOMAIN d.page = {}
    BY <1>1
  <2>2. Size(d) \in Nat
    BY <1>1, KeySpaceAssumption DEF Size
  <2> QED
    BY <1>6, <2>1, <2>2 DEF PageCollected
<1>8. ASSUME op = "AskEmpty" PROVE NothingFound(d)
  BY <1>1, <1>6, <1>8 DEF NothingFound
<1> QED
  BY <1>1, <1>3, <1>5, <1>7, <1>8 DEF ScanSound

-----------------------------------------------------------------------------
(* The invariant.                                                          *)

LEMMA AnswerTyped ==
  ASSUME NEW op \in {"None", "Put", "Delete", "List", "AskEmpty"}, NEW at,
         NEW err \in {"none", "ok", "NotFound", "NotEmpty", "Internal", "BadRequest"}
  PROVE  IsAnswer(Answer(op, at, err))
<1>1. << >> \in Seq(Keys)
  OBVIOUS
<1> QED
  BY <1>1 DEF IsAnswer, Answer

LEMMA KeyInitially == Init => KeyInv
<1> SUFFICES ASSUME Init PROVE KeyInv
  OBVIOUS
<1>1. DOMAIN bolt = {}
  BY DEF Init
<1>2. IsTable(bolt) /\ Encodable(bolt)
  BY <1>1, FS_EmptySet DEF IsTable, Encodable
<1>3. IsAnswer(answer)
  BY AnswerTyped DEF Init
<1>4. /\ scan = [s \in Scanners |-> scan[s]]
      /\ \A s \in Scanners : scan[s] = NoScan
  BY DEF Init
<1> QED
  BY <1>2, <1>3, <1>4 DEF KeyInv, TypeOK

\* Writers and emptiness checks exclude one another.
LEMMA WritesKeep ==
  ASSUME KeyInv, WriterFree, IsTable(bolt'), Encodable(bolt'), IsAnswer(answer'),
         UNCHANGED scan
  PROVE  KeyInv'
<1>1. TypeOK'
  BY DEF KeyInv, TypeOK
<1>2. ASSUME NEW s \in Scanners, scan'[s] # NoScan
      PROVE  ScanSound(scan'[s]) /\ scan'[s].op # "AskEmpty"
  BY <1>2 DEF KeyInv, WriterFree, Idle
<1> QED
  BY <1>1, <1>2 DEF KeyInv

\* One scanner moves.
LEMMA ScansKeep ==
  ASSUME KeyInv, NEW s \in Scanners, NEW d, scan' = [scan EXCEPT ![s] = d],
         d = NoScan \/ (IsScan(d) /\ ScanSound(d)),
         d = NoScan \/ d.op # "AskEmpty" \/ d.snap = bolt,
         UNCHANGED bolt, IsAnswer(answer')
  PROVE  KeyInv'
<1>1. scan = [r \in Scanners |-> scan[r]]
  BY DEF KeyInv, TypeOK
<1>2. /\ scan' = [r \in Scanners |-> scan'[r]]
      /\ \A r \in Scanners : scan'[r] = IF r = s THEN d ELSE scan[r]
  BY <1>1
<1>3. TypeOK'
  BY <1>2 DEF KeyInv, TypeOK
<1>4. Encodable(bolt')
  BY DEF KeyInv
<1>5. ASSUME NEW r \in Scanners, scan'[r] # NoScan
      PROVE  /\ ScanSound(scan'[r])
             /\ scan'[r].op = "AskEmpty" => scan'[r].snap = bolt'
  BY <1>2, <1>5 DEF KeyInv
<1> QED
  BY <1>3, <1>4, <1>5 DEF KeyInv

LEMMA PutKeeps ==
  ASSUME KeyInv, NEW n \in Names, NEW k \in Keys, Put(n, k)
  PROVE  KeyInv'
<1>1. WriterFree /\ UNCHANGED scan
  BY DEF Put
<1>2. IsTable(bolt) /\ Encodable(bolt)
  BY DEF KeyInv, TypeOK
<1>3. CASE ~ValidateKeyComponent(n) \/ ~ValidateKeyComponent(k)
  <2>1. UNCHANGED bolt /\ answer' = Answer("Put", <<n, k>>, "Internal")
    BY <1>3 DEF Put
  <2> QED
    BY <1>1, <1>2, <2>1, AnswerTyped, WritesKeep
<1>4. CASE ValidateKeyComponent(n) /\ ValidateKeyComponent(k)
  <2> DEFINE new == [name |-> n, key |-> k, deleted |-> FALSE]
  <2>1. /\ answer' = Answer("Put", <<n, k>>, "ok")
        /\ bolt' = [x \in DOMAIN bolt \union {ObjectKey(n, k)} |->
                      IF x = ObjectKey(n, k) THEN new ELSE bolt[x]]
    BY <1>4 DEF Put
  <2>2. new \in Object /\ new.name = n /\ new.key = k
    BY DEF Object
  <2> HIDE DEF new
  <2>3. IsTable(bolt')
    BY <1>2, <2>1, <2>2 DEF IsTable
  <2>4. IsFiniteSet(DOMAIN bolt')
    <3>1. DOMAIN bolt' = DOMAIN bolt \union {ObjectKey(n, k)}
      BY <2>1
    <3> QED
      BY <1>2, <3>1, FS_AddElement DEF Encodable
  <2>5. Encodable(bolt')
    BY <1>2, <1>4, <2>1, <2>2, <2>4 DEF Encodable
  <2> QED
    BY <1>1, <2>1, <2>3, <2>5, AnswerTyped, WritesKeep
<1> QED
  BY <1>3, <1>4

LEMMA DeleteKeeps ==
  ASSUME KeyInv, NEW n \in Names, NEW k \in Keys, Delete(n, k)
  PROVE  KeyInv'
<1> DEFINE x == ObjectKey(n, k)
<1>1. WriterFree /\ UNCHANGED scan
  BY DEF Delete
<1>2. IsTable(bolt) /\ Encodable(bolt)
  BY DEF KeyInv, TypeOK
<1>3. IsAnswer(answer')
  BY AnswerTyped DEF Delete
<1>4. CASE UNCHANGED bolt
  BY <1>1, <1>2, <1>3, <1>4, WritesKeep
<1>5. CASE Live(x) /\ bolt' = [bolt EXCEPT ![x].deleted = TRUE]
  <2>1. x \in DOMAIN bolt /\ bolt[x] \in Object
    BY <1>2, <1>5 DEF Live, IsTable
  <2> DEFINE gone == [bolt[x] EXCEPT !.deleted = TRUE]
  <2>2. gone \in Object /\ gone.name = bolt[x].name /\ gone.key = bolt[x].key
    BY <2>1 DEF Object
  <2>3. bolt' = [bolt EXCEPT ![x] = gone]
    BY <1>5
  <2> HIDE DEF gone, x
  <2>4. /\ DOMAIN bolt' = DOMAIN bolt
        /\ \A y \in DOMAIN bolt : bolt'[y] = IF y = x THEN gone ELSE bolt[y]
    BY <2>3
  <2>5. IsTable(bolt')
    BY <1>2, <2>2, <2>4 DEF IsTable
  <2>6. Encodable(bolt')
    BY <1>2, <2>2, <2>4 DEF Encodable
  <2> QED
    BY <1>1, <1>3, <2>5, <2>6, WritesKeep
<1> QED
  BY <1>4, <1>5 DEF Delete

LEMMA ListKeeps ==
  ASSUME KeyInv, NEW s \in Scanners, NEW n \in Names, NEW prefix \in Filters,
         NEW limit \in Limits, List(s, n, prefix, limit)
  PROVE  KeyInv'
<1>1. CASE /\ UNCHANGED <<bolt, scan>>
           /\ \/ answer' = Answer("List", <<n, prefix, limit>>, "BadRequest")
              \/ answer' = Answer("List", <<n, prefix, limit>>, "Internal")
  <2>1. IsAnswer(answer')
    BY <1>1, AnswerTyped
  <2> QED
    BY <1>1, <2>1 DEF KeyInv, TypeOK
<1>2. CASE /\ limit >= 0
           /\ ValidateKeyComponent(n) /\ ValidateKeyComponent(prefix)
           /\ Seek(s, "List", n, prefix, limit)
  <2> DEFINE d == [op |-> "List", name |-> n, prefix |-> prefix, limit |-> limit,
                   snap |-> bolt, page |-> << >>,
                   rest |-> {x \in DOMAIN bolt : ~Before(x, ObjectKey(n, prefix))}]
  <2>1. limit \in Nat
    BY <1>2, KeySpaceAssumption
  <2>2. IsTable(bolt) /\ Encodable(bolt)
    BY DEF KeyInv, TypeOK
  <2>3. IsScan(d) /\ ScanSound(d)
    BY <1>2, <2>1, <2>2, SeekSound
  <2>4. d.op # "AskEmpty"
    OBVIOUS
  <2>5. scan' = [scan EXCEPT ![s] = d] /\ UNCHANGED <<bolt, answer>>
    BY <1>2 DEF Seek
  <2> HIDE DEF d
  <2>6. IsAnswer(answer')
    BY <2>5 DEF KeyInv, TypeOK
  <2> QED
    BY <2>3, <2>4, <2>5, <2>6, ScansKeep
<1> QED
  BY <1>1, <1>2 DEF List

LEMMA AskEmptyKeeps ==
  ASSUME KeyInv, NEW s \in Scanners, NEW n \in Names, AskEmpty(s, n)
  PROVE  KeyInv'
<1>1. CASE UNCHANGED <<bolt, scan>> /\ answer' = Answer("AskEmpty", <<n>>, "Internal")
  <2>1. IsAnswer(answer')
    BY <1>1, AnswerTyped
  <2> QED
    BY <1>1, <2>1 DEF KeyInv, TypeOK
<1>2. CASE ValidateKeyComponent(n) /\ Seek(s, "AskEmpty", n, << >>, 0)
  <2> DEFINE d == [op |-> "AskEmpty", name |-> n, prefix |-> << >>, limit |-> 0,
                   snap |-> bolt, page |-> << >>,
                   rest |-> {x \in DOMAIN bolt : ~Before(x, ObjectKey(n, << >>))}]
  <2>1. ValidateKeyComponent(<< >>)
    BY DEF ValidateKeyComponent
  <2>2. IsTable(bolt) /\ Encodable(bolt)
    BY DEF KeyInv, TypeOK
  <2>3. IsScan(d) /\ ScanSound(d)
    BY <1>2, <2>1, <2>2, SeekSound
  <2>4. d.snap = bolt
    OBVIOUS
  <2>5. scan' = [scan EXCEPT ![s] = d] /\ UNCHANGED <<bolt, answer>>
    BY <1>2 DEF Seek
  <2> HIDE DEF d
  <2>6. IsAnswer(answer')
    BY <2>5 DEF KeyInv, TypeOK
  <2> QED
    BY <2>3, <2>4, <2>5, <2>6, ScansKeep
<1> QED
  BY <1>1, <1>2 DEF AskEmpty

LEMMA ListMoreKeeps ==
  ASSUME KeyInv, NEW s \in Scanners, ListMore(s)
  PROVE  KeyInv'
<1> DEFINE c == scan[s]
<1>1. /\ c # NoScan /\ c.op = "List" /\ ~Over(c) /\ Len(c.page) < Size(c)
      /\ UNCHANGED <<bolt, answer>>
  BY DEF ListMore, Listing, Idle
<1>2. IsScan(c) /\ ScanSound(c) /\ IsAnswer(answer')
  BY <1>1 DEF KeyInv, TypeOK
<1>3. CASE Current(c).deleted
  <2> DEFINE d == Pass(c, c.page)
  <2>1. scan' = [scan EXCEPT ![s] = d]
    BY <1>3 DEF ListMore
  <2>2. IsScan(d) /\ ScanSound(d)
    BY <1>1, <1>2, <1>3, PassDeleted
  <2>3. d.op # "AskEmpty"
    BY <1>1, <1>2 DEF Pass, IsScan
  <2> HIDE DEF d
  <2> QED
    BY <1>1, <1>2, <2>1, <2>2, <2>3, ScansKeep
<1>4. CASE ~Current(c).deleted
  <2> DEFINE d == Pass(c, Append(c.page, Current(c).key))
  <2>1. scan' = [scan EXCEPT ![s] = d]
    BY <1>4 DEF ListMore
  <2>2. IsScan(d) /\ ScanSound(d)
    BY <1>1, <1>2, <1>4, PassLive
  <2>3. d.op # "AskEmpty"
    BY <1>1, <1>2 DEF Pass, IsScan
  <2> HIDE DEF d
  <2> QED
    BY <1>1, <1>2, <2>1, <2>2, <2>3, ScansKeep
<1> QED
  BY <1>3, <1>4

LEMMA AskMoreKeeps ==
  ASSUME KeyInv, NEW s \in Scanners, AskMore(s)
  PROVE  KeyInv'
<1> DEFINE c == scan[s]
           d == Pass(c, c.page)
<1>1. /\ c # NoScan /\ c.op = "AskEmpty" /\ ~Over(c) /\ Current(c).deleted
      /\ UNCHANGED <<bolt, answer>>
  BY DEF AskMore, Asking, Idle
<1>2. IsScan(c) /\ ScanSound(c) /\ IsAnswer(answer') /\ c.snap = bolt
  BY <1>1 DEF KeyInv, TypeOK
<1>3. scan' = [scan EXCEPT ![s] = d]
  BY DEF AskMore
<1>4. IsScan(d) /\ ScanSound(d)
  BY <1>1, <1>2, PassDeleted
<1>5. d.snap = bolt
  BY <1>1, <1>2 DEF Pass, IsScan
<1> HIDE DEF d
<1> QED
  BY <1>1, <1>2, <1>3, <1>4, <1>5, ScansKeep

\* A scan that answers leaves nothing behind.
LEMMA RespondKeeps ==
  ASSUME KeyInv, NEW s \in Scanners, scan[s] # NoScan,
         NEW err \in {"ok", "NotEmpty", "Internal"}, NEW page \in Seq(Keys),
         Respond(s, err, page)
  PROVE  KeyInv'
<1>1. scan[s].op \in {"List", "AskEmpty"}
  BY DEF KeyInv, TypeOK, IsScan
<1>2. IsAnswer(answer')
  BY <1>1 DEF Respond, IsAnswer
<1> QED
  BY <1>2, ScansKeep DEF Respond

LEMMA EndsKeep ==
  ASSUME KeyInv, NEW s \in Scanners, ListDone(s) \/ AskDone(s) \/ GiveUp(s)
  PROVE  KeyInv'
<1>1. scan[s] # NoScan /\ IsScan(scan[s])
  BY DEF ListDone, AskDone, GiveUp, Listing, Asking, Idle, KeyInv, TypeOK
<1>2. << >> \in Seq(Keys) /\ scan[s].page \in Seq(Keys)
  BY <1>1 DEF IsScan
<1>3. \E err \in {"ok", "NotEmpty", "Internal"}, page \in {<< >>, scan[s].page} :
        Respond(s, err, page)
  BY DEF ListDone, AskDone, GiveUp
<1> QED
  BY <1>1, <1>2, <1>3, RespondKeeps

LEMMA KeyStep == KeyInv /\ [Next]_vars => KeyInv'
<1> SUFFICES ASSUME KeyInv, [Next]_vars PROVE KeyInv'
  OBVIOUS
<1>1. ASSUME NEW n \in Names, NEW k \in Keys, Put(n, k) \/ Delete(n, k)
      PROVE  KeyInv'
  BY <1>1, PutKeeps, DeleteKeeps
<1>2. ASSUME NEW s \in Scanners, NEW n \in Names, NEW prefix \in Filters,
             NEW limit \in Limits, List(s, n, prefix, limit)
      PROVE  KeyInv'
  BY <1>2, ListKeeps
<1>3. ASSUME NEW s \in Scanners, NEW n \in Names, AskEmpty(s, n) PROVE KeyInv'
  BY <1>3, AskEmptyKeeps
<1>4. ASSUME NEW s \in Scanners,
             ListMore(s) \/ ListDone(s) \/ AskMore(s) \/ AskDone(s) \/ GiveUp(s)
      PROVE  KeyInv'
  BY <1>4, ListMoreKeeps, AskMoreKeeps, EndsKeep
<1>5. CASE UNCHANGED vars
  BY <1>5 DEF vars, KeyInv, TypeOK
<1> QED
  BY <1>1, <1>2, <1>3, <1>4, <1>5 DEF Next

\* The inductive invariant: every scan has placed its cursor and its page.
THEOREM KeyInvariance == Spec => []KeyInv
  BY KeyInitially, KeyStep, PTL DEF Spec

\* Types, of the table, the scans and the answers.
THEOREM KeysTyped == Spec => []TypeOK
<1>1. KeyInv => TypeOK
  BY DEF KeyInv
<1> QED
  BY <1>1, KeyInvariance, PTL

-----------------------------------------------------------------------------
(* The catalog.                                                            *)

\* The two ways to say that a component has no separator in it.
LEMMA UsableIsValid ==
  ASSUME NEW v
  PROVE  Pairs!Usable(v) <=> ValidateKeyComponent(v)
  BY DEF Pairs!Usable, Pairs!Range, ValidateKeyComponent, keySeparator

\* A pair is live if there is a live object under its key.
LEMMA LivePair ==
  ASSUME NEW t, IsTable(t), Encodable(t), NEW n \in Bytes, NEW k \in Bytes,
         ValidateKeyComponent(n)
  PROVE  <<n, k>> \in LivePairs(t)
           <=> ObjectKey(n, k) \in DOMAIN t /\ ~t[ObjectKey(n, k)].deleted
<1>1. ASSUME <<n, k>> \in LivePairs(t)
      PROVE  ObjectKey(n, k) \in DOMAIN t /\ ~t[ObjectKey(n, k)].deleted
  <2>1. PICK x \in DOMAIN t : ~t[x].deleted /\ t[x].name = n /\ t[x].key = k
    BY <1>1 DEF LivePairs
  <2> QED
    BY <2>1, TableBytes
<1>2. ASSUME ObjectKey(n, k) \in DOMAIN t, ~t[ObjectKey(n, k)].deleted
      PROVE  <<n, k>> \in LivePairs(t)
  <2> DEFINE x == ObjectKey(n, k)
  <2>1. /\ x = ObjectKey(t[x].name, t[x].key)
        /\ t[x].name \in Bytes /\ t[x].key \in Bytes
    BY <1>2, TableBytes
  <2>2. ValidateKeyComponent(t[x].name)
    BY <1>2 DEF Encodable
  <2>3. t[x].name = n /\ t[x].key = k
    BY <2>1, <2>2, KeyInjective
  <2> HIDE DEF x
  <2>4. x \in DOMAIN t /\ ~t[x].deleted
    BY <1>2 DEF x
  <2> QED
    BY <2>3, <2>4 DEF LivePairs
<1> QED
  BY <1>1, <1>2

\* The page of a listing that ends is what the catalog asks of it.
LEMMA PageRight ==
  ASSUME NEW c, IsScan(c), ScanSound(c), c.op = "List",
         Over(c) \/ ~(Len(c.page) < Size(c))
  PROVE  Pairs!IsPage(c.page, c.name, c.prefix, Size(c), LivePairs(c.snap))
<1> DEFINE found == {k \in Keys : /\ <<c.name, k>> \in LivePairs(c.snap)
                                  /\ Pairs!IsPrefix(c.prefix, k)}
           Path(k) == ObjectKey(c.name, k)
<1>1. /\ CursorPlaced(c) /\ PageCollected(c) /\ IsTable(c.snap) /\ Encodable(c.snap)
      /\ ValidateKeyComponent(c.name) /\ c.name \in Bytes
  BY ScanBytes DEF ScanSound, CursorPlaced, IsScan
<1>2. /\ c.page \in Seq(Keys) /\ Len(c.page) \in Nat
      /\ DOMAIN c.page = 1..Len(c.page)
      /\ \A i \in DOMAIN c.page : c.page[i] \in Keys /\ c.page[i] \in Bytes
  <2>1. c.page \in Seq(Keys)
    BY DEF IsScan
  <2> QED
    BY <2>1, LenProperties, ElementOfSeq, Parameters
<1>3. ASSUME NEW k \in Keys
      PROVE  k \in found <=> Path(k) \in Wanted(c)
  <2>1. k \in Bytes
    BY Parameters
  <2>2. Pairs!IsPrefix(c.prefix, k) <=> IsPrefix(c.prefix, k)
    BY DEF Pairs!IsPrefix, IsPrefix
  <2>3. <<c.name, k>> \in LivePairs(c.snap)
          <=> Path(k) \in DOMAIN c.snap /\ ~c.snap[Path(k)].deleted
    BY <1>1, <2>1, LivePair
  <2>4. IsPrefix(Under(c), Path(k)) <=> IsPrefix(c.prefix, k)
    BY <1>1, <2>1, ScanBytes, KeyPrefix DEF Under
  <2> QED
    BY <2>2, <2>3, <2>4 DEF Wanted
<1> HIDE DEF found
<1>4. \A i, j \in DOMAIN c.page : i < j => Pairs!Before(c.page[i], c.page[j])
  BY <1>1 DEF PageCollected, Pairs!Before, Before, Pairs!IsStrictPrefix,
              IsStrictPrefix, Pairs!IsPrefix, IsPrefix
<1>5. \A i \in DOMAIN c.page : Path(c.page[i]) \in Wanted(c) \ c.rest
  BY <1>1 DEF PageCollected
<1>6. Pairs!Range(c.page) \subseteq found
  <2> SUFFICES ASSUME NEW i \in DOMAIN c.page PROVE c.page[i] \in found
    BY DEF Pairs!Range
  <2> QED
    BY <1>2, <1>3, <1>5
<1>7. Len(c.page) <= Size(c) /\ Size(c) \in Nat
  BY <1>1, KeySpaceAssumption DEF PageCollected, Size, IsScan
<1>8. ASSUME NEW k \in found \ Pairs!Range(c.page)
      PROVE  /\ Len(c.page) = Size(c)
             /\ \A i \in DOMAIN c.page : Pairs!Before(c.page[i], k)
  <2>1. k \in Keys /\ k \in Bytes
    BY Parameters DEF found
  <2>2. Path(k) \in Wanted(c)
    BY <1>3, <2>1
  <2>3. Path(k) \in c.rest
    <3> SUFFICES ASSUME Path(k) \notin c.rest PROVE FALSE
      OBVIOUS
    <3>1. PICK i \in DOMAIN c.page : c.page[i] = c.snap[Path(k)].key
      BY <1>1, <2>2 DEF PageCollected
    <3>2. Path(k) \in DOMAIN c.snap
      BY <2>2 DEF Wanted
    <3>3. /\ Path(k) = ObjectKey(c.snap[Path(k)].name, c.snap[Path(k)].key)
          /\ c.snap[Path(k)].name \in Bytes /\ c.snap[Path(k)].key \in Bytes
          /\ ValidateKeyComponent(c.snap[Path(k)].name)
      BY <1>1, <3>2, TableBytes DEF Encodable
    <3>4. c.snap[Path(k)].key = k
      BY <1>1, <2>1, <3>3, KeyInjective
    <3> QED
      BY <3>1, <3>4 DEF Pairs!Range
  <2>4. ~Over(c)
    BY <1>1, <2>2, <2>3, OverPassed
  <2>5. ASSUME NEW i \in DOMAIN c.page PROVE Before(c.page[i], k)
    <3>1. Path(c.page[i]) \in DOMAIN c.snap /\ Path(c.page[i]) \notin c.rest
      BY <1>5 DEF Wanted
    <3>2. Before(Path(c.page[i]), Path(k))
      BY <1>1, <2>3, <3>1, PassedBefore
    <3> QED
      BY <1>1, <1>2, <2>1, <3>2, KeyOrder
  <2>6. \A i \in DOMAIN c.page : Pairs!Before(c.page[i], k)
    BY <2>5 DEF Pairs!Before, Before, Pairs!IsStrictPrefix,
                IsStrictPrefix, Pairs!IsPrefix, IsPrefix
  <2> QED
    BY <1>2, <1>7, <2>4, <2>6
<1> QED
  BY <1>4, <1>6, <1>7, <1>8 DEF Pairs!IsPage, found

\* The answer of an emptiness check that ends.
LEMMA EmptyRight ==
  ASSUME NEW c, IsScan(c), ScanSound(c), c.op = "AskEmpty"
  PROVE  /\ Over(c) => ~\E k \in Keys : <<c.name, k>> \in LivePairs(c.snap)
         /\ ~Over(c) /\ ~Current(c).deleted
              => \E k \in Keys : <<c.name, k>> \in LivePairs(c.snap)
<1>1. /\ CursorPlaced(c) /\ NothingFound(c) /\ IsTable(c.snap) /\ Encodable(c.snap)
      /\ ValidateKeyComponent(c.name) /\ c.name \in Bytes
  BY ScanBytes DEF ScanSound, CursorPlaced, IsScan
<1>2. ASSUME Over(c), NEW k \in Keys, <<c.name, k>> \in LivePairs(c.snap)
      PROVE  FALSE
  <2> DEFINE x == ObjectKey(c.name, k)
  <2>1. k \in Bytes /\ << >> \in Bytes
    BY Parameters
  <2>2. x \in DOMAIN c.snap /\ ~c.snap[x].deleted
    BY <1>1, <1>2, <2>1, LivePair
  <2>3. IsPrefix(<< >>, k)
    BY <2>1, PrefixBytes
  <2>4. IsPrefix(Under(c), x)
    BY <1>1, <2>1, <2>3, KeyPrefix DEF Under, NothingFound
  <2>5. x \in Wanted(c)
    BY <2>2, <2>4 DEF Wanted
  <2> QED
    BY <1>1, <1>2, <2>5, OverPassed DEF NothingFound
<1>3. ASSUME ~Over(c), ~Current(c).deleted
      PROVE  \E k \in Keys : <<c.name, k>> \in LivePairs(c.snap)
  <2> DEFINE f == First(c.rest)
  <2>1. f \in DOMAIN c.snap /\ IsPrefix(Under(c), f) /\ ~c.snap[f].deleted
    BY <1>1, <1>3, CursorFirst DEF Over, Current
  <2>2. c.snap[f].name = c.name /\ c.snap[f].key \in Keys
    BY <1>1, <2>1, CursorInBucket, TableBytes
  <2> HIDE DEF f
  <2> QED
    BY <2>1, <2>2 DEF LivePairs
<1> QED
  BY <1>2, <1>3

\* The listings the catalog knows of, when one scanner moves.
LEMMA AskedMoves ==
  ASSUME KeyInv, NEW s \in Scanners, NEW d, scan' = [scan EXCEPT ![s] = d]
  PROVE  /\ Asked' = {q \in Asked : q.by # s}
                       \union (IF d.op = "List" THEN {Listed(s, d)} ELSE {})
         /\ \A q \in Asked : q.by = s => scan[s].op = "List" /\ q = Listed(s, scan[s])
         /\ scan[s].op = "List" => Listed(s, scan[s]) \in Asked
<1>1. \A r \in Scanners : scan'[r] = IF r = s THEN d ELSE scan[r]
  BY DEF KeyInv, TypeOK
<1>2. \A r, c : Listed(r, c).by = r
  BY DEF Listed
<1>3. Asked' = {Listed(r, scan'[r]) : r \in {u \in Scanners : scan'[u].op = "List"}}
  BY DEF Asked
<1>4. Asked = {Listed(r, scan[r]) : r \in {u \in Scanners : scan[u].op = "List"}}
  BY DEF Asked
<1>5. ASSUME NEW q \in Asked'
      PROVE  q \in {p \in Asked : p.by # s}
                     \union (IF d.op = "List" THEN {Listed(s, d)} ELSE {})
  <2>1. PICK r \in Scanners : scan'[r].op = "List" /\ q = Listed(r, scan'[r])
    BY <1>3
  <2> QED
    BY <1>1, <1>2, <1>4, <2>1
<1>6. ASSUME NEW q \in Asked, q.by # s PROVE q \in Asked'
  <2>1. PICK r \in Scanners : scan[r].op = "List" /\ q = Listed(r, scan[r])
    BY <1>4
  <2> QED
    BY <1>1, <1>2, <1>3, <1>6, <2>1
<1>7. d.op = "List" => Listed(s, d) \in Asked'
  BY <1>1, <1>3
<1>8. Asked' = {q \in Asked : q.by # s}
                 \union (IF d.op = "List" THEN {Listed(s, d)} ELSE {})
  BY <1>5, <1>6, <1>7
<1>9. \A q \in Asked : q.by = s => scan[s].op = "List" /\ q = Listed(s, scan[s])
  BY <1>2, <1>4
<1>10. scan[s].op = "List" => Listed(s, scan[s]) \in Asked
  BY <1>4
<1> QED
  BY <1>8, <1>9, <1>10

\* A step of a cursor is none of the catalog's.
LEMMA CursorUnseen ==
  ASSUME KeyInv, NEW s \in Scanners, ListMore(s) \/ AskMore(s)
  PROVE  UNCHANGED <<LivePairs(bolt), Asked, answer>>
<1> DEFINE c == scan[s]
<1>1. /\ c # NoScan /\ Len(c.page) \in Nat
      /\ IsScan(c) /\ UNCHANGED <<bolt, answer>>
  <2>1. c # NoScan /\ UNCHANGED <<bolt, answer>>
    BY DEF ListMore, AskMore, Listing, Asking, Idle
  <2> QED
    BY <2>1, LenProperties DEF KeyInv, TypeOK, IsScan
<1>2. PICK page : scan' = [scan EXCEPT ![s] = Pass(c, page)]
  BY DEF ListMore, AskMore
<1> DEFINE d == Pass(c, page)
<1>3. /\ d.op = c.op /\ d.name = c.name /\ d.prefix = c.prefix
      /\ d.limit = c.limit /\ d.snap = c.snap
  BY <1>1 DEF Pass, IsScan
<1>4. scan' = [scan EXCEPT ![s] = d]
  BY <1>2
<1> HIDE DEF d
<1>5. Listed(s, d) = Listed(s, c)
  BY <1>3 DEF Listed
<1>6. /\ Asked' = {q \in Asked : q.by # s}
                    \union (IF d.op = "List" THEN {Listed(s, d)} ELSE {})
      /\ \A q \in Asked : q.by = s => c.op = "List" /\ q = Listed(s, c)
      /\ c.op = "List" => Listed(s, c) \in Asked
  BY <1>4, AskedMoves
<1>7. Asked' = Asked
  BY <1>3, <1>5, <1>6
<1>8. LivePairs(bolt)' = LivePairs(bolt)
  BY <1>1 DEF LivePairs
<1> QED
  BY <1>1, <1>7, <1>8

\* Writes are those of the catalog.
LEMMA PutIsPut ==
  ASSUME KeyInv, NEW n \in Names, NEW k \in Keys, Put(n, k)
  PROVE  Pairs!Next
<1>1. UNCHANGED Asked
  BY DEF Put, Asked
<1>2. CASE ~ValidateKeyComponent(n) \/ ~ValidateKeyComponent(k)
  <2>1. LivePairs(bolt)' = LivePairs(bolt) /\ answer' = Answer("Put", <<n, k>>, "Internal")
    BY <1>2 DEF Put, LivePairs
  <2>2. Pairs!Refuse("Put", <<n, k>>, "Internal")
    BY <1>1, <2>1 DEF Pairs!Refuse, Pairs!Answer, Answer
  <2>3. ~Pairs!Usable(n) \/ ~Pairs!Usable(k)
    BY <1>2, UsableIsValid
  <2>4. Pairs!Malformed
    BY <2>2, <2>3 DEF Pairs!Malformed
  <2> QED
    BY <2>4 DEF Pairs!Next
<1>3. CASE ValidateKeyComponent(n) /\ ValidateKeyComponent(k)
  <2> DEFINE new == [name |-> n, key |-> k, deleted |-> FALSE]
             x == ObjectKey(n, k)
  <2>1. /\ answer' = Answer("Put", <<n, k>>, "ok")
        /\ bolt' = [y \in DOMAIN bolt \union {x} |-> IF y = x THEN new ELSE bolt[y]]
    BY <1>3 DEF Put
  <2>2. new.name = n /\ new.key = k /\ ~new.deleted
    OBVIOUS
  <2>3. IsTable(bolt) /\ Encodable(bolt) /\ n \in Bytes /\ k \in Bytes
    BY Parameters DEF KeyInv, TypeOK
  <2>4. ASSUME x \in DOMAIN bolt PROVE bolt[x].name = n /\ bolt[x].key = k
    <3>1. x = ObjectKey(bolt[x].name, bolt[x].key) /\ bolt[x].name \in Bytes
          /\ bolt[x].key \in Bytes /\ ValidateKeyComponent(bolt[x].name)
      BY <2>3, <2>4, TableBytes DEF Encodable
    <3> QED
      BY <1>3, <2>3, <3>1, KeyInjective
  <2> HIDE DEF new, x
  <2>5. LivePairs(bolt)' = LivePairs(bolt) \union {<<n, k>>}
    <3>1. LivePairs(bolt)' = LivePairs(bolt')
      BY DEF LivePairs
    <3>2. ASSUME NEW q \in LivePairs(bolt') PROVE q \in LivePairs(bolt) \union {<<n, k>>}
      <4>1. PICK y \in DOMAIN bolt' : ~bolt'[y].deleted /\ q = <<bolt'[y].name, bolt'[y].key>>
        BY <3>2 DEF LivePairs
      <4> QED
        BY <2>1, <2>2, <4>1 DEF LivePairs
    <3>3. ASSUME NEW q \in LivePairs(bolt) PROVE q \in LivePairs(bolt')
      <4>1. PICK y \in DOMAIN bolt : ~bolt[y].deleted /\ q = <<bolt[y].name, bolt[y].key>>
        BY <3>3 DEF LivePairs
      <4>2. /\ y \in DOMAIN bolt' /\ ~bolt'[y].deleted
            /\ bolt'[y].name = bolt[y].name /\ bolt'[y].key = bolt[y].key
        BY <2>1, <2>2, <2>4, <4>1
      <4> QED
        BY <4>1, <4>2 DEF LivePairs
    <3>4. <<n, k>> \in LivePairs(bolt')
      <4>1. x \in DOMAIN bolt' /\ bolt'[x] = new
        BY <2>1
      <4> QED
        BY <2>2, <4>1 DEF LivePairs
    <3> QED
      BY <3>1, <3>2, <3>3, <3>4
  <2>6. Pairs!Put(n, k)
    BY <1>1, <1>3, <2>1, <2>5, UsableIsValid DEF Pairs!Put, Pairs!Answer, Answer
  <2> QED
    BY <2>6 DEF Pairs!Next
<1> QED
  BY <1>2, <1>3

LEMMA DeleteIsDelete ==
  ASSUME KeyInv, NEW n \in Names, NEW k \in Keys, Delete(n, k)
  PROVE  Pairs!Next
<1> DEFINE x == ObjectKey(n, k)
<1>1. UNCHANGED Asked
  BY DEF Delete, Asked
<1>2. CASE /\ ~ValidateKeyComponent(n) \/ ~ValidateKeyComponent(k)
           /\ UNCHANGED bolt /\ answer' = Answer("Delete", <<n, k>>, "Internal")
  <2>1. LivePairs(bolt)' = LivePairs(bolt)
    BY <1>2 DEF LivePairs
  <2>2. Pairs!Refuse("Delete", <<n, k>>, "Internal")
    BY <1>1, <1>2, <2>1 DEF Pairs!Refuse, Pairs!Answer, Answer
  <2>3. ~Pairs!Usable(n) \/ ~Pairs!Usable(k)
    BY <1>2, UsableIsValid
  <2>4. Pairs!Malformed
    BY <2>2, <2>3 DEF Pairs!Malformed
  <2> QED
    BY <2>4 DEF Pairs!Next
<1>3. /\ IsTable(bolt) /\ Encodable(bolt) /\ n \in Bytes /\ k \in Bytes
      /\ LivePairs(bolt)' = LivePairs(bolt')
  BY Parameters DEF KeyInv, TypeOK, LivePairs
<1>4. CASE /\ ValidateKeyComponent(n) /\ ValidateKeyComponent(k) /\ ~Live(x)
           /\ UNCHANGED bolt /\ answer' = Answer("Delete", <<n, k>>, "NotFound")
  <2>1. <<n, k>> \notin LivePairs(bolt)
    BY <1>3, <1>4, LivePair DEF Live
  <2>2. LivePairs(bolt)' = LivePairs(bolt) \ {<<n, k>>}
    BY <1>3, <1>4, <2>1
  <2>3. Pairs!Delete(n, k)
    BY <1>1, <1>4, <2>1, <2>2, UsableIsValid DEF Pairs!Delete, Pairs!Answer, Answer
  <2> QED
    BY <2>3 DEF Pairs!Next
<1>5. CASE /\ ValidateKeyComponent(n) /\ ValidateKeyComponent(k) /\ Live(x)
           /\ bolt' = [bolt EXCEPT ![x].deleted = TRUE]
           /\ answer' = Answer("Delete", <<n, k>>, "ok")
  <2>1. x \in DOMAIN bolt /\ bolt[x] \in Object /\ ~bolt[x].deleted
    BY <1>3, <1>5 DEF Live, IsTable
  <2> DEFINE gone == [bolt[x] EXCEPT !.deleted = TRUE]
  <2>2. gone.deleted
    BY <2>1 DEF Object
  <2>3. bolt' = [bolt EXCEPT ![x] = gone]
    BY <1>5
  <2> HIDE DEF gone
  <2>4. <<n, k>> \in LivePairs(bolt)
    BY <1>3, <1>5, LivePair DEF Live
  <2>5. \A y \in DOMAIN bolt : bolt[y].name = n /\ bolt[y].key = k => y = x
    BY <1>3, TableBytes
  <2>6. x = ObjectKey(bolt[x].name, bolt[x].key) /\ bolt[x].name = n /\ bolt[x].key = k
    <3>1. x = ObjectKey(bolt[x].name, bolt[x].key) /\ bolt[x].name \in Bytes
          /\ bolt[x].key \in Bytes /\ ValidateKeyComponent(bolt[x].name)
      BY <1>3, <2>1, TableBytes DEF Encodable
    <3> QED
      BY <1>3, <1>5, <3>1, KeyInjective
  <2> HIDE DEF x
  <2>7. /\ DOMAIN bolt' = DOMAIN bolt
        /\ \A y \in DOMAIN bolt : bolt'[y] = IF y = x THEN gone ELSE bolt[y]
    BY <2>3
  <2>8. LivePairs(bolt') = LivePairs(bolt) \ {<<n, k>>}
    <3>1. ASSUME NEW q \in LivePairs(bolt')
          PROVE  q \in LivePairs(bolt) /\ q # <<n, k>>
      <4>1. PICK y \in DOMAIN bolt' : ~bolt'[y].deleted /\ q = <<bolt'[y].name, bolt'[y].key>>
        BY <3>1 DEF LivePairs
      <4>2. y # x /\ y \in DOMAIN bolt /\ bolt'[y] = bolt[y]
        BY <2>2, <2>7, <4>1
      <4>3. q # <<n, k>>
        BY <2>5, <4>1, <4>2
      <4> QED
        BY <4>1, <4>2, <4>3 DEF LivePairs
    <3>2. ASSUME NEW q \in LivePairs(bolt), q # <<n, k>> PROVE q \in LivePairs(bolt')
      <4>1. PICK y \in DOMAIN bolt : ~bolt[y].deleted /\ q = <<bolt[y].name, bolt[y].key>>
        BY <3>2 DEF LivePairs
      <4>2. y # x
        BY <2>6, <3>2, <4>1
      <4>3. y \in DOMAIN bolt' /\ bolt'[y] = bolt[y]
        BY <2>7, <4>2
      <4> QED
        BY <4>1, <4>3 DEF LivePairs
    <3> QED
      BY <3>1, <3>2
  <2>9. Pairs!Delete(n, k)
    BY <1>1, <1>3, <1>5, <2>4, <2>8, UsableIsValid DEF Pairs!Delete, Pairs!Answer, Answer
  <2> QED
    BY <2>9 DEF Pairs!Next
<1> QED
  BY <1>2, <1>4, <1>5 DEF Delete

\* A listing that begins is an Ask.
LEMMA ListIsAsk ==
  ASSUME KeyInv, NEW s \in Scanners, NEW n \in Names, NEW prefix \in Filters,
         NEW limit \in Limits, List(s, n, prefix, limit)
  PROVE  Pairs!Next
<1>1. ASSUME NEW err \in {"BadRequest", "Internal"}, UNCHANGED <<bolt, scan>>,
             answer' = Answer("List", <<n, prefix, limit>>, err)
      PROVE  Pairs!Refuse("List", <<n, prefix, limit>>, err)
  BY <1>1 DEF Pairs!Refuse, Pairs!Answer, Answer, LivePairs, Asked
<1>2. CASE /\ limit < 0
           /\ answer' = Answer("List", <<n, prefix, limit>>, "BadRequest")
           /\ UNCHANGED <<bolt, scan>>
  <2>1. Pairs!Malformed
    BY <1>1, <1>2 DEF Pairs!Malformed
  <2> QED
    BY <2>1 DEF Pairs!Next
<1>3. CASE /\ limit >= 0
           /\ ~ValidateKeyComponent(n) \/ ~ValidateKeyComponent(prefix)
           /\ answer' = Answer("List", <<n, prefix, limit>>, "Internal")
           /\ UNCHANGED <<bolt, scan>>
  <2>1. ~Pairs!Usable(n) \/ ~Pairs!Usable(prefix)
    BY <1>3, UsableIsValid
  <2>2. ~(limit < 0)
    BY <1>3, KeySpaceAssumption
  <2>3. Pairs!Refuse("List", <<n, prefix, limit>>, "Internal")
    BY <1>1, <1>3
  <2>4. Pairs!Malformed
    BY <2>1, <2>2, <2>3 DEF Pairs!Malformed
  <2> QED
    BY <2>4 DEF Pairs!Next
<1>4. CASE /\ limit >= 0
           /\ ValidateKeyComponent(n) /\ ValidateKeyComponent(prefix)
           /\ Seek(s, "List", n, prefix, limit)
  <2> DEFINE d == [op |-> "List", name |-> n, prefix |-> prefix, limit |-> limit,
                   snap |-> bolt, page |-> << >>,
                   rest |-> {x \in DOMAIN bolt : ~Before(x, ObjectKey(n, prefix))}]
  <2>1. scan' = [scan EXCEPT ![s] = d] /\ UNCHANGED <<bolt, answer>>
    BY <1>4 DEF Seek
  <2>2. d.op = "List"
    OBVIOUS
  <2>3. Listed(s, d) = [by |-> s, name |-> n, prefix |-> prefix, limit |-> limit,
                        seen |-> LivePairs(bolt)]
    BY DEF Listed
  <2> HIDE DEF d
  <2>4. scan[s].op # "List"
    BY DEF List, Idle, NoScan
  <2>5. Asked' = {q \in Asked : q.by # s} \union {Listed(s, d)}
    BY <2>1, <2>2, AskedMoves
  <2>6. \A q \in Asked : q.by # s
    BY <2>1, <2>4, AskedMoves
  <2>7. Asked' = Asked \union {Listed(s, d)}
    BY <2>5, <2>6
  <2>8. LivePairs(bolt)' = LivePairs(bolt)
    BY <2>1 DEF LivePairs
  <2>9. Pairs!Ask(s, n, prefix, limit)
    BY <1>4, <2>1, <2>3, <2>6, <2>7, <2>8, UsableIsValid DEF Pairs!Ask
  <2> QED
    BY <2>9 DEF Pairs!Next
<1> QED
  BY <1>2, <1>3, <1>4 DEF List

\* An emptiness check that begins answers at once or not yet.
LEMMA AskEmptyIsQuiet ==
  ASSUME KeyInv, NEW s \in Scanners, NEW n \in Names, AskEmpty(s, n)
  PROVE  Pairs!Next \/ UNCHANGED <<LivePairs(bolt), Asked, answer>>
<1>1. CASE /\ ~ValidateKeyComponent(n)
           /\ answer' = Answer("AskEmpty", <<n>>, "Internal")
           /\ UNCHANGED <<bolt, scan>>
  <2>1. Pairs!Refuse("AskEmpty", <<n>>, "Internal")
    BY <1>1 DEF Pairs!Refuse, Pairs!Answer, Answer, LivePairs, Asked
  <2> QED
    BY <2>1 DEF Pairs!Malformed, Pairs!Next
<1>2. CASE Seek(s, "AskEmpty", n, << >>, 0)
  <2> DEFINE d == [op |-> "AskEmpty", name |-> n, prefix |-> << >>, limit |-> 0,
                   snap |-> bolt, page |-> << >>,
                   rest |-> {x \in DOMAIN bolt : ~Before(x, ObjectKey(n, << >>))}]
  <2>1. scan' = [scan EXCEPT ![s] = d] /\ UNCHANGED <<bolt, answer>>
    BY <1>2 DEF Seek
  <2>2. d.op # "List"
    OBVIOUS
  <2> HIDE DEF d
  <2>3. scan[s].op # "List"
    BY DEF AskEmpty, Idle, NoScan
  <2>4. Asked' = {q \in Asked : q.by # s}
    BY <2>1, <2>2, AskedMoves
  <2>5. \A q \in Asked : q.by # s
    BY <2>1, <2>3, AskedMoves
  <2>6. Asked' = Asked
    BY <2>4, <2>5
  <2>7. LivePairs(bolt)' = LivePairs(bolt)
    BY <2>1 DEF LivePairs
  <2> QED
    BY <2>1, <2>6, <2>7
<1> QED
  BY <1>1, <1>2 DEF AskEmpty

\* What is known of a scan that answers.
LEMMA RespondAsked ==
  ASSUME KeyInv, NEW s \in Scanners, scan[s] # NoScan, NEW err, NEW page,
         Respond(s, err, page)
  PROVE  /\ IsScan(scan[s]) /\ ScanSound(scan[s])
         /\ LivePairs(bolt)' = LivePairs(bolt)
         /\ scan[s].op = "List" =>
              /\ Listed(s, scan[s]) \in Asked
              /\ Asked' = Asked \ {Listed(s, scan[s])}
         /\ scan[s].op = "AskEmpty" => Asked' = Asked
<1> DEFINE c == scan[s]
<1>1. IsScan(c) /\ ScanSound(c)
  BY DEF KeyInv, TypeOK
<1>2. scan' = [scan EXCEPT ![s] = NoScan] /\ UNCHANGED bolt
  BY DEF Respond
<1>3. NoScan.op # "List"
  BY DEF NoScan
<1>4. /\ Asked' = {q \in Asked : q.by # s}
      /\ \A q \in Asked : q.by = s => c.op = "List" /\ q = Listed(s, c)
      /\ c.op = "List" => Listed(s, c) \in Asked
  BY <1>2, <1>3, AskedMoves
<1>5. Listed(s, c).by = s
  BY DEF Listed
<1>6. LivePairs(bolt)' = LivePairs(bolt)
  BY <1>2 DEF LivePairs
<1> QED
  BY <1>1, <1>4, <1>5, <1>6

\* A listing that ends is a Tell.
LEMMA ListDoneIsTell ==
  ASSUME KeyInv, NEW s \in Scanners, ListDone(s)
  PROVE  Pairs!Next
<1> DEFINE c == scan[s]
           q == Listed(s, c)
<1>1. /\ c # NoScan /\ c.op = "List" /\ (Over(c) \/ ~(Len(c.page) < Size(c)))
      /\ Respond(s, "ok", c.page)
  BY DEF ListDone, Listing, Idle
<1>2. /\ IsScan(c) /\ ScanSound(c) /\ LivePairs(bolt)' = LivePairs(bolt)
      /\ q \in Asked /\ Asked' = Asked \ {q}
  BY <1>1, RespondAsked
<1>3. Pairs!IsPage(c.page, c.name, c.prefix, Size(c), LivePairs(c.snap))
  BY <1>1, <1>2, PageRight
<1>4. /\ q.name = c.name /\ q.prefix = c.prefix /\ q.limit = c.limit
      /\ q.seen = LivePairs(c.snap)
      /\ Size(c) = IF q.limit = 0 THEN DefaultLimit ELSE q.limit
  BY DEF Listed, Size
<1>5. answer' = [op |-> "List", err |-> "ok", page |-> c.page,
                 at |-> <<q.name, q.prefix, q.limit>>]
  BY <1>1, <1>4 DEF Respond
<1> HIDE DEF q
<1>6. answer' = [Pairs!Answer("List", <<q.name, q.prefix, q.limit>>, "ok")
                   EXCEPT !.page = answer'.page]
  BY <1>5 DEF Pairs!Answer
<1>7. answer'.page = c.page
  BY <1>5
<1>8. Pairs!Tell(q)
  BY <1>2, <1>3, <1>4, <1>6, <1>7 DEF Pairs!Tell
<1> QED
  BY <1>2, <1>8 DEF Pairs!Next

\* An emptiness check that ends answers by the pairs there are.
LEMMA AskDoneIsAskEmpty ==
  ASSUME KeyInv, NEW s \in Scanners, AskDone(s)
  PROVE  Pairs!Next
<1> DEFINE c == scan[s]
           empty == ~\E k \in Keys : <<c.name, k>> \in LivePairs(bolt)
<1>1. /\ c # NoScan /\ c.op = "AskEmpty"
      /\ \/ Respond(s, "NotEmpty", << >>) /\ ~Over(c) /\ ~Current(c).deleted
         \/ Respond(s, "ok", << >>) /\ Over(c)
  BY DEF AskDone, Asking, Idle
<1>2. /\ IsScan(c) /\ ScanSound(c) /\ LivePairs(bolt)' = LivePairs(bolt)
      /\ Asked' = Asked
  BY <1>1, RespondAsked
<1>3. c.snap = bolt /\ c.name \in Names /\ ValidateKeyComponent(c.name)
  BY <1>1, <1>2 DEF KeyInv, IsScan, ScanSound, CursorPlaced
<1>4. PICK err \in {"ok", "NotEmpty"} :
        Respond(s, err, << >>) /\ (err = "ok" <=> empty)
  BY <1>1, <1>2, <1>3, EmptyRight
<1> HIDE DEF empty
<1>5. answer' = Pairs!Answer("AskEmpty", <<c.name>>, err)
  BY <1>1, <1>4 DEF Respond, Pairs!Answer
<1>6. err = IF \E k \in Keys : <<c.name, k>> \in LivePairs(bolt) THEN "NotEmpty" ELSE "ok"
  BY <1>4 DEF empty
<1>7. Pairs!AskEmpty(c.name)
  BY <1>2, <1>3, <1>5, <1>6, UsableIsValid DEF Pairs!AskEmpty
<1> QED
  BY <1>3, <1>7 DEF Pairs!Next

\* A scan that is given up.
LEMMA GiveUpIsDrop ==
  ASSUME KeyInv, NEW s \in Scanners, GiveUp(s)
  PROVE  Pairs!Next
<1> DEFINE c == scan[s]
           q == Listed(s, c)
<1>1. c # NoScan /\ c.op \in {"List", "AskEmpty"} /\ Respond(s, "Internal", << >>)
  BY DEF GiveUp, Listing, Asking, Idle
<1>2. IsScan(c) /\ LivePairs(bolt)' = LivePairs(bolt)
  BY <1>1, RespondAsked
<1>3. CASE c.op = "List"
  <2>1. q \in Asked /\ Asked' = Asked \ {q}
    BY <1>1, <1>3, RespondAsked
  <2>2. q.name = c.name /\ q.prefix = c.prefix /\ q.limit = c.limit
    BY DEF Listed
  <2> HIDE DEF q
  <2>3. answer' = Pairs!Answer("List", <<q.name, q.prefix, q.limit>>, "Internal")
    BY <1>1, <1>3, <2>2 DEF Respond, Pairs!Answer
  <2>4. Pairs!Drop(q)
    BY <1>2, <2>1, <2>3 DEF Pairs!Drop
  <2> QED
    BY <2>1, <2>4 DEF Pairs!Next
<1>4. CASE c.op = "AskEmpty"
  <2>1. Asked' = Asked /\ c.name \in Names
    BY <1>1, <1>2, <1>4, RespondAsked DEF IsScan
  <2>2. answer' = Pairs!Answer("AskEmpty", <<c.name>>, "Internal")
    BY <1>1, <1>4 DEF Respond, Pairs!Answer
  <2>3. Pairs!Refuse("AskEmpty", <<c.name>>, "Internal")
    BY <1>2, <2>1, <2>2 DEF Pairs!Refuse
  <2> QED
    BY <2>1, <2>3 DEF Pairs!Malformed, Pairs!Next
<1> QED
  BY <1>1, <1>3, <1>4

\* The object repository is a catalog of pairs, whatever its keys.
THEOREM KeysImplementCatalog == Spec => ImplementsCatalog
<1>1. Init => Pairs!Init
  <2> SUFFICES ASSUME Init PROVE Pairs!Init
    OBVIOUS
  <2>1. LivePairs(bolt) = {}
    BY DEF Init, LivePairs
  <2>2. Asked = {}
    BY DEF Init, Asked, NoScan
  <2> QED
    BY <2>1, <2>2 DEF Init, Pairs!Init, Pairs!Answer, Answer
<1>2. KeyInv /\ [Next]_vars => [Pairs!Next]_(Pairs!vars)
  <2> SUFFICES ASSUME KeyInv, [Next]_vars
               PROVE  Pairs!Next \/ UNCHANGED <<LivePairs(bolt), Asked, answer>>
    BY DEF Pairs!vars
  <2>1. CASE UNCHANGED vars
    BY <2>1 DEF vars, LivePairs, Asked
  <2>2. ASSUME NEW n \in Names, NEW k \in Keys, Put(n, k) \/ Delete(n, k)
        PROVE  Pairs!Next
    BY <2>2, PutIsPut, DeleteIsDelete
  <2>3. ASSUME NEW s \in Scanners, NEW n \in Names, NEW prefix \in Filters,
               NEW limit \in Limits, List(s, n, prefix, limit)
        PROVE  Pairs!Next
    BY <2>3, ListIsAsk
  <2>4. ASSUME NEW s \in Scanners, NEW n \in Names, AskEmpty(s, n)
        PROVE  Pairs!Next \/ UNCHANGED <<LivePairs(bolt), Asked, answer>>
    BY <2>4, AskEmptyIsQuiet
  <2>5. ASSUME NEW s \in Scanners, ListMore(s) \/ AskMore(s)
        PROVE  UNCHANGED <<LivePairs(bolt), Asked, answer>>
    BY <2>5, CursorUnseen
  <2>6. ASSUME NEW s \in Scanners, ListDone(s) \/ AskDone(s) \/ GiveUp(s)
        PROVE  Pairs!Next
    BY <2>6, ListDoneIsTell, AskDoneIsAskEmpty, GiveUpIsDrop
  <2> QED
    BY <2>1, <2>2, <2>3, <2>4, <2>5, <2>6 DEF Next
<1> QED
  BY <1>1, <1>2, KeyInvariance, PTL DEF Spec, ImplementsCatalog, Pairs!Spec
=============================================================================
