------------------------- MODULE Secuencias_proofs --------------------------
(***************************************************************************)
(* The lists of the C code: what list_find and list_remove do to a         *)
(* sequence, and the least number of a set.                                *)
(***************************************************************************)
EXTENDS Integers, SequencesExt, SequenceTheorems, WellFoundedInduction, TLAPS

\* A non-empty set of naturals has a least element, the one Min chooses.
LEMMA MinimoExiste ==
    ASSUME NEW I, I \subseteq Nat, I # {}
    PROVE  Min(I) \in I /\ \A i \in I : Min(I) <= i
<1>1. \E m \in I : \A i \in I : ~(<<i, m>> \in OpToRel(<, Nat))
  BY NatLessThanWellFounded, WFMin, Zenon
<1>2. PICK m \in I : \A i \in I : ~(<<i, m>> \in OpToRel(<, Nat))
  BY <1>1
<1>3. \A i \in I : m <= i
  <2>1. SUFFICES ASSUME NEW i \in I, i < m
                 PROVE  FALSE
    OBVIOUS
  <2>2. <<i, m>> \in Nat \X Nat
    OBVIOUS
  <2>3. <<i, m>>[1] < <<i, m>>[2]
    BY <2>1
  <2> QED
    BY <1>2, <2>2, <2>3, Zenon DEF OpToRel
<1> QED
  BY <1>3 DEF Min

\* The index list_find arrives at holds the element that was looked for.
LEMMA PrimeraPosicion ==
    ASSUME NEW T, NEW s \in Seq(T), NEW e, Contains(s, e)
    PROVE  LET i == SelectInSeq(s, LAMBDA v : v = e)
           IN  i \in 1..Len(s) /\ s[i] = e
<1>. DEFINE I == {i \in 1..Len(s) : s[i] = e}
<1>1. I # {} /\ I \subseteq Nat
  BY DEF Contains
<1>2. Min(I) \in I
  BY <1>1, MinimoExiste
<1> QED
  BY <1>1, <1>2 DEF SelectInSeq

\* list_remove of one index: the rest moves one place forward.
LEMMA QuitarUno ==
    ASSUME NEW T, NEW s \in Seq(T), NEW i \in 1..Len(s)
    PROVE  /\ RemoveAt(s, i) \in Seq(T)
           /\ Len(RemoveAt(s, i)) = Len(s) - 1
           /\ \A j \in 1..Len(s) - 1 :
                 RemoveAt(s, i)[j] = s[IF j < i THEN j ELSE j + 1]
<1>. DEFINE a == SubSeq(s, 1, i - 1)
            b == SubSeq(s, i + 1, Len(s))
<1>1. Len(s) \in Nat /\ i \in Nat
  BY LenProperties
<1>2. a \in Seq(T) /\ Len(a) = i - 1 /\ \A j \in 1..i - 1 : a[j] = s[j]
  BY SubSeqProperties
<1>3. /\ b \in Seq(T) /\ Len(b) = Len(s) - i
      /\ \A j \in 1..Len(s) - i : b[j] = s[i + j]
  BY SubSeqProperties
<1>. HIDE DEF a, b
<1>4. /\ a \o b \in Seq(T)
      /\ Len(a \o b) = Len(a) + Len(b)
      /\ \A j \in 1..Len(a) + Len(b) :
            (a \o b)[j] = IF j <= Len(a) THEN a[j] ELSE b[j - Len(a)]
  BY <1>2, <1>3, ConcatProperties
<1>5. \A j \in 1..Len(s) - 1 : (a \o b)[j] = s[IF j < i THEN j ELSE j + 1]
  <2>1. SUFFICES ASSUME NEW j \in 1..Len(s) - 1
                 PROVE  (a \o b)[j] = s[IF j < i THEN j ELSE j + 1]
    OBVIOUS
  <2>2. j \in Int /\ (j < i \/ j >= i)
    BY <1>1
  <2>3. CASE j < i
    BY <1>2, <1>3, <1>4, <2>3
  <2>4. CASE j >= i
    <3>1. (a \o b)[j] = b[j - (i - 1)]
      BY <1>2, <1>3, <1>4, <2>4
    <3>2. b[j - (i - 1)] = s[i + (j - (i - 1))]
      BY <1>3, <2>4
    <3>3. i + (j - (i - 1)) = j + 1
      OBVIOUS
    <3> QED
      BY <2>4, <3>1, <3>2, <3>3
  <2> QED
    BY <2>2, <2>3, <2>4, Zenon
<1>6. RemoveAt(s, i) = a \o b
  BY DEF RemoveAt, a, b
<1>7. Len(a) + Len(b) = Len(s) - 1
  BY <1>1, <1>2, <1>3
<1> QED
  BY <1>4, <1>5, <1>6, <1>7

\* list_add_in_index: what was at the index and after it moves one place back.
LEMMA MeterUno ==
    ASSUME NEW T, NEW s \in Seq(T), NEW i \in 1..(Len(s) + 1), NEW e \in T
    PROVE  /\ InsertAt(s, i, e) \in Seq(T)
           /\ Len(InsertAt(s, i, e)) = Len(s) + 1
           /\ \A j \in 1..(Len(s) + 1) :
                 InsertAt(s, i, e)[j] =
                    IF j < i THEN s[j] ELSE IF j = i THEN e ELSE s[j - 1]
<1>. DEFINE a == SubSeq(s, 1, i - 1)
            m == <<e>>
            b == SubSeq(s, i, Len(s))
            am == a \o m
            r == am \o b
<1>1. Len(s) \in Nat /\ i \in Nat
  BY LenProperties
<1>2. a \in Seq(T) /\ Len(a) = i - 1 /\ \A j \in 1..i - 1 : a[j] = s[j]
  BY SubSeqProperties
<1>3. /\ b \in Seq(T) /\ Len(b) = Len(s) - i + 1
      /\ \A j \in 1..(Len(s) - i + 1) : b[j] = s[i + j - 1]
  BY SubSeqProperties
<1>4. m \in Seq(T) /\ Len(m) = 1 /\ m[1] = e
  OBVIOUS
<1>. HIDE DEF a, b, m
<1>5. /\ am \in Seq(T) /\ Len(am) = i
      /\ \A j \in 1..i : am[j] = IF j < i THEN s[j] ELSE e
  <2>1. /\ am \in Seq(T) /\ Len(am) = Len(a) + Len(m)
        /\ \A j \in 1..Len(a) + Len(m) :
              am[j] = IF j <= Len(a) THEN a[j] ELSE m[j - Len(a)]
    BY <1>2, <1>4, ConcatProperties
  <2>2. Len(a) + Len(m) = i
    BY <1>1, <1>2, <1>4
  <2>3. \A j \in 1..i : j < i => am[j] = s[j]
    BY <1>1, <1>2, <2>1, <2>2
  <2>4. am[i] = e
    BY <1>1, <1>2, <1>4, <2>1, <2>2
  <2> QED BY <1>1, <2>1, <2>2, <2>3, <2>4
<1>. HIDE DEF am
<1>6. /\ r \in Seq(T) /\ Len(r) = Len(am) + Len(b)
      /\ \A j \in 1..Len(am) + Len(b) :
            r[j] = IF j <= Len(am) THEN am[j] ELSE b[j - Len(am)]
  BY <1>3, <1>5, ConcatProperties
<1>7. Len(am) + Len(b) = Len(s) + 1
  BY <1>1, <1>3, <1>5
<1>8. \A j \in 1..(Len(s) + 1) :
        r[j] = IF j < i THEN s[j] ELSE IF j = i THEN e ELSE s[j - 1]
  <2>1. SUFFICES ASSUME NEW j \in 1..(Len(s) + 1)
                 PROVE  r[j] = IF j < i THEN s[j] ELSE IF j = i THEN e ELSE s[j - 1]
    OBVIOUS
  <2>2. CASE j <= i
    BY <1>1, <1>5, <1>6, <1>7, <2>2
  <2>3. CASE j > i
    <3>1. r[j] = b[j - i] /\ j - i \in 1..(Len(s) - i + 1)
      BY <1>1, <1>5, <1>6, <1>7, <2>3
    <3>2. b[j - i] = s[i + (j - i) - 1]
      BY <1>3, <3>1
    <3>3. i + (j - i) - 1 = j - 1
      BY <1>1
    <3> QED BY <1>1, <2>3, <3>1, <3>2, <3>3
  <2>4. j <= i \/ j > i
    BY <1>1
  <2> QED BY <2>2, <2>3, <2>4, Zenon
<1>9. InsertAt(s, i, e) = r
  BY DEF InsertAt, r, am, a, m, b
<1> QED
  BY <1>6, <1>7, <1>8, <1>9

\* The same, one element at a time: the new one goes right after the j-th.
LEMMA MeterDetras ==
    ASSUME NEW T, NEW s \in Seq(T), NEW j \in 1..Len(s), NEW e \in T
    PROVE  /\ InsertAt(s, j + 1, e) \in Seq(T)
           /\ Len(InsertAt(s, j + 1, e)) = Len(s) + 1
           /\ InsertAt(s, j + 1, e)[j + 1] = e
           /\ \A k \in 1..Len(s) : k <= j => InsertAt(s, j + 1, e)[k] = s[k]
           /\ \A k \in 1..Len(s) : k > j => InsertAt(s, j + 1, e)[k + 1] = s[k]
<1> DEFINE i == j + 1
           r == InsertAt(s, i, e)
<1>0. Len(s) \in Nat /\ i = j + 1
  BY LenProperties
<1>1. i \in 1..(Len(s) + 1)
  BY LenProperties
<1> HIDE DEF i
<1>2. /\ r \in Seq(T) /\ Len(r) = Len(s) + 1
      /\ \A k \in 1..(Len(s) + 1) :
            r[k] = IF k < i THEN s[k] ELSE IF k = i THEN e ELSE s[k - 1]
  BY <1>1, MeterUno
<1> HIDE DEF r
<1>3. r[i] = e
  BY <1>1, <1>2
<1>4. ASSUME NEW k \in 1..Len(s), k <= j
      PROVE  r[k] = s[k]
  <2>1. k \in 1..(Len(s) + 1) /\ k < i
    BY <1>0, <1>4
  <2> QED BY <1>2, <2>1
<1>5. ASSUME NEW k \in 1..Len(s), k > j
      PROVE  r[k + 1] = s[k]
  <2>1. k + 1 \in 1..(Len(s) + 1) /\ ~(k + 1 < i) /\ k + 1 # i /\ (k + 1) - 1 = k
    BY <1>0, <1>5
  <2> QED BY <1>2, <2>1
<1> QED BY <1>2, <1>3, <1>4, <1>5 DEF r, i

=============================================================================
