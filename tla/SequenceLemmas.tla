--------------------------- MODULE SequenceLemmas ---------------------------
(***************************************************************************)
(* What the operators on sequences that the models use do to the set of a  *)
(* sequence's elements and to its freedom from duplicates, what is left    *)
(* when an element is removed, and the suffixes of a sequence.             *)
(***************************************************************************)
EXTENDS Integers, SequencesExt, SequenceTheorems, FiniteSetTheorems, WellFoundedInduction, TLAPS

(* Contains and ToSet speak of the same elements. *)
LEMMA ContainsToSet ==
  ASSUME NEW S, NEW s \in Seq(S), NEW e
  PROVE  Contains(s, e) <=> e \in ToSet(s)
  BY DEF Contains, ToSet

LEMMA ToSetType ==
  ASSUME NEW S, NEW s \in Seq(S)
  PROVE  ToSet(s) \subseteq S
  BY DEF ToSet

LEMMA ToSetEmpty ==
  ASSUME NEW S, NEW s \in Seq(S)
  PROVE  ToSet(s) = {} <=> s = <<>>
  <1>1. DOMAIN s = 1 .. Len(s) /\ Len(s) \in Nat /\ (Len(s) = 0 <=> s = <<>>)
    BY EmptySeq, LenProperties
  <1>2. ASSUME Len(s) = 0 PROVE ToSet(s) = {}
    BY <1>1, <1>2 DEF ToSet
  <1>3. ASSUME Len(s) # 0 PROVE s[1] \in ToSet(s)
    BY <1>1, <1>3 DEF ToSet
  <1> QED
    BY <1>1, <1>2, <1>3

LEMMA ToSetSingleton == \A e : ToSet(<<e>>) = {e}
  BY DEF ToSet

(* Appending an element that is not there keeps a sequence injective. *)
LEMMA AppendDistinct ==
  ASSUME NEW S, NEW s \in Seq(S), NEW e \in S
  PROVE  /\ Append(s, e) \in Seq(S)
         /\ Len(Append(s, e)) = Len(s) + 1
         /\ ToSet(Append(s, e)) = ToSet(s) \cup {e}
         /\ IsInjective(s) /\ e \notin ToSet(s) => IsInjective(Append(s, e))
  <1> DEFINE t == Append(s, e)
  <1>1. /\ t \in Seq(S) /\ Len(t) = Len(s) + 1
        /\ DOMAIN t = 1 .. (Len(s) + 1) /\ DOMAIN s = 1 .. Len(s) /\ Len(s) \in Nat
        /\ \A k \in 1 .. Len(s) : t[k] = s[k]
        /\ t[Len(s) + 1] = e
    BY AppendProperties, LenProperties
  <1> HIDE DEF t
  <1>2. ToSet(t) = ToSet(s) \cup {e}
    <2>1. ASSUME NEW x \in ToSet(t) PROVE x \in ToSet(s) \cup {e}
      <3>1. PICK k \in 1 .. (Len(s) + 1) : x = t[k]
        BY <1>1, <2>1 DEF ToSet
      <3> QED
        BY <1>1, <3>1 DEF ToSet
    <2>2. ASSUME NEW x \in ToSet(s) PROVE x \in ToSet(t)
      <3>1. PICK k \in 1 .. Len(s) : x = s[k]
        BY <1>1, <2>2 DEF ToSet
      <3> QED
        BY <1>1, <3>1 DEF ToSet
    <2>3. e \in ToSet(t)
      BY <1>1 DEF ToSet
    <2> QED
      BY <2>1, <2>2, <2>3
  <1>3. ASSUME IsInjective(s), e \notin ToSet(s) PROVE IsInjective(t)
    BY <1>1, <1>3 DEF IsInjective, ToSet
  <1> QED
    BY <1>1, <1>2, <1>3 DEF t

(* Where the elements of a concatenation come from. *)
LEMMA ConcatElements ==
  ASSUME NEW S, NEW s \in Seq(S), NEW t \in Seq(S)
  PROVE  /\ s \o t \in Seq(S) /\ Len(s \o t) = Len(s) + Len(t)
         /\ DOMAIN (s \o t) = 1 .. (Len(s) + Len(t))
         /\ DOMAIN s = 1 .. Len(s) /\ Len(s) \in Nat
         /\ DOMAIN t = 1 .. Len(t) /\ Len(t) \in Nat
         /\ \A k \in 1 .. Len(s) : k \in DOMAIN (s \o t) /\ (s \o t)[k] = s[k]
         /\ \A k \in 1 .. Len(t) : /\ Len(s) + k \in DOMAIN (s \o t)
                                   /\ (s \o t)[Len(s) + k] = t[k]
         /\ \A k \in DOMAIN (s \o t) :
              \/ k \in DOMAIN s /\ (s \o t)[k] = s[k]
              \/ /\ k > Len(s) /\ k - Len(s) \in DOMAIN t
                 /\ (s \o t)[k] = t[k - Len(s)]
  BY ConcatProperties, LenProperties

LEMMA ConcatToSet ==
  ASSUME NEW S, NEW s \in Seq(S), NEW t \in Seq(S)
  PROVE  ToSet(s \o t) = ToSet(s) \cup ToSet(t)
  <1>1. ASSUME NEW x \in ToSet(s \o t) PROVE x \in ToSet(s) \cup ToSet(t)
    <2>1. PICK k \in DOMAIN (s \o t) : x = (s \o t)[k]
      BY <1>1 DEF ToSet
    <2> QED
      BY <2>1, ConcatElements DEF ToSet
  <1>2. ASSUME NEW x \in ToSet(s) PROVE x \in ToSet(s \o t)
    <2>1. PICK k \in 1 .. Len(s) : x = s[k]
      BY <1>2, ConcatElements DEF ToSet
    <2>2. k \in DOMAIN (s \o t) /\ (s \o t)[k] = x
      BY <2>1, ConcatElements
    <2> QED
      BY <2>2 DEF ToSet
  <1>3. ASSUME NEW x \in ToSet(t) PROVE x \in ToSet(s \o t)
    <2>1. PICK k \in 1 .. Len(t) : x = t[k]
      BY <1>3, ConcatElements DEF ToSet
    <2>2. Len(s) + k \in DOMAIN (s \o t) /\ (s \o t)[Len(s) + k] = x
      BY <2>1, ConcatElements
    <2> QED
      BY <2>2 DEF ToSet
  <1> QED
    BY <1>1, <1>2, <1>3

LEMMA ConcatDistinct ==
  ASSUME NEW S, NEW s \in Seq(S), NEW t \in Seq(S),
         IsInjective(s), IsInjective(t), ToSet(s) \cap ToSet(t) = {}
  PROVE  IsInjective(s \o t)
  <1>1. \A l \in DOMAIN (s \o t) :
          \/ l \in DOMAIN s /\ (s \o t)[l] = s[l]
          \/ /\ l > Len(s) /\ l - Len(s) \in DOMAIN t
             /\ (s \o t)[l] = t[l - Len(s)]
    BY ONLY s \in Seq(S), t \in Seq(S), ConcatElements
  <1> SUFFICES ASSUME NEW j \in DOMAIN (s \o t), NEW k \in DOMAIN (s \o t),
                      (s \o t)[j] = (s \o t)[k]
               PROVE  j = k
    BY DEF IsInjective
  <1>2. CASE j \in DOMAIN s /\ (s \o t)[j] = s[j] /\ k \in DOMAIN s /\ (s \o t)[k] = s[k]
    BY <1>2 DEF IsInjective
  <1>3. ASSUME NEW a \in DOMAIN s, NEW b \in DOMAIN t PROVE s[a] # t[b]
    BY <1>3 DEF ToSet
  <1>4. CASE /\ j > Len(s) /\ j - Len(s) \in DOMAIN t /\ (s \o t)[j] = t[j - Len(s)]
             /\ k > Len(s) /\ k - Len(s) \in DOMAIN t /\ (s \o t)[k] = t[k - Len(s)]
    <2>1. j - Len(s) = k - Len(s)
      BY <1>4 DEF IsInjective
    <2> QED
      BY <2>1, ConcatElements
  <1> QED
    BY <1>1, <1>2, <1>3, <1>4

-----------------------------------------------------------------------------
(* RemoveFirst takes an element out of an injective sequence and leaves the
   others. *)
LEMMA RemoveFirstDistinct ==
  ASSUME NEW S, NEW s \in Seq(S), NEW e \in S, IsInjective(s), Contains(s, e)
  PROVE  /\ RemoveFirst(s, e) \in Seq(S)
         /\ Len(RemoveFirst(s, e)) = Len(s) - 1
         /\ ToSet(RemoveFirst(s, e)) = ToSet(s) \ {e}
         /\ IsInjective(RemoveFirst(s, e))
  <1>1. PICK x \in 1 .. Len(s) : s[x] = e
    BY DEF Contains
  <1> DEFINE I == {n \in 1 .. Len(s) : s[n] = e}
             before == SubSeq(s, 1, x - 1)
             after == SubSeq(s, x + 1, Len(s))
  <1>2. Len(s) \in Nat /\ DOMAIN s = 1 .. Len(s)
    BY LenProperties
  <1>3. I = {x}
    BY <1>1, <1>2 DEF IsInjective
  <1>4. Min(I) = x
    BY <1>3 DEF Min
  <1>5. RemoveFirst(s, e) = before \o after
    <2>1. SelectInSeq(s, LAMBDA v : v = e) = x
      BY <1>3, <1>4 DEF SelectInSeq
    <2> QED
      BY <1>1, <2>1 DEF RemoveFirst, RemoveAt
  <1>6. /\ before \in Seq(S) /\ Len(before) = x - 1 /\ DOMAIN before = 1 .. (x - 1)
        /\ \A k \in 1 .. (x - 1) : before[k] = s[k]
    <2>1. \A k \in 1 .. (x - 1) : s[k] \in S
      BY <1>2, ElementOfSeq
    <2> QED
      BY <1>2, <2>1, SubSeqProperties, LenProperties
  <1>7. /\ after \in Seq(S) /\ Len(after) = Len(s) - x /\ DOMAIN after = 1 .. (Len(s) - x)
        /\ \A k \in 1 .. (Len(s) - x) : after[k] = s[k + x]
    <2>1. \A k \in (x + 1) .. Len(s) : s[k] \in S
      BY <1>2, ElementOfSeq
    <2>2. /\ after \in Seq(S)
          /\ Len(after) = IF x + 1 <= Len(s) THEN Len(s) - (x + 1) + 1 ELSE 0
          /\ \A k \in 1 .. (Len(s) - (x + 1) + 1) : after[k] = s[(x + 1) + k - 1]
      BY <1>2, <2>1, SubSeqProperties
    <2>3. DOMAIN after = 1 .. Len(after)
      BY <2>2, LenProperties
    <2> HIDE DEF I, before, after
    <2>4. Len(after) = Len(s) - x
      <3>1. CASE x + 1 <= Len(s)
        <4>1. Len(after) = Len(s) - (x + 1) + 1
          BY <2>2, <3>1
        <4> QED
          BY <1>2, <4>1
      <3>2. CASE ~(x + 1 <= Len(s))
        <4>1. Len(after) = 0
          BY <2>2, <3>2
        <4>2. \A n \in Nat : \A y \in 1 .. n : ~(y + 1 <= n) => n - y = 0
          OBVIOUS
        <4> QED
          BY <1>2, <3>2, <4>1, <4>2
      <3> QED
        BY <3>1, <3>2
    <2>5. \A k \in 1 .. (Len(s) - x) : after[k] = s[k + x]
      <3> TAKE k \in 1 .. (Len(s) - x)
      <3>1. k \in 1 .. (Len(s) - (x + 1) + 1) /\ (x + 1) + k - 1 = k + x
        BY <1>2
      <3> QED
        BY <2>2, <3>1
    <2> QED
      BY <2>2, <2>3, <2>4, <2>5
  <1> HIDE DEF I, before, after
  <1>8. ToSet(before) = {s[k] : k \in 1 .. (x - 1)}
    BY <1>6 DEF ToSet
  <1>9. ToSet(after) = {s[k] : k \in (x + 1) .. Len(s)}
    <2>1. ASSUME NEW y \in ToSet(after) PROVE \E k \in (x + 1) .. Len(s) : y = s[k]
      <3>1. PICK k \in 1 .. (Len(s) - x) : y = after[k]
        BY <1>7, <2>1 DEF ToSet
      <3> QED
        BY <1>2, <1>7, <3>1
    <2>2. ASSUME NEW k \in (x + 1) .. Len(s) PROVE s[k] \in ToSet(after)
      <3>1. k - x \in 1 .. (Len(s) - x) /\ after[k - x] = s[k]
        BY <1>2, <1>7
      <3> QED
        BY <1>7, <3>1 DEF ToSet
    <2> QED
      BY <2>1, <2>2
  <1>10. ToSet(before \o after) = ToSet(s) \ {e}
    <2>1. ToSet(before \o after) = ToSet(before) \cup ToSet(after)
      BY <1>6, <1>7, ConcatToSet
    <2>2. ToSet(s) = {s[k] : k \in 1 .. Len(s)}
      BY <1>2 DEF ToSet
    <2>3. \A k \in 1 .. Len(s) : s[k] = e => k = x
      BY <1>1, <1>2 DEF IsInjective
    <2> QED
      BY <1>1, <1>2, <1>8, <1>9, <2>1, <2>2, <2>3
  <1>11. IsInjective(before \o after)
    <2>1. IsInjective(before)
      BY <1>2, <1>6 DEF IsInjective
    <2>2. IsInjective(after)
      <3> SUFFICES ASSUME NEW a \in 1 .. (Len(s) - x), NEW b \in 1 .. (Len(s) - x),
                          after[a] = after[b]
                   PROVE  a = b
        BY <1>7 DEF IsInjective
      <3>1. a + x \in DOMAIN s /\ b + x \in DOMAIN s /\ s[a + x] = s[b + x]
        BY <1>2, <1>7
      <3>2. a + x = b + x
        BY <3>1 DEF IsInjective
      <3> QED
        BY <3>2
    <2>3. ToSet(before) \cap ToSet(after) = {}
      BY <1>2, <1>8, <1>9 DEF IsInjective
    <2> QED
      BY <1>6, <1>7, <2>1, <2>2, <2>3, ConcatDistinct
  <1>12. before \o after \in Seq(S) /\ Len(before \o after) = Len(s) - 1
    <2>1. /\ before \o after \in Seq(S)
          /\ Len(before \o after) = Len(before) + Len(after)
      BY <1>6, <1>7, ConcatElements
    <2> QED
      BY <1>2, <1>6, <1>7, <2>1
  <1> QED
    BY <1>5, <1>10, <1>11, <1>12

(* RemoveFirst, whatever the sequence. *)
LEMMA RemoveFirstType ==
  ASSUME NEW S, NEW s \in Seq(S), NEW e
  PROVE  RemoveFirst(s, e) \in Seq(S)
  <1>1. CASE \E j \in 1 .. Len(s) : s[j] = e
    <2> DEFINE I == {j \in 1 .. Len(s) : s[j] = e}
    <2>1. I \subseteq Nat /\ I # {} /\ Len(s) \in Nat
      BY <1>1, LenProperties
    <2>2. PICK x \in I : \A y \in I : <<y, x>> \notin OpToRel(<, Nat)
      BY <2>1, WFMin, NatLessThanWellFounded, Zenon
    <2>3. \A y \in I : ~(y < x)
      BY <2>1, <2>2, Zenon DEF OpToRel
    <2>4. \A y \in I : x <= y
      BY <2>1, <2>3
    <2>5. Min(I) \in I
      BY <2>4 DEF Min
    <2> DEFINE k == Min(I)
    <2>6. k \in 1 .. Len(s)
      BY <2>5
    <2>7. SelectInSeq(s, LAMBDA v : v = e) = k
      BY <2>1 DEF SelectInSeq
    <2>8. RemoveFirst(s, e) = SubSeq(s, 1, k - 1) \o SubSeq(s, k + 1, Len(s))
      BY <1>1, <2>7 DEF RemoveFirst, RemoveAt
    <2> HIDE DEF k
    <2>9. SubSeq(s, 1, k - 1) \in Seq(S) /\ SubSeq(s, k + 1, Len(s)) \in Seq(S)
      BY <2>1, <2>6
    <2> QED BY <2>8, <2>9
  <1>2. CASE ~\E j \in 1 .. Len(s) : s[j] = e
    BY <1>2 DEF RemoveFirst
  <1> QED BY <1>1, <1>2

(* An injective sequence is as long as its set of elements is large. *)
LEMMA DistinctLength ==
  ASSUME NEW S, NEW s \in Seq(S), IsInjective(s)
  PROVE  IsFiniteSet(ToSet(s)) /\ Cardinality(ToSet(s)) = Len(s)
  <1>1. Len(s) \in Nat /\ DOMAIN s = 1 .. Len(s)
    BY LenProperties
  <1>2. s \in [1 .. Len(s) -> ToSet(s)]
    <2>1. \A k \in 1 .. Len(s) : s[k] \in ToSet(s)
      BY <1>1 DEF ToSet
    <2>2. s \in [1 .. Len(s) -> S]
      BY LenProperties
    <2> QED
      BY <2>1, <2>2
  <1>3. s \in Injection(1 .. Len(s), ToSet(s))
    BY <1>2 DEF Injection
  <1>4. \A y \in ToSet(s) : \E k \in 1 .. Len(s) : s[k] = y
    BY <1>1 DEF ToSet
  <1>5. s \in Surjection(1 .. Len(s), ToSet(s))
    BY <1>2, <1>4 DEF Surjection
  <1>6. s \in Bijection(1 .. Len(s), ToSet(s))
    BY <1>3, <1>5 DEF Bijection
  <1>7. ExistsBijection(1 .. Len(s), ToSet(s))
    BY <1>6 DEF ExistsBijection
  <1>8. IsFiniteSet(1 .. Len(s)) /\ Cardinality(1 .. Len(s)) = Len(s)
    BY <1>1, FS_Interval
  <1> QED
    BY <1>7, <1>8, FS_Bijection

(* RemoveFirst takes out one element; the others stay. *)
LEMMA RemoveFirstElements ==
  ASSUME NEW S, NEW s \in Seq(S), NEW e, Contains(s, e)
  PROVE  /\ RemoveFirst(s, e) \in Seq(S)
         /\ Len(RemoveFirst(s, e)) = Len(s) - 1
         /\ ToSet(s) \ {e} \subseteq ToSet(RemoveFirst(s, e))
  <1> DEFINE I == {j \in 1 .. Len(s) : s[j] = e}
             k == Min(I)
             before == SubSeq(s, 1, k - 1)
             after == SubSeq(s, k + 1, Len(s))
  <1>1. Len(s) \in Nat /\ DOMAIN s = 1 .. Len(s)
    BY LenProperties
  <1>2. \E j \in 1 .. Len(s) : s[j] = e
    BY DEF Contains
  <1>3. k \in 1 .. Len(s) /\ s[k] = e
    <2>1. I \subseteq Nat /\ I # {}
      BY <1>1, <1>2
    <2>2. PICK x \in I : \A y \in I : <<y, x>> \notin OpToRel(<, Nat)
      BY <2>1, WFMin, NatLessThanWellFounded, Zenon
    <2>3. \A y \in I : ~(y < x)
      BY <2>1, <2>2, Zenon DEF OpToRel
    <2>4. \A y \in I : x <= y
      BY <2>1, <2>3
    <2>5. Min(I) \in I
      BY <2>4 DEF Min
    <2> QED BY <2>5
  <1>4. RemoveFirst(s, e) = before \o after
    <2>1. SelectInSeq(s, LAMBDA v : v = e) = k
      BY <1>1, <1>2 DEF SelectInSeq
    <2> QED BY <1>2, <2>1 DEF RemoveFirst, RemoveAt
  <1> HIDE DEF k, I
  <1>5. /\ before \in Seq(S) /\ Len(before) = k - 1
        /\ \A j \in 1 .. k - 1 : before[j] = s[j]
    BY <1>1, <1>3
  <1>6. /\ after \in Seq(S) /\ Len(after) = Len(s) - k
        /\ \A j \in 1 .. Len(s) - k : after[j] = s[j + k]
    <2>1. after \in Seq(S)
      BY <1>1, <1>3
    <2>2. Len(after) = IF k + 1 <= Len(s) THEN Len(s) - (k + 1) + 1 ELSE 0
      BY <1>1, <1>3
    <2>3. Len(after) = Len(s) - k
      <3>1. \A n \in Nat : \A y \in 1 .. n :
              n - y = IF y + 1 <= n THEN n - (y + 1) + 1 ELSE 0
        OBVIOUS
      <3> HIDE DEF after
      <3> QED BY <1>1, <1>3, <2>2, <3>1
    <2>4. \A j \in 1 .. Len(s) - (k + 1) + 1 : after[j] = s[(k + 1) + j - 1]
      BY <1>1, <1>3
    <2> HIDE DEF after
    <2>5. ASSUME NEW j \in 1 .. Len(s) - k PROVE after[j] = s[j + k]
      <3>1. j \in 1 .. Len(s) - (k + 1) + 1 /\ (k + 1) + j - 1 = j + k
        BY <1>1, <1>3
      <3> QED BY <2>4, <3>1
    <2> QED BY <2>1, <2>3, <2>5
  <1> HIDE DEF before, after
  <1>7. before \o after \in Seq(S) /\ Len(before \o after) = Len(s) - 1
    <2>1. before \o after \in Seq(S) /\ Len(before \o after) = Len(before) + Len(after)
      BY <1>5, <1>6, ConcatElements
    <2> QED BY <1>1, <1>3, <1>5, <1>6, <2>1
  <1>8. ASSUME NEW x \in ToSet(s), x # e PROVE x \in ToSet(before) \cup ToSet(after)
    <2>1. PICK j \in 1 .. Len(s) : s[j] = x
      BY <1>1 DEF ToSet
    <2>2. CASE j < k
      <3>1. j \in DOMAIN before /\ before[j] = x
        BY <1>1, <1>3, <1>5, <2>1, <2>2
      <3> QED BY <3>1 DEF ToSet
    <2>3. CASE j > k
      <3>1. j - k \in DOMAIN after /\ after[j - k] = x
        <4>1. j - k \in 1 .. Len(s) - k /\ (j - k) + k = j
          BY <1>1, <1>3, <2>1, <2>3
        <4> QED BY <1>6, <2>1, <4>1
      <3> QED BY <3>1 DEF ToSet
    <2>4. j # k
      BY <1>3, <1>8, <2>1
    <2> QED BY <1>1, <1>3, <2>1, <2>2, <2>3, <2>4
  <1>9. ToSet(before \o after) = ToSet(before) \cup ToSet(after)
    BY <1>5, <1>6, ConcatToSet
  <1> QED BY <1>4, <1>7, <1>8, <1>9

(* A suffix, element by element. *)
LEMMA SuffixElements ==
  ASSUME NEW S, NEW s \in Seq(S), NEW t \in Seq(S)
  PROVE  IsSuffix(s, t) <=>
           /\ Len(s) <= Len(t)
           /\ \A j \in 1 .. Len(s) : s[j] = t[Len(t) - Len(s) + j]
  <1> DEFINE m == Len(s)
             n == Len(t)
             r == Reverse(s)
             u == Reverse(t)
  <1>1. m \in Nat /\ n \in Nat
    OBVIOUS
  <1>2. /\ r \in Seq(S) /\ Len(r) = m /\ \A j \in 1 .. m : r[j] = s[(m - j) + 1]
        /\ u \in Seq(S) /\ Len(u) = n /\ \A j \in 1 .. n : u[j] = t[(n - j) + 1]
    BY <1>1 DEF Reverse
  <1>3. IsSuffix(s, t) <=> m <= n /\ SubSeq(r, 1, m) = SubSeq(u, 1, m)
    BY <1>2 DEF IsSuffix, IsPrefix
  <1> HIDE DEF m, n, r, u
  <1>4. CASE m <= n
    <2> DEFINE x == SubSeq(r, 1, m)
               y == SubSeq(u, 1, m)
    <2>1. /\ x \in Seq(S) /\ Len(x) = m /\ \A j \in 1 .. m : x[j] = r[j]
          /\ y \in Seq(S) /\ Len(y) = m /\ \A j \in 1 .. m : y[j] = u[j]
      BY <1>1, <1>2, <1>4
    <2> HIDE DEF x, y
    <2>2. x = y <=> \A j \in 1 .. m : r[j] = u[j]
      BY <1>1, <2>1
    <2>3. (\A j \in 1 .. m : r[j] = u[j]) <=> (\A j \in 1 .. m : s[j] = t[(n - m) + j])
      <3>1. ASSUME \A j \in 1 .. m : r[j] = u[j], NEW j \in 1 .. m PROVE s[j] = t[(n - m) + j]
        <4>1. /\ (m - j) + 1 \in 1 .. m /\ (m - j) + 1 \in 1 .. n
              /\ (m - ((m - j) + 1)) + 1 = j
              /\ (n - ((m - j) + 1)) + 1 = (n - m) + j
          BY <1>1, <1>4
        <4>2. r[(m - j) + 1] = s[j] /\ u[(m - j) + 1] = t[(n - m) + j]
          BY <1>2, <4>1
        <4> QED BY <3>1, <4>1, <4>2
      <3>2. ASSUME \A j \in 1 .. m : s[j] = t[(n - m) + j], NEW j \in 1 .. m PROVE r[j] = u[j]
        <4>1. (m - j) + 1 \in 1 .. m /\ (n - m) + ((m - j) + 1) = (n - j) + 1 /\ j \in 1 .. n
          BY <1>1, <1>4
        <4>2. s[(m - j) + 1] = t[(n - j) + 1]
          BY <3>2, <4>1
        <4> QED BY <1>2, <4>1, <4>2
      <3> QED BY <3>1, <3>2
    <2> QED BY <1>3, <1>4, <2>2, <2>3 DEF m, n, x, y
  <1> QED BY <1>3, <1>4 DEF m, n

LEMMA SuffixAppend ==
  ASSUME NEW S, NEW s \in Seq(S), NEW t \in Seq(S), NEW e \in S, IsSuffix(s, t)
  PROVE  IsSuffix(Append(s, e), Append(t, e))
  <1> DEFINE m == Len(s)
             n == Len(t)
             x == Append(s, e)
             y == Append(t, e)
  <1>1. /\ m \in Nat /\ n \in Nat
        /\ x \in Seq(S) /\ Len(x) = m + 1 /\ x[m + 1] = e /\ \A j \in 1 .. m : x[j] = s[j]
        /\ y \in Seq(S) /\ Len(y) = n + 1 /\ y[n + 1] = e /\ \A j \in 1 .. n : y[j] = t[j]
    OBVIOUS
  <1>2. m <= n /\ \A j \in 1 .. m : s[j] = t[n - m + j]
    BY SuffixElements
  <1> HIDE DEF m, n, x, y
  <1>3. ASSUME NEW j \in 1 .. m + 1 PROVE x[j] = y[(n + 1) - (m + 1) + j]
    <2>1. CASE j \in 1 .. m
      <3>1. n - m + j \in 1 .. n /\ (n + 1) - (m + 1) + j = n - m + j
        BY <1>1, <1>2, <2>1
      <3> QED BY <1>1, <1>2, <2>1, <3>1
    <2>2. CASE j = m + 1
      <3>1. (n + 1) - (m + 1) + j = n + 1
        BY <1>1, <2>2
      <3> QED BY <1>1, <2>2, <3>1
    <2> QED BY <1>1, <2>1, <2>2
  <1>4. m + 1 <= n + 1
    BY <1>1, <1>2
  <1>5. IsSuffix(x, y)
    BY <1>1, <1>3, <1>4, SuffixElements
  <1> QED BY <1>5 DEF x, y

LEMMA EmptySuffix ==
  ASSUME NEW S, NEW t \in Seq(S)
  PROVE  IsSuffix(<<>>, t)
  <1>1. <<>> \in Seq(S) /\ Len(<<>>) = 0 /\ Len(t) \in Nat
    OBVIOUS
  <1>2. \A j \in 1 .. 0 : <<>>[j] = t[Len(t) - 0 + j]
    OBVIOUS
  <1>3. 0 <= Len(t)
    BY <1>1
  <1> QED BY <1>1, <1>2, <1>3, SuffixElements
=============================================================================
