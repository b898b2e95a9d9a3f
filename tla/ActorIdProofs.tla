--------------------------- MODULE ActorIdProofs ----------------------------
(***************************************************************************)
(* Proof that actor ids parse back into their parts and that anything off  *)
(* the wire parses as splitting it does, for strings of any length over    *)
(* any characters. Facts about a first place or a number of places come    *)
(* from the least element of a set of numbers.                             *)
(***************************************************************************)
EXTENDS ActorId, FiniteSetTheorems, SequenceTheorems, WellFoundedInduction, TLAPS

-----------------------------------------------------------------------------
(***************************************************************************)
(* Cutting a string at a character.                                        *)
(***************************************************************************)

\* Every set of numbers that is not empty has a least one.
LEMMA LeastNat ==
  ASSUME NEW T \in SUBSET Nat, T # {}
  PROVE  \E x \in T : \A y \in T : x <= y
<1> DEFINE R == {ss \in Nat \X Nat : ss[1] < ss[2]}
<1>1. IsWellFoundedOn(R, Nat)
  BY NatLessThanWellFounded DEF OpToRel
<1>2. PICK x \in T : \A y \in T : ~(<<y, x>> \in R)
  <2> HIDE DEF R
  <2> QED
    BY <1>1, WFMin, Zenon
<1>3. ASSUME NEW y \in T PROVE x <= y
  <2>1. x \in Nat /\ y \in Nat /\ (<<y, x>> \in R <=> y < x)
    OBVIOUS
  <2> QED
    BY <1>2, <2>1
<1> QED
  BY <1>3

\* The characters of ids, and the strings over them.
Letters == Chars \cup {"/", "@", "c", "d", "r", "x"}
Strings == Seq(Letters)

\* IndexByte finds the first place of a character.
LEMMA IndexFirst ==
  ASSUME NEW s \in Strings, NEW ch
  PROVE  /\ IndexByte(s, ch) \in 0 .. Len(s)
         /\ IndexByte(s, ch) = 0 <=> ~Contains(s, ch)
         /\ IndexByte(s, ch) # 0 =>
              s[IndexByte(s, ch)] = ch /\ \A j \in 1 .. IndexByte(s, ch) - 1 : s[j] # ch
<1> DEFINE I == {j \in 1 .. Len(s) : s[j] = ch}
<1>1. IndexByte(s, ch) = IF I # {} THEN Min(I) ELSE 0
  BY DEF IndexByte, SelectInSeq
<1>2. I # {} <=> Contains(s, ch)
  BY DEF Contains
<1>3. ASSUME I # {}
      PROVE  Min(I) \in I /\ \A y \in I : Min(I) <= y
  <2>1. I \in SUBSET Nat
    OBVIOUS
  <2> HIDE DEF I
  <2>2. \E x \in I : \A y \in I : x <= y
    BY <1>3, <2>1, LeastNat
  <2> QED
    BY <2>2 DEF Min
<1>4. Len(s) \in Nat
  BY DEF Strings
<1>5. CASE I = {}
  BY <1>1, <1>2, <1>4, <1>5
<1>6. CASE I # {}
  <2>1. IndexByte(s, ch) \in I /\ \A y \in I : IndexByte(s, ch) <= y
    BY <1>1, <1>3, <1>6
  <2>2. IndexByte(s, ch) \in 1 .. Len(s) /\ s[IndexByte(s, ch)] = ch
    BY <2>1
  <2>3. ASSUME NEW j \in 1 .. IndexByte(s, ch) - 1 PROVE s[j] # ch
    <3>1. j \in 1 .. Len(s) /\ ~(IndexByte(s, ch) <= j)
      BY <1>4, <2>2
    <3> QED
      BY <2>1, <3>1
  <2> QED
    BY <1>2, <1>4, <1>6, <2>2, <2>3
<1> QED
  BY <1>5, <1>6

\* A string without the character stays whole.
LEMMA Uncut ==
  ASSUME NEW s \in Strings, NEW ch, ~Contains(s, ch)
  PROVE  IndexByte(s, ch) = 0 /\ Before(s, IndexByte(s, ch)) = s /\ After(s, IndexByte(s, ch)) = <<>>
BY IndexFirst DEF Before, After

\* What is before a place and what is after it.
LEMMA Sides ==
  ASSUME NEW s \in Strings, NEW i \in 1 .. Len(s)
  PROVE  /\ Before(s, i) \in Strings /\ Len(Before(s, i)) = i - 1
         /\ \A j \in 1 .. i - 1 : Before(s, i)[j] = s[j]
         /\ After(s, i) \in Strings /\ Len(After(s, i)) = Len(s) - i
         /\ \A j \in 1 .. Len(s) - i : After(s, i)[j] = s[i + j]
<1>1. Len(s) \in Nat /\ i # 0 /\ \A j \in 1 .. Len(s) : s[j] \in Letters
  BY DEF Strings
<1>2. Before(s, i) = SubSeq(s, 1, i - 1) /\ After(s, i) = SubSeq(s, i + 1, Len(s))
  BY <1>1 DEF Before, After
<1>3. /\ SubSeq(s, 1, i - 1) \in Seq(Letters)
      /\ Len(SubSeq(s, 1, i - 1)) = IF 1 <= i - 1 THEN i - 1 - 1 + 1 ELSE 0
      /\ \A j \in 1 .. i - 1 - 1 + 1 : SubSeq(s, 1, i - 1)[j] = s[1 + j - 1]
  <2>1. \A j \in 1 .. i - 1 : s[j] \in Letters
    BY <1>1
  <2> QED
    BY <1>1, <2>1, SubSeqProperties
<1>4. /\ SubSeq(s, i + 1, Len(s)) \in Seq(Letters)
      /\ Len(SubSeq(s, i + 1, Len(s))) = IF i + 1 <= Len(s) THEN Len(s) - (i + 1) + 1 ELSE 0
      /\ \A j \in 1 .. Len(s) - (i + 1) + 1 : SubSeq(s, i + 1, Len(s))[j] = s[i + 1 + j - 1]
  <2>1. \A j \in i + 1 .. Len(s) : s[j] \in Letters
    BY <1>1
  <2> QED
    BY <1>1, <2>1, SubSeqProperties
<1>5. ASSUME NEW j \in 1 .. Len(s) - i PROVE SubSeq(s, i + 1, Len(s))[j] = s[i + j]
  <2>1. j \in 1 .. Len(s) - (i + 1) + 1 /\ i + 1 + j - 1 = i + j
    BY <1>1
  <2> QED
    BY <1>4, <2>1
<1> QED
  BY <1>1, <1>2, <1>3, <1>4, <1>5 DEF Strings

\* Two strings around a character.
Glue(u, ch, v) == u \o <<ch>> \o v

\* t is u, the character and v, place by place.
IsAround(t, u, ch, v) ==
  /\ t \in Strings /\ Len(t) = Len(u) + 1 + Len(v) /\ t[Len(u) + 1] = ch
  /\ \A j \in 1 .. Len(u) : t[j] = u[j]
  /\ \A j \in 1 .. Len(v) : t[Len(u) + 1 + j] = v[j]

\* Two strings put together around a character have their places around it.
LEMMA Around ==
  ASSUME NEW u \in Strings, NEW v \in Strings, NEW ch \in Letters
  PROVE  IsAround(Glue(u, ch, v), u, ch, v)
<1> DEFINE w == u \o <<ch>>
<1>1. /\ w \in Seq(Letters) /\ Len(w) = Len(u) + 1 /\ w[Len(u) + 1] = ch
      /\ \A j \in 1 .. Len(u) : w[j] = u[j]
  BY DEF Strings
<1>2. Len(u) \in Nat /\ Len(v) \in Nat /\ v \in Seq(Letters)
  BY DEF Strings
<1> HIDE DEF w
<1>3. /\ w \o v \in Seq(Letters) /\ Len(w \o v) = Len(w) + Len(v)
      /\ \A j \in 1 .. Len(w) + Len(v) : (w \o v)[j] = IF j <= Len(w) THEN w[j] ELSE v[j - Len(w)]
  BY <1>1, <1>2, ConcatProperties, Zenon
<1>4. (w \o v)[Len(u) + 1] = ch /\ \A j \in 1 .. Len(u) : (w \o v)[j] = u[j]
  BY <1>1, <1>2, <1>3
<1>5. ASSUME NEW j \in 1 .. Len(v) PROVE (w \o v)[Len(u) + 1 + j] = v[j]
  <2>1. /\ Len(u) + 1 + j \in 1 .. Len(w) + Len(v) /\ ~(Len(u) + 1 + j <= Len(w))
        /\ Len(u) + 1 + j - Len(w) = j
    BY <1>1, <1>2
  <2> QED
    BY <1>3, <2>1
<1>6. Glue(u, ch, v) = w \o v /\ Len(w) + Len(v) = Len(u) + 1 + Len(v)
  BY <1>1 DEF w, Glue
<1> QED
  BY <1>3, <1>4, <1>5, <1>6, Zenon DEF Strings, IsAround

\* A string with the character comes apart into what is before its first occurrence and what is after.
LEMMA CutParts ==
  ASSUME NEW s \in Strings, NEW ch, NEW i, i = IndexByte(s, ch), i # 0
  PROVE  /\ i \in 1 .. Len(s) /\ ch \in Letters
         /\ Before(s, i) \in Strings /\ After(s, i) \in Strings
         /\ ~Contains(Before(s, i), ch)
         /\ s = Glue(Before(s, i), ch, After(s, i))
<1>1. Len(s) \in Nat /\ i \in 1 .. Len(s) /\ s[i] = ch /\ \A j \in 1 .. i - 1 : s[j] # ch
  BY IndexFirst DEF Strings
<1>2. ch \in Letters
  BY <1>1 DEF Strings
<1>3. PICK u, v : u = Before(s, i) /\ v = After(s, i)
  OBVIOUS
<1>4. /\ u \in Strings /\ Len(u) = i - 1 /\ \A j \in 1 .. i - 1 : u[j] = s[j]
      /\ v \in Strings /\ Len(v) = Len(s) - i /\ \A j \in 1 .. Len(s) - i : v[j] = s[i + j]
  BY <1>1, <1>3, Sides, Zenon
<1>5. ~Contains(u, ch)
  BY <1>1, <1>4, Zenon DEF Contains
<1>6. PICK t : t = Glue(u, ch, v)
  OBVIOUS
<1>7. /\ t \in Strings /\ Len(t) = Len(u) + 1 + Len(v) /\ t[Len(u) + 1] = ch
      /\ \A j \in 1 .. Len(u) : t[j] = u[j]
      /\ \A j \in 1 .. Len(v) : t[Len(u) + 1 + j] = v[j]
  <2>1. IsAround(t, u, ch, v)
    BY <1>2, <1>4, <1>6, Around, Zenon
  <2> QED
    BY <2>1, Zenon DEF IsAround
<1>a. Len(s) \in Nat /\ i \in 1 .. Len(s) /\ Len(u) = i - 1 /\ Len(v) = Len(s) - i
  BY <1>1, <1>4, Zenon
<1>8. Len(t) = Len(s)
  BY <1>1, <1>4, <1>7
<1>9. ASSUME NEW j \in 1 .. Len(s) PROVE s[j] = t[j]
  <2>1. CASE j < i
    <3>1. j \in 1 .. i - 1 /\ j \in 1 .. Len(u)
      BY <1>a, <2>1
    <3> QED
      BY <1>4, <1>7, <3>1, Zenon
  <2>2. CASE j = i
    <3>1. Len(u) + 1 = i
      BY <1>a
    <3> QED
      BY <1>1, <1>7, <2>2, <3>1, Zenon
  <2>3. CASE j > i
    <3>1. j - i \in 1 .. Len(s) - i /\ i + (j - i) = j /\ Len(u) + 1 + (j - i) = j
      BY <1>a, <2>3, SMTT(30)
    <3>2. j - i \in 1 .. Len(v)
      BY <1>a, <3>1
    <3>3. v[j - i] = s[i + (j - i)]
      BY <1>4, <3>1, Zenon
    <3>4. t[Len(u) + 1 + (j - i)] = v[j - i]
      BY <1>7, <3>2, Zenon
    <3> QED
      BY <3>1, <3>3, <3>4, Zenon
  <2> QED
    BY <1>a, <2>1, <2>2, <2>3
<1>10. s = t
  BY <1>7, <1>8, <1>9, SeqEqual DEF Strings
<1> QED
  BY <1>1, <1>2, <1>3, <1>4, <1>5, <1>6, <1>10

\* Cutting s at the first ch gives u and v.
CutsInto(s, ch, u, v) ==
  /\ s \in Strings /\ IndexByte(s, ch) # 0
  /\ Before(s, IndexByte(s, ch)) = u /\ After(s, IndexByte(s, ch)) = v

\* What is put together around a character comes apart there.
LEMMA Cut ==
  ASSUME NEW u \in Strings, NEW v \in Strings, NEW ch \in Letters, ~Contains(u, ch)
  PROVE  CutsInto(Glue(u, ch, v), ch, u, v)
<1>0. PICK s : s = Glue(u, ch, v)
  OBVIOUS
<1>1. /\ s \in Strings /\ Len(s) = Len(u) + 1 + Len(v) /\ s[Len(u) + 1] = ch
      /\ \A j \in 1 .. Len(u) : s[j] = u[j]
      /\ \A j \in 1 .. Len(v) : s[Len(u) + 1 + j] = v[j]
  <2>1. IsAround(s, u, ch, v)
    BY <1>0, Around, Zenon
  <2> QED
    BY <2>1, Zenon DEF IsAround
<1>2. Len(u) \in Nat /\ Len(v) \in Nat /\ \A j \in 1 .. Len(u) : u[j] # ch
  BY DEF Strings, Contains
<1>3. Contains(s, ch)
  BY <1>1, <1>2 DEF Contains
<1>4. PICK i : i = IndexByte(s, ch)
  OBVIOUS
<1>5. i \in 1 .. Len(s) /\ s[i] = ch /\ \A j \in 1 .. i - 1 : s[j] # ch
  <2>1. i \in 0 .. Len(s) /\ i # 0 /\ s[i] = ch /\ \A j \in 1 .. i - 1 : s[j] # ch
    BY <1>1, <1>3, <1>4, IndexFirst, Zenon
  <2>2. i \in 0 .. Len(s) /\ i # 0 /\ Len(s) \in Nat
    BY <1>1, <1>2, <2>1
  <2>3. i \in 1 .. Len(s)
    BY <2>2
  <2> QED
    BY <2>1, <2>3, Zenon
<1>6. i = Len(u) + 1
  <2>1. CASE i < Len(u) + 1
    <3>1. i \in 1 .. Len(u)
      BY <1>2, <1>5, <2>1
    <3> QED
      BY <1>1, <1>2, <1>5, <3>1
  <2>2. CASE i > Len(u) + 1
    <3>1. Len(u) + 1 \in 1 .. i - 1
      BY <1>2, <1>5, <2>2
    <3> QED
      BY <1>1, <1>5, <3>1
  <2>3. i \in Int /\ Len(u) + 1 \in Int
    BY <1>1, <1>2, <1>5
  <2> QED
    BY <2>1, <2>2, <2>3
<1>7. /\ Before(s, i) \in Strings /\ Len(Before(s, i)) = i - 1
      /\ \A j \in 1 .. i - 1 : Before(s, i)[j] = s[j]
      /\ After(s, i) \in Strings /\ Len(After(s, i)) = Len(s) - i
      /\ \A j \in 1 .. Len(s) - i : After(s, i)[j] = s[i + j]
  BY <1>1, <1>5, Sides, Zenon
<1>8. Before(s, i) = u
  <2>1. Len(Before(s, i)) = Len(u) /\ \A j \in 1 .. Len(u) : Before(s, i)[j] = u[j]
    <3>1. i - 1 = Len(u)
      BY <1>2, <1>6
    <3> QED
      BY <1>1, <1>7, <3>1, Zenon
  <2> QED
    BY <1>7, <2>1, SeqEqual DEF Strings
<1>9. After(s, i) = v
  <2>1. Len(After(s, i)) = Len(v) /\ \A j \in 1 .. Len(v) : After(s, i)[j] = v[j]
    <3>1. Len(s) = Len(u) + 1 + Len(v) /\ Len(u) \in Nat /\ Len(v) \in Nat
      BY <1>1, <1>2, Zenon
    <3>2. Len(s) - i = Len(v)
      BY <1>6, <3>1
    <3> QED
      BY <1>1, <1>6, <1>7, <3>2, Zenon
  <2> QED
    BY <1>7, <2>1, SeqEqual DEF Strings
<1>10. i # 0
  BY <1>5
<1> QED
  BY <1>0, <1>1, <1>4, <1>8, <1>9, <1>10, Zenon DEF CutsInto

-----------------------------------------------------------------------------
(***************************************************************************)
(* Counting a character.                                                   *)
(***************************************************************************)

\* Where a character is in a string, and how often.
Places(s, ch) == {i \in 1 .. Len(s) : s[i] = ch}
Count(s, ch) == Cardinality(Places(s, ch))

\* A character that cannot be found occurs no time.
LEMMA CountNone ==
  ASSUME NEW s \in Strings, NEW ch
  PROVE  Count(s, ch) \in Nat /\ (Count(s, ch) = 0 <=> IndexByte(s, ch) = 0)
<1>1. Len(s) \in Nat
  BY DEF Strings
<1>2. IsFiniteSet(Places(s, ch))
  <2>1. IsFiniteSet(1 .. Len(s)) /\ Places(s, ch) \subseteq 1 .. Len(s)
    BY <1>1, FS_Interval DEF Places
  <2> QED
    BY <2>1, FS_Subset
<1>3. Count(s, ch) = 0 <=> Places(s, ch) = {}
  BY <1>2, FS_EmptySet DEF Count
<1>4. Places(s, ch) = {} <=> ~Contains(s, ch)
  BY DEF Places, Contains
<1> QED
  BY <1>2, <1>3, <1>4, IndexFirst, FS_CardinalityType DEF Count

\* The first occurrence, and those after it.
LEMMA CountCut ==
  ASSUME NEW s \in Strings, NEW ch, NEW i, i = IndexByte(s, ch), i # 0
  PROVE  Count(s, ch) = 1 + Count(After(s, i), ch)
<1>1. Len(s) \in Nat /\ i \in 1 .. Len(s) /\ s[i] = ch /\ \A j \in 1 .. i - 1 : s[j] # ch
  BY IndexFirst DEF Strings
<1>2. PICK v : v = After(s, i)
  OBVIOUS
<1>3. v \in Strings /\ Len(v) = Len(s) - i /\ \A j \in 1 .. Len(s) - i : v[j] = s[i + j]
  BY <1>1, <1>2, Sides, Zenon
<1> DEFINE A == Places(v, ch)
           B == Places(s, ch) \ {i}
           f == [p \in A |-> i + p]
<1>4. A \subseteq 1 .. Len(v) /\ IsFiniteSet(A)
  <2>1. IsFiniteSet(1 .. Len(v)) /\ A \subseteq 1 .. Len(v)
    BY <1>1, <1>3, FS_Interval DEF Places
  <2> QED
    BY <2>1, FS_Subset
<1>5. f \in [A -> B]
  <2> SUFFICES ASSUME NEW p \in A PROVE i + p \in B
    OBVIOUS
  <2>1. p \in 1 .. Len(s) - i /\ v[p] = ch
    BY <1>3 DEF Places
  <2> QED
    BY <1>1, <1>3, <2>1 DEF Places
<1>6. \A p, q \in A : f[p] = f[q] => p = q
  BY <1>1, <1>3, <1>4
<1>7. \A x \in B : \E p \in A : f[p] = x
  <2> SUFFICES ASSUME NEW x \in B PROVE \E p \in A : i + p = x
    OBVIOUS
  <2>1. x \in 1 .. Len(s) /\ s[x] = ch /\ x # i
    BY DEF Places
  <2>2. x > i
    BY <1>1, <2>1
  <2>3. x - i \in 1 .. Len(s) - i /\ i + (x - i) = x
    BY <1>1, <2>1, <2>2
  <2>4. x - i \in A
    BY <1>3, <2>1, <2>3 DEF Places
  <2> QED
    BY <2>3, <2>4
<1> HIDE DEF f, A, B
<1>8. ExistsBijection(A, B)
  BY <1>5, <1>6, <1>7 DEF ExistsBijection, Bijection, Injection, Surjection, IsInjective
<1>9. IsFiniteSet(B) /\ Cardinality(B) = Cardinality(A)
  BY <1>4, <1>8, FS_Bijection
<1>10. Places(s, ch) = B \cup {i} /\ i \notin B
  BY <1>1 DEF Places, B
<1>11. Cardinality(Places(s, ch)) = Cardinality(B) + 1
  BY <1>9, <1>10, FS_AddElement
<1>12. Cardinality(A) \in Nat
  BY <1>4, FS_CardinalityType
<1> QED
  BY <1>2, <1>9, <1>11, <1>12 DEF Count, A

-----------------------------------------------------------------------------
(***************************************************************************)
(* Parsing.                                                                *)
(***************************************************************************)

\* What is left after two cuts is an end of the string.
LEMMA AfterAfter ==
  ASSUME NEW s \in Strings, NEW i \in 1 .. Len(s), NEW j \in 1 .. Len(After(s, i))
  PROVE  \E k \in 1 .. Len(s) + 1 : After(After(s, i), j) = SubSeq(s, k, Len(s))
<1>1. Len(s) \in Nat /\ \A m \in 1 .. Len(s) : s[m] \in Letters
  BY DEF Strings
<1>2. PICK r : r = After(s, i)
  OBVIOUS
<1>3. r \in Strings /\ Len(r) = Len(s) - i /\ \A m \in 1 .. Len(s) - i : r[m] = s[i + m]
  BY <1>2, Sides, Zenon
<1>4. PICK v : v = After(r, j)
  OBVIOUS
<1>5. v \in Strings /\ Len(v) = Len(r) - j /\ \A m \in 1 .. Len(r) - j : v[m] = r[j + m]
  BY <1>2, <1>3, <1>4, Sides, Zenon
<1>6. PICK k : k = i + j + 1
  OBVIOUS
<1>7. k \in 1 .. Len(s) + 1 /\ j \in 1 .. Len(s) - i
  BY <1>1, <1>2, <1>3, <1>6
<1>8. PICK w : w = SubSeq(s, k, Len(s))
  BY Zenon
<1>9. /\ w \in Seq(Letters) /\ Len(w) = IF k <= Len(s) THEN Len(s) - k + 1 ELSE 0
      /\ \A m \in 1 .. Len(s) - k + 1 : w[m] = s[k + m - 1]
  <2>1. \A m \in k .. Len(s) : s[m] \in Letters
    BY <1>1, <1>7
  <2> QED
    BY <1>1, <1>7, <1>8, <2>1, SubSeqProperties, SMTT(30)
<1>10. Len(w) = Len(v)
  <2>1. /\ Len(s) \in Nat /\ Len(r) = Len(s) - i /\ Len(v) = Len(r) - j
        /\ Len(w) = IF k <= Len(s) THEN Len(s) - k + 1 ELSE 0
    BY <1>1, <1>3, <1>5, <1>9, Zenon
  <2> QED
    BY <1>6, <1>7, <2>1
<1>11. ASSUME NEW m \in 1 .. Len(v) PROVE v[m] = w[m]
  <2>1. /\ m \in 1 .. Len(r) - j /\ m \in 1 .. Len(s) - k + 1 /\ j + m \in 1 .. Len(s) - i
        /\ i + (j + m) = k + m - 1
    BY <1>1, <1>3, <1>5, <1>6, <1>7
  <2> QED
    BY <1>3, <1>5, <1>9, <2>1, Zenon
<1>12. v = w
  BY <1>5, <1>9, <1>10, <1>11, SeqEqual DEF Strings
<1> QED
  BY <1>2, <1>4, <1>7, <1>8, <1>12

\* A string is a prefix of whatever it is continued to.
LEMMA PrefixConcat ==
  ASSUME NEW u \in Strings, NEW v \in Strings
  PROVE  IsPrefix(u, u \o v)
<1>1. PICK t : t = u \o v
  BY Zenon
<1>2. /\ t \in Seq(Letters) /\ Len(t) = Len(u) + Len(v) /\ Len(u) \in Nat /\ Len(v) \in Nat
      /\ \A j \in 1 .. Len(u) + Len(v) : t[j] = IF j <= Len(u) THEN u[j] ELSE v[j - Len(u)]
  BY <1>1, ConcatProperties DEF Strings
<1>3. SubSeq(u, 1, Len(u)) = u
  BY SubSeqFull DEF Strings
<1>4. PICK w : w = SubSeq(t, 1, Len(u))
  BY Zenon
<1>5. /\ w \in Seq(Letters) /\ Len(w) = IF 1 <= Len(u) THEN Len(u) - 1 + 1 ELSE 0
      /\ \A j \in 1 .. Len(u) - 1 + 1 : w[j] = t[1 + j - 1]
  <2>1. \A j \in 1 .. Len(u) : t[j] \in Letters
    BY <1>2
  <2> QED
    BY <1>2, <1>4, <2>1, SubSeqProperties
<1>6. Len(w) = Len(u) /\ \A j \in 1 .. Len(u) : w[j] = u[j]
  BY <1>2, <1>5
<1>7. w = u
  BY <1>5, <1>6, SeqEqual DEF Strings
<1> QED
  BY <1>1, <1>2, <1>3, <1>4, <1>7 DEF IsPrefix

\* Strings put together are strings.
LEMMA Joins ==
  /\ <<>> \in Strings
  /\ \A u, v \in Strings : u \o v \in Strings
  /\ \A u, v, w \in Strings : (u \o v) \o w = u \o (v \o w)
  /\ \A u \in Strings : u \o <<>> = u
  /\ \A ch \in Letters : <<ch>> \in Strings
BY EmptySeq, ConcatProperties, ConcatAssociative, ConcatEmptySeq DEF Strings

\* Putting together is associative.
LEMMA Assoc ==
  ASSUME NEW u \in Strings, NEW v \in Strings, NEW w \in Strings
  PROVE  (u \o v) \o w = u \o (v \o w)
BY Joins

\* Two strings, each followed by a character, and what comes after them.
Stem(u, ch, v) == u \o <<ch>> \o v \o <<ch>>
Stems(p, u, ch, v, w) == p \in Strings /\ p \o w = Glue(u, ch, Glue(v, ch, w))

\* Three strings around two occurrences of a character.
LEMMA GlueGlue ==
  ASSUME NEW u \in Strings, NEW v \in Strings, NEW w \in Strings, NEW ch \in Letters
  PROVE  Stems(Stem(u, ch, v), u, ch, v, w)
<1>1. PICK c : c = <<ch>>
  BY Zenon
<1>2. c \in Strings
  BY <1>1, Joins
<1> DEFINE uc == u \o c
           vc == v \o c
<1>3. uc \in Strings /\ vc \in Strings /\ uc \o v \in Strings /\ (uc \o v) \o c \in Strings
  BY <1>2, Joins, Zenon
<1> HIDE DEF uc, vc
<1>a. uc \in Strings /\ vc \in Strings
  BY <1>3, Zenon
<1>4. (uc \o v) \o c = uc \o (v \o c)
  BY <1>2, <1>a, Assoc, SMTT(30)
<1>5. (uc \o vc) \o w = uc \o (vc \o w)
  BY <1>a, Assoc, SMTT(30)
<1>6. /\ Stem(u, ch, v) = (uc \o v) \o c
      /\ Glue(u, ch, Glue(v, ch, w)) = uc \o (vc \o w)
      /\ v \o c = vc
  BY <1>1, Zenon DEF Glue, Stem, uc, vc
<1>7. ((uc \o v) \o c) \o w = Glue(u, ch, Glue(v, ch, w))
  BY <1>4, <1>5, <1>6, Zenon
<1> QED
  BY <1>3, <1>6, <1>7, Zenon DEF Stems

\* Anything off the wire parses as splitting it does.
LEMMA ParseSplits ==
  ASSUME NEW s \in Strings
  PROVE  IsSplit(s, ParseCache(s))
<1> DEFINE i == IndexByte(s, "/")
           rest == After(s, i)
           j == IndexByte(rest, "/")
           name == After(rest, j)
           k == IndexByte(name, "@")
           addr == After(name, k)
           l == IndexByte(addr, "@")
<1>1. ParseCache(s) = IF i = 0 \/ j = 0 \/ IndexByte(name, "/") # 0 THEN Empty
                      ELSE Parts(Before(s, i), Before(rest, j), Before(name, k), Before(addr, l))
  BY DEF ParseCache
<1>2. ASSUME 1 + Count(s, "/") # 3, ParseCache(s) = Empty PROVE IsSplit(s, ParseCache(s))
  BY <1>2, SMTT(30) DEF IsSplit, Count, Places
<1>a. ASSUME 1 + Count(s, "/") = 3, NEW p, p = ParseCache(s),
             NEW last \in {SubSeq(s, m, Len(s)) : m \in 1 .. Len(s) + 1},
             s = Glue(p.type, "/", Glue(p.kind, "/", last)),
             p.type \in Strings, p.kind \in Strings, last \in Strings,
             ~Contains(last, "/"), ~Contains(p.name, "@"), ~Contains(p.addr, "@"),
             CASE 1 + Count(last, "@") = 1 -> last = p.name /\ p.addr = <<>>
               [] 1 + Count(last, "@") = 2 -> last = Glue(p.name, "@", p.addr)
               [] OTHER -> IsPrefix(p.name \o <<"@">> \o p.addr \o <<"@">>, last)
      PROVE  IsSplit(s, ParseCache(s))
  <2>1. s = p.type \o <<"/">> \o p.kind \o <<"/">> \o last
    <3>1. "/" \in Letters
      BY DEF Letters
    <3>2. Stem(p.type, "/", p.kind) \o last = Glue(p.type, "/", Glue(p.kind, "/", last))
      <4>1. Stems(Stem(p.type, "/", p.kind), p.type, "/", p.kind, last)
        BY <1>a, <3>1, GlueGlue, Zenon
      <4> QED
        BY <4>1, Zenon DEF Stems
    <3> QED
      BY <1>a, <3>2, Zenon DEF Stem
  <2> QED
    BY <1>a, <2>1, Zenon DEF IsSplit, Count, Places, Glue
<1> HIDE DEF i, rest, j, name, k, addr, l
<1>3. CASE i = 0
  <2>1. Count(s, "/") = 0
    BY <1>3, CountNone DEF i
  <2>2. ParseCache(s) = Empty
    BY <1>1, <1>3
  <2> QED
    BY <1>2, <2>1, <2>2
<1>4. CASE i # 0 /\ j = 0
  <2>1. rest \in Strings
    BY <1>4, CutParts DEF i, rest
  <2>2. Count(s, "/") = 1 + Count(rest, "/")
    BY <1>4, CountCut DEF i, rest
  <2>3. Count(rest, "/") = 0
    BY <1>4, <2>1, CountNone DEF j
  <2>4. ParseCache(s) = Empty
    BY <1>1, <1>4
  <2> QED
    BY <1>2, <2>2, <2>3, <2>4
<1>5. ASSUME i # 0, j # 0
      PROVE  /\ rest \in Strings /\ name \in Strings
             /\ Count(s, "/") = 2 + Count(name, "/") /\ Count(name, "/") \in Nat
             /\ Count(name, "/") = 0 <=> IndexByte(name, "/") = 0
  <2>1. rest \in Strings
    BY <1>5, CutParts DEF i, rest
  <2>2. name \in Strings
    BY <1>5, <2>1, CutParts DEF j, name
  <2>3. Count(s, "/") = 1 + Count(rest, "/")
    BY <1>5, CountCut DEF i, rest
  <2>4. Count(rest, "/") = 1 + Count(name, "/")
    BY <1>5, <2>1, CountCut DEF j, name
  <2>5. Count(name, "/") \in Nat /\ (Count(name, "/") = 0 <=> IndexByte(name, "/") = 0)
    BY <2>2, CountNone
  <2> QED
    BY <2>1, <2>2, <2>3, <2>4, <2>5
<1>6. CASE i # 0 /\ j # 0 /\ IndexByte(name, "/") # 0
  <2>1. ParseCache(s) = Empty
    BY <1>1, <1>6
  <2>2. Count(s, "/") = 2 + Count(name, "/") /\ Count(name, "/") \in Nat /\ Count(name, "/") # 0
    BY <1>5, <1>6
  <2>3. 1 + Count(s, "/") # 3
    BY <2>2
  <2> QED
    BY <1>2, <2>1, <2>3
<1>7. CASE i # 0 /\ j # 0 /\ IndexByte(name, "/") = 0
  <2> DEFINE type == Before(s, i)
             kind == Before(rest, j)
             nm == Before(name, k)
             ad == Before(addr, l)
  <2>1. /\ ParseCache(s).type = type /\ ParseCache(s).kind = kind
        /\ ParseCache(s).name = nm /\ ParseCache(s).addr = ad
    BY <1>1, <1>7 DEF Parts
  <2>2. 1 + Count(s, "/") = 3 /\ rest \in Strings /\ name \in Strings /\ ~Contains(name, "/")
    BY <1>5, <1>7, IndexFirst
  <2>3. type \in Strings /\ s = Glue(type, "/", rest) /\ i \in 1 .. Len(s)
    BY <1>7, CutParts DEF i, rest
  <2>4. kind \in Strings /\ rest = Glue(kind, "/", name) /\ j \in 1 .. Len(rest)
    BY <1>7, <2>2, CutParts DEF j, name
  <2>5. name \in {SubSeq(s, m, Len(s)) : m \in 1 .. Len(s) + 1}
    BY <2>3, <2>4, AfterAfter, Zenon DEF rest, name
  <2> HIDE DEF type, kind, nm, ad
  <2>6. s = Glue(type, "/", Glue(kind, "/", name))
    BY <2>3, <2>4, Zenon
  <2>7. CASE k = 0
    <3>1. nm = name /\ addr = <<>> /\ ~Contains(name, "@") /\ Count(name, "@") = 0
      BY <2>2, <2>7, IndexFirst, CountNone DEF k, nm, addr, Before, After
    <3>2. ~Contains(<<>>, "@")
      BY DEF Contains
    <3>3. ad = <<>>
      BY <3>1, <3>2, Joins, Uncut DEF ad, l
    <3>4. PICK p : p = ParseCache(s)
      OBVIOUS
    <3>5. p.type = type /\ p.kind = kind /\ p.name = name /\ p.addr = <<>> /\ 1 + Count(name, "@") = 1
      BY <2>1, <3>1, <3>3, <3>4
    <3>6. s = Glue(p.type, "/", Glue(p.kind, "/", name)) /\ p.type \in Strings /\ p.kind \in Strings
      BY <2>3, <2>4, <2>6, <3>5, Zenon
    <3>7. ~Contains(p.name, "@") /\ ~Contains(p.addr, "@")
      BY <3>1, <3>2, <3>5, Zenon
    <3> QED
      BY <1>a, <2>2, <2>5, <3>4, <3>5, <3>6, <3>7
  <2>8. CASE k # 0
    <3>1. nm \in Strings /\ addr \in Strings /\ ~Contains(nm, "@") /\ name = Glue(nm, "@", addr)
      BY <2>2, <2>8, CutParts DEF k, nm, addr
    <3>2. Count(name, "@") = 1 + Count(addr, "@")
      BY <2>2, <2>8, CountCut DEF k, addr
    <3>3. Count(addr, "@") \in Nat /\ (Count(addr, "@") = 0 <=> l = 0)
      BY <3>1, CountNone DEF l
    <3>4. CASE l = 0
      <4>1. ad = addr /\ ~Contains(addr, "@")
        BY <3>1, <3>4, IndexFirst DEF l, ad, Before
      <4>2. 1 + Count(name, "@") = 2 /\ 1 + Count(name, "@") # 1
        BY <3>2, <3>3, <3>4
      <4> QED
        BY <1>a, <2>1, <2>2, <2>3, <2>4, <2>5, <2>6, <3>1, <4>1, <4>2, Zenon
    <3>5. CASE l # 0
      <4>1. /\ ad \in Strings /\ After(addr, l) \in Strings /\ ~Contains(ad, "@")
            /\ addr = Glue(ad, "@", After(addr, l))
        BY <3>1, <3>5, CutParts DEF l, ad
      <4>2. 1 + Count(name, "@") # 2 /\ 1 + Count(name, "@") # 1
        BY <3>2, <3>3, <3>5
      <4>3. IsPrefix(nm \o <<"@">> \o ad \o <<"@">>, name)
        <5>0. "@" \in Letters
          BY DEF Letters
        <5>1. /\ Stem(nm, "@", ad) \in Strings
              /\ Stem(nm, "@", ad) \o After(addr, l) = Glue(nm, "@", Glue(ad, "@", After(addr, l)))
          <6>1. Stems(Stem(nm, "@", ad), nm, "@", ad, After(addr, l))
            BY <3>1, <4>1, <5>0, GlueGlue, Zenon
          <6> QED
            BY <6>1, Zenon DEF Stems
        <5>2. name = Stem(nm, "@", ad) \o After(addr, l)
          BY <3>1, <4>1, <5>1, Zenon
        <5>3. IsPrefix(Stem(nm, "@", ad), name)
          BY <4>1, <5>1, <5>2, PrefixConcat, Zenon
        <5> QED
          BY <5>3, Zenon DEF Stem
      <4> QED
        BY <1>a, <2>1, <2>2, <2>3, <2>4, <2>5, <2>6, <3>1, <4>1, <4>2, <4>3, Zenon
    <3> QED
      BY <3>4, <3>5
  <2> QED
    BY <2>7, <2>8
<1> QED
  BY <1>3, <1>4, <1>6, <1>7, SMTT(30)

\* A string without separators.
Plain(s) == s \in Strings /\ ~Contains(s, "/") /\ ~Contains(s, "@")
\* What follows the name in a path.
Address(t, a) == IF t = <<"d">> THEN <<"@">> \o a ELSE <<>>

\* Only a direct reference has an address.
HasItsAddress(t, a) == t = <<"d">> \/ a = <<>>

\* A name with its address.
LEMMA AddressGlue ==
  ASSUME NEW t, NEW n \in Strings, NEW a \in Strings
  PROVE  /\ Address(t, a) \in Strings /\ n \o Address(t, a) \in Strings
         /\ t # <<"d">> => n \o Address(t, a) = n
         /\ t = <<"d">> => n \o Address(t, a) = Glue(n, "@", a)
<1>1. PICK c : c = <<"@">>
  BY Zenon
<1>2. c \in Strings
  BY <1>1, Joins DEF Letters
<1>3. CASE t # <<"d">>
  <2>1. Address(t, a) = <<>>
    BY <1>3, Zenon DEF Address
  <2> QED
    BY <1>3, <2>1, Joins, Zenon
<1>4. CASE t = <<"d">>
  <2>1. Address(t, a) = c \o a /\ Glue(n, "@", a) = (n \o c) \o a
    BY <1>1, <1>4, Zenon DEF Address, Glue
  <2> QED
    <3>1. (n \o c) \o a = n \o (c \o a)
      BY <1>2, Assoc
    <3>2. c \o a \in Strings
      BY <1>2, Joins, Zenon
    <3>3. n \o (c \o a) \in Strings
      BY <3>2, Joins, Zenon
    <3> QED
      BY <1>4, <2>1, <3>1, <3>2, <3>3, Zenon
<1> QED
  BY <1>3, <1>4

\* A plain name with a plain address has no further separator of the path.
LEMMA NameHasNoSlash ==
  ASSUME NEW t, NEW n, NEW a, Plain(n), Plain(a)
  PROVE  ~Contains(n \o Address(t, a), "/")
<1>1. n \in Strings /\ a \in Strings /\ "@" \in Letters
  BY DEF Plain, Letters
<1>2. PICK name : name = n \o Address(t, a)
  BY Zenon
<1>3. CASE t # <<"d">>
  BY <1>1, <1>3, AddressGlue, Zenon DEF Plain
<1>4. CASE t = <<"d">>
  <2>1. /\ Len(name) = Len(n) + 1 + Len(a) /\ name[Len(n) + 1] = "@"
        /\ \A j \in 1 .. Len(n) : name[j] = n[j]
        /\ \A j \in 1 .. Len(a) : name[Len(n) + 1 + j] = a[j]
    <3>1. name = Glue(n, "@", a)
      BY <1>1, <1>2, <1>4, AddressGlue, Zenon
    <3>2. IsAround(name, n, "@", a)
      BY <1>1, <3>1, Around, Zenon
    <3> QED
      BY <3>2, Zenon DEF IsAround
  <2>2. Len(n) \in Nat /\ Len(a) \in Nat
    BY <1>1 DEF Strings
  <2>3. /\ \A j \in 1 .. Len(n) : n[j] # "/"
        /\ \A j \in 1 .. Len(a) : a[j] # "/"
    BY DEF Plain, Contains
  <2>4. ASSUME NEW j \in 1 .. Len(name) PROVE name[j] # "/"
    <3>1. Len(name) = Len(n) + 1 + Len(a)
      BY <2>1
    <3>2. CASE j <= Len(n)
      <4>1. j \in 1 .. Len(n)
        BY <2>2, <3>1, <3>2
      <4> QED
        BY <2>1, <2>3, <4>1, Zenon
    <3>3. CASE j = Len(n) + 1
      BY <2>1, <3>3
    <3>4. CASE j > Len(n) + 1
      <4>1. PICK m : m = j - Len(n) - 1
        OBVIOUS
      <4>2. m \in 1 .. Len(a) /\ Len(n) + 1 + m = j
        BY <2>2, <3>1, <3>4, <4>1
      <4> QED
        BY <2>1, <2>3, <4>2, Zenon
    <3> QED
      BY <2>2, <3>1, <3>2, <3>3, <3>4
  <2> QED
    BY <1>2, <2>4, Zenon DEF Contains
<1> QED
  BY <1>3, <1>4

\* A path, cut at its first separator.
LEMMA PathCut ==
  ASSUME NEW t, NEW k \in Strings, NEW n, NEW a, Plain(t), Plain(n), Plain(a),
         NEW s, s = t \o <<"/">> \o k \o <<"/">> \o n \o Address(t, a)
  PROVE  CutsInto(s, "/", t, Glue(k, "/", n \o Address(t, a)))
<1>1. t \in Strings /\ n \in Strings /\ a \in Strings /\ "/" \in Letters /\ ~Contains(t, "/")
  BY DEF Plain, Letters
<1>2. PICK name : name = n \o Address(t, a)
  BY Zenon
<1>3. name \in Strings /\ Address(t, a) \in Strings
  BY <1>1, <1>2, AddressGlue, Zenon
<1>4. PICK rest : rest = Glue(k, "/", name)
  OBVIOUS
<1>5. rest \in Strings
  <2>1. IsAround(rest, k, "/", name)
    BY <1>1, <1>3, <1>4, Around, Zenon
  <2> QED
    BY <2>1, Zenon DEF IsAround
<1>6. s = Glue(t, "/", rest)
  <2>1. PICK p : p = Stem(t, "/", k)
    OBVIOUS
  <2>2. p \in Strings /\ p \o name = Glue(t, "/", Glue(k, "/", name))
    <3>1. Stems(p, t, "/", k, name)
      BY <1>1, <1>3, <2>1, GlueGlue, Zenon
    <3> QED
      BY <3>1, Zenon DEF Stems
  <2>3. p \o (n \o Address(t, a)) = (p \o n) \o Address(t, a)
    BY <1>1, <1>3, <2>2, Assoc, ZenonT(30)
  <2> QED
    BY <1>2, <1>4, <2>1, <2>2, <2>3, Zenon DEF Stem
<1> QED
  BY <1>1, <1>2, <1>4, <1>5, <1>6, Cut, Zenon

\* s parses into these parts.
ParsesInto(s, t, k, n, a) == ParseCache(s) = Parts(t, k, n, a)

\* What was put together from plain parts, and a kind without '/', parses into them.
LEMMA ParsesBack ==
  ASSUME NEW t, NEW k \in Strings, NEW n, NEW a, Plain(t), ~Contains(k, "/"), Plain(n), Plain(a),
         HasItsAddress(t, a),
         NEW s, s = t \o <<"/">> \o k \o <<"/">> \o n \o Address(t, a)
  PROVE  ParsesInto(s, t, k, n, a)
<1>1. /\ n \in Strings /\ a \in Strings /\ "/" \in Letters /\ "@" \in Letters
      /\ ~Contains(n, "@") /\ ~Contains(a, "@")
  BY DEF Plain, Letters
<1>2. PICK name : name = n \o Address(t, a)
  BY Zenon
<1>3. name \in Strings /\ ~Contains(name, "/")
  BY <1>1, <1>2, AddressGlue, NameHasNoSlash, Zenon
<1>4. PICK rest : rest = Glue(k, "/", name)
  OBVIOUS
<1>5. /\ rest \in Strings /\ IndexByte(rest, "/") # 0
      /\ Before(rest, IndexByte(rest, "/")) = k /\ After(rest, IndexByte(rest, "/")) = name
  <2>1. CutsInto(rest, "/", k, name)
    BY <1>1, <1>3, <1>4, Cut, Zenon
  <2> QED
    BY <2>1, Zenon DEF CutsInto
<1>7. /\ s \in Strings /\ IndexByte(s, "/") # 0
      /\ Before(s, IndexByte(s, "/")) = t /\ After(s, IndexByte(s, "/")) = rest
  <2>1. CutsInto(s, "/", t, rest)
    BY <1>2, <1>4, PathCut, Zenon
  <2> QED
    BY <2>1, Zenon DEF CutsInto
<1>8. IndexByte(name, "/") = 0
  BY <1>3, Uncut, Zenon
<1>9. Before(name, IndexByte(name, "@")) = n /\ After(name, IndexByte(name, "@")) = a
  <2>1. CASE t # <<"d">>
    <3>1. a = <<>> /\ name = n
      BY <1>1, <1>2, <2>1, AddressGlue, Zenon DEF HasItsAddress
    <3> QED
      BY <1>1, <3>1, Uncut, Zenon
  <2>2. CASE t = <<"d">>
    <3>1. name = Glue(n, "@", a)
      BY <1>1, <1>2, <2>2, AddressGlue, Zenon
    <3>2. CutsInto(name, "@", n, a)
      BY <1>1, <3>1, Cut, Zenon
    <3> QED
      BY <3>2, Zenon DEF CutsInto
  <2> QED
    BY <2>1, <2>2
<1>10. Before(a, IndexByte(a, "@")) = a
  BY <1>1, Uncut, Zenon
<1> QED
  BY <1>5, <1>7, <1>8, <1>9, <1>10 DEF ParseCache, ParsesInto

\* With a '/' in its kind, nothing.
LEMMA ParsesToNothing ==
  ASSUME NEW t, NEW k \in Strings, NEW n, NEW a, Plain(t), Contains(k, "/"), Plain(n), Plain(a),
         NEW s, s = t \o <<"/">> \o k \o <<"/">> \o n \o Address(t, a)
  PROVE  ParseCache(s) = Empty
<1>1. n \in Strings /\ a \in Strings /\ "/" \in Letters
  BY DEF Plain, Letters
<1>2. PICK name : name = n \o Address(t, a)
  BY Zenon
<1>3. name \in Strings
  BY <1>1, <1>2, AddressGlue, Zenon
<1>4. PICK u, v \in Strings : ~Contains(u, "/") /\ k = Glue(u, "/", v)
  <2>1. PICK i : i = IndexByte(k, "/")
    OBVIOUS
  <2>2. i # 0
    BY <2>1, IndexFirst, Zenon
  <2>3. /\ Before(k, i) \in Strings /\ After(k, i) \in Strings /\ ~Contains(Before(k, i), "/")
        /\ k = Glue(Before(k, i), "/", After(k, i))
    BY <2>1, <2>2, CutParts, ZenonT(60)
  <2> QED
    BY <2>3, Zenon
<1>5. PICK last : last = Glue(v, "/", name)
  OBVIOUS
<1>6. last \in Strings /\ Contains(last, "/")
  <2>1. IsAround(last, v, "/", name)
    BY <1>1, <1>3, <1>4, <1>5, Around, Zenon
  <2>2. last \in Strings /\ Len(last) = Len(v) + 1 + Len(name) /\ last[Len(v) + 1] = "/"
    BY <2>1, Zenon DEF IsAround
  <2>3. Len(v) \in Nat /\ Len(name) \in Nat
    BY <1>3, <1>4 DEF Strings
  <2>4. Len(v) + 1 \in 1 .. Len(last)
    BY <2>2, <2>3
  <2> QED
    BY <2>2, <2>4, Zenon DEF Contains
<1>7. Glue(k, "/", name) = Glue(u, "/", last)
  <2>1. Stems(Stem(u, "/", v), u, "/", v, name)
    BY <1>1, <1>3, <1>4, GlueGlue, Zenon
  <2>2. Glue(k, "/", name) = Stem(u, "/", v) \o name
    BY <1>4, Zenon DEF Glue, Stem
  <2> QED
    BY <1>5, <2>1, <2>2, Zenon DEF Stems
<1>8. PICK rest : rest = Glue(k, "/", name)
  OBVIOUS
<1>9. /\ rest \in Strings /\ IndexByte(rest, "/") # 0
      /\ After(rest, IndexByte(rest, "/")) = last
  <2>1. CutsInto(rest, "/", u, last)
    BY <1>1, <1>4, <1>6, <1>7, <1>8, Cut, Zenon
  <2> QED
    BY <2>1, Zenon DEF CutsInto
<1>10. s \in Strings /\ IndexByte(s, "/") # 0 /\ After(s, IndexByte(s, "/")) = rest
  <2>1. CutsInto(s, "/", t, rest)
    BY <1>2, <1>8, PathCut, Zenon
  <2> QED
    BY <2>1, Zenon DEF CutsInto
<1>11. IndexByte(last, "/") # 0
  BY <1>6, IndexFirst, Zenon
<1> QED
  BY <1>9, <1>10, <1>11 DEF ParseCache

-----------------------------------------------------------------------------
(***************************************************************************)
(* The references a node has at hand.                                      *)
(***************************************************************************)

\* A reference was built from plain parts and any kind; only a direct one has an address.
IdInv ==
  /\ path \in Strings
  /\ built # NoRef =>
       \E t, k, n, a \in Strings :
         /\ Plain(t) /\ Plain(n) /\ Plain(a)
         /\ HasItsAddress(t, a)
         /\ built = Parts(t, k, n, a)
         /\ path = t \o <<"/">> \o k \o <<"/">> \o n \o Address(t, a)

\* A reference built from such parts keeps the invariant.
LEMMA BuildsStep ==
  ASSUME NEW t, NEW k \in Strings, NEW n, NEW a, Plain(t), Plain(n), Plain(a),
         HasItsAddress(t, a), Builds(t, k, n, a)
  PROVE  IdInv'
<1>1. t \in Strings /\ n \in Strings /\ a \in Strings
  BY DEF Plain
<1>2. path' = t \o <<"/">> \o k \o <<"/">> \o n \o Address(t, a) /\ built' = Parts(t, k, n, a)
  BY Zenon DEF Builds, Address
<1>3. path' \in Strings
  <2>1. <<"/">> \in Strings /\ <<"@">> \in Strings
    BY Joins DEF Letters
  <2>2. Address(t, a) \in Strings
    BY <1>1, <2>1, Joins DEF Address
  <2> QED
    BY <1>1, <1>2, <2>1, <2>2, Joins
<1> QED
  BY <1>1, <1>2, <1>3, Zenon DEF IdInv, Parts, Plain, Address, HasItsAddress

\* The fixed parts of the references, validated texts and addresses are plain.
LEMMA PlainParts ==
  /\ \A ch \in {"c", "d", "r", "x"} : Plain(<<ch>>)
  /\ Plain(<<>>)
  /\ Texts \subseteq Strings
  /\ \A s \in Texts : Valid(s) => Plain(s)
  /\ \A a \in Addrs : Plain(a)
<1>1. ASSUME NEW ch \in {"c", "d", "r", "x"} PROVE Plain(<<ch>>)
  BY Joins DEF Plain, Contains, Letters
<1>2. Plain(<<>>)
  BY Joins DEF Plain, Contains
<1>3. Seq(Chars) \subseteq Strings /\ Seq(Chars \cup {"r"}) \subseteq Strings
  BY SeqMonotonic DEF Strings, Letters
<1> QED
  BY <1>1, <1>2, <1>3, IdAssumption DEF Plain, Valid

\* Every reference at hand was built from validated names and any kind, or came off the wire.
THEOREM IdInvariance == IdSpec => []IdInv
<1>1. IdInit => IdInv
  BY Joins DEF IdInit, IdInv
<1>2. IdInv /\ [IdNext]_idVars => IdInv'
  <2> SUFFICES ASSUME IdInv, [IdNext]_idVars PROVE IdInv'
    OBVIOUS
  <2>1. ASSUME NEW k \in Texts, NEW n \in Texts, NewClusterActorRef(k, n) PROVE IdInv'
    <3>1. Plain(<<"c">>) /\ k \in Strings /\ Plain(n) /\ Plain(<<>>) /\ Builds(<<"c">>, k, n, <<>>)
      BY <2>1, PlainParts DEF NewClusterActorRef
    <3> QED
      BY <3>1, BuildsStep DEF HasItsAddress
  <2>2. ASSUME NEW k \in Texts, NEW n \in Texts, NEW a \in Addrs, NewDirectActorRef(k, n, a) PROVE IdInv'
    <3>1. Plain(<<"d">>) /\ k \in Strings /\ Plain(n) /\ Plain(a) /\ Builds(<<"d">>, k, n, a)
      BY <2>2, PlainParts DEF NewDirectActorRef
    <3> QED
      BY <3>1, BuildsStep DEF HasItsAddress
  <2>3. ASSUME NEW a \in Addrs, NewReplyRef(a) PROVE IdInv'
    <3>1. /\ Plain(<<"d">>) /\ <<"r">> \in Strings /\ Plain(<<"x">>) /\ Plain(a)
          /\ Builds(<<"d">>, <<"r">>, <<"x">>, a)
      BY <2>3, PlainParts DEF NewReplyRef, Plain
    <3> QED
      BY <3>1, BuildsStep DEF HasItsAddress
  <2>4. ASSUME NEW ch \in Chars, Wire(ch) PROVE IdInv'
    <3>1. path' \in Strings
      BY <2>4 DEF Wire, IdInv, Strings, Letters
    <3> QED
      BY <2>4, <3>1 DEF Wire, IdInv
  <2>5. CASE UNCHANGED idVars
    BY <2>5, Zenon DEF idVars, IdInv
  <2> QED
    BY <2>1, <2>2, <2>3, <2>4, <2>5 DEF IdNext
<1> QED
  BY <1>1, <1>2, PTL DEF IdSpec

(***************************************************************************)
(* parseCache splits any string, off the wire or built here, as splitting  *)
(* at the separators does. It gives back the parts a reference was built   *)
(* from, whatever their length and characters, a kind "reply" or with '@'  *)
(* included, and empty parts if the kind of a spawned actor has a '/'.     *)
(***************************************************************************)
THEOREM IdsParse == IdSpec => []ParsesIntoItsParts
<1>1. IdInv => ParsesIntoItsParts
  <2> SUFFICES ASSUME IdInv PROVE ParsesIntoItsParts
    OBVIOUS
  <2>1. IsSplit(path, ParseCache(path))
    BY ParseSplits DEF IdInv
  <2>2. ASSUME built # NoRef
        PROVE  IF Contains(built.kind, "/") THEN ParseCache(path) = Empty
               ELSE /\ ParseCache(path) = built
                    /\ IsDirect(path) <=> built.type = <<"d">>
                    /\ IsAsk(path) <=> built.kind = <<"r">>
    <3>1. PICK t, k, n, a \in Strings :
            /\ Plain(t) /\ Plain(n) /\ Plain(a)
            /\ HasItsAddress(t, a)
            /\ built = Parts(t, k, n, a)
            /\ path = t \o <<"/">> \o k \o <<"/">> \o n \o Address(t, a)
      BY <2>2, Zenon DEF IdInv
    <3>2. built.type = t /\ built.kind = k
      BY <3>1 DEF Parts
    <3>3. CASE Contains(k, "/")
      <4>1. ParseCache(path) = Empty
        BY <3>1, <3>3, ParsesToNothing, Zenon
      <4> QED
        BY <3>2, <3>3, <4>1, Zenon
    <3>4. CASE ~Contains(k, "/")
      <4>1. ParsesInto(path, t, k, n, a)
        BY <3>1, <3>4, ParsesBack, Zenon
      <4> QED
        BY <3>1, <3>2, <3>4, <4>1, Zenon DEF ParsesInto, IsDirect, IsAsk
    <3> QED
      BY <3>3, <3>4
  <2> QED
    BY <2>1, <2>2, Zenon DEF ParsesIntoItsParts
<1> QED
  BY <1>1, IdInvariance, PTL
=============================================================================
