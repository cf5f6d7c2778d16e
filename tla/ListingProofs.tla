---------------------------- MODULE ListingProofs ----------------------------
(***************************************************************************)
(* Machine-checked proofs about Listing: keyset pagination lists every row *)
(* that stays, once, for any table, any page size, any number of seconds   *)
(* and any precision of the clock; and a report that is paged by domain is *)
(* the whole report.  First what TimeText says of texts and instants, then *)
(* what a page is, then the walk, then the report.                         *)
(***************************************************************************)
EXTENDS Listing, FiniteSetTheorems, SequenceTheorems, WellFoundedInduction, TLAPS

-----------------------------------------------------------------------------
(* Least and greatest elements.                                            *)

(* A non-empty set of naturals has a least element.                        *)
LEMMA LeastExists ==
  ASSUME NEW S, S \subseteq Nat, S # {}
  PROVE  \E x \in S : \A y \in S : x <= y
<1>1. PICK x \in S : \A y \in S : ~(<<y, x>> \in OpToRel(<, Nat))
  BY NatLessThanWellFounded, WFMin, Zenon
<1>2. ASSUME NEW y \in S PROVE x <= y
  <2>1. ~(<<y, x>> \in OpToRel(<, Nat))
    BY <1>1
  <2>2. x \in Nat /\ y \in Nat
    OBVIOUS
  <2>3. ~(y < x)
    BY <2>1, <2>2 DEF OpToRel
  <2> QED BY <2>2, <2>3
<1> QED BY <1>2

(* A bounded non-empty one has a greatest.                                 *)
LEMMA GreatestExists ==
  ASSUME NEW n \in Nat, NEW S, S \subseteq 0 .. n, S # {}
  PROVE  \E x \in S : \A y \in S : y <= x
<1> DEFINE T == {n - x : x \in S}
<1>1. \A x \in S : x \in Nat /\ n - x \in Nat
  OBVIOUS
<1>2. T \subseteq Nat /\ T # {}
  BY <1>1
<1>3. PICK z \in T : \A y \in T : z <= y
  BY <1>2, LeastExists
<1>4. PICK x \in S : z = n - x
  BY <1>3
<1>5. ASSUME NEW y \in S PROVE y <= x
  <2>1. n - x <= n - y
    BY <1>3, <1>4
  <2> QED BY <1>1, <2>1
<1> QED BY <1>5

-----------------------------------------------------------------------------
(* Texts.                                                                  *)

(* What Format returns: the seconds, and one Z, at the end.                *)
Text == {s \in Seq(Nat) : Len(s) >= 2 /\ \A k \in 2 .. Len(s) : s[k] = Zulu <=> k = Len(s)}

(* Where two texts differ first.                                           *)
DiffersAt(s, r, i) ==
  /\ i \in 1 .. Len(s) /\ i \in 1 .. Len(r)
  /\ s[i] # r[i] /\ \A j \in 1 .. i - 1 : s[j] = r[j]

(* No text is a part of another, so two differ somewhere.                  *)
LEMMA TextsDiffer ==
  ASSUME NEW s \in Text, NEW r \in Text, s # r
  PROVE  \E i : DiffersAt(s, r, i)
<1> DEFINE D == {i \in 1 .. Len(s) : i \in 1 .. Len(r) /\ s[i] # r[i]}
<1>1. /\ s \in Seq(Nat) /\ r \in Seq(Nat) /\ Len(s) \in Nat /\ Len(r) \in Nat /\ Len(s) >= 2 /\ Len(r) >= 2
      /\ \A k \in 2 .. Len(s) : s[k] = Zulu <=> k = Len(s)
      /\ \A k \in 2 .. Len(r) : r[k] = Zulu <=> k = Len(r)
  BY DEF Text
<1>2. D # {}
  <2> SUFFICES ASSUME D = {} PROVE FALSE
    OBVIOUS
  <2>1. \A i : i \in 1 .. Len(s) /\ i \in 1 .. Len(r) => s[i] = r[i]
    OBVIOUS
  <2>2. ~(Len(s) < Len(r))
    <3> SUFFICES ASSUME Len(s) < Len(r) PROVE FALSE
      OBVIOUS
    <3>1. Len(s) \in 2 .. Len(s) /\ Len(s) \in 2 .. Len(r) /\ Len(s) \in 1 .. Len(s) /\ Len(s) \in 1 .. Len(r)
      BY <1>1
    <3>2. s[Len(s)] = Zulu /\ s[Len(s)] = r[Len(s)]
      BY <1>1, <2>1, <3>1
    <3>3. Len(s) = Len(r)
      BY <1>1, <3>1, <3>2
    <3> QED BY <1>1, <3>3
  <2>3. ~(Len(r) < Len(s))
    <3> SUFFICES ASSUME Len(r) < Len(s) PROVE FALSE
      OBVIOUS
    <3>1. Len(r) \in 2 .. Len(s) /\ Len(r) \in 2 .. Len(r) /\ Len(r) \in 1 .. Len(s) /\ Len(r) \in 1 .. Len(r)
      BY <1>1
    <3>2. r[Len(r)] = Zulu /\ s[Len(r)] = r[Len(r)]
      BY <1>1, <2>1, <3>1
    <3>3. Len(r) = Len(s)
      BY <1>1, <3>1, <3>2
    <3> QED BY <1>1, <3>3
  <2>4. Len(s) = Len(r)
    BY <1>1, <2>2, <2>3
  <2>5. \A i \in 1 .. Len(s) : s[i] = r[i]
    BY <2>1, <2>4
  <2>6. s = r
    BY <1>1, <2>4, <2>5, SeqEqual
  <2> QED BY <2>6
<1>3. D \subseteq Nat
  OBVIOUS
<1>4. PICK i \in D : \A j \in D : i <= j
  BY <1>2, <1>3, LeastExists
<1>5. ASSUME NEW j \in 1 .. i - 1 PROVE s[j] = r[j]
  <2>1. j \in 1 .. Len(s) /\ j \in 1 .. Len(r) /\ j < i
    BY <1>1
  <2>2. j \notin D
    BY <1>1, <1>4, <2>1
  <2> QED BY <2>1, <2>2
<1> QED BY <1>5 DEF DiffersAt

(* Byte order is decided where they differ.                                *)
LEMMA OrderAt ==
  ASSUME NEW s \in Text, NEW r \in Text, NEW i, DiffersAt(s, r, i)
  PROVE  /\ TextBefore(s, r) <=> s[i] < r[i]
         /\ TextBefore(r, s) <=> r[i] < s[i]
<1>1. /\ s \in Seq(Nat) /\ r \in Seq(Nat) /\ Len(s) \in Nat /\ Len(r) \in Nat
      /\ i \in Nat /\ 1 <= i /\ i <= Len(s) /\ i <= Len(r) /\ s[i] # r[i] /\ \A j \in 1 .. i - 1 : s[j] = r[j]
      /\ s[i] \in Nat /\ r[i] \in Nat
  <2>1. s \in Seq(Nat) /\ r \in Seq(Nat)
    BY DEF Text
  <2>2. /\ i \in 1 .. Len(s) /\ i <= Len(r) /\ s[i] # r[i]
        /\ \A j \in 1 .. i - 1 : s[j] = r[j]
    BY DEF DiffersAt
  <2>3. Len(s) \in Nat /\ Len(r) \in Nat
    BY <2>1
  <2>4. i \in 1 .. Len(s) /\ i \in 1 .. Len(r) /\ i \in Nat /\ 1 <= i /\ i <= Len(s)
    BY <2>2, <2>3
  <2>5. s[i] \in Nat /\ r[i] \in Nat
    BY <2>1, <2>4
  <2> QED BY <2>1, <2>2, <2>3, <2>4, <2>5
<1>2. ASSUME NEW j \in 1 .. Len(s), j <= Len(r), s[j] < r[j] \/ r[j] < s[j], \A k \in 1 .. j - 1 : s[k] = r[k]
      PROVE  j = i
  <2>1. s[j] \in Nat /\ r[j] \in Nat /\ s[j] # r[j]
    <3>1. j \in 1 .. Len(s) /\ j \in 1 .. Len(r)
      BY <1>1, <1>2
    <3>2. s[j] \in Nat /\ r[j] \in Nat
      <4>1. s \in Seq(Nat) /\ r \in Seq(Nat)
        BY <1>1
      <4> QED BY <3>1, <4>1
    <3> QED BY <1>2, <3>2
  <2>2. ~(j < i)
    BY <1>1, <2>1
  <2>3. ~(i < j)
    <3> SUFFICES ASSUME i < j PROVE FALSE
      OBVIOUS
    <3>1. i \in 1 .. j - 1
      BY <1>1
    <3> QED BY <1>1, <1>2, <3>1
  <2> QED BY <1>1, <2>2, <2>3
<1>3. TextBefore(s, r) <=> s[i] < r[i]
  <2>1. ASSUME TextBefore(s, r) PROVE s[i] < r[i]
    <3>1. PICK j \in 1 .. Len(s) : j <= Len(r) /\ s[j] < r[j] /\ \A k \in 1 .. j - 1 : s[k] = r[k]
      BY <2>1 DEF TextBefore
    <3>2. j = i
      BY <1>2, <3>1
    <3> QED BY <3>1, <3>2
  <2>2. i \in 1 .. Len(s)
    BY <1>1
  <2>3. ASSUME s[i] < r[i] PROVE TextBefore(s, r)
    BY <1>1, <2>2, <2>3 DEF TextBefore
  <2> QED BY <2>1, <2>3
<1>4. TextBefore(r, s) <=> r[i] < s[i]
  <2>1. ASSUME NEW j \in 1 .. Len(r), j <= Len(s), r[j] < s[j], \A k \in 1 .. j - 1 : r[k] = s[k]
        PROVE  j = i
    <3>1. j \in 1 .. Len(s) /\ j <= Len(r) /\ \A k \in 1 .. j - 1 : s[k] = r[k]
      BY <1>1, <2>1
    <3> QED BY <1>2, <2>1, <3>1
  <2>2. i \in 1 .. Len(r) /\ i <= Len(s) /\ \A j \in 1 .. i - 1 : r[j] = s[j]
    BY <1>1
  <2>3. ASSUME TextBefore(r, s) PROVE r[i] < s[i]
    <3>1. PICK j \in 1 .. Len(r) : j <= Len(s) /\ r[j] < s[j] /\ \A k \in 1 .. j - 1 : r[k] = s[k]
      BY <2>3 DEF TextBefore
    <3> QED BY <2>1, <3>1
  <2>4. ASSUME r[i] < s[i] PROVE TextBefore(r, s)
    BY <2>2, <2>4 DEF TextBefore
  <2> QED BY <2>3, <2>4
<1> QED BY <1>3, <1>4

(* Byte order is a strict total order of the texts.                        *)
LEMMA TextOrder ==
  /\ \A s \in Text : ~TextBefore(s, s)
  /\ \A s, r \in Text : s # r => TextBefore(s, r) \/ TextBefore(r, s)
  /\ \A s, r, u \in Text : TextBefore(s, r) /\ TextBefore(r, u) => TextBefore(s, u)
<1>1. ASSUME NEW s \in Text PROVE ~TextBefore(s, s)
  <2>1. \A i \in 1 .. Len(s) : s[i] \in Nat
    BY DEF Text
  <2> QED BY <2>1 DEF TextBefore
<1>2. ASSUME NEW s \in Text, NEW r \in Text, s # r PROVE TextBefore(s, r) \/ TextBefore(r, s)
  <2>1. PICK i : DiffersAt(s, r, i)
    BY <1>2, TextsDiffer
  <2>2. s[i] \in Nat /\ r[i] \in Nat /\ s[i] # r[i]
    <3>1. s \in Seq(Nat) /\ r \in Seq(Nat)
      BY DEF Text
    <3>2. i \in 1 .. Len(s) /\ i <= Len(r) /\ s[i] # r[i]
      BY <2>1 DEF DiffersAt
    <3>3. i \in 1 .. Len(s) /\ i \in 1 .. Len(r)
      <4>1. Len(s) \in Nat /\ Len(r) \in Nat
        BY <3>1
      <4> QED BY <3>2, <4>1
    <3> QED BY <3>1, <3>2, <3>3
  <2>3. s[i] < r[i] \/ r[i] < s[i]
    BY <2>2
  <2> QED BY <2>1, <2>3, OrderAt
<1>3. ASSUME NEW s \in Text, NEW r \in Text, NEW u \in Text, TextBefore(s, r), TextBefore(r, u)
      PROVE  TextBefore(s, u)
  <2>1. PICK i \in 1 .. Len(s) : i <= Len(r) /\ s[i] < r[i] /\ \A j \in 1 .. i - 1 : s[j] = r[j]
    BY <1>3 DEF TextBefore
  <2>2. PICK k \in 1 .. Len(r) : k <= Len(u) /\ r[k] < u[k] /\ \A j \in 1 .. k - 1 : r[j] = u[j]
    BY <1>3 DEF TextBefore
  <2>3. /\ Len(s) \in Nat /\ Len(r) \in Nat /\ Len(u) \in Nat
        /\ \A j \in 1 .. Len(s) : s[j] \in Nat
        /\ \A j \in 1 .. Len(r) : r[j] \in Nat
        /\ \A j \in 1 .. Len(u) : u[j] \in Nat
    <3>1. s \in Seq(Nat) /\ r \in Seq(Nat) /\ u \in Seq(Nat)
      BY DEF Text
    <3>2. ASSUME NEW q \in Seq(Nat) PROVE Len(q) \in Nat /\ \A j \in 1 .. Len(q) : q[j] \in Nat
      OBVIOUS
    <3>3. Len(s) \in Nat /\ \A j \in 1 .. Len(s) : s[j] \in Nat
      BY <3>1, <3>2
    <3>4. Len(r) \in Nat /\ \A j \in 1 .. Len(r) : r[j] \in Nat
      BY <3>1, <3>2
    <3>5. Len(u) \in Nat /\ \A j \in 1 .. Len(u) : u[j] \in Nat
      BY <3>1, <3>2
    <3> QED BY <3>3, <3>4, <3>5
  <2>4. CASE i < k
    <3>1. i \in 1 .. Len(s) /\ i <= Len(u) /\ s[i] < u[i] /\ \A j \in 1 .. i - 1 : s[j] = u[j]
      BY <2>1, <2>2, <2>3, <2>4
    <3> QED BY <3>1 DEF TextBefore
  <2>5. CASE i = k
    <3>1. i \in 1 .. Len(s) /\ i <= Len(u) /\ s[i] < u[i] /\ \A j \in 1 .. i - 1 : s[j] = u[j]
      BY <2>1, <2>2, <2>3, <2>5
    <3> QED BY <3>1 DEF TextBefore
  <2>6. CASE k < i
    <3>1. k \in 1 .. Len(s) /\ k <= Len(u) /\ s[k] < u[k] /\ \A j \in 1 .. k - 1 : s[j] = u[j]
      BY <2>1, <2>2, <2>3, <2>6
    <3> QED BY <3>1 DEF TextBefore
  <2> QED BY <2>1, <2>2, <2>3, <2>4, <2>5, <2>6
<1> QED BY <1>1, <1>2, <1>3

-----------------------------------------------------------------------------
(* Instants and their texts.                                               *)

Moment == [sec : 0 .. Second, frac : [1 .. Precision -> 0 .. 9]]

(* The last digit that is not 0.                                           *)
LEMMA SignificantIs ==
  ASSUME NEW f \in [1 .. Precision -> 0 .. 9]
  PROVE  /\ Significant(f) \in 0 .. Precision
         /\ \A j \in 1 .. Precision : Significant(f) < j => f[j] = 0
<1> DEFINE D == {i \in 1 .. Precision : f[i] # 0}
           Final(i) == f[i] # 0 /\ \A j \in i + 1 .. Precision : f[j] = 0
<1>0. Precision \in Nat
  BY TimeTextAssumption
<1>1. CASE \A i \in 1 .. Precision : f[i] = 0
  BY <1>0, <1>1 DEF Significant
<1>2. CASE ~\A i \in 1 .. Precision : f[i] = 0
  <2>1. D # {} /\ D \subseteq 0 .. Precision
    BY <1>0, <1>2
  <2>2. PICK i \in D : \A j \in D : j <= i
    BY <1>0, <2>1, GreatestExists
  <2>3. i \in 1 .. Precision /\ Final(i)
    <3>1. ASSUME NEW j \in i + 1 .. Precision PROVE f[j] = 0
      <4>1. j \in 1 .. Precision /\ ~(j <= i)
        BY <1>0
      <4> QED BY <2>2, <4>1
    <3> QED BY <3>1
  <2>4. Significant(f) = CHOOSE x \in 1 .. Precision : Final(x)
    BY <1>2 DEF Significant
  <2> HIDE DEF Final
  <2>5. Significant(f) \in 1 .. Precision /\ Final(Significant(f))
    BY <2>3, <2>4
  <2>6. \A j \in 1 .. Precision : Significant(f) < j => j \in Significant(f) + 1 .. Precision
    BY <1>0, <2>5
  <2> QED BY <1>0, <2>5, <2>6 DEF Final
<1> QED BY <1>1, <1>2

(* The form of a text.                                                     *)
LEMMA FormatIs ==
  ASSUME NEW t \in Moment, NEW n, n = Significant(t.frac), NEW s, s = Format(t)
  PROVE  /\ s \in Text /\ s[1] = t.sec
         /\ Len(s) = IF n = 0 THEN 2 ELSE n + 3
         /\ \A j \in 1 .. n : s[j + 2] = DigitChar(t.frac[j])
<1>0. /\ Precision \in Nat /\ Second \in Nat /\ t.sec \in 0 .. Second /\ t.sec \in Nat
      /\ t.frac \in [1 .. Precision -> 0 .. 9]
  BY TimeTextAssumption DEF Moment
<1>1. n \in 0 .. Precision /\ n \in Nat
  BY <1>0, SignificantIs
<1>2. CASE n = 0
  <2>1. s = <<t.sec, Zulu>>
    BY <1>2 DEF Format
  <2>2. s \in Seq(Nat) /\ Len(s) = 2 /\ s[1] = t.sec /\ s[2] = Zulu
    BY <1>0, <2>1 DEF Zulu
  <2>3. \A k \in 2 .. 2 : s[k] = Zulu <=> k = 2
    BY <2>2
  <2>4. s \in Text
    <3>1. \A k \in 2 .. Len(s) : s[k] = Zulu <=> k = Len(s)
      BY <2>2, <2>3
    <3>2. s \in Seq(Nat) /\ Len(s) >= 2
      BY <2>2
    <3> QED BY <3>1, <3>2 DEF Text
  <2> QED BY <1>2, <2>2, <2>4
<1>3. CASE n # 0
  <2> DEFINE a == <<t.sec, Point>>
             d == [i \in 1 .. n |-> DigitChar(t.frac[i])]
             z == <<Zulu>>
  <2>1. s = (a \o d) \o z
    BY <1>3 DEF Format
  <2>2. \A i \in 1 .. n : DigitChar(t.frac[i]) \in Nat /\ DigitChar(t.frac[i]) <= 10
    <3> SUFFICES ASSUME NEW i \in 1 .. n PROVE DigitChar(t.frac[i]) \in Nat /\ DigitChar(t.frac[i]) <= 10
      OBVIOUS
    <3>1. i \in 1 .. Precision
      BY <1>0, <1>1
    <3>2. t.frac[i] \in 0 .. 9
      BY <1>0, <3>1
    <3> QED BY <3>2 DEF DigitChar
  <2>3. d \in Seq(Nat) /\ Len(d) = n /\ \A i \in 1 .. n : d[i] = DigitChar(t.frac[i])
    BY <1>1, <2>2
  <2>4. a \in Seq(Nat) /\ Len(a) = 2 /\ a[1] = t.sec /\ a[2] = Point
    BY <1>0 DEF Point
  <2>5. z \in Seq(Nat) /\ Len(z) = 1 /\ z[1] = Zulu
    BY DEF Zulu
  <2> HIDE DEF a, d, z
  <2>6. /\ a \o d \in Seq(Nat) /\ Len(a \o d) = n + 2
        /\ (a \o d)[1] = t.sec /\ (a \o d)[2] = Point
        /\ \A i \in 1 .. n : (a \o d)[i + 2] = DigitChar(t.frac[i])
    <3>1. /\ a \o d \in Seq(Nat) /\ Len(a \o d) = Len(a) + Len(d)
          /\ \A i \in 1 .. Len(a) + Len(d) : (a \o d)[i] = IF i <= Len(a) THEN a[i] ELSE d[i - Len(a)]
      BY <2>3, <2>4, ConcatProperties
    <3>2. \A i \in 1 .. n + 2 : (a \o d)[i] = IF i <= 2 THEN a[i] ELSE d[i - 2]
      BY <1>1, <2>3, <2>4, <3>1
    <3>3. 1 \in 1 .. n + 2 /\ 2 \in 1 .. n + 2
      BY <1>1
    <3>4. ASSUME NEW i \in 1 .. n PROVE (a \o d)[i + 2] = DigitChar(t.frac[i])
      <4>1. i + 2 \in 1 .. n + 2 /\ ~(i + 2 <= 2) /\ (i + 2) - 2 = i
        BY <1>1
      <4> QED BY <2>3, <3>2, <4>1
    <3> QED BY <1>1, <2>3, <2>4, <3>1, <3>2, <3>3, <3>4
  <2>7. PICK b \in Seq(Nat) : b = a \o d
    BY <2>6
  <2>8. /\ s \in Seq(Nat) /\ Len(s) = n + 3 /\ s[n + 3] = Zulu
        /\ \A k \in 1 .. n + 2 : s[k] = b[k]
    <3>1. /\ b \o z \in Seq(Nat) /\ Len(b \o z) = Len(b) + Len(z)
          /\ \A i \in 1 .. Len(b) + Len(z) : (b \o z)[i] = IF i <= Len(b) THEN b[i] ELSE z[i - Len(b)]
      BY <2>5, ConcatProperties
    <3>2. s = b \o z /\ Len(b) = n + 2
      BY <2>1, <2>6, <2>7
    <3>3. \A i \in 1 .. n + 3 : s[i] = IF i <= n + 2 THEN b[i] ELSE z[i - (n + 2)]
      BY <1>1, <2>5, <3>1, <3>2
    <3>4. n + 3 \in 1 .. n + 3 /\ ~(n + 3 <= n + 2) /\ (n + 3) - (n + 2) = 1
      BY <1>1
    <3>5. s[n + 3] = Zulu
      BY <2>5, <3>3, <3>4
    <3>6. \A k \in 1 .. n + 2 : s[k] = b[k]
      BY <1>1, <3>3
    <3> QED BY <1>1, <2>5, <3>1, <3>2, <3>5, <3>6
  <2>9. s[1] = t.sec /\ s[2] = Point /\ \A j \in 1 .. n : s[j + 2] = DigitChar(t.frac[j])
    <3>1. 1 \in 1 .. n + 2 /\ 2 \in 1 .. n + 2 /\ \A j \in 1 .. n : j + 2 \in 1 .. n + 2
      BY <1>1
    <3> QED BY <2>6, <2>7, <2>8, <3>1
  <2>10. ASSUME NEW k \in 2 .. n + 3 PROVE s[k] = Zulu <=> k = n + 3
    <3>1. CASE k = 2
      BY <1>1, <2>9, <3>1 DEF Point, Zulu
    <3>2. CASE k \in 3 .. n + 2
      <4>1. PICK j \in 1 .. n : k = j + 2
        <5>1. k - 2 \in 1 .. n /\ k = (k - 2) + 2
          BY <1>1, <3>2
        <5> QED BY <5>1
      <4>2. s[k] <= 10 /\ s[k] \in Nat
        BY <2>2, <2>9, <4>1
      <4> QED BY <1>1, <3>2, <4>2 DEF Zulu
    <3>3. CASE k = n + 3
      BY <2>8, <3>3
    <3> QED BY <1>1, <3>1, <3>2, <3>3
  <2>11. s \in Text
    BY <1>1, <2>8, <2>10 DEF Text
  <2> QED BY <1>3, <2>8, <2>9, <2>11
<1> QED BY <1>2, <1>3

(* Equal texts are equal instants.                                         *)
LEMMA FormatOneToOne ==
  ASSUME NEW t \in Moment, NEW u \in Moment, Format(t) = Format(u)
  PROVE  t = u
<1>0. /\ Precision \in Nat /\ t.frac \in [1 .. Precision -> 0 .. 9] /\ u.frac \in [1 .. Precision -> 0 .. 9]
  BY TimeTextAssumption DEF Moment
<1>1. PICK n \in 0 .. Precision : n = Significant(t.frac) /\ \A j \in 1 .. Precision : n < j => t.frac[j] = 0
  BY <1>0, SignificantIs
<1>2. PICK m \in 0 .. Precision : m = Significant(u.frac) /\ \A j \in 1 .. Precision : m < j => u.frac[j] = 0
  BY <1>0, SignificantIs
<1>3. PICK s : s = Format(t) /\ s = Format(u)
  OBVIOUS
<1>4. /\ s[1] = t.sec /\ Len(s) = IF n = 0 THEN 2 ELSE n + 3
      /\ \A j \in 1 .. n : s[j + 2] = DigitChar(t.frac[j])
  BY <1>1, <1>3, FormatIs
<1>5. /\ s[1] = u.sec /\ Len(s) = IF m = 0 THEN 2 ELSE m + 3
      /\ \A j \in 1 .. m : s[j + 2] = DigitChar(u.frac[j])
  BY <1>2, <1>3, FormatIs
<1>6. n = m
  <2>1. n \in Nat /\ m \in Nat /\ (IF n = 0 THEN 2 ELSE n + 3) = (IF m = 0 THEN 2 ELSE m + 3)
    BY <1>0, <1>4, <1>5
  <2> QED BY <2>1
<1>7. ASSUME NEW j \in 1 .. Precision PROVE t.frac[j] = u.frac[j]
  <2>1. CASE n < j
    BY <1>1, <1>2, <1>6, <2>1
  <2>2. CASE j \in 1 .. n
    <3>1. DigitChar(t.frac[j]) = DigitChar(u.frac[j]) /\ t.frac[j] \in 0 .. 9 /\ u.frac[j] \in 0 .. 9
      BY <1>0, <1>4, <1>5, <1>6, <2>2
    <3> QED BY <3>1 DEF DigitChar
  <2> QED BY <1>0, <2>1, <2>2
<1>8. t.frac = u.frac
  BY <1>0, <1>7
<1>9. t = [sec |-> t.sec, frac |-> t.frac] /\ u = [sec |-> u.sec, frac |-> u.frac]
  BY DEF Moment
<1> QED BY <1>4, <1>5, <1>8, <1>9

(* In another second the texts are in the order of the instants.           *)
LEMMA SecondsDecide ==
  ASSUME NEW t \in Moment, NEW u \in Moment, t.sec # u.sec
  PROVE  TextBefore(Format(t), Format(u)) <=> Before(t, u)
<1>1. PICK s \in Text, r \in Text : s = Format(t) /\ r = Format(u)
  BY FormatIs
<1>2. s[1] = t.sec /\ r[1] = u.sec
  BY <1>1, FormatIs
<1>3. DiffersAt(s, r, 1)
  BY <1>2 DEF DiffersAt, Text
<1>4. TextBefore(s, r) <=> t.sec < u.sec
  BY <1>2, <1>3, OrderAt
<1> QED BY <1>1, <1>4 DEF Before

-----------------------------------------------------------------------------
(* Rows in order.                                                          *)

Row == [at : Moment, class : Class \cup {""}, dom : Domain \cup {""}, hit : BOOLEAN]
Table(rs) == rs \in [Id -> Row \cup {None}]

(* Rows of which all have a creation time.                                 *)
Dated(S) == S \subseteq Id /\ \A i \in S : rows[i].at \in Moment

(* The identifiers and the page sizes.                                     *)
LEMMA Sizes ==
  /\ IsFiniteSet(Id) /\ Id \subseteq Nat /\ 0 \notin Id
  /\ DefaultPage \in Nat \ {0} /\ MaxPage \in Nat \ {0}
BY ListingAssumption

(* A row is there or is None, not both.                                    *)
LEMMA RowIsNotNone ==
  /\ None \notin Row /\ Unbounded \notin Moment /\ Epoch \in Moment
  /\ \A x \in Row : x.at \in Moment
<1>1. Unbounded \notin Moment
  <2>1. -1 \notin 0 .. Second
    BY TimeTextAssumption
  <2> QED BY <2>1 DEF Unbounded, Moment
<1>2. \A x \in Row : x.at \in Moment
  BY DEF Row
<1>3. None.at = Unbounded
  BY DEF None
<1>4. Epoch \in Moment
  BY TimeTextAssumption DEF Epoch, Moment
<1> QED BY <1>1, <1>2, <1>3, <1>4

(* The rows that are there have a creation time.                           *)
LEMMA PresentDated ==
  ASSUME Table(rows)
  PROVE  Dated(Present) /\ \A i \in Present : rows[i] \in Row
BY RowIsNotNone DEF Table, Present, Dated

(* ORDER BY created_at, id is a strict total order.                        *)
LEMMA RowOrder ==
  ASSUME NEW S, Dated(S)
  PROVE  /\ \A i \in S : ~RowBefore(i, i)
         /\ \A i, j \in S : i # j => RowBefore(i, j) \/ RowBefore(j, i)
         /\ \A i, j, k \in S : RowBefore(i, j) /\ RowBefore(j, k) => RowBefore(i, k)
<1> DEFINE text(i) == Format(rows[i].at)
<1>1. \A i \in S : text(i) \in Text /\ i \in Nat
  BY FormatIs, Sizes DEF Dated
<1>2. \A i, j \in S : RowBefore(i, j) <=> TextBefore(text(i), text(j)) \/ (text(i) = text(j) /\ i < j)
  BY DEF RowBefore
<1> HIDE DEF text
<1>3. ASSUME NEW i \in S PROVE ~RowBefore(i, i)
  <2>1. ~TextBefore(text(i), text(i)) /\ ~(i < i)
    BY <1>1, TextOrder
  <2> QED BY <1>2, <2>1
<1>4. ASSUME NEW i \in S, NEW j \in S, i # j PROVE RowBefore(i, j) \/ RowBefore(j, i)
  <2>1. i < j \/ j < i
    BY <1>1, <1>4
  <2>2. text(i) # text(j) => TextBefore(text(i), text(j)) \/ TextBefore(text(j), text(i))
    BY <1>1, TextOrder
  <2> QED BY <1>2, <2>1, <2>2
<1>5. ASSUME NEW i \in S, NEW j \in S, NEW k \in S, RowBefore(i, j), RowBefore(j, k) PROVE RowBefore(i, k)
  <2>1. CASE TextBefore(text(i), text(j)) /\ TextBefore(text(j), text(k))
    <3>1. TextBefore(text(i), text(k))
      BY <1>1, <2>1, TextOrder
    <3> QED BY <1>2, <3>1
  <2>2. CASE TextBefore(text(i), text(j)) /\ text(j) = text(k)
    BY <1>2, <2>2
  <2>3. CASE text(i) = text(j) /\ TextBefore(text(j), text(k))
    BY <1>2, <2>3
  <2>4. CASE text(i) = text(j) /\ text(j) = text(k) /\ i < j /\ j < k
    <3>1. i < k
      BY <1>1, <2>4
    <3> QED BY <1>2, <2>4, <3>1
  <2> QED BY <1>2, <1>5, <2>1, <2>2, <2>3, <2>4
<1> QED BY <1>3, <1>4, <1>5

(* R gives what comes after an element: a strict total order.              *)
Ordered(S, R) ==
  /\ \A x \in S : x \notin R[x]
  /\ \A x, y \in S : x # y => y \in R[x] \/ x \in R[y]
  /\ \A x, y, z \in S : y \in R[x] /\ z \in R[y] => z \in R[x]

Ascending(f, n, R) == \A j, k \in 1 .. n : j < k => f[k] \in R[f[j]]

(* Every element once.                                                     *)
Once(f, n, S) ==
  /\ \A j, k \in 1 .. n : f[j] = f[k] => j = k
  /\ \A x \in S : \E k \in 1 .. n : f[k] = x

(* A finite set has an arrangement in any strict total order of it.        *)
LEMMA Arrangement ==
  ASSUME NEW S, IsFiniteSet(S), NEW R, Ordered(S, R), NEW n, n = Cardinality(S)
  PROVE  n \in Nat /\ \E f \in [1 .. n -> S] : Ascending(f, n, R)
<1> DEFINE Low(x) == {y \in S : x \in R[y]}
           rank == [x \in S |-> Cardinality(Low(x)) + 1]
<1>1. n \in Nat
  BY FS_CardinalityType
<1>o. /\ \A x \in S : x \notin R[x]
      /\ \A x, y \in S : x # y => y \in R[x] \/ x \in R[y]
      /\ \A x, y, z \in S : y \in R[x] /\ z \in R[y] => z \in R[x]
  BY DEF Ordered
<1>2. ASSUME NEW x \in S
      PROVE  /\ IsFiniteSet(Low(x)) /\ Cardinality(Low(x)) \in Nat
             /\ x \notin Low(x) /\ Cardinality(Low(x)) + 1 \in 1 .. n
  <2>1. x \notin Low(x) /\ Low(x) \subseteq S \ {x}
    BY <1>o
  <2>2. IsFiniteSet(S \ {x}) /\ Cardinality(S \ {x}) = n - 1
    BY FS_RemoveElement
  <2>3. IsFiniteSet(Low(x)) /\ Cardinality(Low(x)) <= Cardinality(S \ {x})
    BY <2>1, <2>2, FS_Subset
  <2>4. Cardinality(Low(x)) \in Nat
    BY <2>3, FS_CardinalityType
  <2> HIDE DEF Low
  <2> QED BY <1>1, <2>1, <2>2, <2>3, <2>4
<1>3. ASSUME NEW x \in S, NEW y \in S, y \in R[x]
      PROVE  Cardinality(Low(x)) + 1 < Cardinality(Low(y)) + 1
  <2>1. Low(x) \cup {x} \subseteq Low(y)
    BY <1>3, <1>o
  <2>2. Cardinality(Low(x) \cup {x}) = Cardinality(Low(x)) + 1
    BY <1>2, FS_AddElement
  <2>3. Cardinality(Low(x) \cup {x}) <= Cardinality(Low(y))
    BY <1>2, <2>1, FS_Subset
  <2>4. Cardinality(Low(x)) \in Nat /\ Cardinality(Low(y)) \in Nat
    BY <1>2
  <2> HIDE DEF Low
  <2> QED BY <2>2, <2>3, <2>4
<1>4. /\ rank \in [S -> 1 .. n]
      /\ \A x, y \in S : y \in R[x] => rank[x] < rank[y]
  BY <1>2, <1>3
<1> HIDE DEF rank
<1>5. \A x, y \in S : rank[x] = rank[y] => x = y
  <2> SUFFICES ASSUME NEW x \in S, NEW y \in S, rank[x] = rank[y], x # y PROVE FALSE
    OBVIOUS
  <2>1. rank[x] \in Nat /\ rank[y] \in Nat
    BY <1>1, <1>4
  <2>2. rank[x] < rank[y] \/ rank[y] < rank[x]
    BY <1>4, <1>o
  <2> QED BY <2>1, <2>2
<1>6. rank \in Injection(S, 1 .. n)
  BY <1>4, <1>5 DEF Injection, IsInjective
<1>7. IsFiniteSet(1 .. n) /\ Cardinality(1 .. n) = n
  BY <1>1, FS_Interval
<1>8. rank \in Surjection(S, 1 .. n)
  BY <1>6, <1>7, FS_Injection
<1>9. \A k \in 1 .. n : \E x \in S : rank[x] = k
  BY <1>8 DEF Surjection
<1> DEFINE f == [k \in 1 .. n |-> CHOOSE x \in S : rank[x] = k]
<1>10. f \in [1 .. n -> S] /\ \A k \in 1 .. n : rank[f[k]] = k
  BY <1>9
<1> HIDE DEF f
<1>11. ASSUME NEW j \in 1 .. n, NEW k \in 1 .. n, j < k PROVE f[k] \in R[f[j]]
  <2>1. f[j] \in S /\ f[k] \in S /\ rank[f[j]] = j /\ rank[f[k]] = k /\ j \in Nat /\ k \in Nat
    BY <1>10
  <2>2. f[j] # f[k]
    BY <1>11, <2>1
  <2>3. f[j] \notin R[f[k]]
    <3> SUFFICES ASSUME f[j] \in R[f[k]] PROVE FALSE
      OBVIOUS
    <3>1. k < j
      BY <1>4, <2>1
    <3> QED BY <1>11, <2>1, <3>1
  <2> QED BY <2>1, <2>2, <2>3, <1>o
<1> QED BY <1>1, <1>10, <1>11 DEF Ascending

(* Such an arrangement has every element once.                             *)
LEMMA ArrangedOnce ==
  ASSUME NEW S, IsFiniteSet(S), NEW R, Ordered(S, R), NEW n, n = Cardinality(S),
         NEW f \in [1 .. n -> S], Ascending(f, n, R)
  PROVE  Once(f, n, S)
<1>1. n \in Nat
  BY FS_CardinalityType
<1>2. \A j, k \in 1 .. n : f[j] = f[k] => j = k
  <2> SUFFICES ASSUME NEW j \in 1 .. n, NEW k \in 1 .. n, f[j] = f[k], j < k \/ k < j PROVE FALSE
    BY <1>1
  <2>1. f[j] \in S
    OBVIOUS
  <2>2. f[j] \in R[f[j]]
    BY DEF Ascending
  <2> QED BY <2>1, <2>2 DEF Ordered
<1>3. f \in Injection(1 .. n, S)
  BY <1>2 DEF Injection, IsInjective
<1>4. IsFiniteSet(1 .. n) /\ Cardinality(1 .. n) = n
  BY <1>1, FS_Interval
<1>5. f \in Surjection(1 .. n, S)
  BY <1>1, <1>3, <1>4, FS_Injection
<1>6. \A x \in S : \E k \in 1 .. n : f[k] = x
  BY <1>5 DEF Surjection
<1> QED BY <1>2, <1>6 DEF Once

(* There is an arrangement of a set of rows in order.                      *)
LEMMA OrderExists ==
  ASSUME NEW S, Dated(S), NEW n, n = Cardinality(S)
  PROVE  /\ IsFiniteSet(S) /\ n \in Nat
         /\ \E f \in [1 .. n -> S] : \A j, k \in 1 .. n : j < k => RowBefore(f[j], f[k])
<1> DEFINE after == [i \in S |-> {j \in S : RowBefore(i, j)}]
<1>1. IsFiniteSet(S)
  BY Sizes, FS_Subset DEF Dated
<1>2. PICK R : R = after
  OBVIOUS
<1>3. \A i, j \in S : j \in R[i] <=> RowBefore(i, j)
  BY <1>2
<1>4. Ordered(S, R)
  BY <1>3, RowOrder DEF Ordered
<1>5. n \in Nat /\ \E f \in [1 .. n -> S] : Ascending(f, n, R)
  BY <1>1, <1>4, Arrangement
<1>6. PICK f \in [1 .. n -> S] : Ascending(f, n, R)
  BY <1>5
<1>7. \A j, k \in 1 .. n : j < k => RowBefore(f[j], f[k])
  BY <1>3, <1>6 DEF Ascending
<1> QED BY <1>1, <1>5, <1>7

(* That is what a query returns: every row once, in order.                 *)
LEMMA InOrderIs ==
  ASSUME NEW S, Dated(S), NEW f, f = InOrder(S), NEW n, n = Cardinality(S)
  PROVE  /\ n \in Nat /\ f \in [1 .. n -> S] /\ f \in Seq(S) /\ Len(f) = n
         /\ \A j, k \in 1 .. n : j < k => RowBefore(f[j], f[k])
         /\ \A i \in S : \E k \in 1 .. n : f[k] = i
<1> DEFINE Ascends(g) == \A j, k \in DOMAIN g : j < k => RowBefore(g[j], g[k])
<1>1. /\ IsFiniteSet(S) /\ n \in Nat
      /\ \E g \in [1 .. n -> S] : \A j, k \in 1 .. n : j < k => RowBefore(g[j], g[k])
  BY OrderExists
<1>2. \E g \in [1 .. n -> S] : Ascends(g)
  BY <1>1
<1>3. f = CHOOSE g \in [1 .. n -> S] : Ascends(g)
  BY DEF InOrder
<1> HIDE DEF Ascends
<1>4. f \in [1 .. n -> S] /\ Ascends(f)
  BY <1>2, <1>3
<1>5. \A j, k \in 1 .. n : j < k => RowBefore(f[j], f[k])
  BY <1>4 DEF Ascends
<1>6. \A j, k \in 1 .. n : f[j] = f[k] => j = k
  <2> SUFFICES ASSUME NEW j \in 1 .. n, NEW k \in 1 .. n, f[j] = f[k], j < k \/ k < j PROVE FALSE
    BY <1>1
  <2>1. f[j] \in S
    BY <1>4
  <2> QED BY <1>5, <2>1, RowOrder
<1>7. f \in Injection(1 .. n, S)
  BY <1>4, <1>6 DEF Injection, IsInjective
<1>8. IsFiniteSet(1 .. n) /\ Cardinality(1 .. n) = n
  BY <1>1, FS_Interval
<1>9. f \in Surjection(1 .. n, S)
  BY <1>1, <1>7, <1>8, FS_Injection
<1>10. \A i \in S : \E k \in 1 .. n : f[k] = i
  BY <1>9 DEF Surjection
<1>11. f \in Seq(S) /\ Len(f) = n
  BY <1>1, <1>4
<1> QED BY <1>1, <1>4, <1>5, <1>10, <1>11

(* What a query has still to return.                                       *)
Ahead(matching, cursor) == {i \in matching : AfterCursor(i, cursor)}

(* One page: rows in order.  Without a next cursor they are all there; with*)
(* one it is the last row of the page, and what is not on the page comes   *)
(* after it.                                                               *)
PageOf(p, S) ==
  /\ p.rows \in Seq(S)
  /\ \A j, k \in 1 .. Len(p.rows) : j < k => RowBefore(p.rows[j], p.rows[k])
  /\ p.next = NoCursor => \A i \in S : \E k \in 1 .. Len(p.rows) : p.rows[k] = i
  /\ p.next # NoCursor =>
       \E l \in S : /\ p.next = EncodeCursor(l)
                    /\ \A k \in 1 .. Len(p.rows) : p.rows[k] = l \/ RowBefore(p.rows[k], l)
                    /\ \A i \in S : RowBefore(l, i) \/ \E k \in 1 .. Len(p.rows) : p.rows[k] = i

(* That is what KeysetPage returns of the rows after the cursor.           *)
LEMMA PageIs ==
  ASSUME NEW matching, Dated(matching), NEW cursor, NEW limit \in Nat \ {0},
         NEW S, S = Ahead(matching, cursor),
         NEW p, p = KeysetPage(matching, cursor, limit)
  PROVE  PageOf(p, S)
<1>1. Dated(S)
  BY DEF Dated, Ahead
<1>2. PICK n : n = Cardinality(S)
  OBVIOUS
<1>3. PICK found : found = InOrder(S)
  OBVIOUS
<1>4. /\ n \in Nat /\ found \in [1 .. n -> S] /\ found \in Seq(S) /\ Len(found) = n
      /\ \A j, k \in 1 .. n : j < k => RowBefore(found[j], found[k])
      /\ \A i \in S : \E k \in 1 .. n : found[k] = i
  BY ONLY <1>1, <1>2, <1>3, InOrderIs
<1>5. p = [rows |-> IF Len(found) > limit THEN SubSeq(found, 1, limit) ELSE found,
           next |-> IF Len(found) > limit THEN EncodeCursor(found[limit]) ELSE NoCursor]
  BY <1>3 DEF KeysetPage, Ahead
<1>6. CASE ~(n > limit)
  <2>1. p.rows = found /\ p.next = NoCursor
    BY <1>4, <1>5, <1>6
  <2> QED BY <1>4, <2>1 DEF PageOf
<1>7. CASE n > limit
  <2>1. p.rows = SubSeq(found, 1, limit) /\ p.next = EncodeCursor(found[limit])
    BY <1>4, <1>5, <1>7
  <2>2. limit \in 1 .. n /\ \A k \in 1 .. limit : k \in 1 .. n
    BY <1>4, <1>7
  <2>3. p.rows \in Seq(S) /\ Len(p.rows) = limit /\ \A k \in 1 .. limit : p.rows[k] = found[k]
    <3>1. \A k \in 1 .. limit : found[k] \in S
      BY <1>4, <2>2
    <3>2. PICK r : r = SubSeq(found, 1, limit)
      OBVIOUS
    <3>3. Len(r) = limit /\ \A k \in 1 .. limit : r[k] = found[k]
      BY <1>4, <2>2, <3>2
    <3>4. r \in Seq(S)
      BY <1>4, <2>2, <3>1, <3>2
    <3> QED BY <2>1, <3>2, <3>3, <3>4
  <2>4. found[limit] \in S /\ found[limit] # 0
    BY <1>1, <1>4, <2>2, Sizes DEF Dated
  <2>5. p.next # NoCursor
    BY <2>1, <2>4 DEF EncodeCursor, NoCursor
  <2>6. \A j, k \in 1 .. Len(p.rows) : j < k => RowBefore(p.rows[j], p.rows[k])
    BY <1>4, <2>2, <2>3
  <2>7. ASSUME NEW k \in 1 .. Len(p.rows) PROVE p.rows[k] = found[limit] \/ RowBefore(p.rows[k], found[limit])
    <3>1. k \in 1 .. limit /\ k \in 1 .. n /\ p.rows[k] = found[k] /\ (k = limit \/ k < limit)
      BY <2>2, <2>3
    <3> QED BY <1>4, <2>2, <3>1
  <2>8. ASSUME NEW i \in S PROVE RowBefore(found[limit], i) \/ \E k \in 1 .. Len(p.rows) : p.rows[k] = i
    <3>1. PICK k \in 1 .. n : found[k] = i
      BY <1>4
    <3>2. k \in 1 .. limit \/ limit < k
      BY <1>4
    <3> QED BY <1>4, <2>2, <2>3, <3>1, <3>2
  <2> QED BY <2>1, <2>3, <2>4, <2>5, <2>6, <2>7, <2>8 DEF PageOf
<1> QED BY <1>6, <1>7

(* What comes after a row is what is after its cursor.                     *)
LEMMA AfterRow ==
  ASSUME NEW S, Dated(S), NEW l \in S, NEW i \in S
  PROVE  AfterCursor(i, EncodeCursor(l)) <=> RowBefore(l, i)
<1>1. l # 0
  BY Sizes DEF Dated
<1>2. EncodeCursor(l) # NoCursor /\ EncodeCursor(l).text = Format(rows[l].at) /\ EncodeCursor(l).id = l
  BY <1>1 DEF EncodeCursor, NoCursor
<1> QED BY <1>2 DEF AfterCursor, RowBefore

-----------------------------------------------------------------------------
(* The walk.                                                               *)

(* The fields of a walk.                                                   *)
Shape(w) ==
  w = [pc |-> w.pc, kind |-> w.kind, class |-> w.class, from |-> w.from, limit |-> w.limit, desc |-> w.desc,
       cursor |-> w.cursor, got |-> w.got, domain |-> w.domain, domains |-> w.domains]

(* The clock and the table.  An identifier that was drawn is never drawn   *)
(* again, and a row that waits for its commit is not in the table.         *)
StoreInv ==
  /\ now \in Moment /\ Table(rows)
  /\ used \subseteq Id /\ Present \subseteq used
  /\ stamped = NoStamp \/ (stamped.id \in used /\ stamped.row \in Row /\ rows[stamped.id] = None)

WalkInv ==
  /\ Shape(walk) /\ walk.limit \in {0, MaxPage} /\ walk.from \in {Unbounded, Epoch}
  /\ Rows => walk.pc \in {"idle", "walking", "done"}

(* A cursor is of the form EncodeCursor gives it.                          *)
Cursor(c) == c = NoCursor \/ (c.text \in Text /\ c.id \in Id)

(* What was listed and is still there has a key the cursor has passed; what*)
(* is gone does not come back, for its identifier is used.                 *)
KeysRead ==
  /\ walk.got \in Seq(Id) /\ Cursor(walk.cursor)
  /\ walk.pc = "idle" => walk.got = <<>> /\ walk.cursor = NoCursor
  /\ \A k \in 1 .. Len(walk.got) : walk.got[k] \in used /\ walk.got[k] # stamped.id
  /\ walk.pc = "walking" =>
       \A k \in 1 .. Len(walk.got) : walk.got[k] \in Present => ~AfterCursor(walk.got[k], walk.cursor)
  /\ \A j, k \in 1 .. Len(walk.got) : walk.got[j] = walk.got[k] => j = k

(* A row that stays is listed or still ahead of the cursor.                *)
SameSecond(i) == rows[i].at.sec = walk.from.sec
SteadyAhead ==
  /\ steady \subseteq Id /\ \A i \in steady : Wanted(rows[i], walk)
  /\ walk.pc = "idle" => steady = {}
  /\ walk.pc = "walking" => \A i \in steady : Listed(i) \/ AfterCursor(i, walk.cursor) \/ SameSecond(i)
  /\ walk.pc = "done" => \A i \in steady : Listed(i) \/ SameSecond(i)

PagesInv == StoreInv /\ WalkInv /\ (Rows => KeysRead /\ SteadyAhead)

(* What the invariant is for.                                              *)
LEMMA PagesInvExact ==
  ASSUME PagesInv
  PROVE  PagesExact
<1>1. NothingTwice
  <2>1. Rows => DOMAIN walk.got = 1 .. Len(walk.got)
    BY DEF PagesInv, KeysRead
  <2> QED BY <2>1 DEF PagesInv, KeysRead, NothingTwice
<1>2. SteadyRowsListed
  BY DEF PagesInv, SteadyAhead, SameSecond, SteadyRowsListed
<1>3. now \in Moment /\ \A i \in Present : rows[i].at \in Moment
  BY PresentDated DEF PagesInv, StoreInv, Dated
<1>4. RightToTheSecond
  <2>1. \A i \in Present : rows[i].at.sec # now.sec =>
          (TextBefore(Format(rows[i].at), Format(now)) <=> Before(rows[i].at, now))
    BY <1>3, SecondsDecide
  <2> QED BY <2>1 DEF RightToTheSecond
<1>5. FormatInjective
  <2>1. \A i \in Present : Format(rows[i].at) = Format(now) => rows[i].at = now
    BY <1>3, FormatOneToOne
  <2> QED BY <2>1 DEF FormatInjective
<1> QED BY <1>1, <1>2, <1>4, <1>5 DEF PagesExact

(* Nothing is listed at first.                                             *)
LEMMA PagesInvInit ==
  ASSUME Init
  PROVE  PagesInv
<1>1. /\ now = Epoch /\ rows = [i \in Id |-> None] /\ used = {} /\ stamped = NoStamp /\ steady = {}
  BY DEF Init
<1>2. PICK kd \in Kind : walk = [Idle EXCEPT !.kind = kd]
  BY DEF Init
<1>3. /\ walk = [pc |-> "idle", kind |-> kd, class |-> "", from |-> Unbounded, limit |-> 0, desc |-> FALSE,
                 cursor |-> NoCursor, got |-> <<>>, domain |-> "", domains |-> <<>>]
  BY <1>2 DEF Idle
<1>4. StoreInv
  <2>1. Table(rows) /\ Present = {}
    BY <1>1 DEF Table, Present
  <2> QED BY <1>1, <2>1, RowIsNotNone DEF StoreInv
<1>5. /\ walk.pc = "idle" /\ walk.limit = 0 /\ walk.from = Unbounded /\ walk.cursor = NoCursor /\ walk.got = <<>>
      /\ Shape(walk)
  BY <1>3 DEF Shape
<1>6. WalkInv
  BY <1>5 DEF WalkInv
<1>7. KeysRead
  <2>1. <<>> \in Seq(Id) /\ 1 .. Len(<<>>) = {}
    OBVIOUS
  <2> QED BY <1>5, <2>1 DEF KeysRead, Cursor
<1>8. SteadyAhead
  BY <1>1, <1>5 DEF SteadyAhead
<1> QED BY <1>4, <1>6, <1>7, <1>8 DEF PagesInv

(* What the walk knows survives a step that leaves the walk alone, keeps   *)
(* the creation time of every row that stays, and adds no row but the one  *)
(* that was stamped.                                                       *)
LEMMA WalkSurvives ==
  ASSUME PagesInv, Rows, walk' = walk, used \subseteq used',
         steady' \subseteq {i \in steady : rows'[i] # None /\ Wanted(rows'[i], walk)},
         stamped' = stamped \/ stamped' = NoStamp \/ stamped'.id \notin used,
         \A i \in Id : rows'[i] # None => (rows[i] # None /\ rows'[i].at = rows[i].at) \/ i = stamped.id
  PROVE  KeysRead' /\ SteadyAhead'
<1>1. /\ KeysRead /\ SteadyAhead /\ StoreInv /\ WalkInv
  BY DEF PagesInv
<1>2. stamped.id \notin Id \/ rows[stamped.id] = None
  BY <1>1, Sizes DEF StoreInv, NoStamp
<1>3. \A k \in 1 .. Len(walk.got) : walk.got[k] \in Id /\ walk.got[k] \in used /\ walk.got[k] # stamped.id
  <2>1. walk.got \in Seq(Id) /\ \A k \in 1 .. Len(walk.got) : walk.got[k] \in used /\ walk.got[k] # stamped.id
    BY <1>1 DEF KeysRead
  <2> QED BY <2>1
<1>4. \A k \in 1 .. Len(walk.got) : walk.got[k] # stamped'.id
  <2>1. \A k \in 1 .. Len(walk.got) : walk.got[k] # 0
    BY <1>3, Sizes
  <2>2. NoStamp.id = 0
    BY DEF NoStamp
  <2> QED BY <1>3, <2>1, <2>2
<1>5. ASSUME NEW i \in Id, rows[i] # None, rows'[i].at = rows[i].at
      PROVE  /\ AfterCursor(i, walk.cursor)' <=> AfterCursor(i, walk.cursor)
             /\ SameSecond(i)' <=> SameSecond(i)
  BY <1>5 DEF AfterCursor, SameSecond
<1>6. KeysRead'
  <2>1. ASSUME walk.pc = "walking", NEW k \in 1 .. Len(walk.got), rows'[walk.got[k]] # None
        PROVE  ~AfterCursor(walk.got[k], walk.cursor)'
    <3>1. PICK i \in Id : i = walk.got[k] /\ i # stamped.id
      BY <1>3
    <3>2. rows[i] # None /\ rows'[i].at = rows[i].at
      BY <2>1, <3>1
    <3>3. i \in Present
      BY <3>2 DEF Present
    <3>4. ~AfterCursor(i, walk.cursor)
      BY <1>1, <2>1, <3>1, <3>3 DEF KeysRead
    <3>5. ~AfterCursor(i, walk.cursor)'
      BY <1>5, <3>2, <3>4
    <3> QED BY <3>1, <3>5 DEF AfterCursor
  <2>2. walk.pc = "walking" =>
          \A k \in 1 .. Len(walk.got) : walk.got[k] \in Present' => ~AfterCursor(walk.got[k], walk.cursor)'
    BY <2>1 DEF Present
  <2>3. \A k \in 1 .. Len(walk.got) : walk.got[k] \in used' /\ walk.got[k] # stamped'.id
    BY <1>3, <1>4
  <2> QED BY <1>1, <2>2, <2>3 DEF KeysRead, Cursor, AfterCursor
<1>7. \A i \in steady' : i \in Id /\ i \in steady /\ rows[i] # None /\ rows'[i].at = rows[i].at
  <2>1. \A i \in steady : i \in Id /\ rows[i] # None
    BY <1>1 DEF SteadyAhead, Wanted
  <2> QED BY <1>2, <2>1
<1>8. SteadyAhead'
  <2>1. \A i \in steady' : (AfterCursor(i, walk.cursor) => AfterCursor(i, walk.cursor)') /\ (SameSecond(i) => SameSecond(i)')
    BY <1>5, <1>7
  <2>2. steady' \subseteq Id /\ \A i \in steady' : Wanted(rows[i], walk)'
    BY <1>7 DEF Wanted
  <2>3. walk.pc = "idle" => steady' = {}
    BY <1>1, <1>7 DEF SteadyAhead
  <2>4. \A i : Listed(i)' <=> Listed(i)
    BY DEF Listed
  <2>5. walk.pc = "walking" => \A i \in steady' : Listed(i)' \/ AfterCursor(i, walk.cursor)' \/ SameSecond(i)'
    <3>1. walk.pc = "walking" => \A i \in steady : Listed(i) \/ AfterCursor(i, walk.cursor) \/ SameSecond(i)
      BY <1>1 DEF SteadyAhead
    <3> QED BY <1>7, <2>1, <2>4, <3>1
  <2>6. walk.pc = "done" => \A i \in steady' : Listed(i)' \/ SameSecond(i)'
    <3>1. walk.pc = "done" => \A i \in steady : Listed(i) \/ SameSecond(i)
      BY <1>1 DEF SteadyAhead
    <3> QED BY <1>7, <2>1, <2>4, <3>1
  <2> QED BY <2>2, <2>3, <2>5, <2>6 DEF SteadyAhead
<1> QED BY <1>6, <1>8

(* A statement that writes a table.                                        *)
LEMMA WriteKeeps ==
  ASSUME PagesInv, NEW table, Table(table), Write(table), UNCHANGED <<now, used, walk>>,
         stamped' = stamped \/ stamped' = NoStamp,
         \A i \in Id : table[i] # None =>
           \/ rows[i] # None /\ table[i].at = rows[i].at
           \/ i = stamped.id /\ stamped' = NoStamp
  PROVE  PagesInv'
<1>1. rows' = table /\ steady' = {i \in steady : Wanted(table[i], walk)}
  BY DEF Write
<1>2. StoreInv
  BY DEF PagesInv
<1>3. Present' \subseteq used'
  <2>1. \A i \in Present' : i \in Present \/ (i = stamped.id /\ i \in Id)
    BY <1>1 DEF Present
  <2>2. stamped.id \in Id => stamped.id \in used
    BY <1>2, Sizes DEF StoreInv, NoStamp
  <2> QED BY <1>2, <2>1, <2>2 DEF StoreInv
<1>4. stamped' = NoStamp \/ (stamped'.id \in used' /\ stamped'.row \in Row /\ rows'[stamped'.id] = None)
  <2> SUFFICES ASSUME stamped' # NoStamp
               PROVE  stamped'.id \in used' /\ stamped'.row \in Row /\ rows'[stamped'.id] = None
    OBVIOUS
  <2>1. stamped' = stamped /\ stamped.id \in used /\ stamped.row \in Row /\ rows[stamped.id] = None /\ stamped.id \in Id
    BY <1>2 DEF StoreInv
  <2> QED BY <1>1, <2>1
<1>5. StoreInv'
  BY <1>1, <1>2, <1>3, <1>4 DEF StoreInv, Table
<1>6. WalkInv' /\ (Rows' <=> Rows)
  BY DEF PagesInv, WalkInv, Shape, Rows, IsReport
<1>7. ASSUME Rows PROVE KeysRead' /\ SteadyAhead'
  <2>1. steady' \subseteq {i \in steady : rows'[i] # None /\ Wanted(rows'[i], walk)}
    BY <1>1 DEF Wanted
  <2>2. \A i \in Id : rows'[i] # None => (rows[i] # None /\ rows'[i].at = rows[i].at) \/ i = stamped.id
    BY <1>1
  <2>3. used \subseteq used'
    OBVIOUS
  <2> QED BY <1>7, <2>1, <2>2, <2>3, WalkSurvives
<1> QED BY <1>5, <1>6, <1>7 DEF PagesInv

(* Writers and the clock.                                                  *)
LEMMA WritersKeep ==
  ASSUME PagesInv, Advance \/ Stamp \/ Commit \/ Reclassify \/ Download \/ Purge
  PROVE  PagesInv'
<1>1. /\ StoreInv /\ WalkInv /\ Table(rows)
  BY DEF PagesInv, StoreInv
<1>2. \A i \in Present : i \in Id /\ rows[i] # None /\ rows[i] \in Row
  BY <1>1, PresentDated DEF Present
<1>3. CASE Advance
  <2>1. now' \in Moment
    <3>1. now' \in Instant
      BY <1>3 DEF Advance
    <3> QED BY <3>1, TimeTextAssumption DEF Instant, Moment
  <2>2. UNCHANGED <<rows, used, stamped, walk, steady>>
    BY <1>3 DEF Advance
  <2>3. StoreInv'
    BY <1>1, <2>1, <2>2 DEF StoreInv, Table, Present
  <2>4. WalkInv' /\ (Rows' <=> Rows)
    BY <1>1, <2>2 DEF WalkInv, Shape, Rows, IsReport
  <2>5. (KeysRead /\ SteadyAhead)' <=> (KeysRead /\ SteadyAhead)
    BY <2>2 DEF KeysRead, SteadyAhead, AfterCursor, Present, Listed, SameSecond, Cursor
  <2> QED BY <2>3, <2>4, <2>5 DEF PagesInv
<1>4. CASE Stamp
  <2>1. PICK i \in Id \ used, c \in Classes, d \in Domains :
          /\ stamped' = [id |-> i, row |-> [at |-> now, class |-> c, dom |-> d, hit |-> FALSE]]
          /\ used' = used \cup {i}
    BY <1>4 DEF Stamp
  <2>2. UNCHANGED <<now, rows, walk, steady>> /\ stamped = NoStamp
    BY <1>4 DEF Stamp
  <2>3. c \in Class \cup {""} /\ d \in Domain \cup {""}
    BY Zenon DEF Classes, Domains
  <2>4. stamped'.id = i /\ stamped'.row \in Row
    <3>1. stamped'.row = [at |-> now, class |-> c, dom |-> d, hit |-> FALSE] /\ stamped'.id = i
      BY <2>1
    <3>2. now \in Moment
      BY <1>1 DEF StoreInv
    <3>3. PICK row : row = stamped'.row
      OBVIOUS
    <3>4. PICK u : u = now
      OBVIOUS
    <3>5. row = [at |-> u, class |-> c, dom |-> d, hit |-> FALSE] /\ u \in Moment
      BY <3>1, <3>2, <3>3, <3>4
    <3>6. row \in Row
      BY ONLY <2>3, <3>5 DEF Row
    <3> QED BY <3>1, <3>3, <3>6
  <2>5. rows[i] = None
    BY <1>1, <2>1 DEF StoreInv, Present
  <2>6. StoreInv'
    BY <1>1, <2>1, <2>2, <2>4, <2>5 DEF StoreInv, Table, Present
  <2>7. WalkInv' /\ (Rows' <=> Rows)
    BY <1>1, <2>2 DEF WalkInv, Shape, Rows, IsReport
  <2>8. ASSUME Rows PROVE KeysRead' /\ SteadyAhead'
    <3>1. steady' \subseteq {k \in steady : rows'[k] # None /\ Wanted(rows'[k], walk)}
      BY <2>2, <2>8 DEF PagesInv, SteadyAhead, Wanted
    <3>2. stamped'.id \notin used /\ used \subseteq used'
      BY <2>1, <2>4
    <3>3. \A k \in Id : rows'[k] # None => (rows[k] # None /\ rows'[k].at = rows[k].at) \/ k = stamped.id
      BY <2>2
    <3> QED BY <2>2, <2>8, <3>1, <3>2, <3>3, WalkSurvives
  <2> QED BY <2>6, <2>7, <2>8 DEF PagesInv
<1>5. CASE Commit
  <2> DEFINE table == [rows EXCEPT ![stamped.id] = stamped.row]
  <2>1. stamped # NoStamp /\ stamped' = NoStamp /\ Write(table) /\ UNCHANGED <<now, used, walk>>
    BY <1>5 DEF Commit
  <2>2. stamped.id \in Id /\ stamped.row \in Row
    BY <1>1, <2>1 DEF StoreInv
  <2>3. Table(table)
    BY <1>1, <2>2 DEF Table
  <2>4. \A i \in Id : table[i] # None => (rows[i] # None /\ table[i].at = rows[i].at) \/ i = stamped.id
    BY <1>1 DEF Table
  <2> HIDE DEF table
  <2> QED BY <2>1, <2>3, <2>4, WriteKeeps
<1>6. ASSUME Reclassify \/ Download, NEW i \in Present, NEW row \in Row, row.at = rows[i].at,
             Write([rows EXCEPT ![i] = row]), UNCHANGED <<now, used, stamped, walk>>
      PROVE  PagesInv'
  <2> DEFINE table == [rows EXCEPT ![i] = row]
  <2>1. Table(table)
    BY <1>1, <1>2 DEF Table
  <2>2. \A k \in Id : table[k] # None => rows[k] # None /\ table[k].at = rows[k].at
    BY <1>1, <1>2, <1>6 DEF Table
  <2> HIDE DEF table
  <2>3. Write(table)
    BY <1>6 DEF table
  <2> QED BY <1>6, <2>1, <2>2, <2>3, WriteKeeps
<1>7. CASE Reclassify
  <2>1. PICK i \in Present, c \in Classes : Write([rows EXCEPT ![i].class = c])
    BY <1>7 DEF Reclassify
  <2>2. c \in Class \cup {""}
    BY Zenon DEF Classes
  <2>3. PICK x \in Row : x = rows[i]
    BY <1>2
  <2>4. PICK row : row = [x EXCEPT !.class = c]
    OBVIOUS
  <2>5. row \in Row /\ row.at = x.at
    BY <2>2, <2>3, <2>4 DEF Row
  <2>6. [rows EXCEPT ![i].class = c] = [rows EXCEPT ![i] = row]
    BY <2>3, <2>4
  <2> QED BY <1>6, <1>7, <2>1, <2>3, <2>5, <2>6 DEF Reclassify
<1>8. CASE Download
  <2>1. PICK i \in Present : Write([rows EXCEPT ![i].hit = TRUE])
    BY <1>8 DEF Download
  <2>2. PICK x \in Row : x = rows[i]
    BY <1>2
  <2>3. PICK row : row = [x EXCEPT !.hit = TRUE]
    OBVIOUS
  <2>4. row \in Row /\ row.at = x.at
    BY <2>2, <2>3 DEF Row
  <2>5. [rows EXCEPT ![i].hit = TRUE] = [rows EXCEPT ![i] = row]
    BY <2>2, <2>3
  <2> QED BY <1>6, <1>8, <2>1, <2>2, <2>4, <2>5 DEF Download
<1>9. CASE Purge
  <2>1. PICK i \in Present : Write([rows EXCEPT ![i] = None])
    BY <1>9 DEF Purge
  <2> DEFINE table == [rows EXCEPT ![i] = None]
  <2>2. Table(table)
    BY <1>1, <1>2 DEF Table
  <2>3. \A k \in Id : table[k] # None => rows[k] # None /\ table[k].at = rows[k].at
    BY <1>1, <1>2 DEF Table
  <2> HIDE DEF table
  <2>4. Write(table) /\ UNCHANGED <<now, used, stamped, walk>>
    BY <1>9, <2>1 DEF table, Purge
  <2> QED BY <2>2, <2>3, <2>4, WriteKeeps
<1> QED BY <1>3, <1>4, <1>5, <1>7, <1>8, <1>9

(* What comes after a row that is ahead of a cursor is ahead of it too.    *)
LEMMA CursorOrder ==
  ASSUME NEW l \in Id, NEW i \in Id, rows[l].at \in Moment, rows[i].at \in Moment, NEW c, Cursor(c),
         AfterCursor(l, c), RowBefore(l, i)
  PROVE  AfterCursor(i, c)
<1> DEFINE x == Format(rows[l].at)
           y == Format(rows[i].at)
<1>1. x \in Text /\ y \in Text /\ i \in Nat /\ l \in Nat
  BY FormatIs, Sizes
<1>2. TextBefore(x, y) \/ (x = y /\ l < i)
  BY DEF RowBefore
<1>3. c = NoCursor \/ TextBefore(c.text, x) \/ (c.text = x /\ c.id < l)
  BY DEF AfterCursor
<1>4. c = NoCursor \/ (c.text \in Text /\ c.id \in Nat)
  BY Sizes DEF Cursor
<1> HIDE DEF x, y
<1>5. c = NoCursor \/ TextBefore(c.text, y) \/ (c.text = y /\ c.id < i)
  <2>1. c.text \in Text /\ TextBefore(c.text, x) /\ TextBefore(x, y) => TextBefore(c.text, y)
    BY <1>1, TextOrder
  <2>2. c.id \in Nat /\ c.id < l /\ l < i => c.id < i
    BY <1>1
  <2> QED BY <1>2, <1>3, <1>4, <2>1, <2>2
<1> QED BY <1>5 DEF AfterCursor, x, y

(* Nothing yet.                                                            *)
LEMMA Empty ==
  ASSUME NEW S
  PROVE  <<>> \in Seq(S) /\ Len(<<>>) = 0 /\ 1 .. 0 = {} /\ \A s \in Seq(S) : 0 \in 0 .. Len(s)
<1>1. <<>> \in Seq(S)
  OBVIOUS
<1>2. Len(<<>>) = 0
  OBVIOUS
<1>3. 1 .. 0 = {}
  OBVIOUS
<1>4. ASSUME NEW s \in Seq(S) PROVE 0 \in 0 .. Len(s)
  <2>1. Len(s) \in Nat
    OBVIOUS
  <2> QED BY <2>1
<1> QED BY <1>1, <1>2, <1>3, <1>4
(* The client asks for the first page.                                     *)
LEMMA BeginKeeps ==
  ASSUME PagesInv, Begin
  PROVE  PagesInv'
<1>1. PICK limit \in {0, MaxPage}, desc \in BOOLEAN, c \in {"", CHOOSE c \in Classes : TRUE},
          from \in {Unbounded, Epoch} :
        /\ walk' = [walk EXCEPT !.pc = "walking", !.class = c, !.from = from, !.limit = limit, !.desc = desc]
        /\ steady' = {i \in Id : Wanted(rows[i], walk')}
  BY Zenon DEF Begin
<1>2. UNCHANGED <<now, rows, used, stamped>> /\ walk.pc = "idle"
  BY DEF Begin
<1>3. Shape(walk) /\ StoreInv
  BY DEF PagesInv, WalkInv
<1>4. walk' = [pc |-> "walking", kind |-> walk.kind, class |-> c, from |-> from, limit |-> limit, desc |-> desc,
               cursor |-> walk.cursor, got |-> walk.got, domain |-> walk.domain, domains |-> walk.domains]
  BY <1>1, <1>3 DEF Shape
<1>5. /\ walk'.pc = "walking" /\ walk'.kind = walk.kind /\ walk'.from = from /\ walk'.limit = limit
      /\ walk'.cursor = walk.cursor /\ walk'.got = walk.got /\ Shape(walk')
  BY <1>4 DEF Shape
<1>6. StoreInv'
  BY <1>2, <1>3 DEF StoreInv, Table, Present
<1>7. WalkInv' /\ (Rows' <=> Rows)
  BY <1>5 DEF WalkInv, Rows, IsReport
<1>8. ASSUME Rows PROVE KeysRead' /\ SteadyAhead'
  <2>1. walk'.got = <<>> /\ walk'.cursor = NoCursor
    BY <1>2, <1>5, <1>8 DEF PagesInv, KeysRead
  <2>2. <<>> \in Seq(Id) /\ 1 .. Len(<<>>) = {}
    BY Empty
  <2>3. KeysRead'
    BY <1>5, <2>1, <2>2 DEF KeysRead, Cursor
  <2>4. \A i : AfterCursor(i, walk.cursor)'
    BY <2>1 DEF AfterCursor
  <2>5. steady' \subseteq Id /\ \A i \in steady' : Wanted(rows'[i], walk')
    BY <1>1, <1>2
  <2> QED BY <1>5, <2>3, <2>4, <2>5 DEF SteadyAhead
<1> QED BY <1>6, <1>7, <1>8 DEF PagesInv

(* A row that stays matches what the query selects, unless it is of the    *)
(* second of the lower bound.                                              *)
LEMMA SteadyMatches ==
  ASSUME PagesInv, Rows, NEW i \in steady, ~SameSecond(i)
  PROVE  i \in Matching(walk) /\ i \in Present
<1>1. i \in Id /\ Wanted(rows[i], walk) /\ walk.from \in {Unbounded, Epoch} /\ Table(rows)
  BY DEF PagesInv, SteadyAhead, WalkInv, StoreInv
<1>2. i \in Present /\ OfClass(i, walk.class)
  BY <1>1 DEF Wanted, Present, OfClass
<1>3. FromBound(i, walk.from)
  <2>1. CASE walk.from = Unbounded
    BY <2>1 DEF FromBound
  <2>2. CASE walk.from # Unbounded
    <3>1. walk.from \in Moment /\ rows[i].at \in Moment /\ rows[i].at.sec # walk.from.sec
      BY <1>1, <1>2, <2>2, PresentDated, RowIsNotNone DEF Dated, SameSecond
    <3>2. ~Before(rows[i].at, walk.from)
      BY <1>1, <2>2 DEF Wanted
    <3> QED BY <3>1, <3>2, SecondsDecide DEF FromBound
  <2> QED BY <2>1, <2>2
<1> QED BY <1>2, <1>3 DEF Matching

(* A page more: what it lists was ahead of the cursor and is behind the    *)
(* next one, and what it leaves out is still ahead.                        *)
LEMMA ServeKeeps ==
  ASSUME PagesInv, Rows, walk.pc = "walking", NEW matching, matching \subseteq Present,
         \A i \in steady : SameSecond(i) \/ i \in matching,
         NEW limit \in Nat \ {0}, Serve(KeysetPage(matching, walk.cursor, limit))
  PROVE  PagesInv'
<1>p. PICK p : p = KeysetPage(matching, walk.cursor, limit)
  OBVIOUS
<1>s. PICK S : S = Ahead(matching, walk.cursor)
  OBVIOUS
<1>g. PICK got : got = walk.got
  OBVIOUS
<1>c. PICK got2 : got2 = got \o p.rows
  OBVIOUS
<1>1. /\ StoreInv /\ WalkInv /\ KeysRead /\ SteadyAhead /\ Shape(walk) /\ Dated(Present) /\ Table(rows)
      /\ Present \subseteq used
  BY PresentDated DEF PagesInv, StoreInv, WalkInv
<1>2. Dated(matching) /\ S \subseteq matching /\ S \subseteq Present /\ Dated(S)
      /\ \A i \in S : AfterCursor(i, walk.cursor)
  BY <1>1, <1>s DEF Dated, Ahead
<1>3. /\ p.rows \in Seq(S)
      /\ \A j, k \in 1 .. Len(p.rows) : j < k => RowBefore(p.rows[j], p.rows[k])
      /\ p.next = NoCursor => \A i \in S : \E k \in 1 .. Len(p.rows) : p.rows[k] = i
      /\ p.next # NoCursor =>
           \E l \in S : /\ p.next = EncodeCursor(l)
                        /\ \A k \in 1 .. Len(p.rows) : p.rows[k] = l \/ RowBefore(p.rows[k], l)
                        /\ \A i \in S : RowBefore(l, i) \/ \E k \in 1 .. Len(p.rows) : p.rows[k] = i
  <2>1. PICK cursor : cursor = walk.cursor
    OBVIOUS
  <2>2. p = KeysetPage(matching, cursor, limit) /\ S = Ahead(matching, cursor) /\ Dated(matching)
    BY <1>2, <1>p, <1>s, <2>1
  <2>3. PageOf(p, S)
    BY ONLY <2>2, PageIs, limit \in Nat \ {0}
  <2> QED BY <2>3 DEF PageOf
<1>4. /\ walk' = [walk EXCEPT !.got = @ \o p.rows, !.cursor = p.next,
                              !.pc = IF p.next = NoCursor THEN "done" ELSE "walking"]
      /\ UNCHANGED <<now, rows, used, stamped, steady, moved>>
  BY <1>p DEF Serve
<1>5. /\ walk'.pc = (IF p.next = NoCursor THEN "done" ELSE "walking") /\ walk'.kind = walk.kind
      /\ walk'.from = walk.from /\ walk'.limit = walk.limit /\ walk'.class = walk.class
      /\ walk'.cursor = p.next /\ walk'.got = got2 /\ Shape(walk')
  <2>1. walk' = [pc |-> IF p.next = NoCursor THEN "done" ELSE "walking", kind |-> walk.kind, class |-> walk.class,
                 from |-> walk.from, limit |-> walk.limit, desc |-> walk.desc, cursor |-> p.next,
                 got |-> got \o p.rows, domain |-> walk.domain, domains |-> walk.domains]
    BY <1>1, <1>4, <1>g DEF Shape
  <2> QED BY <1>c, <2>1 DEF Shape
<1>6. StoreInv'
  BY <1>1, <1>4 DEF StoreInv, Table, Present
<1>7. WalkInv' /\ (Rows' <=> Rows)
  BY <1>1, <1>5 DEF WalkInv, Rows, IsReport
<1>8. /\ got \in Seq(Id) /\ Cursor(walk.cursor)
      /\ \A k \in 1 .. Len(got) : got[k] \in used /\ got[k] # stamped.id
      /\ \A k \in 1 .. Len(got) : got[k] \in Present => ~AfterCursor(got[k], walk.cursor)
      /\ \A j, k \in 1 .. Len(got) : got[j] = got[k] => j = k
  BY <1>1, <1>g DEF KeysRead
<1>9. /\ p.rows \in Seq(Id) /\ Len(p.rows) \in Nat /\ Len(got) \in Nat
      /\ \A k \in 1 .. Len(p.rows) : p.rows[k] \in S
      /\ \A j, k \in 1 .. Len(p.rows) : p.rows[j] = p.rows[k] => j = k
  <2>1. p.rows \in Seq(Id)
    <3>1. S \subseteq Id
      BY <1>2 DEF Dated
    <3> QED BY <1>3, <3>1
  <2>2. Len(p.rows) \in Nat /\ Len(got) \in Nat /\ \A k \in 1 .. Len(p.rows) : p.rows[k] \in S
    BY <1>3, <1>8
  <2>3. ASSUME NEW j \in 1 .. Len(p.rows), NEW k \in 1 .. Len(p.rows), j < k
        PROVE  p.rows[j] # p.rows[k]
    <3>1. RowBefore(p.rows[j], p.rows[k])
      BY <1>3, <2>3
    <3>2. p.rows[j] \in S
      BY <2>2
    <3>3. ~RowBefore(p.rows[j], p.rows[j])
      BY <1>2, <3>2, RowOrder
    <3> QED BY <3>1, <3>3
  <2> QED BY <2>1, <2>2, <2>3
<1>10. PICK m \in Nat, n \in Nat : m = Len(got) /\ n = Len(p.rows)
  BY <1>9
<1>11. /\ got2 \in Seq(Id) /\ Len(got2) = m + n
       /\ \A k \in 1 .. m : got2[k] = got[k]
       /\ \A k \in 1 .. n : got2[m + k] = p.rows[k]
       /\ \A k \in 1 .. m + n : k \in 1 .. m \/ \E h \in 1 .. n : k = m + h
  <2>1. /\ got2 \in Seq(Id) /\ Len(got2) = m + n
        /\ \A i \in 1 .. m + n : got2[i] = IF i <= m THEN got[i] ELSE p.rows[i - m]
    BY ONLY <1>8, <1>9, <1>10, <1>c, ConcatProperties
  <2>2. ASSUME NEW k \in 1 .. n PROVE got2[m + k] = p.rows[k]
    <3>1. m + k \in 1 .. m + n /\ ~(m + k <= m) /\ (m + k) - m = k
      BY <1>10
    <3> QED BY <2>1, <3>1
  <2>3. ASSUME NEW k \in 1 .. m + n, k \notin 1 .. m PROVE \E h \in 1 .. n : k = m + h
    <3>1. k - m \in 1 .. n /\ k = m + (k - m)
      BY <1>10, <2>3
    <3> QED BY <3>1
  <2> QED BY <1>10, <2>1, <2>2, <2>3
<1>12. \A k \in 1 .. m + n :
         \/ k \in 1 .. m /\ got2[k] = got[k]
         \/ \E h \in 1 .. n : k = m + h /\ got2[k] = p.rows[h]
  BY <1>11
<1>13. KeysRead'
  <2>1. Cursor(p.next)
    <3>1. ASSUME NEW l \in S PROVE Cursor(EncodeCursor(l))
      <4>1. l \in Id /\ rows[l].at \in Moment
        BY <1>2 DEF Dated
      <4> QED BY <4>1, FormatIs DEF Cursor, EncodeCursor
    <3> QED BY <1>3, <3>1 DEF Cursor
  <2>2. stamped.id \notin Present
    BY <1>1, Sizes DEF StoreInv, Present, NoStamp
  <2>3. \A k \in 1 .. m + n : got2[k] \in used /\ got2[k] # stamped.id
    <3> SUFFICES ASSUME NEW k \in 1 .. m + n PROVE got2[k] \in used /\ got2[k] # stamped.id
      OBVIOUS
    <3>1. \A h \in 1 .. n : p.rows[h] \in used /\ p.rows[h] # stamped.id
      <4>1. \A h \in 1 .. n : p.rows[h] \in Present
        BY <1>2, <1>9, <1>10
      <4> QED BY <1>1, <2>2, <4>1
    <3>2. \A h \in 1 .. m : got[h] \in used /\ got[h] # stamped.id
      BY <1>8, <1>10
    <3> QED BY ONLY <1>12, <3>1, <3>2, k \in 1 .. m + n
  <2>4. ASSUME p.next # NoCursor, NEW k \in 1 .. m + n, got2[k] \in Present
        PROVE  ~AfterCursor(got2[k], p.next)
    <3>1. PICK l \in S : /\ p.next = EncodeCursor(l)
                         /\ \A h \in 1 .. n : p.rows[h] = l \/ RowBefore(p.rows[h], l)
      BY <1>3, <1>10, <2>4
    <3>2. AfterCursor(got2[k], p.next) <=> RowBefore(l, got2[k])
      BY <1>1, <1>2, <2>4, <3>1, AfterRow
    <3>3. CASE k \in 1 .. m /\ got2[k] = got[k]
      <4>1. ~AfterCursor(got2[k], walk.cursor) /\ AfterCursor(l, walk.cursor)
        BY <1>2, <1>8, <1>10, <2>4, <3>3
      <4>2. RowBefore(l, got2[k]) /\ AfterCursor(l, walk.cursor) => AfterCursor(got2[k], walk.cursor)
        BY <1>1, <1>2, <1>8, <2>4, CursorOrder DEF Dated
      <4> QED BY <3>2, <4>1, <4>2
    <3>4. CASE \E h \in 1 .. n : k = m + h /\ got2[k] = p.rows[h]
      <4>1. got2[k] = l \/ RowBefore(got2[k], l)
        BY <3>1, <3>4
      <4>2. ~RowBefore(l, got2[k])
        <5>1. l \in Present /\ Dated(Present)
          BY <1>1, <1>2
        <5> QED BY <2>4, <4>1, <5>1, RowOrder
      <4> QED BY <3>2, <4>2
    <3> QED BY <1>12, <3>3, <3>4
  <2>5. ASSUME NEW j \in 1 .. m + n, NEW k \in 1 .. m + n, got2[j] = got2[k] PROVE j = k
    <3>1. \A a \in 1 .. m, h \in 1 .. n : got[a] # p.rows[h]
      <4> SUFFICES ASSUME NEW a \in 1 .. m, NEW h \in 1 .. n, got[a] = p.rows[h] PROVE FALSE
        OBVIOUS
      <4>1. p.rows[h] \in S
        BY <1>9, <1>10
      <4> QED BY <1>2, <1>8, <1>10, <4>1
    <3>2. /\ \A a, b \in 1 .. m : got[a] = got[b] => a = b
          /\ \A g, h \in 1 .. n : p.rows[g] = p.rows[h] => g = h
      BY <1>8, <1>9, <1>10
    <3>3. CASE j \in 1 .. m /\ got2[j] = got[j]
      <4>1. ~\E h \in 1 .. n : got2[k] = p.rows[h]
        BY <2>5, <3>1, <3>3
      <4>2. k \in 1 .. m /\ got2[k] = got[k]
        BY <1>12, <4>1
      <4> QED BY <2>5, <3>2, <3>3, <4>2
    <3>4. CASE \E h \in 1 .. n : j = m + h /\ got2[j] = p.rows[h]
      <4>1. PICK h \in 1 .. n : j = m + h /\ got2[j] = p.rows[h]
        BY <3>4
      <4>2. ~(k \in 1 .. m /\ got2[k] = got[k])
        BY <2>5, <3>1, <4>1
      <4>3. PICK g \in 1 .. n : k = m + g /\ got2[k] = p.rows[g]
        BY <1>12, <4>2
      <4> QED BY <2>5, <3>2, <4>1, <4>3
    <3> QED BY <1>12, <3>3, <3>4
  <2>6. walk'.pc = "walking" =>
          \A k \in 1 .. Len(got2) : got2[k] \in Present' => ~AfterCursor(got2[k], p.next)'
    <3>1. Present' = Present
      BY <1>4 DEF Present
    <3>2. \A k \in 1 .. Len(got2) : AfterCursor(got2[k], p.next)' <=> AfterCursor(got2[k], p.next)
      BY <1>4 DEF AfterCursor
    <3>3. walk'.pc = "walking" => p.next # NoCursor
      BY <1>5
    <3> QED BY <1>11, <2>4, <3>1, <3>2, <3>3
  <2>7. walk'.pc # "idle"
    BY <1>5
  <2>8. got2 \in Seq(Id) /\ \A k \in 1 .. Len(got2) : got2[k] \in used' /\ got2[k] # stamped'.id
    BY <1>4, <1>11, <2>3
  <2>9. \A j, k \in 1 .. Len(got2) : got2[j] = got2[k] => j = k
    BY <1>11, <2>5
  <2> QED BY <1>5, <2>1, <2>6, <2>7, <2>8, <2>9 DEF KeysRead, Cursor, AfterCursor
<1>14. SteadyAhead'
  <2>1. \A i : Listed(i) <=> \E k \in 1 .. m : got[k] = i
    <3>1. DOMAIN got = 1 .. m
      BY <1>8, <1>10
    <3> QED BY <1>g, <3>1 DEF Listed, ToSet
  <2>2. \A i : Listed(i)' <=> \E k \in 1 .. m + n : got2[k] = i
    <3>1. DOMAIN got2 = 1 .. m + n
      BY <1>11
    <3> QED BY <1>5, <3>1 DEF Listed, ToSet
  <2>3. \A i : Listed(i) \/ (\E k \in 1 .. n : p.rows[k] = i) => Listed(i)'
    <3>1. \A k \in 1 .. m : k \in 1 .. m + n
      BY <1>10
    <3>2. \A k \in 1 .. n : m + k \in 1 .. m + n
      BY <1>10
    <3> QED BY <1>11, <2>1, <2>2, <3>1, <3>2
  <2>4. \A i : SameSecond(i)' <=> SameSecond(i)
    BY <1>4, <1>5 DEF SameSecond
  <2>5. \A i \in steady : Listed(i) \/ AfterCursor(i, walk.cursor) \/ SameSecond(i)
    BY <1>1 DEF SteadyAhead
  <2>6. \A i \in steady : Listed(i) \/ SameSecond(i) \/ i \in S
    BY <1>s, <2>5 DEF Ahead
  <2>7. steady' \subseteq Id /\ \A i \in steady' : Wanted(rows[i], walk)'
    <3>1. steady \subseteq Id /\ \A i \in steady : Wanted(rows[i], walk)
      BY <1>1 DEF SteadyAhead
    <3> QED BY <1>4, <1>5, <3>1 DEF Wanted
  <2>8. CASE p.next = NoCursor
    <3>1. \A i \in steady : Listed(i)' \/ SameSecond(i)'
      BY <1>3, <1>10, <2>3, <2>4, <2>6, <2>8
    <3>2. walk'.pc = "done"
      BY <1>5, <2>8
    <3> QED BY <1>4, <2>7, <3>1, <3>2 DEF SteadyAhead
  <2>9. CASE p.next # NoCursor
    <3>1. PICK l \in S : /\ p.next = EncodeCursor(l)
                         /\ \A i \in S : RowBefore(l, i) \/ \E k \in 1 .. Len(p.rows) : p.rows[k] = i
      BY <1>3, <2>9
    <3>2. \A i \in S : AfterCursor(i, p.next) \/ Listed(i)'
      BY <1>2, <1>10, <2>3, <3>1, AfterRow
    <3>3. \A i : AfterCursor(i, p.next)' <=> AfterCursor(i, p.next)
      BY <1>4 DEF AfterCursor
    <3>4. \A i \in steady : Listed(i)' \/ AfterCursor(i, p.next)' \/ SameSecond(i)'
      BY <2>3, <2>4, <2>6, <3>2, <3>3
    <3>5. walk'.pc = "walking"
      BY <1>5, <2>9
    <3> QED BY <1>4, <1>5, <2>7, <3>4, <3>5 DEF SteadyAhead, AfterCursor
  <2> QED BY <2>8, <2>9
<1> QED BY <1>6, <1>7, <1>13, <1>14 DEF PagesInv

(* The client is answered by the handler of its list.                      *)
LEMMA ListsKeep ==
  ASSUME PagesInv, listLinks \/ listMessages \/ listAttachments \/ listAPITokens
  PROVE  PagesInv'
<1>1. walk.pc = "walking" /\ Rows
  BY DEF listLinks, listMessages, listAttachments, listAPITokens, Walking, Rows, IsReport
<1>2. PICK limit : limit = ClampLimit(walk.limit)
  OBVIOUS
<1>3. limit \in Nat \ {0}
  BY <1>2, Sizes DEF ClampLimit, PagesInv, WalkInv
<1>4. \A i \in steady : SameSecond(i) \/ (i \in Matching(walk) /\ i \in Present)
  BY <1>1, SteadyMatches
<1>5. Matching(walk) \subseteq Present
  BY DEF Matching
<1>6. CASE Serve(KeysetPage(Matching(walk), walk.cursor, limit))
  BY <1>1, <1>3, <1>4, <1>5, <1>6, ServeKeeps
<1>7. CASE Serve(KeysetPage(Present, walk.cursor, limit))
  BY <1>1, <1>3, <1>4, <1>7, ServeKeeps
<1> QED
  BY <1>2, <1>6, <1>7 DEF listLinks, listMessages, listAttachments, listAPITokens,
                          ListLinks, ListMessages, ListAttachments, ListAPITokens

(* The report's walk is not one of rows.                                   *)
LEMMA ReportKeeps ==
  ASSUME PagesInv, ScanPage \/ handleStatsDeliverability
  PROVE  PagesInv'
<1>1. StoreInv /\ WalkInv /\ Shape(walk)
  BY DEF PagesInv, WalkInv
<1>2. ~Rows /\ UNCHANGED <<now, rows, used, stamped, steady>>
  BY <1>1 DEF ScanPage, handleStatsDeliverability, WalkInv, Rows, IsReport
<1>3. ASSUME NEW got, NEW cursor, NEW pc, NEW domain, NEW domains,
             walk' = [walk EXCEPT !.got = got, !.cursor = cursor, !.pc = pc, !.domain = domain, !.domains = domains]
      PROVE  PagesInv'
  <2>1. walk' = [pc |-> pc, kind |-> walk.kind, class |-> walk.class, from |-> walk.from, limit |-> walk.limit,
                 desc |-> walk.desc, cursor |-> cursor, got |-> got, domain |-> domain, domains |-> domains]
    BY <1>1, <1>3 DEF Shape
  <2>2. walk'.kind = walk.kind /\ walk'.from = walk.from /\ walk'.limit = walk.limit /\ Shape(walk')
    BY <2>1 DEF Shape
  <2>3. StoreInv'
    BY <1>1, <1>2 DEF StoreInv, Table, Present
  <2>4. ~Rows'
    BY <1>2, <2>2 DEF Rows, IsReport
  <2>5. WalkInv'
    BY <1>1, <2>2, <2>4 DEF WalkInv
  <2> QED BY <2>3, <2>4, <2>5 DEF PagesInv
<1>4. CASE ScanPage
  <2>1. \E got, cursor, pc : walk' = [walk EXCEPT !.got = got, !.cursor = cursor, !.pc = pc]
    BY <1>4, Zenon DEF ScanPage
  <2>2. PICK got, cursor, pc : walk' = [walk EXCEPT !.got = got, !.cursor = cursor, !.pc = pc]
    BY <2>1
  <2>3. walk' = [walk EXCEPT !.got = got, !.cursor = cursor, !.pc = pc, !.domain = walk.domain,
                             !.domains = walk.domains]
    BY <1>1, <2>2 DEF Shape
  <2> QED BY <1>3, <2>3
<1>5. CASE handleStatsDeliverability
  <2>1. \/ walk' = [walk EXCEPT !.pc = "refused", !.got = <<>>]
        \/ \E got, pc, domain, domains :
             walk' = [walk EXCEPT !.domains = domains, !.got = got, !.domain = domain, !.pc = pc]
    BY <1>5, Zenon DEF handleStatsDeliverability
  <2>2. \E got, pc, domain, domains :
          walk' = [walk EXCEPT !.got = got, !.cursor = walk.cursor, !.pc = pc, !.domain = domain, !.domains = domains]
    <3>1. CASE walk' = [walk EXCEPT !.pc = "refused", !.got = <<>>]
      <4>1. walk' = [walk EXCEPT !.got = <<>>, !.cursor = walk.cursor, !.pc = "refused", !.domain = walk.domain,
                                 !.domains = walk.domains]
        BY <1>1, <3>1 DEF Shape
      <4> QED BY <4>1
    <3>2. CASE \E got, pc, domain, domains :
                 walk' = [walk EXCEPT !.domains = domains, !.got = got, !.domain = domain, !.pc = pc]
      <4>1. PICK got, pc, domain, domains :
              walk' = [walk EXCEPT !.domains = domains, !.got = got, !.domain = domain, !.pc = pc]
        BY <3>2
      <4>2. walk' = [walk EXCEPT !.got = got, !.cursor = walk.cursor, !.pc = pc, !.domain = domain,
                                 !.domains = domains]
        BY <1>1, <4>1 DEF Shape
      <4> QED BY <4>2
    <3> QED BY <2>1, <3>1, <3>2
  <2>3. PICK got, pc, domain, domains :
          walk' = [walk EXCEPT !.got = got, !.cursor = walk.cursor, !.pc = pc, !.domain = domain, !.domains = domains]
    BY <2>2
  <2> QED BY <1>3, <2>3
<1> QED BY <1>4, <1>5

-----------------------------------------------------------------------------
(* The steps and the theorem.                                              *)

(* Every step keeps it.                                                    *)
LEMMA PagesInvStep ==
  ASSUME PagesInv, [Next]_vars
  PROVE  PagesInv'
<1>1. CASE UNCHANGED vars
  <2>1. UNCHANGED <<now, rows, used, stamped, walk, steady>>
    BY <1>1 DEF vars
  <2> QED BY <2>1 DEF PagesInv, StoreInv, WalkInv, KeysRead, SteadyAhead, Table, Shape, Rows, IsReport,
                      AfterCursor, Present, Listed, SameSecond, Cursor
<1>2. CASE Next
  BY <1>2, WritersKeep, BeginKeeps, ListsKeep, ReportKeeps DEF Next
<1> QED BY <1>1, <1>2

(* A client that pages to the end of a list sees each row that stays,      *)
(* exactly once, whatever is written meanwhile (PagesExact of the run on    *)
(* Listing): keyset pagination of pagination.go and the four list queries, *)
(* for any table, page sizes and precision of the clock.                   *)
THEOREM PagesCorrect == Spec => []PagesExact
<1>1. Init => PagesInv
  BY PagesInvInit
<1>2. PagesInv /\ [Next]_vars => PagesInv'
  BY PagesInvStep
<1>3. PagesInv => PagesExact
  BY PagesInvExact
<1> QED BY <1>1, <1>2, <1>3, PTL DEF Spec

-----------------------------------------------------------------------------
(* The report of a scan.                                                   *)

(* What a scan keeps of a link.                                            *)
SeenLink == [id : Id, dom : Domain, hit : BOOLEAN]

(* s goes through the links of L, each once.                               *)
Lists(s, L) ==
  /\ s \in Seq(L)
  /\ \A j, k \in 1 .. Len(s) : s[j] = s[k] => j = k
  /\ \A x \in L : \E k \in 1 .. Len(s) : s[k] = x

(* The counters of a set of links.                                         *)
OfDomain(L, d) == {x \in L : x.dom = d}
HitOfDomain(L, d) == {x \in L : x.dom = d /\ x.hit}
RatesOf(L) ==
  [d \in {x.dom : x \in L} |->
    [created |-> Cardinality(OfDomain(L, d)), downloaded |-> Cardinality(HitOfDomain(L, d))]]

(* A list without repetition counts what the set counts.                   *)
LEMMA CountOnce ==
  ASSUME NEW L, IsFiniteSet(L), NEW s, Lists(s, L), NEW Q, Q \subseteq L
  PROVE  Cardinality({k \in DOMAIN s : s[k] \in Q}) = Cardinality(Q)
<1> DEFINE K == {k \in DOMAIN s : s[k] \in Q}
           f == [k \in K |-> s[k]]
<1>1. DOMAIN s = 1 .. Len(s)
  BY DEF Lists
<1>2. IsFiniteSet(Q)
  BY FS_Subset
<1>3. f \in [K -> Q] /\ \A j, k \in K : f[j] = f[k] => j = k
  BY <1>1 DEF Lists
<1>4. \A x \in Q : \E k \in K : f[k] = x
  BY <1>1 DEF Lists
<1> HIDE DEF f, K
<1>5. f \in Injection(K, Q)
  BY <1>3 DEF Injection, IsInjective
<1>6. f \in Surjection(K, Q)
  BY <1>3, <1>4 DEF Surjection
<1>7. Cardinality(K) = Cardinality(Q)
  BY <1>2, <1>5, <1>6, FS_Injection
<1> QED BY <1>7 DEF K

(* So the report depends on the links only, not on the scan's order.       *)
LEMMA RatesOfScan ==
  ASSUME NEW L, IsFiniteSet(L), NEW s, Lists(s, L)
  PROVE  Rates(s) = RatesOf(L)
<1>1. DOMAIN s = 1 .. Len(s) /\ \A k \in DOMAIN s : s[k] \in L
  BY DEF Lists
<1>2. {s[k].dom : k \in DOMAIN s} = {x.dom : x \in L}
  BY <1>1 DEF Lists
<1>3. ASSUME NEW d
      PROVE  /\ Cardinality({k \in DOMAIN s : s[k].dom = d}) = Cardinality(OfDomain(L, d))
             /\ Cardinality({k \in DOMAIN s : s[k].dom = d /\ s[k].hit}) = Cardinality(HitOfDomain(L, d))
  <2>1. OfDomain(L, d) \subseteq L /\ HitOfDomain(L, d) \subseteq L
    BY DEF OfDomain, HitOfDomain
  <2>2. {k \in DOMAIN s : s[k].dom = d} = {k \in DOMAIN s : s[k] \in OfDomain(L, d)}
    BY <1>1 DEF OfDomain
  <2>3. {k \in DOMAIN s : s[k].dom = d /\ s[k].hit} = {k \in DOMAIN s : s[k] \in HitOfDomain(L, d)}
    BY <1>1 DEF HitOfDomain
  <2> QED BY <2>1, <2>2, <2>3, CountOnce
<1> QED BY <1>2, <1>3 DEF Rates, RatesOf

(* Counters that a report may have.                                        *)
Counted(r) ==
  /\ DOMAIN r \subseteq Domain
  /\ \A d \in DOMAIN r : r[d].created \in Nat \ {0} /\ r[d].downloaded \in Nat

(* The counters of links are such.                                         *)
LEMMA RatesCounted ==
  ASSUME NEW L, IsFiniteSet(L), L \subseteq SeenLink
  PROVE  Counted(RatesOf(L))
<1>1. \A x \in L : x.dom \in Domain
  BY DEF SeenLink
<1>2. DOMAIN RatesOf(L) = {x.dom : x \in L}
  BY DEF RatesOf
<1>3. ASSUME NEW d \in DOMAIN RatesOf(L)
      PROVE  RatesOf(L)[d].created \in Nat \ {0} /\ RatesOf(L)[d].downloaded \in Nat
  <2>1. /\ RatesOf(L)[d].created = Cardinality(OfDomain(L, d))
        /\ RatesOf(L)[d].downloaded = Cardinality(HitOfDomain(L, d))
    BY <1>2 DEF RatesOf
  <2>2. OfDomain(L, d) \subseteq L /\ HitOfDomain(L, d) \subseteq L /\ OfDomain(L, d) # {}
    BY <1>2 DEF OfDomain, HitOfDomain
  <2>3. IsFiniteSet(OfDomain(L, d)) /\ IsFiniteSet(HitOfDomain(L, d))
    BY <2>2, FS_Subset
  <2>4. /\ Cardinality(OfDomain(L, d)) \in Nat /\ Cardinality(HitOfDomain(L, d)) \in Nat
        /\ Cardinality(OfDomain(L, d)) # 0
    BY <2>2, <2>3, FS_CardinalityType, FS_EmptySet
  <2> QED BY <2>1, <2>4
<1> QED BY <1>1, <1>2, <1>3 DEF Counted

(* Names are ordered.                                                      *)
LEMMA NamesRanked ==
  /\ IsFiniteSet(Domain) /\ "" \notin Domain
  /\ \A d \in Domain : DomainRank[d] \in Nat
  /\ \A d, e \in Domain : DomainRank[d] = DomainRank[e] => d = e
<1>1. IsFiniteSet(Domain) /\ "" \notin Domain
  BY ListingAssumption
<1>2. PICK m : m = Cardinality(Domain)
  OBVIOUS
<1>3. m \in Nat /\ ExistsBijection(1 .. m, Domain)
  BY <1>1, <1>2, FS_CardinalityType
<1>4. ExistsBijection(Domain, 1 .. m)
  <2>1. IsFiniteSet(1 .. m) /\ Cardinality(1 .. m) = m
    BY <1>3, FS_Interval
  <2> QED BY <1>1, <1>2, <2>1, FS_SameCardinalityBij
<1>5. \E f \in [Domain -> 1 .. m] : \A x, y \in Domain : f[x] = f[y] => x = y
  BY <1>4 DEF ExistsBijection, Bijection, Injection, IsInjective
<1>6. DomainRank \in [Domain -> 1 .. m] /\ \A x, y \in Domain : DomainRank[x] = DomainRank[y] => x = y
  BY <1>2, <1>5 DEF DomainRank
<1>7. \A d \in Domain : DomainRank[d] \in Nat
  BY <1>3, <1>6
<1> QED BY <1>1, <1>6, <1>7, Zenon
(* Multiplying with a positive number keeps an order, and is reversible.   *)
LEMMA Scaled ==
  ASSUME NEW x \in Nat, NEW y \in Nat, NEW z \in Nat \ {0}
  PROVE  (x <= y <=> x * z <= y * z) /\ (x < y <=> x * z < y * z)
OBVIOUS

(* Fractions can be compared across a third one.                           *)
LEMMA CrossOrder ==
  ASSUME NEW a \in Nat, NEW b \in Nat \ {0}, NEW c \in Nat, NEW d \in Nat \ {0}, NEW e \in Nat, NEW f \in Nat \ {0},
         a * d <= c * b, c * f <= e * d
  PROVE  a * f <= e * b /\ (a * d < c * b \/ c * f < e * d => a * f < e * b)
<1>1. a * d \in Nat /\ c * b \in Nat /\ c * f \in Nat /\ e * d \in Nat /\ a * f \in Nat /\ e * b \in Nat
  OBVIOUS
<1>2. (a * d) * f \in Nat /\ (c * b) * f \in Nat /\ (e * d) * b \in Nat
  BY <1>1
<1>3. (a * d) * f = (a * f) * d /\ (c * b) * f = (c * f) * b /\ (e * d) * b = (e * b) * d
  OBVIOUS
<1>4. (a * d) * f <= (c * b) * f /\ (a * d < c * b => (a * d) * f < (c * b) * f)
  BY <1>1, Scaled
<1>5. (c * f) * b <= (e * d) * b /\ (c * f < e * d => (c * f) * b < (e * d) * b)
  BY <1>1, Scaled
<1>6. (a * f) * d <= (e * b) * d /\ (a * d < c * b \/ c * f < e * d => (a * f) * d < (e * b) * d)
  BY <1>2, <1>3, <1>4, <1>5
<1> QED BY <1>1, <1>6, Scaled
(* The order as a function.                                                *)
WorseRates(r) == [d \in DOMAIN r |-> {e \in DOMAIN r : WorseRate(r, d, e)}]
(* It says what WorseRate says.                                            *)
LEMMA WorsePair ==
  ASSUME NEW r, NEW d \in DOMAIN r, NEW e \in DOMAIN r
  PROVE  e \in WorseRates(r)[d] <=> WorseRate(r, d, e)
BY DEF WorseRates

(* By download rate, then by name, is a strict total order of domains.     *)
LEMMA RateOrder ==
  ASSUME NEW r, Counted(r)
  PROVE  Ordered(DOMAIN r, WorseRates(r))
<1> DEFINE down(d) == r[d].downloaded
           all(d) == r[d].created
           name(d) == DomainRank[d]
           prod(d, e) == down(d) * all(e)
<1>1. \A d \in DOMAIN r : d \in Domain /\ all(d) \in Nat \ {0} /\ down(d) \in Nat /\ name(d) \in Nat
  BY NamesRanked DEF Counted
<1>2. \A d, e \in DOMAIN r : name(d) = name(e) => d = e
  BY <1>1, NamesRanked
<1>3. \A d, e \in DOMAIN r :
        e \in WorseRates(r)[d] <=> prod(d, e) < prod(e, d) \/ (prod(d, e) = prod(e, d) /\ name(d) < name(e))
  <2> SUFFICES ASSUME NEW d \in DOMAIN r, NEW e \in DOMAIN r
               PROVE  e \in WorseRates(r)[d] <=>
                        prod(d, e) < prod(e, d) \/ (prod(d, e) = prod(e, d) /\ name(d) < name(e))
    OBVIOUS
  <2>1. e \in WorseRates(r)[d] <=> WorseRate(r, d, e)
    BY WorsePair
  <2>2. WorseRate(r, d, e) <=> prod(d, e) < prod(e, d) \/ (prod(d, e) = prod(e, d) /\ name(d) < name(e))
    BY DEF WorseRate
  <2> QED BY <2>1, <2>2
<1>4. \A d, e \in DOMAIN r : prod(d, e) \in Nat
  BY <1>1
<1>5. ASSUME NEW x \in DOMAIN r, NEW y \in DOMAIN r, NEW z \in DOMAIN r,
             prod(x, y) <= prod(y, x), prod(y, z) <= prod(z, y)
      PROVE  /\ prod(x, z) <= prod(z, x)
             /\ prod(x, y) < prod(y, x) \/ prod(y, z) < prod(z, y) => prod(x, z) < prod(z, x)
  <2>1. PICK a, b, c, d, e, f : a = down(x) /\ b = all(x) /\ c = down(y) /\ d = all(y) /\ e = down(z) /\ f = all(z)
    OBVIOUS
  <2>2. /\ a \in Nat /\ b \in Nat \ {0} /\ c \in Nat /\ d \in Nat \ {0} /\ e \in Nat /\ f \in Nat \ {0}
    BY <1>1, <2>1
  <2>3. a * d <= c * b /\ c * f <= e * d
    BY <1>5, <2>1
  <2>4. a * f <= e * b /\ (a * d < c * b \/ c * f < e * d => a * f < e * b)
    BY ONLY <2>2, <2>3, CrossOrder
  <2> QED BY <2>1, <2>4
<1> HIDE DEF prod, down, all, name
<1>6. ASSUME NEW x \in DOMAIN r PROVE x \notin WorseRates(r)[x]
  <2>1. prod(x, x) \in Nat /\ name(x) \in Nat
    BY <1>1, <1>4
  <2> QED BY <1>3, <2>1
<1>7. ASSUME NEW x \in DOMAIN r, NEW y \in DOMAIN r, x # y
      PROVE  y \in WorseRates(r)[x] \/ x \in WorseRates(r)[y]
  <2>1. prod(x, y) \in Nat /\ prod(y, x) \in Nat /\ name(x) \in Nat /\ name(y) \in Nat /\ name(x) # name(y)
    BY <1>1, <1>2, <1>4, <1>7
  <2> QED BY <1>3, <2>1
<1>8. ASSUME NEW x \in DOMAIN r, NEW y \in DOMAIN r, NEW z \in DOMAIN r,
             y \in WorseRates(r)[x], z \in WorseRates(r)[y]
      PROVE  z \in WorseRates(r)[x]
  <2>1. /\ prod(x, y) \in Nat /\ prod(y, x) \in Nat /\ prod(y, z) \in Nat /\ prod(z, y) \in Nat
        /\ prod(x, z) \in Nat /\ prod(z, x) \in Nat
        /\ name(x) \in Nat /\ name(y) \in Nat /\ name(z) \in Nat
    BY <1>1, <1>4
  <2>2. /\ prod(x, y) < prod(y, x) \/ (prod(x, y) = prod(y, x) /\ name(x) < name(y))
        /\ prod(y, z) < prod(z, y) \/ (prod(y, z) = prod(z, y) /\ name(y) < name(z))
    BY <1>3, <1>8
  <2>3. prod(x, y) <= prod(y, x) /\ prod(y, z) <= prod(z, y)
    BY <2>1, <2>2
  <2>4. /\ prod(x, z) <= prod(z, x)
        /\ prod(x, y) < prod(y, x) \/ prod(y, z) < prod(z, y) => prod(x, z) < prod(z, x)
    BY <1>5, <2>3
  <2>5. prod(x, z) < prod(z, x) \/ (prod(x, z) = prod(z, x) /\ name(x) < name(z))
    BY <2>1, <2>2, <2>4
  <2> QED BY <1>3, <2>5
<1> QED BY <1>6, <1>7, <1>8 DEF Ordered

(* So the report has every domain once.                                    *)
LEMMA ByRateIs ==
  ASSUME NEW r, Counted(r), NEW f, f = ByRate(r)
  PROVE  f \in Seq(Domain) /\ \A j, k \in 1 .. Len(f) : f[j] = f[k] => j = k
<1>1. PICK D : D = DOMAIN r
  OBVIOUS
<1>2. PICK n : n = Cardinality(D)
  OBVIOUS
<1>3. PICK R : R = WorseRates(r)
  OBVIOUS
<1>4. D \subseteq Domain /\ IsFiniteSet(D) /\ Ordered(D, R)
  BY <1>1, <1>3, RateOrder, NamesRanked, FS_Subset DEF Counted
<1>5. n \in Nat /\ \E g \in [1 .. n -> D] : Ascending(g, n, R)
  BY <1>2, <1>4, Arrangement
<1> DEFINE Sorted(g) == \A j, k \in DOMAIN g : j < k => WorseRate(r, g[j], g[k])
<1>6. \A g \in [1 .. n -> D] : Sorted(g) <=> Ascending(g, n, R)
  <2> SUFFICES ASSUME NEW g \in [1 .. n -> D] PROVE Sorted(g) <=> Ascending(g, n, R)
    OBVIOUS
  <2>1. DOMAIN g = 1 .. n /\ \A k \in 1 .. n : g[k] \in D
    OBVIOUS
  <2>2. \A d, e \in D : e \in R[d] <=> WorseRate(r, d, e)
    BY <1>1, <1>3, WorsePair
  <2> QED BY <2>1, <2>2 DEF Ascending
<1>7. f = CHOOSE g \in [1 .. n -> D] : Sorted(g)
  BY <1>1, <1>2 DEF ByRate
<1> HIDE DEF Sorted
<1>8. f \in [1 .. n -> D] /\ Ascending(f, n, R)
  BY <1>5, <1>6, <1>7
<1>9. \A j, k \in 1 .. n : f[j] = f[k] => j = k
  <2>1. Once(f, n, D)
    BY ONLY <1>2, <1>4, <1>8, ArrangedOnce
  <2> QED BY <2>1 DEF Once
<1>10. f \in Seq(Domain) /\ Len(f) = n
  BY <1>4, <1>5, <1>8
<1> QED BY <1>9, <1>10

(* Turned round, it still has.                                             *)
LEMMA ReverseIs ==
  ASSUME NEW f \in Seq(Domain), \A j, k \in 1 .. Len(f) : f[j] = f[k] => j = k, NEW g, g = Reverse(f)
  PROVE  g \in Seq(Domain) /\ \A j, k \in 1 .. Len(g) : g[j] = g[k] => j = k
<1>1. PICK n \in Nat : n = Len(f)
  OBVIOUS
<1>2. g = [i \in 1 .. n |-> f[(n - i) + 1]]
  BY <1>1 DEF Reverse
<1>3. \A i \in 1 .. n : (n - i) + 1 \in 1 .. n /\ f[(n - i) + 1] \in Domain
  BY <1>1
<1>4. g \in Seq(Domain) /\ Len(g) = n
  BY <1>2, <1>3
<1>5. ASSUME NEW j \in 1 .. n, NEW k \in 1 .. n, g[j] = g[k] PROVE j = k
  <2>1. f[(n - j) + 1] = f[(n - k) + 1]
    BY <1>2, <1>5
  <2>2. (n - j) + 1 = (n - k) + 1
    BY <1>1, <1>3, <2>1
  <2> QED BY <2>2
<1> QED BY <1>4, <1>5
-----------------------------------------------------------------------------
(* The scan for the report.                                                *)

(* The rows that a walk up to the cursor c must have met.                  *)
Walked(ids, M, c) ==
  /\ ids \in Seq(M)
  /\ \A j, k \in 1 .. Len(ids) : ids[j] = ids[k] => j = k
  /\ \A k \in 1 .. Len(ids) : ~AfterCursor(ids[k], c)
  /\ \A i \in M : AfterCursor(i, c) \/ \E k \in 1 .. Len(ids) : ids[k] = i

Continued(ids, M, next) ==
  /\ next = NoCursor => Lists(ids, M)
  /\ next # NoCursor => Walked(ids, M, next) /\ Cursor(next)

(* The next page continues it.                                             *)
LEMMA PageContinues ==
  ASSUME Table(rows), NEW M, M \subseteq Present, NEW c, Cursor(c), NEW ids, Walked(ids, M, c),
         NEW S, S = Ahead(M, c), NEW p, PageOf(p, S), NEW ids2, ids2 = ids \o p.rows
  PROVE  p.rows \in Seq(M) /\ Continued(ids2, M, p.next)
<1>1. Dated(Present) /\ Dated(M) /\ S \subseteq M /\ Dated(S) /\ \A i \in S : AfterCursor(i, c)
  BY PresentDated DEF Dated, Ahead
<1>2. /\ p.rows \in Seq(S)
      /\ \A j, k \in 1 .. Len(p.rows) : j < k => RowBefore(p.rows[j], p.rows[k])
      /\ p.next = NoCursor => \A i \in S : \E k \in 1 .. Len(p.rows) : p.rows[k] = i
      /\ p.next # NoCursor =>
           \E l \in S : /\ p.next = EncodeCursor(l)
                        /\ \A k \in 1 .. Len(p.rows) : p.rows[k] = l \/ RowBefore(p.rows[k], l)
                        /\ \A i \in S : RowBefore(l, i) \/ \E k \in 1 .. Len(p.rows) : p.rows[k] = i
  BY DEF PageOf
<1>3. /\ ids \in Seq(M)
      /\ \A j, k \in 1 .. Len(ids) : ids[j] = ids[k] => j = k
      /\ \A k \in 1 .. Len(ids) : ids[k] \in M /\ ~AfterCursor(ids[k], c)
      /\ \A i \in M : i \in S \/ \E k \in 1 .. Len(ids) : ids[k] = i
  BY DEF Walked, Ahead
<1>4. /\ p.rows \in Seq(M) /\ Len(p.rows) \in Nat /\ Len(ids) \in Nat
      /\ \A k \in 1 .. Len(p.rows) : p.rows[k] \in S
  BY <1>1, <1>2, <1>3
<1>5. PICK m \in Nat, n \in Nat : m = Len(ids) /\ n = Len(p.rows)
  BY <1>4
<1>6. \A j, k \in 1 .. n : p.rows[j] = p.rows[k] => j = k
  <2> SUFFICES ASSUME NEW j \in 1 .. n, NEW k \in 1 .. n, p.rows[j] = p.rows[k], j < k \/ k < j PROVE FALSE
    OBVIOUS
  <2> QED BY <1>1, <1>2, <1>4, <1>5, RowOrder
<1>7. /\ ids2 \in Seq(M) /\ Len(ids2) = m + n
      /\ \A k \in 1 .. m + n :
           \/ k \in 1 .. m /\ ids2[k] = ids[k]
           \/ \E h \in 1 .. n : k = m + h /\ ids2[k] = p.rows[h]
      /\ \A k \in 1 .. m : k \in 1 .. m + n /\ ids2[k] = ids[k]
      /\ \A h \in 1 .. n : m + h \in 1 .. m + n /\ ids2[m + h] = p.rows[h]
  <2>1. /\ ids2 \in Seq(M) /\ Len(ids2) = m + n
        /\ \A i \in 1 .. m + n : ids2[i] = IF i <= m THEN ids[i] ELSE p.rows[i - m]
    BY ONLY <1>3, <1>4, <1>5, ConcatProperties, ids2 = ids \o p.rows
  <2>2. ASSUME NEW h \in 1 .. n PROVE m + h \in 1 .. m + n /\ ids2[m + h] = p.rows[h]
    <3>1. m + h \in 1 .. m + n /\ ~(m + h <= m) /\ (m + h) - m = h
      BY <1>5
    <3> QED BY <2>1, <3>1
  <2>3. ASSUME NEW k \in 1 .. m PROVE k \in 1 .. m + n /\ ids2[k] = ids[k]
    <3>1. k \in 1 .. m + n /\ k <= m
      BY <1>5
    <3> QED BY <2>1, <3>1
  <2>4. ASSUME NEW k \in 1 .. m + n, k \notin 1 .. m
        PROVE  \E h \in 1 .. n : k = m + h /\ ids2[k] = p.rows[h]
    <3>1. k - m \in 1 .. n /\ k = m + (k - m)
      BY <1>5, <2>4
    <3> QED BY <2>2, <3>1
  <2> QED BY <2>1, <2>2, <2>3, <2>4
<1>8. \A j, k \in 1 .. m + n : ids2[j] = ids2[k] => j = k
  <2> SUFFICES ASSUME NEW j \in 1 .. m + n, NEW k \in 1 .. m + n, ids2[j] = ids2[k] PROVE j = k
    OBVIOUS
  <2>1. \A a \in 1 .. m, h \in 1 .. n : ids[a] # p.rows[h]
    BY <1>1, <1>3, <1>4, <1>5
  <2>2. CASE j \in 1 .. m /\ ids2[j] = ids[j]
    <3>0. \A h \in 1 .. n : ids2[k] # p.rows[h]
      BY <2>1, <2>2
    <3>1. k \in 1 .. m /\ ids2[k] = ids[k]
      BY ONLY <1>7, <3>0, k \in 1 .. m + n
    <3> QED BY <1>3, <1>5, <2>2, <3>1
  <2>3. CASE \E h \in 1 .. n : j = m + h /\ ids2[j] = p.rows[h]
    <3>1. PICK h \in 1 .. n : j = m + h /\ ids2[j] = p.rows[h]
      BY <2>3
    <3>0. \A a \in 1 .. m : ids2[k] # ids[a]
      BY <2>1, <3>1
    <3>2. PICK g \in 1 .. n : k = m + g /\ ids2[k] = p.rows[g]
      BY ONLY <1>7, <3>0, k \in 1 .. m + n
    <3> QED BY <1>6, <3>1, <3>2
  <2> QED BY <1>7, <2>2, <2>3
<1>9. \A i : (\E k \in 1 .. Len(ids) : ids[k] = i) \/ (\E h \in 1 .. Len(p.rows) : p.rows[h] = i) =>
        \E k \in 1 .. Len(ids2) : ids2[k] = i
  <2> SUFFICES ASSUME NEW i, (\E k \in 1 .. m : ids[k] = i) \/ (\E h \in 1 .. n : p.rows[h] = i)
               PROVE  \E k \in 1 .. m + n : ids2[k] = i
    BY <1>5, <1>7
  <2>1. CASE \E k \in 1 .. m : ids[k] = i
    <3>1. PICK k \in 1 .. m : ids[k] = i
      BY <2>1
    <3>2. k \in 1 .. m + n
      BY <1>5
    <3> QED BY <1>7, <3>1, <3>2
  <2>2. CASE \E h \in 1 .. n : p.rows[h] = i
    <3>1. PICK h \in 1 .. n : p.rows[h] = i
      BY <2>2
    <3>2. m + h \in 1 .. m + n
      BY <1>5
    <3> QED BY <1>7, <3>1, <3>2
  <2> QED BY <2>1, <2>2
<1>10. CASE p.next = NoCursor
  <2>1. \A i \in M : \E k \in 1 .. Len(ids2) : ids2[k] = i
    BY <1>2, <1>3, <1>9, <1>10
  <2>2. Lists(ids2, M)
    BY <1>7, <1>8, <2>1 DEF Lists
  <2> QED BY <1>4, <1>10, <2>2 DEF Continued
<1>11. CASE p.next # NoCursor
  <2>1. PICK l \in S : /\ p.next = EncodeCursor(l)
                       /\ \A h \in 1 .. Len(p.rows) : p.rows[h] = l \/ RowBefore(p.rows[h], l)
                       /\ \A i \in S : RowBefore(l, i) \/ \E h \in 1 .. Len(p.rows) : p.rows[h] = i
    BY <1>2, <1>11
  <2>2. l \in M /\ l \in Id /\ rows[l].at \in Moment
    BY <1>1 DEF Dated
  <2>3. Cursor(p.next)
    BY <2>1, <2>2, FormatIs DEF Cursor, EncodeCursor
  <2>4. \A i \in M : AfterCursor(i, p.next) <=> RowBefore(l, i)
    BY <1>1, <2>1, <2>2, AfterRow
  <2>5. \A i \in M : AfterCursor(i, p.next) \/ \E k \in 1 .. Len(ids2) : ids2[k] = i
    BY <1>3, <1>9, <2>1, <2>4
  <2>6. ASSUME NEW k \in 1 .. m + n PROVE ~AfterCursor(ids2[k], p.next)
    <3>1. CASE k \in 1 .. m /\ ids2[k] = ids[k]
      <4>1. PICK i : i = ids2[k]
        OBVIOUS
      <4>2. i \in M /\ ~AfterCursor(i, c) /\ AfterCursor(l, c)
        BY <1>1, <1>3, <1>5, <3>1, <4>1
      <4>3. i \in Id /\ rows[i].at \in Moment
        BY <1>1, <4>2 DEF Dated
      <4>4. ~RowBefore(l, i)
        BY <2>2, <4>2, <4>3, CursorOrder
      <4> QED BY <2>4, <4>1, <4>2, <4>4
    <3>2. CASE \E h \in 1 .. n : k = m + h /\ ids2[k] = p.rows[h]
      <4>1. ids2[k] \in M /\ (ids2[k] = l \/ RowBefore(ids2[k], l))
        BY <1>1, <1>4, <1>5, <2>1, <3>2
      <4>2. ~RowBefore(l, ids2[k])
        BY <1>1, <2>2, <4>1, RowOrder
      <4> QED BY <2>4, <4>1, <4>2
    <3> QED BY <1>7, <3>1, <3>2
  <2>7. Walked(ids2, M, p.next)
    BY <1>7, <1>8, <2>5, <2>6 DEF Walked
  <2> QED BY <1>4, <1>11, <2>3, <2>7 DEF Continued
<1> QED BY <1>10, <1>11
(* What the scan keeps of rows.                                            *)
Seen(i) == [id |-> i, dom |-> rows[i].dom, hit |-> rows[i].hit]
Image(ids) == [k \in 1 .. Len(ids) |-> Seen(ids[k])]
LinksOf(M) == {Seen(i) : i \in M}

(* It keeps a list a list.                                                 *)
LEMMA ImageLists ==
  ASSUME NEW M, NEW ids, Lists(ids, M)
  PROVE  Lists(Image(ids), LinksOf(M))
<1>1. PICK n \in Nat : n = Len(ids)
  BY DEF Lists
<1>2. PICK s : s = Image(ids)
  OBVIOUS
<1>3. /\ \A k \in 1 .. n : ids[k] \in M
      /\ \A j, k \in 1 .. n : ids[j] = ids[k] => j = k
      /\ \A i \in M : \E k \in 1 .. n : ids[k] = i
  BY <1>1 DEF Lists
<1>4. s = [k \in 1 .. n |-> Seen(ids[k])]
  BY <1>1, <1>2 DEF Image
<1>5. \A i, j : Seen(i) = Seen(j) => i = j
  <2>1. \A i : Seen(i).id = i
    BY DEF Seen
  <2> QED BY <2>1
<1>6. s \in Seq(LinksOf(M)) /\ Len(s) = n
  BY <1>3, <1>4 DEF LinksOf
<1>7. \A j, k \in 1 .. n : s[j] = s[k] => j = k
  BY <1>3, <1>4, <1>5
<1>8. \A x \in LinksOf(M) : \E k \in 1 .. n : s[k] = x
  <2> SUFFICES ASSUME NEW x \in LinksOf(M) PROVE \E k \in 1 .. n : s[k] = x
    OBVIOUS
  <2>1. PICK i \in M : x = Seen(i)
    BY DEF LinksOf
  <2>2. PICK k \in 1 .. n : ids[k] = i
    BY <1>3
  <2> QED BY <1>4, <2>1, <2>2
<1> QED BY <1>2, <1>6, <1>7, <1>8 DEF Lists

(* And appends what is appended.                                           *)
LEMMA ImageConcat ==
  ASSUME NEW M, NEW ids \in Seq(M), NEW more \in Seq(M)
  PROVE  Image(ids \o more) = Image(ids) \o Image(more)
<1>1. PICK m \in Nat, n \in Nat : m = Len(ids) /\ n = Len(more)
  OBVIOUS
<1>2. PICK both : both = ids \o more
  OBVIOUS
<1>3. both \in Seq(M) /\ Len(both) = m + n /\ \A i \in 1 .. m + n : both[i] = IF i <= m THEN ids[i] ELSE more[i - m]
  BY ONLY <1>1, <1>2, ConcatProperties, ids \in Seq(M), more \in Seq(M)
<1>4. Image(both) = [i \in 1 .. m + n |-> Seen(IF i <= m THEN ids[i] ELSE more[i - m])]
  BY <1>3 DEF Image
<1>5. PICK s, t : s = Image(ids) /\ t = Image(more)
  OBVIOUS
<1>6. s = [k \in 1 .. m |-> Seen(ids[k])] /\ t = [k \in 1 .. n |-> Seen(more[k])]
  BY <1>1, <1>5 DEF Image
<1>7. s \in Seq(LinksOf(M)) /\ t \in Seq(LinksOf(M)) /\ Len(s) = m /\ Len(t) = n
  BY <1>1, <1>6 DEF LinksOf
<1>8. PICK st : st = s \o t
  OBVIOUS
<1>9. st \in Seq(LinksOf(M)) /\ Len(st) = m + n /\ \A i \in 1 .. m + n : st[i] = IF i <= m THEN s[i] ELSE t[i - m]
  BY ONLY <1>7, <1>8, ConcatProperties
<1>10. st = [i \in 1 .. m + n |-> IF i <= m THEN s[i] ELSE t[i - m]]
  <2>1. st = [i \in 1 .. Len(st) |-> st[i]]
    BY <1>9
  <2> QED BY <1>9, <2>1
<1>11. ASSUME NEW i \in 1 .. m + n
       PROVE  (IF i <= m THEN s[i] ELSE t[i - m]) = Seen(IF i <= m THEN ids[i] ELSE more[i - m])
  <2>1. CASE i <= m
    <3>1. i \in 1 .. m
      BY <2>1
    <3> QED BY <1>6, <2>1, <3>1
  <2>2. CASE ~(i <= m)
    <3>1. i - m \in 1 .. n
      BY <2>2
    <3> QED BY <1>6, <2>2, <3>1
  <2> QED BY <2>1, <2>2
<1>12. Image(both) = st
  BY <1>4, <1>10, <1>11
<1> QED BY <1>2, <1>5, <1>8, <1>12

-----------------------------------------------------------------------------
(* The invariant behind ReportComplete.                                    *)

(* The links the report is about, and the report.                          *)
Wants == {i \in Present : FromBound(i, walk.from)}
Entries == IF walk.desc THEN Reverse(ByRate(RatesOf(LinksOf(Wants)))) ELSE ByRate(RatesOf(LinksOf(Wants)))

(* Every link has a recipient's domain.                                    *)
DomainsKnown ==
  /\ \A i \in Present : rows[i].dom \in Domain
  /\ stamped # NoStamp => stamped.row.dom \in Domain

(* A scan has met all links but those ahead of its cursor.                 *)
ScanOf(ids) ==
  /\ walk.got = Image(ids)
  /\ walk.pc = "walking" => Cursor(walk.cursor) /\ Walked(ids, Wants, walk.cursor)
  /\ walk.pc = "scanned" => walk.cursor = NoCursor /\ Lists(ids, Wants)
Scanned == \E ids : ScanOf(ids)

(* The client was given the first entries, and its cursor is the last.     *)
CursorIn(entries, n) == (n = 0 /\ walk.domain = "") \/ (n > 0 /\ walk.domain = entries[n])
CursorAt(n) == CursorIn(Entries, n)
Told ==
  \E n \in 0 .. Len(Entries) :
    /\ walk.domains \in Seq(Domain) /\ Len(walk.domains) = n
    /\ \A k \in 1 .. n : walk.domains[k] = Entries[k]
    /\ walk.pc \in {"walking", "scanned"} => CursorAt(n)
    /\ walk.pc = "done" => n = Len(Entries)

Untouched == /\ walk.got = <<>> /\ walk.cursor = NoCursor
             /\ walk.domain = "" /\ walk.domains = <<>>

ReportInv ==
  IsReport =>
    /\ DomainsKnown /\ walk.class = ""
    /\ walk.pc \in {"idle", "walking", "scanned", "done", "refused"}
    /\ walk.pc = "idle" => Untouched
    /\ walk.pc # "idle" /\ ~moved => Scanned /\ Told

(* The links are finitely many.                                            *)
LEMMA LinksFinite ==
  ASSUME StoreInv, DomainsKnown, NEW M, M \subseteq Present
  PROVE  IsFiniteSet(LinksOf(M)) /\ LinksOf(M) \subseteq SeenLink
<1>1. M \subseteq Id /\ IsFiniteSet(M)
  BY Sizes, FS_Subset DEF Present
<1>2. \A i \in M : rows[i] \in Row /\ rows[i].dom \in Domain
  BY PresentDated DEF StoreInv, DomainsKnown
<1>3. \A i \in M : Seen(i) \in SeenLink
  <2>1. \A i \in M : i \in Id /\ rows[i].dom \in Domain /\ rows[i].hit \in BOOLEAN
    BY <1>1, <1>2 DEF Row
  <2> QED BY <2>1 DEF Seen, SeenLink
<1>4. PICK f : f = [i \in M |-> Seen(i)]
  OBVIOUS
<1>5. f \in Surjection(M, LinksOf(M))
  BY <1>4 DEF Surjection, LinksOf
<1>6. IsFiniteSet(LinksOf(M))
  BY <1>1, <1>5, FS_Surjection
<1> QED BY <1>3, <1>6 DEF LinksOf

(* The report has every domain once.                                       *)
LEMMA EntriesAre ==
  ASSUME StoreInv, DomainsKnown
  PROVE  Entries \in Seq(Domain) /\ \A j, k \in 1 .. Len(Entries) : Entries[j] = Entries[k] => j = k
<1>1. PICK r : r = RatesOf(LinksOf(Wants))
  OBVIOUS
<1>2. Counted(r)
  <2>1. Wants \subseteq Present
    BY DEF Wants
  <2> QED BY <1>1, <2>1, LinksFinite, RatesCounted
<1>3. PICK f : f = ByRate(r)
  OBVIOUS
<1>4. f \in Seq(Domain) /\ \A j, k \in 1 .. Len(f) : f[j] = f[k] => j = k
  BY ONLY <1>2, <1>3, ByRateIs
<1>5. Entries = IF walk.desc THEN Reverse(f) ELSE f
  BY <1>1, <1>3 DEF Entries
<1>6. PICK g : g = Reverse(f)
  OBVIOUS
<1>7. g \in Seq(Domain) /\ \A j, k \in 1 .. Len(g) : g[j] = g[k] => j = k
  BY ONLY <1>4, <1>6, ReverseIs
<1>8. CASE walk.desc
  BY <1>5, <1>6, <1>7, <1>8
<1>9. CASE ~walk.desc
  BY <1>4, <1>5, <1>9
<1> QED BY <1>8, <1>9

(* Whoever scans the links computes the same report.                       *)
LEMMA SameReport ==
  ASSUME StoreInv, DomainsKnown, NEW s, Lists(s, LinksOf(Wants))
  PROVE  ComputeDeliverability(s) = ByRate(RatesOf(LinksOf(Wants)))
<1>1. IsFiniteSet(LinksOf(Wants))
  <2>1. Wants \subseteq Present
    BY DEF Wants
  <2> QED BY <2>1, LinksFinite
<1>2. Rates(s) = RatesOf(LinksOf(Wants))
  BY <1>1, RatesOfScan
<1> QED BY <1>2 DEF ComputeDeliverability

(* One scan is that of SetToSeq.                                           *)
LEMMA SetToSeqLists ==
  ASSUME NEW L, IsFiniteSet(L), NEW s, s = SetToSeq(L)
  PROVE  Lists(s, L)
<1>1. PICK n : n = Cardinality(L)
  OBVIOUS
<1>2. n \in Nat /\ ExistsBijection(1 .. n, L)
  BY <1>1, FS_CardinalityType
<1>3. \E f \in [1 .. n -> L] : IsInjective(f)
  BY <1>2 DEF ExistsBijection, Bijection, Injection, IsInjective
<1>4. s \in [1 .. n -> L] /\ IsInjective(s)
  BY <1>1, <1>3 DEF SetToSeq
<1>5. \A j, k \in 1 .. n : s[j] = s[k] => j = k
  BY <1>4 DEF IsInjective
<1>6. s \in Injection(1 .. n, L)
  BY <1>4, <1>5 DEF Injection, IsInjective
<1>7. IsFiniteSet(1 .. n) /\ Cardinality(1 .. n) = n
  BY <1>2, FS_Interval
<1>8. s \in Surjection(1 .. n, L)
  BY <1>1, <1>6, <1>7, FS_Injection
<1>9. \A x \in L : \E k \in 1 .. n : s[k] = x
  BY <1>8 DEF Surjection
<1>10. s \in Seq(L) /\ Len(s) = n
  BY <1>2, <1>4
<1> QED BY <1>5, <1>9, <1>10 DEF Lists
(* What the invariant is for.                                              *)
LEMMA ReportInvExact ==
  ASSUME PagesInv, ReportInv
  PROVE  ReportComplete
<1> SUFFICES ASSUME IsReport, walk.pc # "idle", ~moved PROVE ReportComplete
  BY DEF ReportComplete, IsReport
<1>1. StoreInv /\ DomainsKnown /\ Told
  BY DEF PagesInv, ReportInv
<1>2. PICK scan : scan = SetToSeq({[id |-> i, dom |-> rows[i].dom, hit |-> rows[i].hit] : i \in Wants})
  OBVIOUS
<1>3. scan = SetToSeq(LinksOf(Wants))
  BY <1>2 DEF LinksOf, Seen
<1>4. ComputeDeliverability(scan) = ByRate(RatesOf(LinksOf(Wants)))
  <2>1. IsFiniteSet(LinksOf(Wants))
    <3>1. Wants \subseteq Present
      BY DEF Wants
    <3> QED BY <1>1, <3>1, LinksFinite
  <2>2. Lists(scan, LinksOf(Wants))
    BY <1>3, <2>1, SetToSeqLists
  <2> QED BY <1>1, <2>2, SameReport
<1>5. PICK entries : entries = Entries
  OBVIOUS
<1>6. entries = IF walk.desc THEN Reverse(ComputeDeliverability(scan)) ELSE ComputeDeliverability(scan)
  BY <1>4, <1>5 DEF Entries
<1>7. entries \in Seq(Domain)
  BY <1>1, <1>5, EntriesAre
<1>8. PICK n \in 0 .. Len(entries), domains \in Seq(Domain) :
        /\ domains = walk.domains /\ Len(domains) = n
        /\ \A k \in 1 .. n : domains[k] = entries[k]
        /\ walk.pc = "done" => n = Len(entries)
  BY <1>1, <1>5 DEF Told
<1>9. IsPrefix(domains, entries)
  <2>1. PICK s, t : s = SubSeq(domains, 1, n) /\ t = SubSeq(entries, 1, n)
    OBVIOUS
  <2>2. s \in Seq(Domain) /\ Len(s) = n /\ \A k \in 1 .. n : s[k] = domains[k]
    BY <1>7, <1>8, <2>1
  <2>3. t \in Seq(Domain) /\ Len(t) = n /\ \A k \in 1 .. n : t[k] = entries[k]
    BY <1>7, <1>8, <2>1
  <2>4. s = t
    BY ONLY <2>2, <2>3, <1>8, SeqEqual
  <2>5. n <= Len(entries)
    BY <1>7, <1>8
  <2> QED BY <1>8, <2>1, <2>4, <2>5 DEF IsPrefix
<1>10. walk.pc = "done" => domains = entries
  BY <1>7, <1>8, SeqEqual
<1>11. walk.domains = domains /\ (IsPrefix(domains, entries) /\ (walk.pc = "done" => domains = entries))
  BY <1>8, <1>9, <1>10
<1>12. LET wanted == {i \in Present : FromBound(i, walk.from)}
           scan2 == SetToSeq({[id |-> i, dom |-> rows[i].dom, hit |-> rows[i].hit] : i \in wanted})
           sorted == ComputeDeliverability(scan2)
           entries2 == IF walk.desc THEN Reverse(sorted) ELSE sorted
       IN IsPrefix(walk.domains, entries2) /\ (walk.pc = "done" => walk.domains = entries2)
  BY <1>2, <1>6, <1>11 DEF Wants
<1> QED BY <1>12 DEF ReportComplete

(* It holds initially.                                                     *)
LEMMA ReportInvInit ==
  ASSUME Init
  PROVE  ReportInv
<1>1. rows = [i \in Id |-> None] /\ stamped = NoStamp
  BY DEF Init
<1>2. PICK kd \in Kind : walk = [Idle EXCEPT !.kind = kd]
  BY DEF Init
<1>3. walk = [pc |-> "idle", kind |-> kd, class |-> "", from |-> Unbounded, limit |-> 0, desc |-> FALSE,
              cursor |-> NoCursor, got |-> <<>>, domain |-> "", domains |-> <<>>]
  BY <1>2 DEF Idle
<1>4. Untouched /\ walk.class = "" /\ walk.pc = "idle"
  BY <1>3 DEF Untouched
<1>5. DomainsKnown
  <2>1. Present = {}
    BY <1>1 DEF Present
  <2> QED BY <1>1, <2>1 DEF DomainsKnown
<1> QED BY <1>4, <1>5 DEF ReportInv

(* A step that leaves the walk alone and either all links or, once the     *)
(* walk has begun, sets moved.                                             *)
LEMMA ReportSurvives ==
  ASSUME ReportInv, walk' = walk, IsReport => DomainsKnown',
         walk.pc # "idle" /\ ~moved' => ~moved /\ rows' = rows
  PROVE  ReportInv'
<1> SUFFICES ASSUME IsReport' PROVE ReportInv'
  BY DEF ReportInv
<1>1. IsReport
  BY DEF IsReport
<1>2. /\ walk.class = "" /\ walk.pc \in {"idle", "walking", "scanned", "done", "refused"}
      /\ walk.pc = "idle" => Untouched
      /\ walk.pc # "idle" /\ ~moved => Scanned /\ Told
  BY <1>1 DEF ReportInv
<1>3. Untouched' <=> Untouched
  BY DEF Untouched
<1>4. ASSUME walk'.pc # "idle", ~moved' PROVE Scanned' /\ Told'
  <2>1. rows' = rows /\ ~moved /\ walk.pc # "idle"
    BY <1>4
  <2>2. Scanned /\ Told
    BY <1>2, <2>1
  <2>3. Wants' = Wants /\ Entries' = Entries
    <3>1. Wants' = Wants
      BY <2>1 DEF Wants, Present, FromBound
    <3>2. LinksOf(Wants)' = LinksOf(Wants)
      BY <2>1, <3>1 DEF LinksOf, Seen
    <3> QED BY <3>1, <3>2 DEF Entries
  <2>4. Scanned'
    <3>1. PICK ids : ScanOf(ids)
      BY <2>2 DEF Scanned
    <3>2. Image(ids)' = Image(ids)
      BY <2>1 DEF Image, Seen
    <3>3. Walked(ids, Wants, walk.cursor)' <=> Walked(ids, Wants, walk.cursor)
      BY <2>1, <2>3 DEF Walked, AfterCursor
    <3>4. Lists(ids, Wants)' <=> Lists(ids, Wants)
      BY <2>3 DEF Lists
    <3>5. Cursor(walk.cursor)' <=> Cursor(walk.cursor)
      BY DEF Cursor
    <3>6. ScanOf(ids)'
      BY <3>1, <3>2, <3>3, <3>4, <3>5 DEF ScanOf
    <3> QED BY <3>6 DEF Scanned
  <2>5. Told'
    BY <2>2, <2>3 DEF Told, CursorAt, CursorIn
  <2> QED BY <2>4, <2>5
<1> QED BY <1>1, <1>2, <1>3, <1>4 DEF ReportInv
(* Writers: the client's walk is left alone, and once it has begun, a      *)
(* change is noted.                                                        *)
LEMMA WritersReport ==
  ASSUME PagesInv, ReportInv, Advance \/ Stamp \/ Commit \/ Reclassify \/ Download \/ Purge
  PROVE  ReportInv'
<1>1. Table(rows) /\ StoreInv
  BY DEF PagesInv, StoreInv
<1>2. walk' = walk
  BY DEF Advance, Stamp, Commit, Reclassify, Download, Purge
<1>3. walk.pc # "idle" /\ ~moved' => ~moved /\ rows' = rows
  BY DEF Advance, Stamp, Commit, Reclassify, Download, Purge, Write
<1>4. ASSUME IsReport PROVE DomainsKnown'
  <2>1. DomainsKnown
    BY <1>4 DEF ReportInv
  <2>2. ASSUME NEW table, Write(table), stamped' = stamped \/ stamped' = NoStamp,
               \A i \in Id : table[i] # None =>
                 \/ rows[i] # None /\ table[i].dom = rows[i].dom
                 \/ stamped # NoStamp /\ table[i].dom = stamped.row.dom
        PROVE  DomainsKnown'
    <3>1. rows' = table
      BY <2>2 DEF Write
    <3>2. \A i \in Present' : i \in Id /\ table[i] # None
      BY <3>1 DEF Present
    <3>3. \A i \in Id : rows[i] # None => i \in Present
      BY DEF Present
    <3> QED BY <2>1, <2>2, <3>1, <3>2, <3>3 DEF DomainsKnown
  <2>3. CASE Advance
    BY <1>4, <2>3 DEF Advance
  <2>4. CASE Stamp
    <3>1. PICK i \in Id \ used, c \in Classes, d \in Domains :
            stamped' = [id |-> i, row |-> [at |-> now, class |-> c, dom |-> d, hit |-> FALSE]]
      BY <2>4 DEF Stamp
    <3>2. d \in Domain
      BY <1>4 DEF Domains
    <3>3. stamped'.row.dom = d /\ rows' = rows
      BY <2>4, <3>1 DEF Stamp
    <3>4. Present' = Present
      BY <3>3 DEF Present
    <3> QED BY <2>1, <3>2, <3>3, <3>4 DEF DomainsKnown
  <2>5. CASE Commit
    <3> DEFINE table == [rows EXCEPT ![stamped.id] = stamped.row]
    <3>1. Write(table) /\ stamped # NoStamp /\ stamped' = NoStamp
      BY <2>5 DEF Commit
    <3>2. \A i \in Id : table[i] = rows[i] \/ table[i] = stamped.row
      BY <1>1 DEF Table
    <3> HIDE DEF table
    <3>3. \A i \in Id : table[i] # None =>
            \/ rows[i] # None /\ table[i].dom = rows[i].dom
            \/ stamped # NoStamp /\ table[i].dom = stamped.row.dom
      BY <3>1, <3>2
    <3> QED BY <2>2, <3>1, <3>3
  <2>6. CASE Reclassify
    <3>1. PICK i \in Present, c \in Classes : Write([rows EXCEPT ![i].class = c])
      BY <2>6 DEF Reclassify
    <3> DEFINE table == [rows EXCEPT ![i].class = c]
    <3>2. rows[i] \in Row /\ rows[i] # None
      BY <1>1, PresentDated DEF Present
    <3>3. [rows[i] EXCEPT !.class = c].dom = rows[i].dom
      BY <3>2 DEF Row
    <3>4. \A k \in Id : table[k] # None => rows[k] # None /\ table[k].dom = rows[k].dom
      BY <1>1, <3>2, <3>3 DEF Table
    <3>5. Write(table) /\ stamped' = stamped
      BY <2>6, <3>1 DEF Reclassify
    <3> HIDE DEF table
    <3> QED BY <2>2, <3>4, <3>5
  <2>7. CASE Download
    <3>1. PICK i \in Present : Write([rows EXCEPT ![i].hit = TRUE])
      BY <2>7 DEF Download
    <3> DEFINE table == [rows EXCEPT ![i].hit = TRUE]
    <3>2. rows[i] \in Row /\ rows[i] # None
      BY <1>1, PresentDated DEF Present
    <3>3. [rows[i] EXCEPT !.hit = TRUE].dom = rows[i].dom
      BY <3>2 DEF Row
    <3>4. \A k \in Id : table[k] # None => rows[k] # None /\ table[k].dom = rows[k].dom
      BY <1>1, <3>2, <3>3 DEF Table
    <3>5. Write(table) /\ stamped' = stamped
      BY <2>7, <3>1 DEF Download
    <3> HIDE DEF table
    <3> QED BY <2>2, <3>4, <3>5
  <2>8. CASE Purge
    <3>1. PICK i \in Present : Write([rows EXCEPT ![i] = None])
      BY <2>8 DEF Purge
    <3> DEFINE table == [rows EXCEPT ![i] = None]
    <3>2. \A k \in Id : table[k] # None => rows[k] # None /\ table[k].dom = rows[k].dom
      BY <1>1 DEF Table
    <3>3. Write(table) /\ stamped' = stamped
      BY <2>8, <3>1 DEF Purge
    <3> HIDE DEF table
    <3> QED BY <2>2, <3>2, <3>3
  <2> QED BY <2>3, <2>4, <2>5, <2>6, <2>7, <2>8
<1> QED BY <1>2, <1>3, <1>4, ReportSurvives

(* Nothing scanned.                                                        *)
LEMMA ImageEmpty == Image(<<>>) = <<>>
<1>1. PICK s : s = Image(<<>>)
  OBVIOUS
<1>2. s = [k \in 1 .. 0 |-> Seen(<<>>[k])] /\ 1 .. 0 = {}
  BY <1>1, Empty DEF Image
<1>3. s \in Seq({}) /\ Len(s) = 0
  BY <1>2
<1> QED BY <1>1, <1>3, EmptySeq

(* The walk begins with nothing scanned and nothing told.                  *)
LEMMA BeginReport ==
  ASSUME PagesInv, ReportInv, Begin
  PROVE  ReportInv'
<1>1. PICK limit \in {0, MaxPage}, desc \in BOOLEAN, c \in {"", CHOOSE c \in Classes : TRUE},
          from \in {Unbounded, Epoch} :
        walk' = [walk EXCEPT !.pc = "walking", !.class = c, !.from = from, !.limit = limit, !.desc = desc]
  BY Zenon DEF Begin
<1>2. UNCHANGED <<rows, stamped, moved>> /\ walk.pc = "idle"
  BY DEF Begin
<1>3. Shape(walk) /\ StoreInv
  BY DEF PagesInv, WalkInv
<1>4. walk' = [pc |-> "walking", kind |-> walk.kind, class |-> c, from |-> from, limit |-> limit, desc |-> desc,
               cursor |-> walk.cursor, got |-> walk.got, domain |-> walk.domain, domains |-> walk.domains]
  BY <1>1, <1>3 DEF Shape
<1>5. /\ walk'.pc = "walking" /\ walk'.kind = walk.kind /\ walk'.class = c
      /\ walk'.cursor = walk.cursor /\ walk'.got = walk.got /\ walk'.domain = walk.domain
      /\ walk'.domains = walk.domains
  BY <1>4
<1> SUFFICES ASSUME IsReport' PROVE ReportInv'
  BY DEF ReportInv
<1>6. IsReport
  BY <1>5 DEF IsReport
<1>7. c = ""
  <2>1. Classes = {""}
    BY <1>6, Zenon DEF Classes, IsReport
  <2> QED BY <2>1
<1>8. /\ walk'.got = <<>> /\ walk'.cursor = NoCursor /\ walk'.domain = "" /\ walk'.domains = <<>>
  BY <1>2, <1>5, <1>6 DEF ReportInv, Untouched
<1>9. StoreInv' /\ DomainsKnown' /\ DomainsKnown
  <2>1. DomainsKnown
    BY <1>6 DEF ReportInv
  <2>2. Present' = Present
    BY <1>2 DEF Present
  <2>3. StoreInv'
    BY <1>2, <1>3, <2>2 DEF StoreInv, Table, Begin
  <2> QED BY <1>2, <2>1, <2>2, <2>3 DEF DomainsKnown
<1>10. Scanned'
  <2>1. (Image(<<>>) = <<>>)'
    BY ImageEmpty, PTL
  <2>2. Walked(<<>>, Wants, NoCursor)'
    <3>1. <<>> \in Seq(Wants') /\ 1 .. Len(<<>>) = {}
      BY Empty
    <3>2. \A i : AfterCursor(i, NoCursor)'
      BY DEF AfterCursor
    <3> QED BY <3>1, <3>2 DEF Walked
  <2>3. ScanOf(<<>>)'
    BY <1>5, <1>8, <2>1, <2>2 DEF ScanOf, Cursor
  <2> QED BY <2>3 DEF Scanned
<1>11. Told'
  <2>1. (Entries \in Seq(Domain))'
    BY <1>9, EntriesAre, PTL
  <2>2. PICK entries \in Seq(Domain) : entries = Entries'
    BY <2>1
  <2>3. PICK n \in 0 .. Len(entries) : n = 0
    <3>1. 0 \in 0 .. Len(entries)
      BY Empty
    <3> QED BY <3>1
  <2>4. <<>> \in Seq(Domain) /\ Len(<<>>) = 0 /\ 1 .. 0 = {}
    BY Empty
  <2>5. CursorAt(n)'
    BY <1>8, <2>3 DEF CursorAt, CursorIn
  <2>6. walk'.pc # "done"
    BY <1>5
  <2> QED BY <1>8, <2>2, <2>3, <2>4, <2>5, <2>6 DEF Told
<1> QED BY <1>5, <1>7, <1>9, <1>10, <1>11 DEF ReportInv
(* One iteration of the scan.                                              *)
LEMMA ScanReport ==
  ASSUME PagesInv, ReportInv, ScanPage
  PROVE  ReportInv'
<1>1. /\ StoreInv /\ Table(rows) /\ Shape(walk) /\ IsReport /\ walk.pc = "walking"
      /\ UNCHANGED <<rows, stamped, moved>>
  BY DEF PagesInv, StoreInv, WalkInv, ScanPage, Walking, IsReport
<1>2. /\ DomainsKnown /\ walk.class = "" /\ (~moved => Scanned /\ Told)
  BY <1>1 DEF ReportInv
<1>3. PICK q : q = [walk EXCEPT !.limit = DefaultPage]
  OBVIOUS
<1>4. PICK page : page = ListLinks(q)
  OBVIOUS
<1>5. PICK c : c = walk.cursor
  OBVIOUS
<1>6. PICK M : M = Wants
  OBVIOUS
<1>7. M \subseteq Present /\ Dated(M)
  <2>1. M \subseteq Present
    BY <1>6 DEF Wants
  <2> QED BY <1>1, <2>1, PresentDated DEF Dated
<1>8. PICK S : S = Ahead(M, c)
  OBVIOUS
<1>9. PageOf(page, S)
  <2>1. q.class = walk.class /\ q.from = walk.from /\ q.cursor = c /\ q.limit = DefaultPage
    BY <1>1, <1>3, <1>5 DEF Shape
  <2>2. Matching(q) = M
    <3>1. \A i : OfClass(i, q.class)
      BY <1>2, <2>1, Zenon DEF OfClass
    <3> QED BY <1>6, <2>1, <3>1 DEF Matching, Wants
  <2>3. PICK limit : limit = ClampLimit(q.limit)
    OBVIOUS
  <2>4. limit \in Nat \ {0}
    BY <2>1, <2>3, Sizes DEF ClampLimit
  <2>5. page = KeysetPage(M, c, limit)
    BY <1>4, <2>1, <2>2, <2>3 DEF ListLinks
  <2> QED BY ONLY <1>7, <1>8, <2>4, <2>5, PageIs
<1>10. PICK seen : seen = [k \in DOMAIN page.rows |->
                            [id |-> page.rows[k], dom |-> rows[page.rows[k]].dom, hit |-> rows[page.rows[k]].hit]]
  OBVIOUS
<1>11. seen = Image(page.rows)
  <2>1. DOMAIN page.rows = 1 .. Len(page.rows)
    BY <1>9 DEF PageOf
  <2> QED BY <1>10, <2>1 DEF Image, Seen
<1>12. walk' = [walk EXCEPT !.got = @ \o seen, !.cursor = page.next,
                            !.pc = IF page.next = NoCursor THEN "scanned" ELSE "walking"]
  BY <1>3, <1>4, <1>10 DEF ScanPage
<1>13. PICK got2 : got2 = walk.got \o seen
  OBVIOUS
<1>14. /\ walk'.pc = (IF page.next = NoCursor THEN "scanned" ELSE "walking") /\ walk'.kind = walk.kind
       /\ walk'.class = walk.class /\ walk'.from = walk.from /\ walk'.desc = walk.desc
       /\ walk'.cursor = page.next /\ walk'.got = got2
       /\ walk'.domain = walk.domain /\ walk'.domains = walk.domains
  <2>1. walk' = [pc |-> IF page.next = NoCursor THEN "scanned" ELSE "walking", kind |-> walk.kind,
                 class |-> walk.class, from |-> walk.from, limit |-> walk.limit, desc |-> walk.desc,
                 cursor |-> page.next, got |-> walk.got \o seen, domain |-> walk.domain, domains |-> walk.domains]
    BY <1>1, <1>12 DEF Shape
  <2> QED BY <1>13, <2>1
<1>15. DomainsKnown' /\ Wants' = M /\ Entries' = Entries
  <2>1. Present' = Present
    BY <1>1 DEF Present
  <2>2. Wants' = Wants
    BY <1>1, <1>14, <2>1 DEF Wants, FromBound
  <2>3. LinksOf(Wants)' = LinksOf(Wants)
    BY <1>1, <2>2 DEF LinksOf, Seen
  <2> QED BY <1>1, <1>2, <1>6, <1>14, <2>1, <2>2, <2>3 DEF DomainsKnown, Entries
<1>16. walk'.pc \in {"walking", "scanned"} /\ (walk'.pc = "scanned" <=> page.next = NoCursor)
  BY <1>14
<1>17. ASSUME ~moved PROVE Scanned' /\ Told'
  <2>1. PICK ids : ScanOf(ids)
    BY <1>2, <1>17 DEF Scanned
  <2>2. walk.got = Image(ids) /\ Cursor(c) /\ Walked(ids, M, c)
    BY <1>1, <1>5, <1>6, <2>1 DEF ScanOf
  <2>3. PICK ids2 : ids2 = ids \o page.rows
    OBVIOUS
  <2>4. page.rows \in Seq(M) /\ Continued(ids2, M, page.next)
    BY ONLY <1>1, <1>7, <1>8, <1>9, <2>2, <2>3, PageContinues
  <2>5. got2 = Image(ids2)
    <3>1. ids \in Seq(M)
      BY <2>2 DEF Walked
    <3>2. Image(ids \o page.rows) = Image(ids) \o Image(page.rows)
      BY ONLY <2>4, <3>1, ImageConcat
    <3> QED BY <1>11, <1>13, <2>2, <2>3, <3>2
  <2>6. Image(ids2)' = Image(ids2)
    BY <1>1 DEF Image, Seen
  <2>7. \A x : Walked(ids2, M, x)' <=> Walked(ids2, M, x)
    BY <1>1 DEF Walked, AfterCursor
  <2>8. ScanOf(ids2)'
    <3>1. walk'.pc = "walking" => Cursor(walk'.cursor) /\ Walked(ids2, Wants, walk.cursor)'
      <4>1. ASSUME walk'.pc = "walking" PROVE Cursor(page.next) /\ Walked(ids2, M, page.next)
        BY <1>16, <2>4, <4>1 DEF Continued
      <4>2. Walked(ids2, Wants, walk.cursor)' <=> Walked(ids2, M, page.next)
        BY <1>1, <1>14, <1>15 DEF Walked, AfterCursor
      <4> QED BY <1>14, <4>1, <4>2
    <3>2. walk'.pc = "scanned" => walk'.cursor = NoCursor /\ Lists(ids2, Wants')
      BY <1>14, <1>15, <1>16, <2>4 DEF Continued
    <3>3. walk'.got = Image(ids2)'
      BY <1>14, <2>5, <2>6
    <3> QED BY <3>1, <3>2, <3>3 DEF ScanOf, Cursor, Lists
  <2>9. Scanned'
    BY <2>8 DEF Scanned
  <2>10. Told'
    <3>1. PICK n \in 0 .. Len(Entries) :
            /\ walk.domains \in Seq(Domain) /\ Len(walk.domains) = n
            /\ \A k \in 1 .. n : walk.domains[k] = Entries[k]
            /\ CursorAt(n)
      BY <1>1, <1>2, <1>17 DEF Told
    <3>2. CursorAt(n)'
      BY <1>14, <1>15, <3>1 DEF CursorAt, CursorIn
    <3> QED BY <1>14, <1>15, <1>16, <3>1, <3>2 DEF Told
  <2> QED BY <2>9, <2>10
<1>18. walk'.class = "" /\ walk'.pc \in {"idle", "walking", "scanned", "done", "refused"} /\ walk'.pc # "idle"
  BY <1>2, <1>14, <1>16
<1> QED BY <1>1, <1>15, <1>17, <1>18 DEF ReportInv
(* The page after the cursor starts with the entry after it.               *)
LEMMA PageStart ==
  ASSUME NEW entries \in Seq(Domain), \A j, k \in 1 .. Len(entries) : entries[j] = entries[k] => j = k,
         NEW n \in 0 .. Len(entries), CursorIn(entries, n)
  PROVE  /\ StartOfPage(entries) = n + 1
         /\ walk.domain # "" => indexOfDomain(entries, walk.domain) # {}
<1>1. CASE n = 0 /\ walk.domain = ""
  <2>1. StartOfPage(entries) = 1
    BY <1>1, Zenon DEF StartOfPage
  <2>2. n + 1 = 1
    <3>1. n = 0
      BY <1>1, Zenon
    <3> QED BY <3>1
  <2> QED BY <1>1, <2>1, <2>2, Zenon
<1>2. CASE n > 0 /\ walk.domain = entries[n]
  <2>1. n \in 1 .. Len(entries) /\ DOMAIN entries = 1 .. Len(entries)
    BY <1>2
  <2>2. PICK d : d = entries[n]
    OBVIOUS
  <2>3. d \in Domain
    BY <2>1, <2>2
  <2>4. d # ""
    BY <2>3, NamesRanked, Zenon
  <2>5. indexOfDomain(entries, d) = {n}
    BY <2>1, <2>2 DEF indexOfDomain
  <2>6. (CHOOSE k \in indexOfDomain(entries, d) : TRUE) = n
    BY <2>5
  <2>7. StartOfPage(entries) = 1 + CHOOSE k \in indexOfDomain(entries, d) : TRUE
    BY <1>2, <2>2, <2>4, Zenon DEF StartOfPage
  <2>8. StartOfPage(entries) = n + 1
    <3>1. StartOfPage(entries) = 1 + n
      BY <2>6, <2>7, Zenon
    <3> QED BY <3>1
  <2>9. indexOfDomain(entries, walk.domain) # {}
    BY <1>2, <2>2, <2>5
  <2> QED BY <2>8, <2>9
<1> QED BY <1>1, <1>2, Zenon DEF CursorIn

(* What was told is the first n entries.                                   *)
HeadOf(told, entries, n) ==
  told \in Seq(Domain) /\ Len(told) = n /\ \A k \in 1 .. n : told[k] = entries[k]
(* One page more.                                                          *)
LEMMA OnePageMore ==
  ASSUME NEW entries \in Seq(Domain), NEW n \in 0 .. Len(entries), NEW told, HeadOf(told, entries, n),
         NEW end \in n .. Len(entries), NEW told2, told2 = told \o SubSeq(entries, n + 1, end)
  PROVE  HeadOf(told2, entries, end)
<1>0. told \in Seq(Domain) /\ Len(told) = n /\ \A k \in 1 .. n : told[k] = entries[k]
  BY DEF HeadOf
<1>1. PICK m \in Nat : m = Len(entries)
  OBVIOUS
<1>2. n \in Nat /\ end \in Nat /\ n <= end /\ end <= m
  BY <1>1
<1>3. PICK s : s = SubSeq(entries, n + 1, end)
  OBVIOUS
<1>4. s \in Seq(Domain) /\ Len(s) = end - n /\ \A k \in 1 .. end - n : s[k] = entries[n + k]
  <2>1. n + 1 \in 1 .. m + 1 /\ end \in n .. m
    BY <1>1, <1>2
  <2>2. s = [i \in 1 .. end - n |-> entries[n + i]]
    BY <1>1, <1>2, <1>3
  <2>3. \A i \in 1 .. end - n : n + i \in 1 .. m /\ entries[n + i] \in Domain
    BY <1>1, <1>2
  <2>4. end - n \in Nat
    BY <1>2
  <2> QED BY <2>2, <2>3, <2>4
<1>5. told2 \in Seq(Domain) /\ Len(told2) = n + (end - n)
      /\ \A i \in 1 .. n + (end - n) : told2[i] = IF i <= n THEN told[i] ELSE s[i - n]
  <2>1. PICK l : l = Len(s)
    OBVIOUS
  <2>2. l = end - n
    BY <1>4, <2>1
  <2>3. told2 = told \o s
    BY <1>3
  <2>4. told \in Seq(Domain) /\ s \in Seq(Domain) /\ n = Len(told) /\ l = Len(s)
    BY <1>0, <1>4, <2>1
  <2>5. told2 \in Seq(Domain) /\ Len(told2) = n + l
        /\ \A i \in 1 .. n + l : told2[i] = IF i <= n THEN told[i] ELSE s[i - n]
    BY ONLY <2>3, <2>4, ConcatProperties
  <2> QED BY <2>2, <2>5
<1>6. n + (end - n) = end
  BY <1>2
<1>7. ASSUME NEW k \in 1 .. end PROVE told2[k] = entries[k]
  <2>1. CASE k <= n
    <3>1. k \in 1 .. n
      BY <1>2, <2>1
    <3> QED BY <1>0, <1>5, <1>6, <2>1, <3>1
  <2>2. CASE ~(k <= n)
    <3>1. k - n \in 1 .. end - n /\ n + (k - n) = k
      BY <1>2, <2>2
    <3> QED BY <1>4, <1>5, <1>6, <2>2, <3>1
  <2> QED BY <2>1, <2>2
<1> QED BY <1>5, <1>6, <1>7 DEF HeadOf
(* handleStatsDeliverability sorts, turns round and slices.                *)
LEMMA AnswerReport ==
  ASSUME PagesInv, ReportInv, handleStatsDeliverability
  PROVE  ReportInv'
<1> SUFFICES ASSUME IsReport' PROVE ReportInv'
  BY DEF ReportInv
<1> DEFINE sorted == ComputeDeliverability(walk.got)
           entries == IF walk.desc THEN Reverse(sorted) ELSE sorted
           gone == walk.domain # "" /\ indexOfDomain(entries, walk.domain) = {}
           start == StartOfPage(entries)
           beyond == start - 1 + (IF walk.limit <= 0 THEN DefaultPage ELSE walk.limit)
           end == IF beyond > Len(entries) THEN Len(entries) ELSE beyond
           more == end < Len(entries)
           slice == SubSeq(entries, start, end)
<1>1. /\ StoreInv /\ Shape(walk) /\ walk.limit \in {0, MaxPage} /\ walk.pc = "scanned"
      /\ UNCHANGED <<rows, stamped, moved>>
  BY DEF PagesInv, WalkInv, handleStatsDeliverability
<1>2. \/ gone /\ walk' = [walk EXCEPT !.pc = "refused", !.got = <<>>]
      \/ ~gone /\ walk' = [walk EXCEPT !.domains = @ \o slice, !.got = <<>>,
                                       !.domain = IF more THEN entries[end] ELSE "",
                                       !.pc = IF more THEN "walking" ELSE "done"]
  BY Zenon DEF handleStatsDeliverability
<1> HIDE DEF gone, slice, more, end, beyond, start, entries, sorted
<1>3. PICK pc, domain, domains :
        /\ walk' = [pc |-> pc, kind |-> walk.kind, class |-> walk.class, from |-> walk.from, limit |-> walk.limit,
                    desc |-> walk.desc, cursor |-> walk.cursor, got |-> <<>>, domain |-> domain, domains |-> domains]
        /\ pc = IF gone THEN "refused" ELSE IF more THEN "walking" ELSE "done"
        /\ ~gone => domains = walk.domains \o slice /\ domain = IF more THEN entries[end] ELSE ""
        /\ gone => domains = walk.domains /\ domain = walk.domain
  <2>1. CASE gone
    <3>1. walk' = [pc |-> "refused", kind |-> walk.kind, class |-> walk.class, from |-> walk.from,
                   limit |-> walk.limit, desc |-> walk.desc, cursor |-> walk.cursor, got |-> <<>>,
                   domain |-> walk.domain, domains |-> walk.domains]
      BY <1>1, <1>2, <2>1 DEF Shape
    <3> QED BY <2>1, <3>1, Zenon
  <2>2. CASE ~gone
    <3>1. walk' = [pc |-> IF more THEN "walking" ELSE "done", kind |-> walk.kind, class |-> walk.class,
                   from |-> walk.from, limit |-> walk.limit, desc |-> walk.desc, cursor |-> walk.cursor,
                   got |-> <<>>, domain |-> IF more THEN entries[end] ELSE "", domains |-> walk.domains \o slice]
      BY <1>1, <1>2, <2>2 DEF Shape
    <3> QED BY <2>2, <3>1, Zenon
  <2> QED BY <2>1, <2>2
<1>4. /\ walk'.pc = pc /\ walk'.kind = walk.kind /\ walk'.class = walk.class /\ walk'.from = walk.from
      /\ walk'.desc = walk.desc /\ walk'.cursor = walk.cursor /\ walk'.got = <<>>
      /\ walk'.domain = domain /\ walk'.domains = domains
  BY <1>3
<1>5. pc \in {"refused", "walking", "done"}
  BY <1>3
<1>6. IsReport
  BY <1>4 DEF IsReport
<1>7. DomainsKnown /\ walk.class = "" /\ (~moved => Scanned /\ Told)
  BY <1>1, <1>6 DEF ReportInv
<1>8. DomainsKnown' /\ Wants' = Wants /\ Entries' = Entries
  <2>1. Present' = Present
    BY <1>1 DEF Present
  <2>2. Wants' = Wants
    BY <1>1, <1>4, <2>1 DEF Wants, FromBound
  <2>3. LinksOf(Wants)' = LinksOf(Wants)
    BY <1>1, <2>2 DEF LinksOf, Seen
  <2> QED BY <1>1, <1>4, <1>7, <2>1, <2>2, <2>3 DEF DomainsKnown, Entries
<1>9. ASSUME ~moved PROVE Scanned' /\ Told'
  <2>1. PICK ids : walk.cursor = NoCursor /\ walk.got = Image(ids) /\ Lists(ids, Wants)
    BY <1>1, <1>7, <1>9 DEF Scanned, ScanOf
  <2>2. sorted = ByRate(RatesOf(LinksOf(Wants)))
    <3>1. Lists(walk.got, LinksOf(Wants))
      BY <2>1, ImageLists
    <3> QED BY <1>1, <1>7, <3>1, SameReport DEF sorted
  <2>3. entries = Entries
    BY <2>2 DEF entries, Entries
  <2>4. entries \in Seq(Domain) /\ \A j, k \in 1 .. Len(entries) : entries[j] = entries[k] => j = k
    BY <1>1, <1>7, <2>3, EntriesAre
  <2>5. PICK m \in Nat : m = Len(entries)
    BY <2>4
  <2>6. PICK n \in 0 .. m : /\ walk.domains \in Seq(Domain) /\ Len(walk.domains) = n
                            /\ \A k \in 1 .. n : walk.domains[k] = entries[k]
                            /\ CursorIn(entries, n)
    BY <1>1, <1>7, <1>9, <2>3, <2>5 DEF Told, CursorAt
  <2>7. start = n + 1 /\ ~gone
    <3>1. /\ StartOfPage(entries) = n + 1
          /\ walk.domain # "" => indexOfDomain(entries, walk.domain) # {}
      BY ONLY <2>4, <2>5, <2>6, PageStart
    <3> QED BY <3>1, Zenon DEF start, gone
  <2>8. end \in n .. m /\ (more <=> end < m) /\ (more => end > n)
    <3>1. PICK step : step = IF walk.limit <= 0 THEN DefaultPage ELSE walk.limit
      OBVIOUS
    <3>2. step \in Nat \ {0}
      BY <1>1, <3>1, Sizes
    <3>3. beyond = n + step
      <4>1. beyond = (n + 1) - 1 + step
        BY <2>7, <3>1 DEF beyond
      <4> QED BY <2>6, <3>2, <4>1
    <3>4. end = IF n + step > m THEN m ELSE n + step
      BY <2>5, <3>3 DEF end
    <3>5. more <=> end < m
      BY <2>5 DEF more
    <3> QED BY <2>5, <2>6, <3>2, <3>4, <3>5
  <2>9. PICK E \in Seq(Domain), e \in 0 .. m : E = entries /\ e = end
    <3>1. end \in 0 .. m
      BY <2>6, <2>8
    <3> QED BY <2>4, <3>1
  <2>10. domains \in Seq(Domain) /\ Len(domains) = e /\ \A k \in 1 .. e : domains[k] = E[k]
    <3>1. PICK told : told = walk.domains
      OBVIOUS
    <3>2. domains = told \o SubSeq(E, n + 1, e)
      BY <1>3, <2>7, <2>9, <3>1 DEF slice
    <3>3. HeadOf(told, E, n) /\ E \in Seq(Domain) /\ n \in 0 .. Len(E) /\ e \in n .. Len(E)
      BY <2>5, <2>6, <2>8, <2>9, <3>1 DEF HeadOf
    <3>4. HeadOf(domains, E, e)
      BY ONLY <3>2, <3>3, OnePageMore
    <3> QED BY <3>4 DEF HeadOf
  <2>11. walk'.pc = "walking" => CursorIn(E, e)'
    <3>1. ASSUME walk'.pc = "walking" PROVE e > 0 /\ walk'.domain = E[e]
      <4>1. more
        BY <1>3, <1>4, <2>7, <3>1
      <4>2. e > 0
        BY <2>6, <2>8, <2>9, <4>1
      <4> QED BY <1>3, <1>4, <2>7, <2>9, <4>1, <4>2
    <3> QED BY <3>1, Zenon DEF CursorIn
  <2>12. Told'
    <3>1. Entries' = E
      BY <1>8, <2>3, <2>9
    <3>2. walk'.pc # "scanned"
      BY <1>4, <1>5
    <3>3. walk'.pc = "done" => e = m
      <4>1. walk'.pc = "done" => ~more
        BY <1>3, <1>4, <2>7
      <4> QED BY <2>5, <2>6, <2>8, <2>9, <4>1
    <3>4. CursorAt(e)' <=> CursorIn(E, e)'
      BY <3>1 DEF CursorAt, CursorIn
    <3> QED BY <1>4, <2>5, <2>9, <2>10, <2>11, <3>1, <3>2, <3>3, <3>4 DEF Told
  <2>13. Scanned'
    <3>1. pc = "walking" \/ pc = "done"
      BY <1>3, <2>7
    <3>2. (Image(<<>>) = <<>>)'
      BY ImageEmpty, PTL
    <3>3. Walked(<<>>, Wants, NoCursor)'
      <4>1. <<>> \in Seq(Wants') /\ 1 .. Len(<<>>) = {}
        BY Empty
      <4>2. \A i : AfterCursor(i, NoCursor)'
        BY DEF AfterCursor
      <4> QED BY <4>1, <4>2 DEF Walked
    <3>4. ScanOf(<<>>)'
      BY <1>4, <2>1, <3>1, <3>2, <3>3 DEF ScanOf, Cursor
    <3> QED BY <3>4 DEF Scanned
  <2> QED BY <2>12, <2>13
<1>10. walk'.class = "" /\ walk'.pc \in {"idle", "walking", "scanned", "done", "refused"} /\ walk'.pc # "idle"
  BY <1>4, <1>5, <1>7
<1> QED BY <1>1, <1>8, <1>9, <1>10 DEF ReportInv
(* Every step keeps it.                                                    *)
LEMMA ReportInvStep ==
  ASSUME PagesInv, ReportInv, [Next]_vars
  PROVE  ReportInv'
<1>1. CASE UNCHANGED vars
  <2>1. walk' = walk /\ rows' = rows /\ stamped' = stamped /\ moved' = moved
    BY <1>1 DEF vars
  <2>2. IsReport => DomainsKnown'
    <3>1. Present' = Present
      BY <2>1 DEF Present
    <3> QED BY <2>1, <3>1 DEF ReportInv, DomainsKnown
  <2> QED BY <2>1, <2>2, ReportSurvives
<1>2. CASE listLinks \/ listMessages \/ listAttachments \/ listAPITokens
  <2>1. ~IsReport
    BY <1>2 DEF listLinks, listMessages, listAttachments, listAPITokens, IsReport
  <2>2. \E page : Serve(page)
    BY <1>2, Zenon DEF listLinks, listMessages, listAttachments, listAPITokens
  <2>3. PICK page : Serve(page)
    BY <2>2
  <2>4. walk' = [walk EXCEPT !.got = @ \o page.rows, !.cursor = page.next,
                             !.pc = IF page.next = NoCursor THEN "done" ELSE "walking"]
    BY <2>3 DEF Serve
  <2>5. walk'.kind = walk.kind
    BY <2>4 DEF PagesInv, WalkInv, Shape
  <2>6. ~IsReport'
    BY <2>1, <2>5 DEF IsReport
  <2> QED BY <2>6 DEF ReportInv
<1> QED BY <1>1, <1>2, WritersReport, BeginReport, ScanReport, AnswerReport DEF Next

(* If the links do not change between the requests, the pages of the       *)
(* deliverability report are the report: every domain once, worst first,   *)
(* although each request scans the links anew (ReportComplete of the run on *)
(* Listing): ComputeDeliverability and handleStatsDeliverability, for any  *)
(* links, domains and page sizes.                                          *)
THEOREM ReportPagesComplete == Spec => []ReportComplete
<1>1. Init => PagesInv /\ ReportInv
  BY PagesInvInit, ReportInvInit
<1>2. PagesInv /\ ReportInv /\ [Next]_vars => (PagesInv /\ ReportInv)'
  BY PagesInvStep, ReportInvStep
<1>3. PagesInv /\ ReportInv => ReportComplete
  BY ReportInvExact
<1> QED BY <1>1, <1>2, <1>3, PTL DEF Spec
=============================================================================
