---------------------------- MODULE MilterProofs -----------------------------
(***************************************************************************)
(* Machine-checked proofs about Milter: the modifier calls of              *)
(* replaceMessage turn any header block into the rewritten one and leave   *)
(* the unchanged headers alone, for any names, values and lengths.  First  *)
(* how the lines of a set of names move when the MTA appends, changes or   *)
(* removes a line; then the order of the calls; then the session.          *)
(***************************************************************************)
EXTENDS Milter, FiniteSetTheorems, SequenceTheorems, WellFoundedInduction, TLAPS

-----------------------------------------------------------------------------
(* The k-th of a set of positions.                                         *)

(* A non-empty set of naturals has a least element.                        *)
LEMMA LeastExists ==
  ASSUME NEW S, S \subseteq Nat, S # {}
  PROVE  \E x \in S : \A y \in S : x <= y
<1>1. PICK x \in S : \A y \in S : ~(<<y, x>> \in OpToRel(<, Nat))
  BY NatLessThanWellFounded, WFMin, Zenon
<1>2. ASSUME NEW y \in S PROVE x <= y
  <2>1. ~(<<y, x>> \in OpToRel(<, Nat))
    BY <1>1
  <2>2. x \in Nat /\ y \in Nat
    OBVIOUS
  <2>3. ~(y < x)
    BY <2>1, <2>2 DEF OpToRel
  <2> QED BY <2>2, <2>3
<1> QED BY <1>2

(* Nth counts a finite set of naturals in its order.                       *)
LEMMA NthIs ==
  ASSUME NEW P, P \subseteq Nat, IsFiniteSet(P), NEW n, n = Cardinality(P)
  PROVE  /\ n \in Nat
         /\ \A k \in 1 .. n : Nth(P, k) \in P
         /\ \A i \in P : \E k \in 1 .. n : Nth(P, k) = i
         /\ \A j, k \in 1 .. n : j < k => Nth(P, j) < Nth(P, k)
<1> DEFINE UpTo(i) == {j \in P : j <= i}
           rank == [i \in P |-> Cardinality(UpTo(i))]
<1>1. n \in Nat
  BY FS_CardinalityType
<1>2. ASSUME NEW i \in P
      PROVE  IsFiniteSet(UpTo(i)) /\ Cardinality(UpTo(i)) \in 1 .. n
  <2>1. UpTo(i) \subseteq P /\ i \in UpTo(i)
    OBVIOUS
  <2>2. IsFiniteSet(UpTo(i)) /\ Cardinality(UpTo(i)) <= n
    BY <2>1, FS_Subset
  <2>3. Cardinality(UpTo(i)) \in Nat /\ Cardinality(UpTo(i)) # 0
    BY <2>1, <2>2, FS_CardinalityType, FS_EmptySet
  <2> QED BY <1>1, <2>2, <2>3
<1>3. ASSUME NEW i \in P, NEW j \in P, i < j PROVE Cardinality(UpTo(i)) < Cardinality(UpTo(j))
  <2>1. UpTo(i) \subseteq UpTo(j) /\ j \in UpTo(j) /\ j \notin UpTo(i)
    <3>1. i \in Nat /\ j \in Nat /\ ~(j <= i) /\ j <= j
      BY <1>3
    <3>2. \A k \in P : k \in Nat /\ (k <= i => k <= j)
      BY <1>3, <3>1
    <3> QED BY <3>1, <3>2
  <2>2. UpTo(i) \cup {j} \subseteq UpTo(j) /\ Cardinality(UpTo(i) \cup {j}) = Cardinality(UpTo(i)) + 1
    BY <1>2, <2>1, FS_AddElement
  <2>3. Cardinality(UpTo(i) \cup {j}) <= Cardinality(UpTo(j))
    BY <1>2, <2>2, FS_Subset
  <2>4. Cardinality(UpTo(i)) \in Nat /\ Cardinality(UpTo(j)) \in Nat
    BY <1>1, <1>2
  <2> HIDE DEF UpTo
  <2> QED BY <2>2, <2>3, <2>4
<1>4. /\ rank \in [P -> 1 .. n]
      /\ \A i, j \in P : i < j => rank[i] < rank[j]
  BY <1>2, <1>3
<1>5. \A k : \A i \in P : rank[i] = k <=> Cardinality({j \in P : j <= i}) = k
  OBVIOUS
<1> HIDE DEF rank
<1>6. \A i, j \in P : rank[i] = rank[j] => i = j
  <2> SUFFICES ASSUME NEW i \in P, NEW j \in P, rank[i] = rank[j], i < j \/ j < i PROVE FALSE
    OBVIOUS
  <2>1. rank[i] \in Nat /\ rank[j] \in Nat
    BY <1>1, <1>4
  <2> QED BY <1>4, <2>1
<1>7. rank \in Injection(P, 1 .. n)
  BY <1>4, <1>6 DEF Injection, IsInjective
<1>8. IsFiniteSet(1 .. n) /\ Cardinality(1 .. n) = n
  BY <1>1, FS_Interval
<1>9. rank \in Surjection(P, 1 .. n)
  BY <1>7, <1>8, FS_Injection
<1>10. \A k \in 1 .. n : \E i \in P : rank[i] = k
  BY <1>9 DEF Surjection
<1>11. \A k \in 1 .. n : Nth(P, k) \in P /\ rank[Nth(P, k)] = k
  BY ZenonT(30), <1>5, <1>10 DEF Nth
<1>12. ASSUME NEW i \in P PROVE \E k \in 1 .. n : Nth(P, k) = i
  <2>1. rank[i] \in 1 .. n
    BY <1>4
  <2> QED BY <1>6, <1>11, <2>1
<1>13. ASSUME NEW j \in 1 .. n, NEW k \in 1 .. n, j < k PROVE Nth(P, j) < Nth(P, k)
  <2>1. PICK a \in P, b \in P : a = Nth(P, j) /\ b = Nth(P, k) /\ rank[a] = j /\ rank[b] = k
    BY <1>11
  <2>2. a # b /\ ~(b < a)
    BY <1>4, <1>13, <2>1
  <2> QED BY <2>1, <2>2
<1> QED BY <1>1, <1>11, <1>12, <1>13

(* There is one way to count it.                                           *)
LEMMA NthUnique ==
  ASSUME NEW P, P \subseteq Nat, IsFiniteSet(P), NEW m \in Nat, NEW e \in [1 .. m -> P],
         \A j, k \in 1 .. m : j < k => e[j] < e[k],
         \A i \in P : \E k \in 1 .. m : e[k] = i
  PROVE  Cardinality(P) = m /\ \A k \in 1 .. m : Nth(P, k) = e[k]
<1>1. \A k \in 1 .. m : e[k] \in Nat
  OBVIOUS
<1>2. \A j, k \in 1 .. m : e[j] = e[k] => j = k
  <2> SUFFICES ASSUME NEW j \in 1 .. m, NEW k \in 1 .. m, e[j] = e[k], j < k \/ k < j PROVE FALSE
    OBVIOUS
  <2> QED BY <1>1
<1>3. e \in Bijection(1 .. m, P)
  BY <1>2 DEF Bijection, Injection, Surjection, IsInjective
<1>4. IsFiniteSet(1 .. m) /\ Cardinality(1 .. m) = m
  BY FS_Interval
<1>5. Cardinality(P) = m
  BY <1>3, <1>4, FS_Bijection DEF ExistsBijection
<1>6. /\ \A k \in 1 .. m : Nth(P, k) \in P
      /\ \A i \in P : \E k \in 1 .. m : Nth(P, k) = i
      /\ \A j, k \in 1 .. m : j < k => Nth(P, j) < Nth(P, k)
  BY <1>5, NthIs
<1> DEFINE wrong == {k \in 1 .. m : Nth(P, k) # e[k]}
<1>7. wrong = {}
  <2> SUFFICES ASSUME wrong # {} PROVE FALSE
    OBVIOUS
  <2>1. wrong \subseteq Nat
    OBVIOUS
  <2>2. PICK k \in wrong : \A j \in wrong : k <= j
    BY <2>1, LeastExists
  <2>3. k \in 1 .. m /\ Nth(P, k) # e[k] /\ \A j \in 1 .. m : j < k => Nth(P, j) = e[j]
    <3>1. \A j \in 1 .. m : j < k => ~(k <= j)
      OBVIOUS
    <3> QED BY <2>2, <3>1
  <2> HIDE DEF wrong
  <2>4. PICK a \in 1 .. m : Nth(P, a) = e[k]
    BY <1>6, <2>3
  <2>5. PICK b \in 1 .. m : e[b] = Nth(P, k)
    BY <1>6, <2>3
  <2>6. k < a
    BY <1>2, <2>3, <2>4
  <2>7. k < b
    <3>1. b # k
      BY <2>3, <2>5
    <3>2. ~(b < k)
      <4> SUFFICES ASSUME b < k PROVE FALSE
        OBVIOUS
      <4>1. Nth(P, b) = Nth(P, k) /\ Nth(P, b) < Nth(P, k)
        BY <1>6, <2>3, <2>5
      <4>2. Nth(P, k) \in Nat
        BY <1>6, <2>3
      <4> QED BY <4>1, <4>2
    <3> QED BY <2>3, <3>1, <3>2
  <2>8. PICK x \in Nat, y \in Nat : x = Nth(P, k) /\ y = e[k]
    BY <1>1, <1>6, <2>3
  <2>9. x < y
    BY <1>6, <2>3, <2>4, <2>6, <2>8
  <2>10. y < x
    BY <2>3, <2>5, <2>7, <2>8
  <2> QED BY <2>9, <2>10
<1> QED BY <1>5, <1>7

-----------------------------------------------------------------------------
(* The lines of a set of names.                                            *)

(* What Lines returns.                                                     *)
LEMMA LinesAre ==
  ASSUME NEW hs \in Seq(Header), NEW names, NEW P, P = Positions(hs, names), NEW ls, ls = Lines(hs, names),
         NEW n, n = Cardinality(P)
  PROVE  /\ P \subseteq 1 .. Len(hs) /\ P \subseteq Nat /\ IsFiniteSet(P) /\ n \in Nat
         /\ ls \in Seq(Header) /\ Len(ls) = n
         /\ \A k \in 1 .. n : Nth(P, k) \in P /\ Nth(P, k) \in 1 .. Len(hs) /\ ls[k] = hs[Nth(P, k)]
<1>1. Len(hs) \in Nat /\ DOMAIN hs = 1 .. Len(hs) /\ \A k \in 1 .. Len(hs) : hs[k] \in Header
  OBVIOUS
<1>2. P \subseteq 1 .. Len(hs) /\ P \subseteq Nat
  BY <1>1 DEF Positions
<1>3. IsFiniteSet(P)
  <2>1. IsFiniteSet(1 .. Len(hs))
    BY <1>1, FS_Interval
  <2> QED BY <1>2, <2>1, FS_Subset
<1>4. n \in Nat /\ \A k \in 1 .. n : Nth(P, k) \in P
  BY <1>2, <1>3, NthIs
<1>5. ls = [k \in 1 .. n |-> hs[Nth(P, k)]]
  BY DEF Lines
<1>6. ls \in Seq(Header) /\ Len(ls) = n
  BY <1>1, <1>2, <1>4, <1>5
<1> QED BY <1>2, <1>3, <1>4, <1>5, <1>6

(* e counts P from 1 to m, in its order.                                   *)
Counts(e, m, P) ==
  /\ m \in Nat /\ e \in [1 .. m -> P]
  /\ \A j, k \in 1 .. m : j < k => e[j] < e[k]
  /\ \A i \in P : \E k \in 1 .. m : e[k] = i

(* Any way to count the positions gives the lines.                         *)
LEMMA LinesFrom ==
  ASSUME NEW hs, hs \in Seq(Header), NEW names, NEW ls, ls = Lines(hs, names),
         NEW m, NEW e, Counts(e, m, Positions(hs, names))
  PROVE  ls \in Seq(Header) /\ Len(ls) = m /\ \A k \in 1 .. m : ls[k] = hs[e[k]]
<1>p. PICK P : P = Positions(hs, names)
  OBVIOUS
<1>0. /\ m \in Nat /\ e \in [1 .. m -> P]
      /\ \A j, k \in 1 .. m : j < k => e[j] < e[k]
      /\ \A i \in P : \E k \in 1 .. m : e[k] = i
  BY <1>p DEF Counts
<1>1. P \subseteq Nat /\ IsFiniteSet(P)
  BY <1>p, LinesAre
<1>2. Cardinality(P) = m /\ \A k \in 1 .. m : Nth(P, k) = e[k]
  BY ONLY <1>0, <1>1, NthUnique
<1> QED BY <1>p, <1>2, LinesAre

(* Lines of the same length with the same entries are the same.            *)
LEMMA SameLines ==
  ASSUME NEW s \in Seq(Header), NEW r \in Seq(Header), Len(s) = Len(r), \A k \in 1 .. Len(s) : s[k] = r[k]
  PROVE  s = r
BY SeqEqual

(* The MTA appends a line, or changes the value of one.                     *)
Appended(hs2, hs, h) == hs2 = Append(hs, h)
Changed(hs2, hs, p, x) == hs2 = [hs EXCEPT ![p].value = x]

(* The line comes after those of its name.                                 *)
LEMMA AppendLines ==
  ASSUME NEW hs \in Seq(Header), NEW h \in Header, NEW names, NEW ls, ls = Lines(hs, names),
         NEW hs2, Appended(hs2, hs, h), NEW ls2, ls2 = Lines(hs2, names)
  PROVE  /\ hs2 \in Seq(Header)
         /\ h.name \notin names => ls2 = ls
         /\ h.name \in names =>
              /\ Len(ls2) = Len(ls) + 1 /\ ls2[Len(ls) + 1] = h
              /\ \A k \in 1 .. Len(ls) : ls2[k] = ls[k]
<1>1. PICK len \in Nat : len = Len(hs)
  OBVIOUS
<1>2. /\ hs2 \in Seq(Header) /\ Len(hs2) = len + 1 /\ hs2[len + 1] = h
      /\ \A i \in 1 .. len : hs2[i] = hs[i]
  BY <1>1 DEF Appended
<1>3. PICK P : P = Positions(hs, names)
  OBVIOUS
<1>4. PICK n : n = Cardinality(P)
  OBVIOUS
<1>5. /\ P \subseteq 1 .. len /\ P \subseteq Nat /\ IsFiniteSet(P) /\ n \in Nat
      /\ ls \in Seq(Header) /\ Len(ls) = n /\ \A k \in 1 .. n : ls[k] = hs[Nth(P, k)]
  BY <1>1, <1>3, <1>4, LinesAre
<1>6. /\ \A k \in 1 .. n : Nth(P, k) \in P
      /\ \A i \in P : \E k \in 1 .. n : Nth(P, k) = i
      /\ \A j, k \in 1 .. n : j < k => Nth(P, j) < Nth(P, k)
  BY <1>4, <1>5, NthIs
<1>7. \A i \in 1 .. len : i \in P <=> hs[i].name \in names
  BY <1>1, <1>3 DEF Positions
<1>8. PICK Q : Q = Positions(hs2, names)
  OBVIOUS
<1>9. \A i : i \in Q <=> i \in 1 .. len + 1 /\ hs2[i].name \in names
  BY <1>2, <1>8 DEF Positions
<1>10. Q = IF h.name \in names THEN P \cup {len + 1} ELSE P
  <2>1. \A i : i \in 1 .. len + 1 <=> i \in 1 .. len \/ i = len + 1
    BY <1>1
  <2>2. \A i : i \in P => i \in 1 .. len
    BY <1>5
  <2>3. \A i \in 1 .. len : i \in Q <=> i \in P
    BY <1>2, <1>7, <1>9, <2>1
  <2>4. len + 1 \in Q <=> h.name \in names
    BY <1>2, <1>9, <2>1
  <2> QED BY <1>9, <2>1, <2>2, <2>3, <2>4
<1>11. CASE h.name \notin names
  <2>1. Q = P
    BY <1>10, <1>11
  <2>e. PICK e : e = [k \in 1 .. n |-> Nth(P, k)]
    OBVIOUS
  <2>2. e \in [1 .. n -> Q] /\ \A k \in 1 .. n : e[k] = Nth(P, k)
    BY <1>6, <2>1, <2>e
  <2>3. \A j, k \in 1 .. n : j < k => e[j] < e[k]
    BY <1>6, <2>2
  <2>4. \A i \in Q : \E k \in 1 .. n : e[k] = i
    BY <1>6, <2>1, <2>2
  <2>c. Counts(e, n, Positions(hs2, names))
    BY <1>5, <1>8, <2>2, <2>3, <2>4 DEF Counts
  <2>5. ls2 \in Seq(Header) /\ Len(ls2) = n /\ \A k \in 1 .. n : ls2[k] = hs2[e[k]]
    BY ONLY <1>2, <2>c, LinesFrom, ls2 = Lines(hs2, names)
  <2>6. ASSUME NEW k \in 1 .. n PROVE ls2[k] = ls[k]
    <3>1. PICK i \in 1 .. len : i = Nth(P, k)
      BY <1>5, <1>6
    <3>2. ls2[k] = hs2[i] /\ ls[k] = hs[i]
      BY ONLY <1>5, <2>2, <2>5, <3>1, k \in 1 .. n
    <3> QED BY ONLY <1>2, <3>1, <3>2
  <2>7. ls2 = ls
    BY <1>5, <2>5, <2>6, SameLines
  <2> QED BY <1>2, <1>11, <2>7
<1>12. CASE h.name \in names
  <2> DEFINE e == [k \in 1 .. n + 1 |-> IF k = n + 1 THEN len + 1 ELSE Nth(P, k)]
  <2>1. Q = P \cup {len + 1}
    BY <1>10, <1>12
  <2>2. \A k \in 1 .. n + 1 : k \in 1 .. n \/ k = n + 1
    BY <1>5
  <2>3. \A k \in 1 .. n : k \in 1 .. n + 1 /\ k # n + 1
    BY <1>5
  <2>4. n + 1 \in 1 .. n + 1
    BY <1>5
  <2>5. e \in [1 .. n + 1 -> Q] /\ e[n + 1] = len + 1 /\ \A k \in 1 .. n : e[k] = Nth(P, k)
    BY <1>6, <2>1, <2>2, <2>3, <2>4
  <2> HIDE DEF e
  <2>6. ASSUME NEW j \in 1 .. n + 1, NEW k \in 1 .. n + 1, j < k PROVE e[j] < e[k]
    <3>1. j \in 1 .. n
      BY <1>5, <2>6
    <3>2. e[j] = Nth(P, j) /\ e[j] \in P /\ e[j] \in 1 .. len
      BY <1>5, <1>6, <2>5, <3>1
    <3>3. CASE k \in 1 .. n
      BY <1>6, <2>5, <2>6, <3>1, <3>3
    <3>4. CASE k = n + 1
      BY <1>1, <2>5, <3>2, <3>4
    <3> QED BY <2>2, <3>3, <3>4
  <2>7. \A i \in Q : \E k \in 1 .. n + 1 : e[k] = i
    BY <1>6, <2>1, <2>3, <2>4, <2>5
  <2>8. PICK m \in Nat : m = n + 1
    BY <1>5
  <2>9. Len(ls2) = m /\ \A k \in 1 .. m : ls2[k] = hs2[e[k]]
    <3>1. Counts(e, m, Positions(hs2, names))
      BY <1>8, <2>5, <2>6, <2>7, <2>8 DEF Counts
    <3> QED BY ONLY SMTT(30), <1>2, <3>1, LinesFrom, ls2 = Lines(hs2, names)
  <2>10. \A k \in 1 .. n : hs2[e[k]] = hs[Nth(P, k)]
    BY <1>2, <1>5, <1>6, <2>5
  <2>11. Len(ls2) = n + 1 /\ ls2[n + 1] = h
    BY <1>2, <2>4, <2>5, <2>8, <2>9
  <2>12. \A k \in 1 .. n : ls2[k] = ls[k]
    BY <1>5, <2>3, <2>8, <2>9, <2>10
  <2> QED BY <1>2, <1>5, <1>12, <2>11, <2>12
<1> QED BY <1>11, <1>12

(* Of lines counted by P, the one at p has another value.                  *)
OneChanged(ls2, ls, P, p, x) ==
  /\ Len(ls2) = Len(ls)
  /\ \A k \in 1 .. Len(ls) : ls2[k] = IF Nth(P, k) = p THEN [ls[k] EXCEPT !.value = x] ELSE ls[k]

(* A change leaves the other lines alone.                                  *)
LEMMA ChangeLines ==
  ASSUME NEW hs \in Seq(Header), NEW p \in 1 .. Len(hs), NEW x \in Value, NEW names, NEW ls, ls = Lines(hs, names),
         NEW hs2, Changed(hs2, hs, p, x), NEW ls2, ls2 = Lines(hs2, names)
  PROVE  /\ hs2 \in Seq(Header)
         /\ hs[p].name \notin names => ls2 = ls
         /\ OneChanged(ls2, ls, Positions(hs, names), p, x)
<1>1. PICK len \in Nat : len = Len(hs)
  OBVIOUS
<1>2. PICK h \in Header : h = hs[p]
  OBVIOUS
<1>3. PICK g : g = [h EXCEPT !.value = x]
  OBVIOUS
<1>4. g \in Header /\ g.name = h.name
  BY <1>2, <1>3 DEF Header
<1>5. hs2 = [hs EXCEPT ![p] = g]
  BY <1>2, <1>3 DEF Changed
<1>6. /\ hs2 \in Seq(Header) /\ Len(hs2) = len /\ hs2[p] = g
      /\ \A i \in 1 .. len : hs2[i] = (IF i = p THEN g ELSE hs[i]) /\ hs2[i].name = hs[i].name
  BY <1>1, <1>2, <1>4, <1>5
<1>7. PICK P : P = Positions(hs, names)
  OBVIOUS
<1>8. PICK n : n = Cardinality(P)
  OBVIOUS
<1>9. /\ P \subseteq 1 .. len /\ n \in Nat
      /\ ls \in Seq(Header) /\ Len(ls) = n
      /\ \A k \in 1 .. n : Nth(P, k) \in P /\ Nth(P, k) \in 1 .. len /\ ls[k] = hs[Nth(P, k)]
  BY <1>1, <1>7, <1>8, LinesAre
<1>10. P = Positions(hs2, names)
  BY <1>1, <1>6, <1>7 DEF Positions
<1>11. ls2 \in Seq(Header) /\ Len(ls2) = n /\ \A k \in 1 .. n : ls2[k] = hs2[Nth(P, k)]
  BY ONLY <1>6, <1>8, <1>10, LinesAre, ls2 = Lines(hs2, names)
<1>12. ASSUME NEW k \in 1 .. n
       PROVE  ls2[k] = IF Nth(P, k) = p THEN [ls[k] EXCEPT !.value = x] ELSE ls[k]
  <2>1. ls2[k] = hs2[Nth(P, k)] /\ ls[k] = hs[Nth(P, k)] /\ Nth(P, k) \in 1 .. len
    BY <1>9, <1>11
  <2> QED BY <1>2, <1>3, <1>6, <2>1
<1>13. ASSUME hs[p].name \notin names PROVE ls2 = ls
  <2>1. p \notin P
    BY <1>7, <1>13 DEF Positions
  <2>2. \A k \in 1 .. n : ls2[k] = ls[k]
    BY <1>6, <1>9, <1>11, <2>1
  <2> QED BY <1>9, <1>11, <2>2, SameLines
<1>14. OneChanged(ls2, ls, P, p, x)
  BY ONLY <1>9, <1>11, <1>12 DEF OneChanged
<1> QED BY <1>6, <1>7, <1>13, <1>14

(* Removing a position moves the ones behind it.                           *)
LEMMA RemoveAtIs ==
  ASSUME NEW hs \in Seq(Header), NEW p \in 1 .. Len(hs), NEW len \in Nat, len = Len(hs), NEW r, r = RemoveAt(hs, p)
  PROVE  r \in Seq(Header) /\ Len(r) = len - 1 /\ \A i \in 1 .. len - 1 : r[i] = IF i < p THEN hs[i] ELSE hs[i + 1]
<1>1. PICK a : a = SubSeq(hs, 1, p - 1)
  OBVIOUS
<1>2. PICK b : b = SubSeq(hs, p + 1, len)
  OBVIOUS
<1>3. \A k \in 1 .. len : hs[k] \in Header
  OBVIOUS
<1>4. p \in Nat /\ p >= 1 /\ p <= len
  OBVIOUS
<1>5. a \in Seq(Header) /\ Len(a) = p - 1 /\ \A i \in 1 .. p - 1 : a[i] = hs[i]
  <2>1. \A k \in 1 .. p - 1 : hs[k] \in Header
    BY <1>3, <1>4
  <2>2. /\ a \in Seq(Header) /\ Len(a) = IF 1 <= p - 1 THEN (p - 1) - 1 + 1 ELSE 0
        /\ \A i \in 1 .. (p - 1) - 1 + 1 : a[i] = hs[1 + i - 1]
    BY <1>1, <1>4, <2>1, SubSeqProperties
  <2>3. \A i \in 1 .. p - 1 : i \in 1 .. (p - 1) - 1 + 1 /\ 1 + i - 1 = i
    BY <1>4
  <2> QED BY <1>4, <2>2, <2>3
<1>6. b \in Seq(Header) /\ Len(b) = len - p /\ \A i \in 1 .. len - p : b[i] = hs[p + i]
  <2>1. \A k \in p + 1 .. len : hs[k] \in Header
    BY <1>3, <1>4
  <2>2. /\ b \in Seq(Header) /\ Len(b) = IF p + 1 <= len THEN len - (p + 1) + 1 ELSE 0
        /\ \A i \in 1 .. len - (p + 1) + 1 : b[i] = hs[(p + 1) + i - 1]
    BY <1>2, <1>4, <2>1, SubSeqProperties
  <2>3. \A i \in 1 .. len - p : i \in 1 .. len - (p + 1) + 1 /\ (p + 1) + i - 1 = p + i
    BY <1>4
  <2> QED BY <1>4, <2>2, <2>3
<1>7. r = a \o b
  BY <1>1, <1>2 DEF RemoveAt
<1>8. /\ r \in Seq(Header) /\ Len(r) = Len(a) + Len(b)
      /\ \A i \in 1 .. Len(a) + Len(b) : r[i] = IF i <= Len(a) THEN a[i] ELSE b[i - Len(a)]
  BY ONLY <1>5, <1>6, <1>7, ConcatProperties
<1>9. Len(a) + Len(b) = len - 1
  BY ONLY <1>4, <1>5, <1>6, len \in Nat
<1>10. ASSUME NEW i \in 1 .. len - 1 PROVE r[i] = IF i < p THEN hs[i] ELSE hs[i + 1]
  <2>1. r[i] = IF i <= p - 1 THEN a[i] ELSE b[i - (p - 1)]
    BY ONLY <1>5, <1>8, <1>9, i \in 1 .. len - 1
  <2>2. CASE i < p
    <3>1. i \in 1 .. p - 1 /\ i <= p - 1
      BY ONLY <1>4, <2>2, i \in 1 .. len - 1, len \in Nat
    <3> QED BY ONLY <1>5, <2>1, <2>2, <3>1
  <2>3. CASE ~(i < p)
    <3>1. ~(i <= p - 1) /\ i - (p - 1) \in 1 .. len - p /\ p + (i - (p - 1)) = i + 1
      BY ONLY <1>4, <2>3, i \in 1 .. len - 1, len \in Nat
    <3> QED BY ONLY <1>6, <2>1, <2>3, <3>1
  <2> QED BY <2>2, <2>3
<1> QED BY <1>8, <1>9, <1>10

(* The MTA removes a line: of the last of its name nothing but itself goes.*)
LEMMA RemoveLines ==
  ASSUME NEW hs \in Seq(Header), NEW p \in 1 .. Len(hs), NEW names, NEW ls, ls = Lines(hs, names),
         NEW hs2, hs2 = RemoveAt(hs, p), NEW ls2, ls2 = Lines(hs2, names)
  PROVE  /\ hs2 \in Seq(Header)
         /\ hs[p].name \notin names => ls2 = ls
         /\ Len(ls) >= 1 /\ p = Nth(Positions(hs, names), Len(ls)) =>
              Len(ls2) = Len(ls) - 1 /\ \A k \in 1 .. Len(ls) - 1 : ls2[k] = ls[k]
<1>1. PICK len \in Nat : len = Len(hs)
  OBVIOUS
<1>2. /\ hs2 \in Seq(Header) /\ Len(hs2) = len - 1 /\ p \in Nat /\ p >= 1 /\ p <= len
      /\ \A i \in 1 .. len - 1 : hs2[i] = IF i < p THEN hs[i] ELSE hs[i + 1]
  BY <1>1, RemoveAtIs
<1>3. PICK P : P = Positions(hs, names)
  OBVIOUS
<1>4. PICK n : n = Cardinality(P)
  OBVIOUS
<1>5. /\ P \subseteq 1 .. len /\ P \subseteq Nat /\ IsFiniteSet(P) /\ n \in Nat
      /\ ls \in Seq(Header) /\ Len(ls) = n /\ \A k \in 1 .. n : ls[k] = hs[Nth(P, k)]
  BY <1>1, <1>3, <1>4, LinesAre
<1>6. /\ \A k \in 1 .. n : Nth(P, k) \in P
      /\ \A i \in P : \E k \in 1 .. n : Nth(P, k) = i
      /\ \A j, k \in 1 .. n : j < k => Nth(P, j) < Nth(P, k)
  BY <1>4, <1>5, NthIs
<1>7. \A i : i \in P <=> i \in 1 .. len /\ hs[i].name \in names
  BY <1>1, <1>3 DEF Positions
<1>8. PICK Q : Q = Positions(hs2, names)
  OBVIOUS
<1>9. \A i : i \in Q <=> i \in 1 .. len - 1 /\ hs2[i].name \in names
  BY <1>2, <1>8 DEF Positions
<1>10. \A i \in P : i \in Nat /\ i >= 1 /\ i <= len
  BY ONLY <1>1, <1>5
<1> DEFINE moved(i) == IF i < p THEN i ELSE i - 1
<1>11. ASSUME NEW i \in P, i # p
       PROVE  moved(i) \in Q /\ hs2[moved(i)] = hs[i]
  <2>1. i \in Nat /\ i >= 1 /\ i <= len /\ hs[i].name \in names
    BY ONLY <1>7, <1>10, i \in P
  <2>2. CASE i < p
    <3>1. i \in 1 .. len - 1 /\ hs2[i] = hs[i]
      BY ONLY <1>1, <1>2, <2>1, <2>2
    <3> QED BY <1>9, <2>1, <2>2, <3>1
  <2>3. CASE ~(i < p)
    <3>1. i - 1 \in 1 .. len - 1 /\ ~(i - 1 < p) /\ (i - 1) + 1 = i
      BY ONLY <1>1, <1>2, <1>11, <2>1, <2>3
    <3>2. hs2[i - 1] = hs[i]
      BY ONLY <1>2, <3>1
    <3> QED BY <1>9, <2>1, <2>3, <3>1, <3>2
  <2> QED BY <2>2, <2>3
<1>12. ASSUME NEW q \in Q PROVE \E i \in P : i # p /\ moved(i) = q
  <2>1. q \in 1 .. len - 1 /\ hs2[q].name \in names
    BY <1>9
  <2>2. CASE q < p
    <3>1. q \in 1 .. len /\ hs2[q] = hs[q] /\ q # p
      BY ONLY <1>1, <1>2, <2>1, <2>2
    <3> QED BY <1>7, <2>1, <2>2, <3>1
  <2>3. CASE ~(q < p)
    <3>1. q + 1 \in 1 .. len /\ hs2[q] = hs[q + 1] /\ q + 1 # p /\ ~(q + 1 < p) /\ (q + 1) - 1 = q
      BY ONLY <1>1, <1>2, <2>1, <2>3
    <3>2. q + 1 \in P /\ moved(q + 1) = q
      BY <1>7, <2>1, <3>1
    <3> QED BY <3>1, <3>2
  <2> QED BY <2>2, <2>3
<1>13. ASSUME NEW i \in P, NEW j \in P, i # p, j # p, i < j PROVE moved(i) < moved(j)
  BY <1>2, <1>10, <1>13
<1>14. hs[p].name \notin names => ls2 = ls
  <2> SUFFICES ASSUME hs[p].name \notin names PROVE ls2 = ls
    OBVIOUS
  <2>1. p \notin P
    BY <1>7
  <2>e. PICK e : e = [k \in 1 .. n |-> moved(Nth(P, k))]
    OBVIOUS
  <2> HIDE DEF moved
  <2>2. \A k \in 1 .. n : Nth(P, k) \in P /\ Nth(P, k) # p /\ e[k] = moved(Nth(P, k))
    BY <1>6, <2>1, <2>e
  <2>3. e \in [1 .. n -> Q]
    BY <1>11, <2>2, <2>e
  <2>4. \A j, k \in 1 .. n : j < k => e[j] < e[k]
    BY <1>6, <1>13, <2>2
  <2>5. \A q \in Q : \E k \in 1 .. n : e[k] = q
    <3> TAKE q \in Q
    <3>1. PICK i \in P : i # p /\ moved(i) = q
      BY <1>12
    <3>2. PICK k \in 1 .. n : Nth(P, k) = i
      BY <1>6
    <3> QED BY <2>2, <3>1, <3>2
  <2>6. Counts(e, n, Positions(hs2, names))
    BY <1>5, <1>8, <2>3, <2>4, <2>5 DEF Counts
  <2>7. ls2 \in Seq(Header) /\ Len(ls2) = n /\ \A k \in 1 .. n : ls2[k] = hs2[e[k]]
    BY ONLY <1>2, <2>6, LinesFrom, ls2 = Lines(hs2, names)
  <2>8. \A k \in 1 .. n : ls2[k] = ls[k]
    BY ONLY ZenonT(30), <1>5, <1>11, <2>2, <2>7
  <2> QED BY ONLY <1>5, <2>7, <2>8, SameLines
<1>15. ASSUME n >= 1, p = Nth(P, n)
       PROVE  Len(ls2) = n - 1 /\ \A k \in 1 .. n - 1 : ls2[k] = ls[k]
  <2>0. n \in 1 .. n /\ \A k \in 1 .. n - 1 : k \in 1 .. n /\ k < n
    BY ONLY <1>5, <1>15
  <2>1. \A k \in 1 .. n - 1 : Nth(P, k) \in P /\ Nth(P, k) < p
    BY <1>6, <1>15, <2>0
  <2>e. PICK e : e = [k \in 1 .. n - 1 |-> Nth(P, k)]
    OBVIOUS
  <2>2. \A k \in 1 .. n - 1 : Nth(P, k) # p /\ moved(Nth(P, k)) = Nth(P, k) /\ e[k] = Nth(P, k)
    <3>1. \A k \in 1 .. n - 1 : Nth(P, k) # p
      BY <1>2, <1>10, <2>1
    <3> QED BY <2>1, <2>e, <3>1
  <2>9. \A i \in P : i # p => \E k \in 1 .. n - 1 : Nth(P, k) = i
    <3> SUFFICES ASSUME NEW i \in P, i # p PROVE \E k \in 1 .. n - 1 : Nth(P, k) = i
      OBVIOUS
    <3>1. PICK k \in 1 .. n : Nth(P, k) = i
      BY <1>6
    <3>2. k # n
      BY <1>15, <3>1
    <3>3. k \in 1 .. n - 1
      BY <1>5, <3>2
    <3> QED BY <3>1, <3>3
  <2> HIDE DEF moved
  <2>3. e \in [1 .. n - 1 -> Q]
    BY <1>11, <2>1, <2>2, <2>e
  <2>4. \A j, k \in 1 .. n - 1 : j < k => e[j] < e[k]
    BY <1>6, <2>0, <2>2
  <2>5. \A q \in Q : \E k \in 1 .. n - 1 : e[k] = q
    <3> TAKE q \in Q
    <3>1. PICK i \in P : i # p /\ moved(i) = q
      BY <1>12
    <3>2. PICK k \in 1 .. n - 1 : Nth(P, k) = i
      BY <2>9, <3>1
    <3> QED BY <2>2, <3>1, <3>2
  <2>m. PICK m \in Nat : m = n - 1
    BY <1>5, <1>15
  <2>6. Counts(e, m, Positions(hs2, names))
    BY <1>8, <2>3, <2>4, <2>5, <2>m DEF Counts
  <2>7. ls2 \in Seq(Header) /\ Len(ls2) = m /\ \A k \in 1 .. m : ls2[k] = hs2[e[k]]
    BY ONLY <1>2, <2>6, LinesFrom, ls2 = Lines(hs2, names)
  <2>8. ASSUME NEW k \in 1 .. n - 1 PROVE ls2[k] = ls[k]
    <3>1. PICK i \in P : i = Nth(P, k) /\ i # p /\ moved(i) = i
      BY <2>1, <2>2
    <3>2. ls2[k] = hs2[i] /\ ls[k] = hs[i]
      BY <1>5, <2>0, <2>2, <2>7, <2>m, <3>1
    <3> QED BY <1>11, <3>1, <3>2
  <2> QED BY <2>7, <2>8, <2>m
<1> QED BY <1>2, <1>3, <1>5, <1>14, <1>15

-----------------------------------------------------------------------------
(* The calls.                                                              *)

(* The values of each name.                                                *)
Block(b) == b \in [Name -> Seq(Value)]

(* What replaceMessage takes for the same value.                           *)
Same(x, y) == normalizeHeaderValue(x) = normalizeHeaderValue(y)

(* What becomes of the i-th occurrence of a name.                          *)
Differs(orig, want, n, i) ==
  i \in 1 .. Len(orig[n]) /\ i \in 1 .. Len(want[n]) /\ ~Same(orig[n][i], want[n][i])
Missing(orig, want, n, i) == i \in 1 .. Len(want[n]) /\ i \notin 1 .. Len(orig[n])
Extra(orig, want, n, i) == i \in 1 .. Len(orig[n]) /\ i \notin 1 .. Len(want[n])

ChangeCall(want, n, i) == Call("change", n, i, want[n][i])
AddCall(want, n, i) == Call("add", n, i, want[n][i])
DeleteCall(n, i) == Call("delete", n, i, NoValue)

(* The three kinds of calls, and the body.                                 *)
ACall(orig, want, n, i, c) ==
  \/ Differs(orig, want, n, i) /\ c = ChangeCall(want, n, i)
  \/ Missing(orig, want, n, i) /\ c = AddCall(want, n, i)
  \/ Extra(orig, want, n, i) /\ c = DeleteCall(n, i)

(* These are the calls replaceMessage makes.                               *)
LEMMA CallSetIs ==
  ASSUME NEW orig, Block(orig), NEW want, Block(want), NEW c
  PROVE  c \in CallSet(orig, want) <=> c = BodyCall \/ \E n \in Name, i \in Nat : ACall(orig, want, n, i, c)
<1>1. \A n \in Name : /\ DOMAIN orig[n] = 1 .. Len(orig[n]) /\ DOMAIN want[n] = 1 .. Len(want[n])
                      /\ Len(orig[n]) \in Nat /\ Len(want[n]) \in Nat
  <2> TAKE n \in Name
  <2>1. orig[n] \in Seq(Value) /\ want[n] \in Seq(Value)
    BY DEF Block
  <2> QED BY <2>1
<1>2. ASSUME NEW n \in Name
      PROVE  /\ c \in Changes(n, orig[n], want[n]) <=> \E i \in Nat : Differs(orig, want, n, i) /\ c = ChangeCall(want, n, i)
             /\ c \in Adds(n, orig[n], want[n]) <=> \E i \in Nat : Missing(orig, want, n, i) /\ c = AddCall(want, n, i)
             /\ c \in Deletes(n, orig[n], want[n]) <=> \E i \in Nat : Extra(orig, want, n, i) /\ c = DeleteCall(n, i)
  <2>1. /\ DOMAIN orig[n] = 1 .. Len(orig[n]) /\ DOMAIN want[n] = 1 .. Len(want[n])
        /\ \A i : (i \in 1 .. Len(orig[n]) => i \in Nat) /\ (i \in 1 .. Len(want[n]) => i \in Nat)
    BY <1>1
  <2>2. c \in Changes(n, orig[n], want[n]) <=> \E i \in Nat : Differs(orig, want, n, i) /\ c = ChangeCall(want, n, i)
    BY <2>1, Zenon DEF Changes, Differs, ChangeCall, Same
  <2>3. c \in Adds(n, orig[n], want[n]) <=> \E i \in Nat : Missing(orig, want, n, i) /\ c = AddCall(want, n, i)
    BY <2>1, Zenon DEF Adds, Missing, AddCall
  <2>4. c \in Deletes(n, orig[n], want[n]) <=> \E i \in Nat : Extra(orig, want, n, i) /\ c = DeleteCall(n, i)
    BY <2>1, Zenon DEF Deletes, Extra, DeleteCall
  <2> QED BY <2>2, <2>3, <2>4
<1>3. ASSUME NEW n \in Name, n \notin headerNameUnion(orig, want), NEW i PROVE ~ACall(orig, want, n, i, c)
  <2>1. orig[n] = <<>> /\ want[n] = <<>>
    BY <1>3 DEF headerNameUnion
  <2>2. 1 .. Len(<<>>) = {}
    OBVIOUS
  <2> QED BY <2>1, <2>2, Zenon DEF ACall, Differs, Missing, Extra
<1>4. \A n \in Name : (\E i \in Nat : ACall(orig, want, n, i, c)) <=>
        \/ c \in Changes(n, orig[n], want[n])
        \/ c \in Adds(n, orig[n], want[n])
        \/ c \in Deletes(n, orig[n], want[n])
  BY <1>2, Zenon DEF ACall
<1>5. headerNameUnion(orig, want) \subseteq Name
  BY DEF headerNameUnion
<1>6. c \in CallSet(orig, want) <=>
        c = BodyCall \/ \E n \in headerNameUnion(orig, want) :
                          \/ c \in Changes(n, orig[n], want[n])
                          \/ c \in Adds(n, orig[n], want[n])
                          \/ c \in Deletes(n, orig[n], want[n])
  <2>1. c \in UNION {CallsFor(n, orig[n], want[n]) : n \in headerNameUnion(orig, want)} <=>
          \E n \in headerNameUnion(orig, want) : c \in CallsFor(n, orig[n], want[n])
    OBVIOUS
  <2>2. \A n : c \in CallsFor(n, orig[n], want[n]) <=> \/ c \in Changes(n, orig[n], want[n])
                                                       \/ c \in Adds(n, orig[n], want[n])
                                                       \/ c \in Deletes(n, orig[n], want[n])
    BY Zenon DEF CallsFor
  <2>3. c \in CallSet(orig, want) <=>
          \/ c \in UNION {CallsFor(n, orig[n], want[n]) : n \in headerNameUnion(orig, want)}
          \/ c = BodyCall
    BY Zenon DEF CallSet
  <2> QED BY <2>1, <2>2, <2>3, Zenon
<1> QED BY <1>3, <1>4, <1>5, <1>6, Zenon

(* The image of a finite set is finite.                                    *)
LEMMA FiniteImage ==
  ASSUME NEW S, IsFiniteSet(S), NEW f, DOMAIN f = S, f = [x \in S |-> f[x]]
  PROVE  IsFiniteSet({f[x] : x \in S})
<1> DEFINE T == {f[x] : x \in S}
<1>1. f \in [S -> T]
  OBVIOUS
<1>2. f \in Surjection(S, T)
  BY <1>1 DEF Surjection
<1> QED BY <1>2, FS_Surjection

(* The calls are finitely many.                                            *)
LEMMA CallSetFinite ==
  ASSUME NEW orig, Block(orig), NEW want, Block(want)
  PROVE  IsFiniteSet(CallSet(orig, want))
<1>1. IsFiniteSet(Name) /\ IsFiniteSet({BodyCall})
  BY MilterAssumption, FS_Singleton
<1> DEFINE names == headerNameUnion(orig, want)
<1>2. ASSUME NEW n \in Name PROVE IsFiniteSet(CallsFor(n, orig[n], want[n]))
  <2>1. /\ DOMAIN orig[n] = 1 .. Len(orig[n]) /\ DOMAIN want[n] = 1 .. Len(want[n])
        /\ Len(orig[n]) \in Nat /\ Len(want[n]) \in Nat
    <3>1. orig[n] \in Seq(Value) /\ want[n] \in Seq(Value)
      BY DEF Block
    <3> QED BY <3>1
  <2>2. IsFiniteSet(DOMAIN orig[n]) /\ IsFiniteSet(DOMAIN want[n])
    <3>1. \A m \in Nat : IsFiniteSet(1 .. m)
      BY FS_Interval
    <3> QED BY ONLY <2>1, <3>1
  <2>3. IsFiniteSet(Changes(n, orig[n], want[n]))
    <3> PICK S : S = {i \in DOMAIN orig[n] \cap DOMAIN want[n] :
                        normalizeHeaderValue(orig[n][i]) # normalizeHeaderValue(want[n][i])}
      OBVIOUS
    <3> PICK f : f = [i \in S |-> Call("change", n, i, want[n][i])]
      OBVIOUS
    <3>1. IsFiniteSet(S)
      <4>1. S \subseteq DOMAIN orig[n]
        OBVIOUS
      <4> QED BY <2>2, <4>1, FS_Subset
    <3>2. IsFiniteSet({f[i] : i \in S})
      <4>1. DOMAIN f = S /\ f = [i \in S |-> f[i]]
        OBVIOUS
      <4> QED BY ONLY <3>1, <4>1, FiniteImage
    <3>3. Changes(n, orig[n], want[n]) = {f[i] : i \in S}
      BY DEF Changes
    <3> QED BY <3>2, <3>3
  <2>4. IsFiniteSet(Adds(n, orig[n], want[n]))
    <3> PICK S : S = DOMAIN want[n] \ DOMAIN orig[n]
      OBVIOUS
    <3> PICK f : f = [i \in S |-> Call("add", n, i, want[n][i])]
      OBVIOUS
    <3>1. IsFiniteSet(S)
      BY <2>2, FS_Subset
    <3>2. IsFiniteSet({f[i] : i \in S})
      <4>1. DOMAIN f = S /\ f = [i \in S |-> f[i]]
        OBVIOUS
      <4> QED BY ONLY <3>1, <4>1, FiniteImage
    <3>3. Adds(n, orig[n], want[n]) = {f[i] : i \in S}
      BY DEF Adds
    <3> QED BY <3>2, <3>3
  <2>5. IsFiniteSet(Deletes(n, orig[n], want[n]))
    <3> PICK S : S = DOMAIN orig[n] \ DOMAIN want[n]
      OBVIOUS
    <3> PICK f : f = [i \in S |-> Call("delete", n, i, NoValue)]
      OBVIOUS
    <3>1. IsFiniteSet(S)
      BY <2>2, FS_Subset
    <3>2. IsFiniteSet({f[i] : i \in S})
      <4>1. DOMAIN f = S /\ f = [i \in S |-> f[i]]
        OBVIOUS
      <4> QED BY ONLY <3>1, <4>1, FiniteImage
    <3>3. Deletes(n, orig[n], want[n]) = {f[i] : i \in S}
      BY DEF Deletes
    <3> QED BY <3>2, <3>3
  <2> QED BY <2>3, <2>4, <2>5, FS_Union DEF CallsFor
<1>3. IsFiniteSet(names) /\ names \subseteq Name
  BY <1>1, FS_Subset DEF headerNameUnion
<1> HIDE DEF names
<1>4. PICK f : f = [n \in names |-> CallsFor(n, orig[n], want[n])]
  OBVIOUS
<1>5. IsFiniteSet({f[n] : n \in names})
  <2>1. DOMAIN f = names /\ f = [n \in names |-> f[n]]
    BY <1>4
  <2> QED BY ONLY <1>3, <2>1, FiniteImage
<1>6. {f[n] : n \in names} = {CallsFor(n, orig[n], want[n]) : n \in names}
  BY <1>4
<1>7. \A T \in {CallsFor(n, orig[n], want[n]) : n \in names} : IsFiniteSet(T)
  BY <1>2, <1>3
<1>8. IsFiniteSet(UNION {CallsFor(n, orig[n], want[n]) : n \in names})
  BY <1>5, <1>6, <1>7, FS_UNION
<1> QED BY <1>1, <1>8, FS_Union DEF CallSet, names

(* The fields of a call.                                                   *)
LEMMA CallFields ==
  ASSUME NEW want, NEW n, NEW i
  PROVE  /\ ChangeCall(want, n, i).op = "change" /\ ChangeCall(want, n, i).name = n
         /\ ChangeCall(want, n, i).index = i /\ ChangeCall(want, n, i).value = want[n][i]
         /\ AddCall(want, n, i).op = "add" /\ AddCall(want, n, i).name = n
         /\ AddCall(want, n, i).index = i /\ AddCall(want, n, i).value = want[n][i]
         /\ DeleteCall(n, i).op = "delete" /\ DeleteCall(n, i).name = n /\ DeleteCall(n, i).index = i
         /\ BodyCall.op = "body" /\ BodyCall.name = 0 /\ BodyCall.index = 0
BY DEF ChangeCall, AddCall, DeleteCall, BodyCall, Call

(* CallBefore is the order of the stages, then of the names, then of these. *)
Key(c) == IF c.op = "delete" THEN 0 - c.index ELSE c.index

(* A strict total order.                                                   *)
Ordered(S) ==
  /\ \A a \in S : ~CallBefore(a, a)
  /\ \A a, b \in S : a = b \/ CallBefore(a, b) \/ CallBefore(b, a)
  /\ \A a, b, c \in S : CallBefore(a, b) /\ CallBefore(b, c) => CallBefore(a, c)

(* What a call of the set is: its fields, and nothing else, determine it.  *)
LEMMA CallIs ==
  ASSUME NEW orig, Block(orig), NEW want, Block(want), NEW c \in CallSet(orig, want)
  PROVE  /\ c.op \in {"change", "add", "delete", "body"} /\ c.name \in Nat /\ c.index \in Nat
         /\ c.op = "body" => c = BodyCall
         /\ c.op = "change" => /\ c.name \in Name /\ Differs(orig, want, c.name, c.index)
                               /\ c = ChangeCall(want, c.name, c.index)
         /\ c.op = "add" => /\ c.name \in Name /\ Missing(orig, want, c.name, c.index)
                            /\ c = AddCall(want, c.name, c.index)
         /\ c.op = "delete" => /\ c.name \in Name /\ Extra(orig, want, c.name, c.index)
                               /\ c = DeleteCall(c.name, c.index)
<1>1. c = BodyCall \/ \E n \in Name, i \in Nat : ACall(orig, want, n, i, c)
  BY CallSetIs
<1>2. Name \subseteq Nat
  BY MilterAssumption
<1>3. CASE c = BodyCall
  <2>1. c.op = "body" /\ c.name = 0 /\ c.index = 0
    BY <1>3, CallFields
  <2> QED BY <1>3, <2>1
<1>4. ASSUME NEW n \in Name, NEW i \in Nat, Differs(orig, want, n, i), c = ChangeCall(want, n, i)
      PROVE  c.op = "change" /\ c.name = n /\ c.index = i
  BY <1>4, CallFields
<1>5. ASSUME NEW n \in Name, NEW i \in Nat, Missing(orig, want, n, i), c = AddCall(want, n, i)
      PROVE  c.op = "add" /\ c.name = n /\ c.index = i
  BY <1>5, CallFields
<1>6. ASSUME NEW n \in Name, NEW i \in Nat, Extra(orig, want, n, i), c = DeleteCall(n, i)
      PROVE  c.op = "delete" /\ c.name = n /\ c.index = i
  BY <1>6 DEF DeleteCall, Call
<1>7. CASE \E n \in Name, i \in Nat : ACall(orig, want, n, i, c)
  <2>1. PICK n \in Name, i \in Nat : ACall(orig, want, n, i, c)
    BY <1>7
  <2>2. n \in Nat
    BY <1>2
  <2>3. CASE Differs(orig, want, n, i) /\ c = ChangeCall(want, n, i)
    BY <1>4, <2>2, <2>3
  <2>4. CASE Missing(orig, want, n, i) /\ c = AddCall(want, n, i)
    BY <1>5, <2>2, <2>4
  <2>5. CASE Extra(orig, want, n, i) /\ c = DeleteCall(n, i)
    BY <1>6, <2>2, <2>5
  <2> QED BY <2>1, <2>3, <2>4, <2>5, Zenon DEF ACall
<1> QED BY <1>1, <1>3, <1>7

(* The calls are ordered.                                                  *)
LEMMA CallsOrdered ==
  ASSUME NEW orig, Block(orig), NEW want, Block(want), NEW S, S = CallSet(orig, want)
  PROVE  Ordered(S)
<1>1. ASSUME NEW c \in S
      PROVE  /\ Stage(c) \in Nat /\ c.name \in Nat /\ c.index \in Nat /\ Key(c) \in Int
             /\ Stage(c) = 2 <=> c.op = "delete"
             /\ Stage(c) = 3 <=> c.op = "body"
  <2>1. c.op \in {"change", "add", "delete", "body"} /\ c.name \in Nat /\ c.index \in Nat
    BY CallIs
  <2> QED BY <2>1 DEF Stage, Key
<1>2. ASSUME NEW c \in S, NEW d \in S
      PROVE  CallBefore(c, d) <=>
               \/ Stage(c) < Stage(d)
               \/ Stage(c) = Stage(d) /\ c.name < d.name
               \/ Stage(c) = Stage(d) /\ c.name = d.name /\ Key(c) < Key(d)
  <2>1. Stage(c) = Stage(d) => (c.op = "delete" <=> d.op = "delete")
    BY <1>1
  <2>2. c.index \in Nat /\ d.index \in Nat
    BY <1>1
  <2> QED BY <2>1, <2>2, SMT DEF CallBefore, Key
<1>3. ASSUME NEW c \in S, NEW d \in S, Stage(c) = Stage(d), c.name = d.name, Key(c) = Key(d)
      PROVE  c = d
  <2>1. /\ c.op \in {"change", "add", "delete", "body"} /\ d.op \in {"change", "add", "delete", "body"}
        /\ c.op = "delete" <=> d.op = "delete"
        /\ c.op = "body" <=> d.op = "body"
    BY <1>1, <1>3, CallIs
  <2>2. c.index = d.index
    <3>1. c.index \in Nat /\ d.index \in Nat
      BY <1>1
    <3> QED BY <1>3, <2>1, <3>1 DEF Key
  <2>3. c.op = "body" => c = d
    BY <2>1, CallIs
  <2>4. c.op = "delete" => c = d
    <3>1. c.op = "delete" => c = DeleteCall(c.name, c.index) /\ d = DeleteCall(d.name, d.index)
      BY <2>1, CallIs
    <3> QED BY ONLY <1>3, <2>2, <3>1
  <2>5. c.op = "change" => /\ c.index \in 1 .. Len(orig[c.name]) /\ c = ChangeCall(want, c.name, c.index)
    BY CallIs DEF Differs
  <2>6. d.op = "change" => /\ d.index \in 1 .. Len(orig[d.name]) /\ d = ChangeCall(want, d.name, d.index)
    BY CallIs DEF Differs
  <2>7. c.op = "add" => /\ c.index \notin 1 .. Len(orig[c.name]) /\ c = AddCall(want, c.name, c.index)
    BY CallIs DEF Missing
  <2>8. d.op = "add" => /\ d.index \notin 1 .. Len(orig[d.name]) /\ d = AddCall(want, d.name, d.index)
    BY CallIs DEF Missing
  <2>9. (c.op = "change" /\ d.op = "change") \/ (c.op = "add" /\ d.op = "add") => c = d
    BY ONLY <1>3, <2>2, <2>5, <2>6, <2>7, <2>8
  <2>10. ~(c.op = "change" /\ d.op = "add") /\ ~(c.op = "add" /\ d.op = "change")
    BY ONLY <1>3, <2>2, <2>5, <2>6, <2>7, <2>8
  <2> QED BY ONLY <2>1, <2>3, <2>4, <2>9, <2>10
<1>4. ASSUME NEW a \in S PROVE ~CallBefore(a, a)
  BY <1>1, <1>2
<1>5. ASSUME NEW a \in S, NEW b \in S PROVE a = b \/ CallBefore(a, b) \/ CallBefore(b, a)
  BY <1>1, <1>2, <1>3
<1>6. ASSUME NEW a \in S, NEW b \in S, NEW c \in S, CallBefore(a, b), CallBefore(b, c) PROVE CallBefore(a, c)
  BY <1>1, <1>2, <1>6
<1> QED BY <1>4, <1>5, <1>6 DEF Ordered

(* A list of all of S, in order.                                           *)
Lists(s, S) ==
  /\ s \in Seq(S)
  /\ \A j, k \in 1 .. Len(s) : j < k => CallBefore(s[j], s[k])
  /\ \A c \in S : \E k \in 1 .. Len(s) : s[k] = c

(* The order by rank lists a finite set.                                   *)
LEMMA RankLists ==
  ASSUME NEW S, IsFiniteSet(S), Ordered(S), NEW n, n = Cardinality(S), NEW s,
         s = [k \in 1 .. n |-> CHOOSE c \in S : Cardinality({d \in S : CallBefore(d, c)}) = k - 1]
  PROVE  Lists(s, S)
<1> DEFINE Low(i) == {d \in S : CallBefore(d, i)}
           rank == [i \in S |-> Cardinality(Low(i)) + 1]
<1>1. n \in Nat
  BY FS_CardinalityType
<1>o. /\ \A a \in S : ~CallBefore(a, a)
      /\ \A a, b \in S : a = b \/ CallBefore(a, b) \/ CallBefore(b, a)
      /\ \A a, b, c \in S : CallBefore(a, b) /\ CallBefore(b, c) => CallBefore(a, c)
  BY DEF Ordered
<1>2. ASSUME NEW i \in S
      PROVE  /\ IsFiniteSet(Low(i)) /\ Cardinality(Low(i)) \in Nat
             /\ i \notin Low(i) /\ Cardinality(Low(i)) + 1 \in 1 .. n
  <2>1. i \notin Low(i) /\ Low(i) \subseteq S \ {i}
    BY <1>o
  <2>2. IsFiniteSet(S \ {i}) /\ Cardinality(S \ {i}) = n - 1
    BY FS_RemoveElement
  <2>3. IsFiniteSet(Low(i)) /\ Cardinality(Low(i)) <= n - 1
    BY <2>1, <2>2, FS_Subset
  <2>4. Cardinality(Low(i)) \in Nat
    BY <2>3, FS_CardinalityType
  <2> QED BY <1>1, <2>1, <2>3, <2>4
<1>3. ASSUME NEW i \in S, NEW j \in S, CallBefore(i, j)
      PROVE  Cardinality(Low(i)) + 1 < Cardinality(Low(j)) + 1
  <2>1. Low(i) \cup {i} \subseteq Low(j)
    BY <1>3, <1>o
  <2>2. Cardinality(Low(i) \cup {i}) = Cardinality(Low(i)) + 1
    BY <1>2, FS_AddElement
  <2>3. Cardinality(Low(i) \cup {i}) <= Cardinality(Low(j))
    BY <1>2, <2>1, FS_Subset
  <2>4. Cardinality(Low(i)) \in Nat /\ Cardinality(Low(j)) \in Nat
    BY <1>2
  <2> HIDE DEF Low
  <2> QED BY <2>2, <2>3, <2>4
<1>4. /\ rank \in [S -> 1 .. n]
      /\ \A i, j \in S : CallBefore(i, j) => rank[i] < rank[j]
  BY <1>2, <1>3
<1>5. \A k \in 1 .. n : \A i \in S : rank[i] = k <=> Cardinality({d \in S : CallBefore(d, i)}) = k - 1
  <2> TAKE k \in 1 .. n
  <2> TAKE i \in S
  <2>1. Cardinality(Low(i)) \in Nat /\ rank[i] = Cardinality(Low(i)) + 1
    BY <1>2
  <2>2. rank[i] = k <=> Cardinality(Low(i)) = k - 1
    <3> HIDE DEF Low, rank
    <3> QED BY <2>1
  <2> QED BY <2>2
<1> HIDE DEF rank
<1>6. \A i, j \in S : rank[i] = rank[j] => i = j
  <2> SUFFICES ASSUME NEW i \in S, NEW j \in S, rank[i] = rank[j], i # j PROVE FALSE
    OBVIOUS
  <2>1. rank[i] \in Nat /\ rank[j] \in Nat
    BY <1>1, <1>4
  <2>2. rank[i] < rank[j] \/ rank[j] < rank[i]
    BY <1>4, <1>o
  <2> QED BY <2>1, <2>2
<1>7. rank \in Injection(S, 1 .. n)
  BY <1>4, <1>6 DEF Injection, IsInjective
<1>8. IsFiniteSet(1 .. n) /\ Cardinality(1 .. n) = n
  BY <1>1, FS_Interval
<1>9. rank \in Surjection(S, 1 .. n)
  BY <1>7, <1>8, FS_Injection
<1>10. \A k \in 1 .. n : \E i \in S : rank[i] = k
  BY <1>9 DEF Surjection
<1>11. \A k \in 1 .. n : s[k] \in S /\ rank[s[k]] = k
  <2> TAKE k \in 1 .. n
  <2>1. s[k] = CHOOSE c \in S : Cardinality({d \in S : CallBefore(d, c)}) = k - 1
    OBVIOUS
  <2>2. \E c \in S : Cardinality({d \in S : CallBefore(d, c)}) = k - 1
    BY <1>5, <1>10
  <2>3. s[k] \in S /\ Cardinality({d \in S : CallBefore(d, s[k])}) = k - 1
    BY <2>1, <2>2, Zenon
  <2> QED BY <1>5, <2>3
<1>12. s \in Seq(S) /\ Len(s) = n
  <2>1. s \in [1 .. n -> S]
    BY <1>11
  <2> QED BY ONLY <1>1, <2>1
<1>13. ASSUME NEW j \in 1 .. n, NEW k \in 1 .. n, j < k PROVE CallBefore(s[j], s[k])
  <2>1. PICK a \in S, b \in S : a = s[j] /\ b = s[k] /\ rank[a] = j /\ rank[b] = k
    BY <1>11
  <2>2. a # b
    BY ONLY <1>1, <1>13, <2>1, j \in 1 .. n, k \in 1 .. n
  <2>3. ~CallBefore(b, a)
    <3> SUFFICES ASSUME CallBefore(b, a) PROVE FALSE
      OBVIOUS
    <3>1. k < j
      BY <1>4, <2>1
    <3> QED BY <1>13, <3>1
  <2> QED BY <1>o, <2>1, <2>2, <2>3
<1>14. ASSUME NEW c \in S PROVE \E k \in 1 .. n : s[k] = c
  <2>1. rank[c] \in 1 .. n
    BY <1>4
  <2> QED BY ZenonT(30), <1>6, <1>11, <2>1
<1> QED BY <1>12, <1>13, <1>14 DEF Lists

(* Every header value of a message.                                        *)
LEMMA OriginalValues ==
  ASSUME NEW hs \in Seq(Header), NEW orig, orig = originalValues(hs)
  PROVE  /\ Block(orig)
         /\ \A n \in Name : /\ Len(orig[n]) = Len(Lines(hs, {n}))
                            /\ \A i \in 1 .. Len(orig[n]) : orig[n][i] = Lines(hs, {n})[i].value
<1>1. ASSUME NEW n \in Name
      PROVE  /\ orig[n] \in Seq(Value) /\ Len(orig[n]) = Len(Lines(hs, {n}))
             /\ \A i \in 1 .. Len(orig[n]) : orig[n][i] = Lines(hs, {n})[i].value
  <2>1. PICK ls \in Seq(Header) : ls = Lines(hs, {n})
    BY LinesAre
  <2>2. orig[n] = [i \in DOMAIN ls |-> ls[i].value]
    BY <2>1 DEF originalValues
  <2>3. \A i \in 1 .. Len(ls) : ls[i].value \in Value
    <3>1. \A i \in 1 .. Len(ls) : ls[i] \in Header
      OBVIOUS
    <3>2. \A h \in Header : h.value \in Value
      BY DEF Header
    <3> QED BY <3>1, <3>2
  <2>4. DOMAIN ls = 1 .. Len(ls) /\ Len(ls) \in Nat
    OBVIOUS
  <2>5. orig[n] \in Seq(Value) /\ Len(orig[n]) = Len(ls)
    BY ONLY <2>2, <2>3, <2>4
  <2> QED BY <2>1, <2>2, <2>4, <2>5
<1>2. orig = [n \in Name |-> orig[n]]
  BY DEF originalValues
<1> QED BY <1>1, <1>2 DEF Block

(* replaceMessage makes all the calls, in their order.                     *)
LEMMA ReplaceMessage ==
  ASSUME original \in Seq(Header), NEW want, Block(want)
  PROVE  Lists(replaceMessage(want), CallSet(originalValues(original), want))
<1>1. PICK S : S = CallSet(originalValues(original), want)
  OBVIOUS
<1>2. Block(originalValues(original))
  BY OriginalValues
<1>3. IsFiniteSet(S) /\ Ordered(S)
  BY <1>1, <1>2, CallSetFinite, CallsOrdered
<1>4. replaceMessage(want) =
        [k \in 1 .. Cardinality(S) |-> CHOOSE c \in S : Cardinality({d \in S : CallBefore(d, c)}) = k - 1]
  BY <1>1 DEF replaceMessage
<1>5. PICK n : n = Cardinality(S)
  OBVIOUS
<1>6. PICK s : s = replaceMessage(want)
  OBVIOUS
<1>7. s = [k \in 1 .. n |-> CHOOSE c \in S : Cardinality({d \in S : CallBefore(d, c)}) = k - 1]
  BY <1>4, <1>5, <1>6
<1>8. Lists(s, S)
  BY ONLY <1>3, <1>5, <1>7, RankLists
<1> QED BY <1>1, <1>6, <1>8

-----------------------------------------------------------------------------
(* Half-way through the calls.                                             *)

Left(s) == {s[k] : k \in 1 .. Len(s)}

(* What is left of the calls S: they are in order, and with a call every   *)
(* later one is left.                                                      *)
Remaining(s, S) ==
  /\ s \in Seq(S)
  /\ \A j, k \in 1 .. Len(s) : j < k => CallBefore(s[j], s[k])
  /\ \A c \in Left(s), d \in S : CallBefore(c, d) => d \in Left(s)

(* Of the lines ls of one name, those not to be changed are the original.  *)
Spared(orig, want, n, ls) ==
  \A i \in 1 .. Len(ls) :
    i \in 1 .. Len(orig[n]) /\ i \in 1 .. Len(want[n]) /\ ~Differs(orig, want, n, i) => ls[i].value = orig[n][i]

(* The lines ls of one name, with the calls in left still to come: their   *)
(* number is between the original and the wanted one, the additions and    *)
(* deletions left are the ones this number needs, a value is the wanted    *)
(* one or still to be changed, and one not to be changed is the original.  *)
Halfway(orig, want, n, ls, left) ==
  /\ \/ Len(orig[n]) <= Len(ls) /\ Len(ls) <= Len(want[n])
     \/ Len(want[n]) <= Len(ls) /\ Len(ls) <= Len(orig[n])
  /\ \A i \in 1 .. Len(want[n]) : Missing(orig, want, n, i) => (AddCall(want, n, i) \in left <=> Len(ls) < i)
  /\ \A i \in 1 .. Len(orig[n]) : Extra(orig, want, n, i) => (DeleteCall(n, i) \in left <=> i <= Len(ls))
  /\ \A i \in 1 .. Len(ls) : i \in 1 .. Len(want[n]) =>
       Same(ls[i].value, want[n][i]) \/ (Differs(orig, want, n, i) /\ ChangeCall(want, n, i) \in left)
  /\ Spared(orig, want, n, ls)

AllHalfway(orig, want, hs, left) == \A n \in Name : Halfway(orig, want, n, Lines(hs, {n}), left)

(* c is first of what is left, and r the rest.                             *)
Taken(s, S, c, r) ==
  /\ c \in S /\ c \in Left(s) /\ Remaining(r, S) /\ Left(r) = Left(s) \ {c} /\ Left(s) \subseteq S
  /\ \A d \in S : CallBefore(d, c) => d \notin Left(s)
  /\ r # <<>> => \E d \in S : CallBefore(c, d)

(* Taking the first call leaves the rest, and nothing left comes before it.*)
LEMMA TakeFirst ==
  ASSUME NEW S, Ordered(S), NEW s, Remaining(s, S), s # <<>>, NEW c, c = Head(s), NEW r, r = Tail(s)
  PROVE  Taken(s, S, c, r)
<1>s. /\ s \in Seq(S)
      /\ \A j, k \in 1 .. Len(s) : j < k => CallBefore(s[j], s[k])
      /\ \A a \in Left(s), d \in S : CallBefore(a, d) => d \in Left(s)
  BY DEF Remaining
<1>o. /\ \A a \in S : ~CallBefore(a, a)
      /\ \A a, b, d \in S : CallBefore(a, b) /\ CallBefore(b, d) => CallBefore(a, d)
  BY DEF Ordered
<1>1. PICK n \in Nat : n = Len(s)
  BY <1>s
<1>2. /\ n >= 1 /\ c = s[1] /\ r \in Seq(S) /\ Len(r) = n - 1
      /\ \A k \in 1 .. n - 1 : r[k] = s[k + 1]
      /\ \A k \in 1 .. n : s[k] \in S
  <2>1. n # 0
    BY <1>s, <1>1
  <2> QED BY <1>s, <1>1, <2>1, HeadTailProperties
<1>3. 1 \in 1 .. n /\ \A k \in 1 .. n - 1 : k + 1 \in 1 .. n /\ 1 < k + 1
  BY ONLY <1>1, <1>2
<1>4. \A k \in 1 .. n : k = 1 \/ (k - 1 \in 1 .. n - 1 /\ (k - 1) + 1 = k)
  BY ONLY <1>1, <1>2
<1>5. \A k \in 1 .. n - 1 : CallBefore(c, r[k])
  <2> TAKE k \in 1 .. n - 1
  <2>1. CallBefore(s[1], s[k + 1])
    BY ONLY <1>1, <1>s, <1>3, k \in 1 .. n - 1
  <2> QED BY <1>2, <2>1
<1>6. c \in S /\ c \in Left(s) /\ Left(s) \subseteq S
  BY <1>1, <1>2, <1>3 DEF Left
<1>7. \A d : d \in Left(r) <=> \E k \in 1 .. n - 1 : r[k] = d
  BY <1>2 DEF Left
<1>8. \A d : d \in Left(s) <=> \E k \in 1 .. n : s[k] = d
  BY <1>1 DEF Left
<1>9. \A d \in Left(r) : CallBefore(c, d) /\ d \in Left(s) /\ d # c
  <2> TAKE d \in Left(r)
  <2>1. PICK k \in 1 .. n - 1 : r[k] = d
    BY <1>7
  <2>2. CallBefore(c, d) /\ d = s[k + 1] /\ k + 1 \in 1 .. n
    BY <1>2, <1>3, <1>5, <2>1
  <2> QED BY <1>8, <1>6, <1>o, <2>2
<1>10. \A d \in Left(s) : d = c \/ d \in Left(r)
  <2> TAKE d \in Left(s)
  <2>1. PICK k \in 1 .. n : s[k] = d
    BY <1>8
  <2>2. CASE k = 1
    BY <1>2, <2>1, <2>2
  <2>3. CASE k - 1 \in 1 .. n - 1 /\ (k - 1) + 1 = k
    <3>1. r[k - 1] = d
      BY <1>2, <2>1, <2>3
    <3> QED BY <1>7, <2>3, <3>1
  <2> QED BY <1>4, <2>2, <2>3
<1>11. Left(r) = Left(s) \ {c}
  BY <1>9, <1>10
<1>12. \A d \in S : CallBefore(d, c) => d \notin Left(s)
  <2> SUFFICES ASSUME NEW d \in S, CallBefore(d, c), d \in Left(s) PROVE FALSE
    OBVIOUS
  <2>1. d = c \/ CallBefore(c, d)
    BY <1>9, <1>10
  <2> QED BY <1>6, <1>o, <2>1
<1>13. \A a \in Left(r), d \in S : CallBefore(a, d) => d \in Left(r)
  <2> SUFFICES ASSUME NEW a \in Left(r), NEW d \in S, CallBefore(a, d) PROVE d \in Left(r)
    OBVIOUS
  <2>1. a \in Left(s) /\ CallBefore(c, a) /\ a \in S
    BY <1>6, <1>9
  <2>2. CallBefore(c, d) /\ d \in Left(s)
    BY <1>6, <1>o, <1>s, <2>1
  <2>3. d # c
    BY <1>6, <1>o, <2>2
  <2> QED BY <1>11, <2>2, <2>3
<1>14. \A j, k \in 1 .. n - 1 : j < k => CallBefore(r[j], r[k])
  <2> SUFFICES ASSUME NEW j \in 1 .. n - 1, NEW k \in 1 .. n - 1, j < k PROVE CallBefore(r[j], r[k])
    OBVIOUS
  <2>1. j + 1 \in 1 .. n /\ k + 1 \in 1 .. n /\ j + 1 < k + 1
    BY ONLY <1>1, <1>2, j \in 1 .. n - 1, k \in 1 .. n - 1, j < k
  <2>2. CallBefore(s[j + 1], s[k + 1])
    BY ONLY <1>s, <1>1, <2>1
  <2> QED BY <1>2, <2>2
<1>15. Remaining(r, S)
  BY <1>2, <1>13, <1>14 DEF Remaining
<1>16. r # <<>> => \E d \in S : CallBefore(c, d)
  <2> SUFFICES ASSUME r # <<>> PROVE \E d \in S : CallBefore(c, d)
    OBVIOUS
  <2>1. n - 1 # 0
    BY <1>2
  <2>2. 1 \in 1 .. n - 1
    BY ONLY <1>1, <1>2, <2>1
  <2>3. r[1] \in S
    BY <1>2, <1>3, <2>2
  <2> QED BY <1>5, <2>2, <2>3
<1> QED BY <1>6, <1>11, <1>12, <1>15, <1>16 DEF Taken

(* The calls on one name do not move the others.                           *)
LEMMA OthersHalfway ==
  ASSUME NEW orig, NEW want, NEW n, NEW ls, NEW left, NEW c, c.name # n, Halfway(orig, want, n, ls, left)
  PROVE  Halfway(orig, want, n, ls, left \ {c})
<1>1. \A i : AddCall(want, n, i) # c /\ DeleteCall(n, i) # c /\ ChangeCall(want, n, i) # c
  <2> TAKE i
  <2>1. AddCall(want, n, i).name = n /\ ChangeCall(want, n, i).name = n
    BY CallFields
  <2>2. DeleteCall(n, i).name = n
    BY DEF DeleteCall, Call
  <2> QED BY <2>1, <2>2
<1>2. \A i : /\ AddCall(want, n, i) \in left \ {c} <=> AddCall(want, n, i) \in left
             /\ DeleteCall(n, i) \in left \ {c} <=> DeleteCall(n, i) \in left
             /\ ChangeCall(want, n, i) \in left \ {c} <=> ChangeCall(want, n, i) \in left
  BY <1>1
<1> QED BY <1>2 DEF Halfway

(* What the three modifications do to the lines of their name.             *)
LEMMA ChangeHalfway ==
  ASSUME NEW orig, Block(orig), NEW want, Block(want), NEW n \in Name, NEW i, Differs(orig, want, n, i),
         NEW ls \in Seq(Header), NEW left, Halfway(orig, want, n, ls, left),
         NEW ls2 \in Seq(Header), Len(ls2) = Len(ls),
         \A k \in 1 .. Len(ls) : ls2[k] = IF k = i THEN [ls[k] EXCEPT !.value = want[n][i]] ELSE ls[k]
  PROVE  i \in 1 .. Len(ls) /\ Halfway(orig, want, n, ls2, left \ {ChangeCall(want, n, i)})
<1>1. Len(orig[n]) \in Nat /\ Len(want[n]) \in Nat /\ Len(ls) \in Nat
  <2>1. orig[n] \in Seq(Value) /\ want[n] \in Seq(Value)
    BY DEF Block
  <2> QED BY <2>1
<1>h. /\ \/ Len(orig[n]) <= Len(ls) /\ Len(ls) <= Len(want[n])
         \/ Len(want[n]) <= Len(ls) /\ Len(ls) <= Len(orig[n])
      /\ \A j \in 1 .. Len(want[n]) : Missing(orig, want, n, j) => (AddCall(want, n, j) \in left <=> Len(ls) < j)
      /\ \A j \in 1 .. Len(orig[n]) : Extra(orig, want, n, j) => (DeleteCall(n, j) \in left <=> j <= Len(ls))
      /\ \A j \in 1 .. Len(ls) : j \in 1 .. Len(want[n]) =>
           Same(ls[j].value, want[n][j]) \/ (Differs(orig, want, n, j) /\ ChangeCall(want, n, j) \in left)
      /\ Spared(orig, want, n, ls)
  BY DEF Halfway
<1>2. i \in 1 .. Len(orig[n]) /\ i \in 1 .. Len(want[n])
  BY DEF Differs
<1>3. i \in 1 .. Len(ls)
  BY ONLY <1>1, <1>2, <1>h
<1> DEFINE c == ChangeCall(want, n, i)
<1>4. \A j : AddCall(want, n, j) # c /\ DeleteCall(n, j) # c /\ (ChangeCall(want, n, j) = c => j = i)
  <2> TAKE j
  <2>1. c.op = "change" /\ c.index = i
    BY CallFields
  <2>2. AddCall(want, n, j).op = "add" /\ ChangeCall(want, n, j).index = j
    BY CallFields
  <2>3. DeleteCall(n, j).op = "delete"
    BY DEF DeleteCall, Call
  <2> HIDE DEF c
  <2> QED BY ONLY <2>1, <2>2, <2>3
<1> HIDE DEF c
<1>5. ASSUME NEW j \in 1 .. Len(ls2), j \in 1 .. Len(want[n])
      PROVE  Same(ls2[j].value, want[n][j]) \/ (Differs(orig, want, n, j) /\ ChangeCall(want, n, j) \in left \ {c})
  <2>0. j \in 1 .. Len(ls)
    OBVIOUS
  <2>1. CASE j = i
    <3>1. ls[j] \in Header
      BY <2>0
    <3>2. [ls[j] EXCEPT !.value = want[n][i]].value = want[n][i]
      BY <3>1 DEF Header
    <3>3. ls2[j] = [ls[j] EXCEPT !.value = want[n][i]]
      BY <2>0, <2>1
    <3>4. ls2[j].value = want[n][j]
      BY ONLY <2>1, <3>2, <3>3
    <3> QED BY <3>4 DEF Same
  <2>2. CASE j # i
    <3>1. ls2[j] = ls[j]
      BY <2>0, <2>2
    <3>2. ChangeCall(want, n, j) # c
      BY <1>4, <2>2
    <3> QED BY <1>5, <1>h, <2>0, <3>1, <3>2
  <2> QED BY <2>1, <2>2
<1>s. Spared(orig, want, n, ls2)
  <2> SUFFICES ASSUME NEW j \in 1 .. Len(ls2), j \in 1 .. Len(orig[n]), j \in 1 .. Len(want[n]), ~Differs(orig, want, n, j)
               PROVE  ls2[j].value = orig[n][j]
    BY DEF Spared
  <2>1. j # i /\ j \in 1 .. Len(ls)
    OBVIOUS
  <2>2. ls[j].value = orig[n][j]
    BY <1>h, <2>1 DEF Spared
  <2> QED BY <2>1, <2>2
<1>6. Halfway(orig, want, n, ls2, left \ {c})
  <2>1. Len(ls2) = Len(ls)
    OBVIOUS
  <2>2. \A j : /\ AddCall(want, n, j) \in left \ {c} <=> AddCall(want, n, j) \in left
               /\ DeleteCall(n, j) \in left \ {c} <=> DeleteCall(n, j) \in left
    BY <1>4
  <2> QED BY ONLY <1>5, <1>h, <1>s, <2>1, <2>2 DEF Halfway
<1> QED BY <1>3, <1>6 DEF c

(* The first addition left is the next line.                               *)
LEMMA AddHalfway ==
  ASSUME NEW orig, Block(orig), NEW want, Block(want), NEW n \in Name, NEW i, Missing(orig, want, n, i),
         NEW ls \in Seq(Header), NEW left, Halfway(orig, want, n, ls, left), AddCall(want, n, i) \in left,
         \A j : Missing(orig, want, n, j) /\ j < i => AddCall(want, n, j) \notin left,
         NEW ls2 \in Seq(Header), Len(ls2) = Len(ls) + 1, ls2[Len(ls) + 1].value = want[n][i],
         \A k \in 1 .. Len(ls) : ls2[k] = ls[k]
  PROVE  Halfway(orig, want, n, ls2, left \ {AddCall(want, n, i)})
<1>1. Len(orig[n]) \in Nat /\ Len(want[n]) \in Nat /\ Len(ls) \in Nat
  <2>1. orig[n] \in Seq(Value) /\ want[n] \in Seq(Value)
    BY DEF Block
  <2> QED BY <2>1
<1>h. /\ \/ Len(orig[n]) <= Len(ls) /\ Len(ls) <= Len(want[n])
         \/ Len(want[n]) <= Len(ls) /\ Len(ls) <= Len(orig[n])
      /\ \A j \in 1 .. Len(want[n]) : Missing(orig, want, n, j) => (AddCall(want, n, j) \in left <=> Len(ls) < j)
      /\ \A j \in 1 .. Len(orig[n]) : Extra(orig, want, n, j) => (DeleteCall(n, j) \in left <=> j <= Len(ls))
      /\ \A j \in 1 .. Len(ls) : j \in 1 .. Len(want[n]) =>
           Same(ls[j].value, want[n][j]) \/ (Differs(orig, want, n, j) /\ ChangeCall(want, n, j) \in left)
      /\ Spared(orig, want, n, ls)
  BY DEF Halfway
<1>2. i \in 1 .. Len(want[n]) /\ i \notin 1 .. Len(orig[n])
  BY DEF Missing
<1>3. Len(ls) < i
  BY <1>2, <1>h
<1>4. i = Len(ls) + 1 /\ Len(orig[n]) <= Len(ls)
  <2>0. Len(orig[n]) <= Len(ls) /\ Len(ls) <= Len(want[n])
    BY ONLY <1>1, <1>2, <1>3, <1>h
  <2>1. PICK j : j = Len(ls) + 1
    OBVIOUS
  <2>2. j \in 1 .. Len(want[n]) /\ j \notin 1 .. Len(orig[n]) /\ Len(ls) < j
    BY ONLY <1>1, <1>2, <1>3, <2>0, <2>1
  <2>3. Missing(orig, want, n, j)
    BY <2>2 DEF Missing
  <2>4. AddCall(want, n, j) \in left
    BY <1>h, <2>2, <2>3
  <2>5. ~(j < i)
    BY <2>3, <2>4
  <2> QED BY ONLY <1>1, <1>2, <1>3, <2>0, <2>1, <2>5
<1> DEFINE c == AddCall(want, n, i)
<1>5. \A j : DeleteCall(n, j) # c /\ ChangeCall(want, n, j) # c /\ (AddCall(want, n, j) = c => j = i)
  <2> TAKE j
  <2>1. c.op = "add" /\ c.index = i
    BY CallFields
  <2>2. ChangeCall(want, n, j).op = "change" /\ AddCall(want, n, j).index = j
    BY CallFields
  <2>3. DeleteCall(n, j).op = "delete"
    BY DEF DeleteCall, Call
  <2> HIDE DEF c
  <2> QED BY ONLY <2>1, <2>2, <2>3
<1> HIDE DEF c
<1>6. ASSUME NEW j \in 1 .. Len(ls2), j \in 1 .. Len(want[n])
      PROVE  Same(ls2[j].value, want[n][j]) \/ (Differs(orig, want, n, j) /\ ChangeCall(want, n, j) \in left \ {c})
  <2>0. j \in 1 .. Len(ls) \/ j = Len(ls) + 1
    BY <1>1
  <2>1. CASE j \in 1 .. Len(ls)
    BY <1>5, <1>6, <1>h, <2>1
  <2>2. CASE j = Len(ls) + 1
    BY <1>4, <2>2 DEF Same
  <2> QED BY <2>0, <2>1, <2>2
<1>7. \A j \in 1 .. Len(want[n]) : Missing(orig, want, n, j) => (AddCall(want, n, j) \in left \ {c} <=> Len(ls2) < j)
  <2> TAKE j \in 1 .. Len(want[n])
  <2> HAVE Missing(orig, want, n, j)
  <2>1. AddCall(want, n, j) \in left <=> Len(ls) < j
    BY <1>h
  <2>2. AddCall(want, n, j) = c <=> j = i
    BY <1>5 DEF c
  <2>3. Len(ls2) < j <=> Len(ls) < j /\ j # i
    BY ONLY <1>1, <1>4, Len(ls2) = Len(ls) + 1, j \in 1 .. Len(want[n])
  <2> QED BY ONLY <2>1, <2>2, <2>3
<1>8. \A j \in 1 .. Len(orig[n]) : Extra(orig, want, n, j) => (DeleteCall(n, j) \in left \ {c} <=> j <= Len(ls2))
  <2> TAKE j \in 1 .. Len(orig[n])
  <2> HAVE Extra(orig, want, n, j)
  <2>1. j \notin 1 .. Len(want[n]) /\ Len(want[n]) >= i
    BY <1>1, <1>2 DEF Extra
  <2> QED BY ONLY <1>1, <1>4, <2>1, j \in 1 .. Len(orig[n])
<1>9. Len(orig[n]) <= Len(ls2) /\ Len(ls2) <= Len(want[n])
  BY ONLY <1>1, <1>2, <1>4, Len(ls2) = Len(ls) + 1
<1>s. Spared(orig, want, n, ls2)
  <2> SUFFICES ASSUME NEW j \in 1 .. Len(ls2), j \in 1 .. Len(orig[n]), j \in 1 .. Len(want[n]), ~Differs(orig, want, n, j)
               PROVE  ls2[j].value = orig[n][j]
    BY DEF Spared
  <2>1. j \in 1 .. Len(ls)
    BY ONLY <1>1, <1>4, j \in 1 .. Len(orig[n])
  <2>2. ls[j].value = orig[n][j]
    BY <1>h, <2>1 DEF Spared
  <2> QED BY <2>1, <2>2
<1>10. Halfway(orig, want, n, ls2, left \ {c})
  BY ONLY <1>6, <1>7, <1>8, <1>9, <1>s DEF Halfway
<1> QED BY <1>10 DEF c

(* The first deletion left is the last line.                               *)
LEMMA DeleteHalfway ==
  ASSUME NEW orig, Block(orig), NEW want, Block(want), NEW n \in Name, NEW i, Extra(orig, want, n, i),
         NEW ls \in Seq(Header), NEW left, Halfway(orig, want, n, ls, left), DeleteCall(n, i) \in left,
         \A j : Extra(orig, want, n, j) /\ i < j => DeleteCall(n, j) \notin left
  PROVE  /\ i = Len(ls) /\ Len(ls) >= 1
         /\ \A ls2 \in Seq(Header) :
              Len(ls2) = Len(ls) - 1 /\ (\A k \in 1 .. Len(ls) - 1 : ls2[k] = ls[k]) =>
                Halfway(orig, want, n, ls2, left \ {DeleteCall(n, i)})
<1>1. Len(orig[n]) \in Nat /\ Len(want[n]) \in Nat /\ Len(ls) \in Nat
  <2>1. orig[n] \in Seq(Value) /\ want[n] \in Seq(Value)
    BY DEF Block
  <2> QED BY <2>1
<1>h. /\ \/ Len(orig[n]) <= Len(ls) /\ Len(ls) <= Len(want[n])
         \/ Len(want[n]) <= Len(ls) /\ Len(ls) <= Len(orig[n])
      /\ \A j \in 1 .. Len(want[n]) : Missing(orig, want, n, j) => (AddCall(want, n, j) \in left <=> Len(ls) < j)
      /\ \A j \in 1 .. Len(orig[n]) : Extra(orig, want, n, j) => (DeleteCall(n, j) \in left <=> j <= Len(ls))
      /\ \A j \in 1 .. Len(ls) : j \in 1 .. Len(want[n]) =>
           Same(ls[j].value, want[n][j]) \/ (Differs(orig, want, n, j) /\ ChangeCall(want, n, j) \in left)
      /\ Spared(orig, want, n, ls)
  BY DEF Halfway
<1>2. i \in 1 .. Len(orig[n]) /\ i \notin 1 .. Len(want[n])
  BY DEF Extra
<1>3. i <= Len(ls)
  BY <1>2, <1>h
<1>4. i = Len(ls) /\ Len(want[n]) < Len(ls)
  <2>0. Len(want[n]) <= Len(ls) /\ Len(ls) <= Len(orig[n])
    BY ONLY <1>1, <1>2, <1>3, <1>h
  <2>1. PICK j : j = Len(ls)
    OBVIOUS
  <2>2. j \in 1 .. Len(orig[n]) /\ j \notin 1 .. Len(want[n]) /\ j <= Len(ls)
    BY ONLY <1>1, <1>2, <1>3, <2>0, <2>1
  <2>3. Extra(orig, want, n, j)
    BY <2>2 DEF Extra
  <2>4. DeleteCall(n, j) \in left
    BY <1>h, <2>2, <2>3
  <2>5. ~(i < j)
    BY <2>3, <2>4
  <2> QED BY ONLY <1>1, <1>2, <1>3, <2>0, <2>1, <2>5
<1>m. i \in Nat /\ i >= 1
  BY ONLY <1>1, <1>2
<1> DEFINE c == DeleteCall(n, i)
<1>5. \A j : AddCall(want, n, j) # c /\ ChangeCall(want, n, j) # c /\ (DeleteCall(n, j) = c => j = i)
  <2> TAKE j
  <2>1. c.op = "delete" /\ c.index = i
    BY DEF DeleteCall, Call
  <2>2. ChangeCall(want, n, j).op = "change" /\ AddCall(want, n, j).op = "add"
    BY CallFields
  <2>3. DeleteCall(n, j).index = j
    BY DEF DeleteCall, Call
  <2> HIDE DEF c
  <2> QED BY ONLY <2>1, <2>2, <2>3
<1>c. \A j : j = i => DeleteCall(n, j) = c
  OBVIOUS
<1> HIDE DEF c
<1>r. ASSUME NEW ls2 \in Seq(Header), Len(ls2) = Len(ls) - 1, \A k \in 1 .. Len(ls) - 1 : ls2[k] = ls[k]
      PROVE  Halfway(orig, want, n, ls2, left \ {c})
  <2>0. Len(ls2) = Len(ls) - 1
    BY <1>r
  <2>6. ASSUME NEW j \in 1 .. Len(ls2), j \in 1 .. Len(want[n])
        PROVE  Same(ls2[j].value, want[n][j]) \/ (Differs(orig, want, n, j) /\ ChangeCall(want, n, j) \in left \ {c})
    <3>1. j \in 1 .. Len(ls) /\ j \in 1 .. Len(ls) - 1
      BY ONLY <1>1, <2>0, j \in 1 .. Len(ls2)
    <3> QED BY <1>5, <1>r, <2>6, <1>h, <3>1
  <2>7. \A j \in 1 .. Len(want[n]) : Missing(orig, want, n, j) => (AddCall(want, n, j) \in left \ {c} <=> Len(ls2) < j)
    <3> TAKE j \in 1 .. Len(want[n])
    <3> HAVE Missing(orig, want, n, j)
    <3>1. j \notin 1 .. Len(orig[n])
      BY DEF Missing
    <3> QED BY ONLY <1>1, <1>2, <1>4, <3>1, j \in 1 .. Len(want[n])
  <2>8. \A j \in 1 .. Len(orig[n]) : Extra(orig, want, n, j) => (DeleteCall(n, j) \in left \ {c} <=> j <= Len(ls2))
    <3> TAKE j \in 1 .. Len(orig[n])
    <3> HAVE Extra(orig, want, n, j)
    <3>1. DeleteCall(n, j) \in left <=> j <= Len(ls)
      BY <1>h
    <3>2. DeleteCall(n, j) = c <=> j = i
      BY <1>5, <1>c
    <3>3. j <= Len(ls2) <=> j <= Len(ls) /\ j # i
      BY ONLY <1>1, <1>4, <2>0, j \in 1 .. Len(orig[n])
    <3> QED BY ONLY <3>1, <3>2, <3>3
  <2>9. Len(want[n]) <= Len(ls2) /\ Len(ls2) <= Len(orig[n])
    BY ONLY <1>1, <1>2, <1>4, <2>0
  <2>s. Spared(orig, want, n, ls2)
    <3> SUFFICES ASSUME NEW j \in 1 .. Len(ls2), j \in 1 .. Len(orig[n]), j \in 1 .. Len(want[n]), ~Differs(orig, want, n, j)
                 PROVE  ls2[j].value = orig[n][j]
      BY DEF Spared
    <3>1. j \in 1 .. Len(ls) /\ j \in 1 .. Len(ls) - 1
      BY ONLY <1>1, <2>0, j \in 1 .. Len(ls2)
    <3>2. ls[j].value = orig[n][j]
      BY <1>h, <3>1 DEF Spared
    <3> QED BY <1>r, <3>1, <3>2
  <2> QED BY ONLY <2>6, <2>7, <2>8, <2>9, <2>s DEF Halfway
<1> QED BY <1>1, <1>4, <1>m, <1>r DEF c

(* After c the lines are hs2: half-way too, and no other name is touched.   *)
Moved(orig, want, hs, left, c, hs2) ==
  /\ hs2 \in Seq(Header) /\ AllHalfway(orig, want, hs2, left \ {c})
  /\ \A names : c.name \notin names => Lines(hs2, names) = Lines(hs, names)

(* Only the name of the call has to be looked at.                          *)
LEMMA MovedIf ==
  ASSUME NEW orig, NEW want, NEW hs, NEW left, NEW c, NEW hs2 \in Seq(Header), AllHalfway(orig, want, hs, left),
         \A names : c.name \notin names => Lines(hs2, names) = Lines(hs, names),
         NEW n, n = c.name, Halfway(orig, want, n, Lines(hs2, {n}), left \ {c})
  PROVE  Moved(orig, want, hs, left, c, hs2)
<1>1. ASSUME NEW k \in Name PROVE Halfway(orig, want, k, Lines(hs2, {k}), left \ {c})
  <2>1. CASE k = n
    BY <2>1
  <2>2. CASE k # n
    <3>1. c.name # k /\ c.name \notin {k}
      BY <2>2
    <3>2. Lines(hs2, {k}) = Lines(hs, {k})
      BY <3>1
    <3>3. Halfway(orig, want, k, Lines(hs, {k}), left)
      BY DEF AllHalfway
    <3>4. PICK ls : ls = Lines(hs, {k})
      OBVIOUS
    <3>5. Halfway(orig, want, k, ls, left)
      BY <3>3, <3>4
    <3>6. Halfway(orig, want, k, ls, left \ {c})
      BY ONLY <3>1, <3>5, OthersHalfway
    <3> QED BY <3>2, <3>4, <3>6
  <2> QED BY <2>1, <2>2
<1>2. AllHalfway(orig, want, hs2, left \ {c})
  BY <1>1 DEF AllHalfway
<1> QED BY <1>2 DEF Moved

(* The MTA's line at an index is the index-th of the name.                 *)
LEMMA AtIs ==
  ASSUME NEW hs \in Seq(Header), NEW names, NEW ls, ls = Lines(hs, names), NEW P, P = Positions(hs, names),
         NEW i, i \in 1 .. Len(ls), NEW p, p = Nth(P, i)
  PROVE  /\ i <= Cardinality(P) /\ p \in 1 .. Len(hs) /\ hs[p].name \in names
         /\ \A k \in 1 .. Len(ls) : Nth(P, k) = p <=> k = i
<1>2. PICK m : m = Cardinality(P)
  OBVIOUS
<1>3. /\ P \subseteq 1 .. Len(hs) /\ P \subseteq Nat /\ IsFiniteSet(P) /\ m \in Nat /\ Len(ls) = m
      /\ \A k \in 1 .. m : Nth(P, k) \in P
  BY <1>2, LinesAre
<1>4. \A j, k \in 1 .. m : j < k => Nth(P, j) < Nth(P, k)
  BY <1>2, <1>3, NthIs
<1>5. i \in 1 .. m /\ p = Nth(P, i)
  BY <1>3
<1>6. p \in P /\ p \in 1 .. Len(hs) /\ i <= m
  BY <1>3, <1>5
<1>7. hs[p].name \in names
  BY <1>6 DEF Positions
<1>8. ASSUME NEW k \in 1 .. m PROVE Nth(P, k) = p <=> k = i
  <2>1. ASSUME Nth(P, k) = p, k # i PROVE FALSE
    <3>1. k < i \/ i < k
      BY ONLY <1>3, <1>5, <2>1, k \in 1 .. m
    <3>2. Nth(P, k) < Nth(P, i) \/ Nth(P, i) < Nth(P, k)
      BY <1>4, <1>5, <3>1
    <3>3. p \in Nat
      BY <1>3, <1>6
    <3> QED BY ONLY <1>5, <2>1, <3>2, <3>3
  <2> QED BY <1>5, <2>1
<1> QED BY <1>2, <1>3, <1>6, <1>7, <1>8

(* A change call.                                                          *)
LEMMA ChangeStep ==
  ASSUME NEW orig, Block(orig), NEW want, Block(want), NEW n \in Name, NEW i, Differs(orig, want, n, i),
         NEW hs \in Seq(Header), NEW left, AllHalfway(orig, want, hs, left),
         NEW c, c = ChangeCall(want, n, i),
         NEW b, NEW m, m = [headers |-> hs, body |-> b], NEW m2, m2 = ApplyCall(m, c)
  PROVE  \E hs2 : m2 = [headers |-> hs2, body |-> b] /\ Moved(orig, want, hs, left, c, hs2)
<1>1. c.op = "change" /\ c.name = n /\ c.index = i /\ c.value = want[n][i]
  BY CallFields
<1>2. want[n] \in Seq(Value) /\ i \in 1 .. Len(want[n])
  BY DEF Block, Differs
<1>x. PICK x \in Value : x = want[n][i]
  BY <1>2
<1>N. PICK N : N = {n}
  OBVIOUS
<1>3. PICK ls \in Seq(Header) : ls = Lines(hs, N)
  BY LinesAre
<1>4. Halfway(orig, want, n, ls, left)
  BY <1>3, <1>N DEF AllHalfway
<1>5. i \in 1 .. Len(ls)
  <2>1. Len(orig[n]) \in Nat /\ Len(want[n]) \in Nat /\ Len(ls) \in Nat
    <3>1. orig[n] \in Seq(Value)
      BY DEF Block
    <3> QED BY <1>2, <3>1
  <2>2. \/ Len(orig[n]) <= Len(ls) /\ Len(ls) <= Len(want[n])
        \/ Len(want[n]) <= Len(ls) /\ Len(ls) <= Len(orig[n])
    BY <1>4 DEF Halfway
  <2>3. i \in 1 .. Len(orig[n]) /\ i \in 1 .. Len(want[n])
    BY DEF Differs
  <2> QED BY ONLY <2>1, <2>2, <2>3
<1>P. PICK P : P = Positions(hs, N)
  OBVIOUS
<1>6. PICK p : p = Nth(P, i)
  OBVIOUS
<1>7. /\ i <= Cardinality(P) /\ p \in 1 .. Len(hs) /\ hs[p].name \in N
      /\ \A k \in 1 .. Len(ls) : Nth(P, k) = p <=> k = i
  BY ONLY <1>3, <1>5, <1>6, <1>P, AtIs, hs \in Seq(Header)
<1>8. PICK hs2 : Changed(hs2, hs, p, x)
  BY DEF Changed
<1>9. m2 = [headers |-> hs2, body |-> b]
  <2>1. m2 = [m EXCEPT !.headers[p].value = c.value]
    BY <1>1, <1>6, <1>7, <1>N, <1>P DEF ApplyCall
  <2> QED BY <1>1, <1>x, <1>8, <2>1 DEF Changed
<1>10. /\ hs2 \in Seq(Header) /\ \A names : hs[p].name \notin names => Lines(hs2, names) = Lines(hs, names)
  <2>1. ASSUME NEW names
        PROVE  hs2 \in Seq(Header) /\ (hs[p].name \notin names => Lines(hs2, names) = Lines(hs, names))
    <3>1. PICK k1 : k1 = Lines(hs, names)
      OBVIOUS
    <3>2. PICK k2 : k2 = Lines(hs2, names)
      OBVIOUS
    <3>3. hs2 \in Seq(Header) /\ (hs[p].name \notin names => k2 = k1)
      BY ONLY <1>7, <1>8, <1>x, <3>1, <3>2, ChangeLines, hs \in Seq(Header)
    <3> QED BY <3>1, <3>2, <3>3
  <2>2. hs2 \in Seq(Header)
    BY <2>1
  <2> QED BY <2>1, <2>2
<1>11. PICK ls2 \in Seq(Header) : ls2 = Lines(hs2, N)
  BY <1>10, LinesAre
<1>12. /\ Len(ls2) = Len(ls)
       /\ \A k \in 1 .. Len(ls) :
            ls2[k] = IF Nth(P, k) = p THEN [ls[k] EXCEPT !.value = x] ELSE ls[k]
  <2>1. p \in 1 .. Len(hs) /\ x \in Value
    BY <1>7
  <2>2. OneChanged(ls2, ls, Positions(hs, N), p, x)
    BY ONLY <1>3, <1>8, <1>11, <2>1, ChangeLines, hs \in Seq(Header)
  <2> QED BY <1>P, <2>2 DEF OneChanged
<1>13. \A k \in 1 .. Len(ls) : ls2[k] = IF k = i THEN [ls[k] EXCEPT !.value = want[n][i]] ELSE ls[k]
  BY ONLY <1>7, <1>12, <1>x
<1>14. Halfway(orig, want, n, ls2, left \ {c})
  BY ONLY <1>4, <1>12, <1>13, ChangeHalfway, Block(orig), Block(want), n \in Name, Differs(orig, want, n, i),
     ls \in Seq(Header), ls2 \in Seq(Header), c = ChangeCall(want, n, i)
<1>15. Moved(orig, want, hs, left, c, hs2)
  BY ONLY <1>1, <1>7, <1>10, <1>11, <1>14, <1>N, MovedIf, AllHalfway(orig, want, hs, left)
<1> QED BY <1>9, <1>15

(* An add call.                                                            *)
LEMMA AddStep ==
  ASSUME NEW orig, Block(orig), NEW want, Block(want), NEW n \in Name, NEW i, Missing(orig, want, n, i),
         NEW hs \in Seq(Header), NEW left, AllHalfway(orig, want, hs, left),
         NEW c, c = AddCall(want, n, i), c \in left,
         \A j : Missing(orig, want, n, j) /\ j < i => AddCall(want, n, j) \notin left,
         NEW b, NEW m, m = [headers |-> hs, body |-> b], NEW m2, m2 = ApplyCall(m, c)
  PROVE  \E hs2 : m2 = [headers |-> hs2, body |-> b] /\ Moved(orig, want, hs, left, c, hs2)
<1>1. c.op = "add" /\ c.name = n /\ c.index = i /\ c.value = want[n][i]
  BY CallFields
<1>2. want[n] \in Seq(Value) /\ i \in 1 .. Len(want[n])
  BY DEF Block, Missing
<1>x. PICK x \in Value : x = want[n][i]
  BY <1>2
<1>h. PICK h : h = [name |-> n, value |-> x]
  OBVIOUS
<1>i. h \in Header /\ h.name = n /\ h.value = x
  BY <1>h DEF Header
<1>N. PICK N : N = {n}
  OBVIOUS
<1>3. PICK ls \in Seq(Header) : ls = Lines(hs, N)
  BY LinesAre
<1>4. Halfway(orig, want, n, ls, left)
  BY <1>3, <1>N DEF AllHalfway
<1>8. PICK hs2 : Appended(hs2, hs, h)
  BY DEF Appended
<1>9. m2 = [headers |-> hs2, body |-> b]
  <2>1. m2 = [m EXCEPT !.headers = Append(@, [name |-> c.name, value |-> c.value])]
    BY <1>1 DEF ApplyCall
  <2> QED BY <1>1, <1>x, <1>h, <1>8, <2>1 DEF Appended
<1>10. /\ hs2 \in Seq(Header) /\ \A names : h.name \notin names => Lines(hs2, names) = Lines(hs, names)
  <2>1. ASSUME NEW names
        PROVE  hs2 \in Seq(Header) /\ (h.name \notin names => Lines(hs2, names) = Lines(hs, names))
    <3>1. PICK k1 : k1 = Lines(hs, names)
      OBVIOUS
    <3>2. PICK k2 : k2 = Lines(hs2, names)
      OBVIOUS
    <3>3. hs2 \in Seq(Header) /\ (h.name \notin names => k2 = k1)
      BY ONLY <1>8, <1>i, <3>1, <3>2, AppendLines, hs \in Seq(Header)
    <3> QED BY <3>1, <3>2, <3>3
  <2>2. hs2 \in Seq(Header)
    BY <2>1
  <2> QED BY <2>1, <2>2
<1>11. PICK ls2 \in Seq(Header) : ls2 = Lines(hs2, N)
  BY <1>10, LinesAre
<1>n. h.name \in N
  BY <1>i, <1>N
<1>12. /\ Len(ls2) = Len(ls) + 1 /\ ls2[Len(ls) + 1] = h
       /\ \A k \in 1 .. Len(ls) : ls2[k] = ls[k]
  BY ONLY <1>3, <1>8, <1>i, <1>n, <1>11, AppendLines, hs \in Seq(Header)
<1>13. ls2[Len(ls) + 1].value = want[n][i]
  BY ONLY <1>i, <1>12, <1>x
<1>14. Halfway(orig, want, n, ls2, left \ {c})
  BY ONLY <1>4, <1>12, <1>13, AddHalfway, Block(orig), Block(want), n \in Name, Missing(orig, want, n, i),
     ls \in Seq(Header), ls2 \in Seq(Header), c = AddCall(want, n, i), c \in left,
     \A j : Missing(orig, want, n, j) /\ j < i => AddCall(want, n, j) \notin left
<1>15. Moved(orig, want, hs, left, c, hs2)
  BY ONLY <1>1, <1>i, <1>10, <1>11, <1>14, <1>N, MovedIf, AllHalfway(orig, want, hs, left)
<1> QED BY <1>9, <1>15

(* A delete call.                                                          *)
LEMMA DeleteStep ==
  ASSUME NEW orig, Block(orig), NEW want, Block(want), NEW n \in Name, NEW i, Extra(orig, want, n, i),
         NEW hs \in Seq(Header), NEW left, AllHalfway(orig, want, hs, left),
         NEW c, c = DeleteCall(n, i), c \in left,
         \A j : Extra(orig, want, n, j) /\ i < j => DeleteCall(n, j) \notin left,
         NEW b, NEW m, m = [headers |-> hs, body |-> b], NEW m2, m2 = ApplyCall(m, c)
  PROVE  \E hs2 : m2 = [headers |-> hs2, body |-> b] /\ Moved(orig, want, hs, left, c, hs2)
<1>1. c.op = "delete" /\ c.name = n /\ c.index = i
  BY DEF DeleteCall, Call
<1>N. PICK N : N = {n}
  OBVIOUS
<1>3. PICK ls \in Seq(Header) : ls = Lines(hs, N)
  BY LinesAre
<1>4. Halfway(orig, want, n, ls, left)
  BY <1>3, <1>N DEF AllHalfway
<1>5. /\ i = Len(ls) /\ Len(ls) >= 1
      /\ \A ls2 \in Seq(Header) :
           Len(ls2) = Len(ls) - 1 /\ (\A k \in 1 .. Len(ls) - 1 : ls2[k] = ls[k]) =>
             Halfway(orig, want, n, ls2, left \ {c})
  BY ONLY <1>4, DeleteHalfway, Block(orig), Block(want), n \in Name, Extra(orig, want, n, i),
     ls \in Seq(Header), c = DeleteCall(n, i), c \in left,
     \A j : Extra(orig, want, n, j) /\ i < j => DeleteCall(n, j) \notin left
<1>e. i \in 1 .. Len(ls)
  <2>1. Len(ls) \in Nat
    OBVIOUS
  <2> QED BY ONLY <1>5, <2>1
<1>P. PICK P : P = Positions(hs, N)
  OBVIOUS
<1>6. PICK p : p = Nth(P, i)
  OBVIOUS
<1>7. i <= Cardinality(P) /\ p \in 1 .. Len(hs) /\ hs[p].name \in N
  BY ONLY <1>3, <1>e, <1>6, <1>P, AtIs, hs \in Seq(Header)
<1>8. PICK hs2 : hs2 = RemoveAt(hs, p)
  OBVIOUS
<1>9. m2 = [headers |-> hs2, body |-> b]
  <2>1. m2 = [m EXCEPT !.headers = RemoveAt(@, p)]
    BY <1>1, <1>6, <1>7, <1>N, <1>P DEF ApplyCall
  <2> QED BY <1>8, <2>1
<1>10. /\ hs2 \in Seq(Header) /\ \A names : hs[p].name \notin names => Lines(hs2, names) = Lines(hs, names)
  <2>1. ASSUME NEW names
        PROVE  hs2 \in Seq(Header) /\ (hs[p].name \notin names => Lines(hs2, names) = Lines(hs, names))
    <3>1. PICK k1 : k1 = Lines(hs, names)
      OBVIOUS
    <3>2. PICK k2 : k2 = Lines(hs2, names)
      OBVIOUS
    <3>3. hs2 \in Seq(Header) /\ (hs[p].name \notin names => k2 = k1)
      BY ONLY <1>7, <1>8, <3>1, <3>2, RemoveLines, hs \in Seq(Header)
    <3> QED BY <3>1, <3>2, <3>3
  <2>2. hs2 \in Seq(Header)
    BY <2>1
  <2> QED BY <2>1, <2>2
<1>11. PICK ls2 \in Seq(Header) : ls2 = Lines(hs2, N)
  BY <1>10, LinesAre
<1>12. Len(ls2) = Len(ls) - 1 /\ \A k \in 1 .. Len(ls) - 1 : ls2[k] = ls[k]
  BY ONLY <1>3, <1>5, <1>6, <1>7, <1>8, <1>11, <1>P, RemoveLines, hs \in Seq(Header)
<1>14. Halfway(orig, want, n, ls2, left \ {c})
  BY ONLY <1>5, <1>12, ls2 \in Seq(Header)
<1>15. Moved(orig, want, hs, left, c, hs2)
  BY ONLY <1>1, <1>7, <1>10, <1>11, <1>14, <1>N, MovedIf, AllHalfway(orig, want, hs, left)
<1> QED BY <1>9, <1>15

(* Any call but the body's, when it comes first.                           *)
LEMMA CallStep ==
  ASSUME NEW orig, Block(orig), NEW want, Block(want), NEW S, S = CallSet(orig, want),
         NEW hs \in Seq(Header), NEW left, AllHalfway(orig, want, hs, left),
         NEW c \in S, c \in left, c.op # "body", \A d \in S : CallBefore(d, c) => d \notin left,
         NEW b, NEW m, m = [headers |-> hs, body |-> b], NEW m2, m2 = ApplyCall(m, c)
  PROVE  \E hs2 : m2 = [headers |-> hs2, body |-> b] /\ Moved(orig, want, hs, left, c, hs2)
<1>1. PICK n, i : n = c.name /\ i = c.index
  OBVIOUS
<1>2. /\ c.op \in {"change", "add", "delete", "body"} /\ i \in Nat /\ n \in Nat
      /\ c.op = "change" => n \in Name /\ Differs(orig, want, n, i) /\ c = ChangeCall(want, n, i)
      /\ c.op = "add" => n \in Name /\ Missing(orig, want, n, i) /\ c = AddCall(want, n, i)
      /\ c.op = "delete" => n \in Name /\ Extra(orig, want, n, i) /\ c = DeleteCall(n, i)
  BY <1>1, CallIs
<1>3. CASE c.op = "change"
  BY <1>2, <1>3, ChangeStep
<1>4. CASE c.op = "add"
  <2>1. n \in Name /\ Missing(orig, want, n, i) /\ c = AddCall(want, n, i)
    BY <1>2, <1>4
  <2>2. ASSUME NEW j, Missing(orig, want, n, j), j < i PROVE AddCall(want, n, j) \notin left
    <3>1. PICK d : d = AddCall(want, n, j)
      OBVIOUS
    <3>2. j \in Nat
      BY <2>2 DEF Missing
    <3>3. ACall(orig, want, n, j, d)
      BY <2>2, <3>1 DEF ACall
    <3>4. d \in S
      BY <2>1, <3>2, <3>3, CallSetIs
    <3>5. d.op = "add" /\ d.name = n /\ d.index = j
      BY <3>1, CallFields
    <3>6. Stage(d) = 1 /\ Stage(c) = 1
      BY <1>4, <3>5 DEF Stage
    <3>7. CallBefore(d, c)
      BY ONLY <1>1, <2>2, <3>5, <3>6 DEF CallBefore
    <3> QED BY <3>1, <3>4, <3>7
  <2>3. \A j : Missing(orig, want, n, j) /\ j < i => AddCall(want, n, j) \notin left
    BY <2>2
  <2> QED BY <2>1, <2>3, AddStep
<1>5. CASE c.op = "delete"
  <2>1. n \in Name /\ Extra(orig, want, n, i) /\ c = DeleteCall(n, i)
    BY <1>2, <1>5
  <2>2. ASSUME NEW j, Extra(orig, want, n, j), i < j PROVE DeleteCall(n, j) \notin left
    <3>1. PICK d : d = DeleteCall(n, j)
      OBVIOUS
    <3>2. j \in Nat
      BY <2>2 DEF Extra
    <3>3. ACall(orig, want, n, j, d)
      BY <2>2, <3>1 DEF ACall
    <3>4. d \in S
      BY <2>1, <3>2, <3>3, CallSetIs
    <3>5. d.op = "delete" /\ d.name = n /\ d.index = j
      BY <3>1 DEF DeleteCall, Call
    <3>6. Stage(d) = 2 /\ Stage(c) = 2
      BY <1>5, <3>5 DEF Stage
    <3>7. CallBefore(d, c)
      BY ONLY <1>1, <1>2, <2>2, <3>2, <3>5, <3>6 DEF CallBefore
    <3> QED BY <3>1, <3>4, <3>7
  <2>3. \A j : Extra(orig, want, n, j) /\ i < j => DeleteCall(n, j) \notin left
    BY <2>2
  <2> QED BY <2>1, <2>3, DeleteStep
<1> QED BY <1>2, <1>3, <1>4, <1>5

(* Before the first call.                                                  *)
LEMMA StartHalfway ==
  ASSUME NEW hs \in Seq(Header), NEW orig, orig = originalValues(hs), NEW want, Block(want),
         NEW S, S = CallSet(orig, want)
  PROVE  AllHalfway(orig, want, hs, S)
<1>1. ASSUME NEW n \in Name, NEW ls, ls = Lines(hs, {n}) PROVE Halfway(orig, want, n, ls, S)
  <2>1. /\ Block(orig) /\ Len(orig[n]) = Len(ls)
        /\ \A i \in 1 .. Len(orig[n]) : orig[n][i] = ls[i].value
    BY <1>1, OriginalValues
  <2>2. Len(orig[n]) \in Nat /\ Len(want[n]) \in Nat
    <3>1. orig[n] \in Seq(Value) /\ want[n] \in Seq(Value)
      BY <2>1 DEF Block
    <3> QED BY <3>1
  <2>3. \A c, i : i \in Nat /\ ACall(orig, want, n, i, c) => c \in S
    BY <2>1, CallSetIs
  <2>4. \A i \in 1 .. Len(want[n]) : Missing(orig, want, n, i) => (AddCall(want, n, i) \in S <=> Len(ls) < i)
    <3> TAKE i \in 1 .. Len(want[n])
    <3> HAVE Missing(orig, want, n, i)
    <3>1. Len(ls) < i
      <4>1. i \notin 1 .. Len(orig[n])
        BY DEF Missing
      <4> QED BY ONLY <2>1, <2>2, <4>1, i \in 1 .. Len(want[n])
    <3>2. ACall(orig, want, n, i, AddCall(want, n, i)) /\ i \in Nat
      BY DEF ACall
    <3> QED BY <2>3, <3>1, <3>2
  <2>5. \A i \in 1 .. Len(orig[n]) : Extra(orig, want, n, i) => (DeleteCall(n, i) \in S <=> i <= Len(ls))
    <3> TAKE i \in 1 .. Len(orig[n])
    <3> HAVE Extra(orig, want, n, i)
    <3>1. i <= Len(ls)
      BY ONLY <2>1, <2>2, i \in 1 .. Len(orig[n])
    <3>2. ACall(orig, want, n, i, DeleteCall(n, i)) /\ i \in Nat
      BY DEF ACall
    <3> QED BY <2>3, <3>1, <3>2
  <2>6. \A i \in 1 .. Len(ls) : i \in 1 .. Len(want[n]) =>
          Same(ls[i].value, want[n][i]) \/ (Differs(orig, want, n, i) /\ ChangeCall(want, n, i) \in S)
    <3> TAKE i \in 1 .. Len(ls)
    <3> SUFFICES ASSUME i \in 1 .. Len(want[n]), ~Same(ls[i].value, want[n][i])
                 PROVE  Differs(orig, want, n, i) /\ ChangeCall(want, n, i) \in S
      OBVIOUS
    <3>1. i \in 1 .. Len(orig[n]) /\ orig[n][i] = ls[i].value /\ i \in Nat
      BY <2>1, <2>2
    <3>2. Differs(orig, want, n, i)
      BY <3>1 DEF Differs
    <3>3. ACall(orig, want, n, i, ChangeCall(want, n, i))
      BY <3>2 DEF ACall
    <3> QED BY <2>3, <3>1, <3>2, <3>3
  <2>7. \/ Len(orig[n]) <= Len(ls) /\ Len(ls) <= Len(want[n])
        \/ Len(want[n]) <= Len(ls) /\ Len(ls) <= Len(orig[n])
    BY ONLY <2>1, <2>2
  <2>s. Spared(orig, want, n, ls)
    BY <2>1 DEF Spared
  <2> QED BY ONLY <2>4, <2>5, <2>6, <2>7, <2>s DEF Halfway
<1> QED BY <1>1 DEF AllHalfway

(* The same value but for the white space between its words.               *)
LEMMA SameWords ==
  ASSUME NEW x \in Value, NEW y \in Value, Same(x, y)
  PROVE  x.v = y.v
<1>1. normalizeHeaderValue(x).v = x.v /\ normalizeHeaderValue(y).v = y.v
  BY DEF normalizeHeaderValue, Value
<1> QED BY <1>1 DEF Same

(* What is passed through is taken for the same value.                     *)
LEMMA PassedSame ==
  ASSUME NEW x \in Value, NEW y \in Value, PassedThrough(x, y)
  PROVE  Same(x, y)
<1>1. x.gap \in {"one", "two", "fold"} /\ y = readMIMEHeader(x)
  BY DEF PassedThrough, Value, Gaps
<1>2. x = [v |-> x.v, gap |-> x.gap]
  BY DEF Value
<1>3. y = [v |-> x.v, gap |-> IF x.gap = "two" THEN "two" ELSE "one"]
  BY <1>1, <1>2 DEF readMIMEHeader
<1>4. normalizeHeaderValue(x) = [v |-> x.v, gap |-> IF x.gap = "two" THEN "two" ELSE "one"]
  BY <1>1, <1>2 DEF normalizeHeaderValue
<1>5. normalizeHeaderValue(y) = y
  BY <1>3 DEF normalizeHeaderValue
<1> QED BY <1>3, <1>4, <1>5 DEF Same

(* After the last one.                                                     *)
LEMMA EndHalfway ==
  ASSUME NEW orig, Block(orig), Block(wanted), NEW hs \in Seq(Header), AllHalfway(orig, wanted, hs, {}),
         NEW n \in Name
  PROVE  ValuesIn(hs, n) = Wanted(n)
<1>1. PICK ls \in Seq(Header) : ls = Lines(hs, {n})
  BY LinesAre
<1>2. Halfway(orig, wanted, n, ls, {})
  BY <1>1 DEF AllHalfway
<1>3. Len(orig[n]) \in Nat /\ Len(wanted[n]) \in Nat /\ Len(ls) \in Nat /\ DOMAIN wanted[n] = 1 .. Len(wanted[n])
  <2>1. orig[n] \in Seq(Value) /\ wanted[n] \in Seq(Value)
    BY DEF Block
  <2> QED BY <2>1
<1>4. /\ \/ Len(orig[n]) <= Len(ls) /\ Len(ls) <= Len(wanted[n])
         \/ Len(wanted[n]) <= Len(ls) /\ Len(ls) <= Len(orig[n])
      /\ \A i \in 1 .. Len(wanted[n]) : Missing(orig, wanted, n, i) => ~(Len(ls) < i)
      /\ \A i \in 1 .. Len(orig[n]) : Extra(orig, wanted, n, i) => ~(i <= Len(ls))
      /\ \A i \in 1 .. Len(ls) : i \in 1 .. Len(wanted[n]) => Same(ls[i].value, wanted[n][i])
  BY <1>2 DEF Halfway
<1>5. ~(Len(ls) < Len(wanted[n]))
  <2> SUFFICES ASSUME Len(ls) < Len(wanted[n]) PROVE FALSE
    OBVIOUS
  <2>1. PICK i : i = Len(ls) + 1
    OBVIOUS
  <2>2. i \in 1 .. Len(wanted[n]) /\ i \notin 1 .. Len(orig[n]) /\ Len(ls) < i
    BY ONLY <1>3, <1>4, <2>1, Len(ls) < Len(wanted[n])
  <2> QED BY <1>4, <2>2 DEF Missing
<1>6. ~(Len(wanted[n]) < Len(ls))
  <2> SUFFICES ASSUME Len(wanted[n]) < Len(ls) PROVE FALSE
    OBVIOUS
  <2>1. PICK i : i = Len(ls)
    OBVIOUS
  <2>2. i \in 1 .. Len(orig[n]) /\ i \notin 1 .. Len(wanted[n]) /\ i <= Len(ls)
    BY ONLY <1>3, <1>4, <2>1, Len(wanted[n]) < Len(ls)
  <2> QED BY <1>4, <2>2 DEF Extra
<1>7. Len(ls) = Len(wanted[n])
  BY ONLY <1>3, <1>5, <1>6
<1>8. DOMAIN ls = DOMAIN wanted[n] /\ \A i \in DOMAIN ls : ls[i].value.v = wanted[n][i].v
  <2>1. wanted[n] \in Seq(Value) /\ DOMAIN ls = 1 .. Len(ls)
    BY DEF Block
  <2>2. ASSUME NEW i \in 1 .. Len(ls) PROVE ls[i].value.v = wanted[n][i].v
    <3>1. ls[i] \in Header /\ wanted[n][i] \in Value /\ Same(ls[i].value, wanted[n][i])
      BY <1>4, <1>7, <2>1
    <3>2. ls[i].value \in Value
      BY <3>1 DEF Header
    <3> QED BY ONLY <3>1, <3>2, SameWords
  <2> QED BY <1>3, <1>7, <2>1, <2>2
<1>9. ValuesIn(hs, n) = [i \in DOMAIN ls |-> ls[i].value.v]
  BY <1>1 DEF ValuesIn
<1> QED BY <1>8, <1>9 DEF Wanted

(* No call is about a header the rewrite does not change.                  *)
LEMMA NotUnchanged ==
  ASSUME original \in Seq(Header), Block(wanted), NEW c \in CallSet(originalValues(original), wanted), c.op # "body"
  PROVE  c.name \notin Unchanged
<1>1. PICK n, i : n = c.name /\ i = c.index
  OBVIOUS
<1>2. PICK orig : orig = originalValues(original)
  OBVIOUS
<1>4. Block(orig)
  BY <1>2, OriginalValues
<1>5. n \in Name /\ (Differs(orig, wanted, n, i) \/ Missing(orig, wanted, n, i) \/ Extra(orig, wanted, n, i))
  <2>1. c \in CallSet(orig, wanted)
    BY <1>2
  <2> QED BY ONLY <1>1, <1>4, <2>1, CallIs, c.op # "body", Block(wanted)
<1>7. ASSUME DOMAIN orig[n] = DOMAIN wanted[n], \A k \in DOMAIN orig[n] : PassedThrough(orig[n][k], wanted[n][k])
      PROVE  FALSE
  <2>1. orig[n] \in Seq(Value) /\ wanted[n] \in Seq(Value)
    BY <1>4, <1>5 DEF Block
  <2>2. 1 .. Len(orig[n]) = 1 .. Len(wanted[n])
    BY <1>7, <2>1
  <2>3. ASSUME NEW k \in 1 .. Len(orig[n]) PROVE Same(orig[n][k], wanted[n][k])
    <3>1. orig[n][k] \in Value /\ wanted[n][k] \in Value /\ PassedThrough(orig[n][k], wanted[n][k])
      BY <1>7, <2>1, <2>2
    <3> QED BY ONLY <3>1, PassedSame
  <2> QED BY <1>5, <2>2, <2>3 DEF Differs, Missing, Extra
<1> QED BY <1>1, <1>2, <1>7 DEF Unchanged

-----------------------------------------------------------------------------
(* The session.                                                            *)

(* The inductive invariant: types; a message whose body was replaced has   *)
(* all its headers; and between two calls, every name is half-way and the  *)
(* unchanged ones are as they were.                                        *)
TypeInv ==
  /\ pc \in {"receive", "apply", "done"}
  /\ original \in Seq(Header) /\ Block(wanted)
  /\ queued = [headers |-> queued.headers, body |-> queued.body] /\ queued.headers \in Seq(Header)

BodyLast ==
  queued.body = "rewritten" =>
    pc # "receive" /\ calls = <<>> /\ \A n \in Name : ValuesIn(queued.headers, n) = Wanted(n)

Applying ==
  pc = "apply" =>
    /\ Remaining(calls, CallSet(originalValues(original), wanted))
    /\ queued.body # "rewritten" => BodyCall \in Left(calls)
    /\ AllHalfway(originalValues(original), wanted, queued.headers, Left(calls))
    /\ Lines(queued.headers, Unchanged) = Lines(original, Unchanged)

MilterInv == TypeInv /\ BodyLast /\ Applying

(* The message before any call.                                            *)
LEMMA PendingIs ==
  ASSUME NEW hs \in Seq(Header), NEW m, m = Pending(hs)
  PROVE  /\ m = [headers |-> m.headers, body |-> m.body] /\ m.headers = hs /\ m.headers \in Seq(Header)
         /\ m.body = "original"
BY DEF Pending

(* It holds initially.                                                     *)
LEMMA MilterInit == Init => MilterInv
<1> SUFFICES ASSUME Init PROVE MilterInv
  OBVIOUS
<1>1. <<>> \in Seq(Header) /\ \A n \in Name : <<>> \in Seq(Value)
  OBVIOUS
<1>2. Block(NothingWanted)
  BY <1>1 DEF Block, NothingWanted
<1>3. queued = Pending(<<>>) /\ original = <<>> /\ wanted = NothingWanted /\ pc = "receive"
  BY DEF Init
<1>4. queued = [headers |-> queued.headers, body |-> queued.body] /\ queued.headers \in Seq(Header)
      /\ queued.body = "original"
  BY <1>1, <1>3, PendingIs
<1>5. TypeInv
  BY <1>1, <1>2, <1>3, <1>4 DEF TypeInv
<1>6. BodyLast /\ Applying
  BY <1>3, <1>4 DEF BodyLast, Applying
<1> QED BY <1>5, <1>6 DEF MilterInv

(* A rewritten block is one of the values wanted.                          *)
LEMMA RewrittenBlock ==
  ASSUME NEW block \in RewrittenHeader
  PROVE  Block(block)
<1>1. PICK S : S = {readMIMEHeader(x) : x \in SentValue}
  OBVIOUS
<1>2. S \subseteq Value
  <2>1. ASSUME NEW x \in SentValue PROVE readMIMEHeader(x) \in Value
    <3>1. x = [v |-> x.v, gap |-> x.gap] /\ x.v \in Text
      BY DEF SentValue
    <3>2. readMIMEHeader(x) = [v |-> x.v, gap |-> IF x.gap = "two" THEN "two" ELSE "one"]
      BY <3>1 DEF readMIMEHeader
    <3> QED BY <3>1, <3>2 DEF Value, Gaps
  <2> QED BY <1>1, <2>1
<1>3. ASSUME NEW s \in Bounded(S, MaxRepeat) PROVE s \in Seq(Value)
  <2>1. PICK k \in 0 .. MaxRepeat : s \in [1 .. k -> S]
    BY DEF Bounded
  <2>2. k \in Nat
    BY MilterAssumption
  <2> QED BY <1>2, <2>1, <2>2
<1>4. block \in [Name -> Bounded(S, MaxRepeat)]
  BY <1>1 DEF RewrittenHeader
<1>5. block = [n \in Name |-> block[n]] /\ \A n \in Name : block[n] \in Bounded(S, MaxRepeat)
  BY <1>4
<1>6. \A n \in Name : block[n] \in Seq(Value)
  BY <1>3, <1>5
<1> QED BY <1>5, <1>6 DEF Block

(* Steps after which no call is left.                                      *)
LEMMA NoneLeft ==
  ASSUME MilterInv, TypeInv', pc' # "apply",
         queued'.body # "rewritten" \/
           (queued' = queued /\ wanted' = wanted /\ pc' = "done" /\ pc # "receive" /\ calls' = <<>>)
  PROVE  MilterInv'
<1>1. Applying'
  BY DEF Applying
<1>2. BodyLast'
  <2>1. CASE queued'.body # "rewritten"
    BY <2>1 DEF BodyLast
  <2>2. CASE queued' = queued /\ wanted' = wanted /\ pc' = "done" /\ pc # "receive" /\ calls' = <<>>
    <3>1. \A n \in Name : Wanted(n)' = Wanted(n) /\ ValuesIn(queued'.headers, n) = ValuesIn(queued.headers, n)
      BY <2>2 DEF Wanted
    <3> QED BY <2>2, <3>1 DEF MilterInv, BodyLast
  <2> QED BY <2>1, <2>2
<1> QED BY <1>1, <1>2 DEF MilterInv

(* A rewrite verdict starts with every call left.                          *)
LEMMA VerdictStep ==
  ASSUME MilterInv, NEW block \in RewrittenHeader, RewriteVerdict(block)
  PROVE  MilterInv'
<1>1. /\ pc' = "apply" /\ wanted' = block /\ calls' = replaceMessage(block)
      /\ queued' = Pending(original) /\ original' = original
  BY DEF RewriteVerdict
<1>2. original \in Seq(Header) /\ Block(block)
  BY RewrittenBlock DEF MilterInv, TypeInv
<1>3. queued' = [headers |-> queued'.headers, body |-> queued'.body] /\ queued'.headers = original
      /\ queued'.body = "original"
  BY <1>1, <1>2, PendingIs
<1>4. TypeInv'
  BY <1>1, <1>2, <1>3 DEF TypeInv
<1>5. BodyLast'
  BY <1>3 DEF BodyLast
<1>6. PICK S : S = CallSet(originalValues(original), block)
  OBVIOUS
<1>7. PICK s : s = replaceMessage(block)
  OBVIOUS
<1>8. Lists(s, S)
  BY <1>2, <1>6, <1>7, ReplaceMessage
<1>9. s \in Seq(S) /\ Len(s) \in Nat /\ \A k \in 1 .. Len(s) : s[k] \in S
  BY <1>8 DEF Lists
<1>10. Left(s) = S
  BY <1>8, <1>9 DEF Lists, Left
<1>11. Remaining(s, S)
  BY <1>8, <1>10 DEF Lists, Remaining
<1>12. Block(originalValues(original))
  BY <1>2, OriginalValues
<1>13. BodyCall \in S
  BY <1>2, <1>6, <1>12, CallSetIs
<1>14. AllHalfway(originalValues(original), block, original, S)
  BY ONLY <1>2, <1>6, StartHalfway
<1>15. originalValues(original') = originalValues(original) /\ calls' = s /\ queued'.headers = original
  BY <1>1, <1>3, <1>7
<1>16. Lines(queued'.headers, Unchanged') = Lines(original', Unchanged')
  BY <1>1, <1>3
<1>17. Applying'
  BY ONLY <1>1, <1>6, <1>10, <1>11, <1>13, <1>14, <1>15, <1>16 DEF Applying
<1> QED BY <1>4, <1>5, <1>17 DEF MilterInv

(* A modifier call moves its name on; the body's is the last.              *)
LEMMA CallKeeps ==
  ASSUME MilterInv, ModifierCall
  PROVE  MilterInv'
<1>1. /\ pc = "apply" /\ calls # <<>> /\ queued' = ApplyCall(queued, Head(calls)) /\ calls' = Tail(calls)
      /\ pc' = pc /\ original' = original /\ wanted' = wanted
  BY DEF ModifierCall
<1>2. /\ original \in Seq(Header) /\ Block(wanted)
      /\ queued = [headers |-> queued.headers, body |-> queued.body] /\ queued.headers \in Seq(Header)
  BY DEF MilterInv, TypeInv
<1>3. queued.body # "rewritten"
  BY <1>1 DEF MilterInv, BodyLast
<1>4. PICK orig : orig = originalValues(original)
  OBVIOUS
<1>5. PICK S : S = CallSet(orig, wanted)
  OBVIOUS
<1>6. PICK s : s = calls
  OBVIOUS
<1>7. PICK c : c = Head(s)
  OBVIOUS
<1>8. PICK hs \in Seq(Header) : hs = queued.headers
  BY <1>2
<1>9. /\ Remaining(s, S) /\ BodyCall \in Left(s) /\ AllHalfway(orig, wanted, hs, Left(s))
      /\ Lines(hs, Unchanged) = Lines(original, Unchanged)
  BY <1>1, <1>3, <1>4, <1>5, <1>6, <1>8 DEF MilterInv, Applying
<1>10. Block(orig)
  BY <1>2, <1>4, OriginalValues
<1>11. Ordered(S)
  BY <1>2, <1>5, <1>10, CallsOrdered
<1>r. PICK r : r = Tail(s)
  OBVIOUS
<1>12. /\ c \in S /\ c \in Left(s) /\ Remaining(r, S) /\ Left(r) = Left(s) \ {c} /\ Left(s) \subseteq S
       /\ \A d \in S : CallBefore(d, c) => d \notin Left(s)
       /\ r # <<>> => \E d \in S : CallBefore(c, d)
  <2>1. s # <<>> /\ Remaining(s, S)
    BY <1>1, <1>6, <1>9
  <2>2. Taken(s, S, c, r)
    BY ONLY <1>7, <1>11, <1>r, <2>1, TakeFirst
  <2> QED BY <2>2 DEF Taken
<1>u. Unchanged' = Unchanged
  BY <1>1 DEF Unchanged
<1>13. CASE c.op # "body"
  <2>1. PICK b : b = queued.body
    OBVIOUS
  <2>2. queued = [headers |-> hs, body |-> b] /\ queued' = ApplyCall(queued, c)
    BY <1>1, <1>2, <1>6, <1>7, <1>8, <2>1
  <2>3. PICK m, m2 : m = queued /\ m2 = queued'
    OBVIOUS
  <2>4. m = [headers |-> hs, body |-> b] /\ m2 = ApplyCall(m, c)
    BY <2>2, <2>3
  <2>l. PICK left : left = Left(s)
    OBVIOUS
  <2>m. /\ AllHalfway(orig, wanted, hs, left) /\ c \in left /\ \A d \in S : CallBefore(d, c) => d \notin left
    BY <1>9, <1>12, <2>l
  <2>5. PICK hs2 : m2 = [headers |-> hs2, body |-> b] /\ Moved(orig, wanted, hs, left, c, hs2)
    BY ONLY <1>2, <1>5, <1>10, <1>12, <1>13, <2>4, <2>m, CallStep, hs \in Seq(Header)
  <2>6. /\ hs2 \in Seq(Header) /\ AllHalfway(orig, wanted, hs2, Left(r))
        /\ \A names : c.name \notin names => Lines(hs2, names) = Lines(hs, names)
    BY <1>12, <2>5, <2>l DEF Moved
  <2>7. queued'.headers = hs2 /\ queued'.body = b /\ queued' = [headers |-> queued'.headers, body |-> queued'.body]
    BY <2>3, <2>5
  <2>8. c.name \notin Unchanged
    BY <1>2, <1>4, <1>5, <1>12, <1>13, NotUnchanged
  <2>9. Lines(hs2, Unchanged) = Lines(original, Unchanged)
    BY <1>9, <2>6, <2>8
  <2>10. c # BodyCall
    BY <1>13, CallFields
  <2>11. BodyCall \in Left(r)
    BY <1>9, <1>12, <2>10
  <2>12. TypeInv'
    BY <1>1, <1>2, <2>6, <2>7 DEF MilterInv, TypeInv
  <2>13. BodyLast'
    BY <1>3, <2>1, <2>7 DEF BodyLast
  <2>14. originalValues(original') = orig /\ CallSet(orig, wanted') = S /\ calls' = r /\ wanted' = wanted
    BY <1>1, <1>4, <1>5, <1>6, <1>r
  <2>15. Lines(queued'.headers, Unchanged') = Lines(original', Unchanged')
    BY <1>1, <1>u, <2>7, <2>9
  <2>16. Applying'
    BY ONLY <1>12, <2>6, <2>7, <2>11, <2>14, <2>15 DEF Applying
  <2> QED BY <2>12, <2>13, <2>16 DEF MilterInv
<1>14. CASE c.op = "body"
  <2>1. c = BodyCall
    BY <1>2, <1>5, <1>10, <1>12, <1>14, CallIs
  <2>2. ~\E d \in S : CallBefore(c, d)
    <3> SUFFICES ASSUME NEW d \in S, CallBefore(c, d) PROVE FALSE
      OBVIOUS
    <3>1. d.op \in {"change", "add", "delete", "body"} /\ (d.op = "body" => d = BodyCall)
      BY <1>2, <1>5, <1>10, CallIs
    <3>2. d # c
      BY <1>11, <1>12 DEF Ordered
    <3>3. Stage(d) \in {1, 2} /\ Stage(c) = 3
      BY <1>14, <2>1, <3>1, <3>2 DEF Stage
    <3> QED BY ONLY <3>3, CallBefore(c, d) DEF CallBefore
  <2>3. r = <<>>
    BY <1>12, <2>2
  <2>4. Left(r) = {}
    BY <2>3 DEF Left
  <2>5. queued' = [queued EXCEPT !.body = "rewritten"]
    BY <1>1, <1>6, <1>7, <1>14 DEF ApplyCall
  <2>6. queued'.headers = hs /\ queued'.body = "rewritten"
        /\ queued' = [headers |-> queued'.headers, body |-> queued'.body]
    BY <1>2, <1>8, <2>5
  <2>7. Left(s) \ {c} = {}
    BY <1>12, <2>4
  <2>8. AllHalfway(orig, wanted, hs, {})
    <3>1. ASSUME NEW n \in Name PROVE Halfway(orig, wanted, n, Lines(hs, {n}), {})
      <4>1. PICK ls : ls = Lines(hs, {n})
        OBVIOUS
      <4>2. Halfway(orig, wanted, n, ls, Left(s))
        BY <1>9, <4>1 DEF AllHalfway
      <4>3. \A i : AddCall(wanted, n, i) # c /\ DeleteCall(n, i) # c /\ ChangeCall(wanted, n, i) # c
        <5> TAKE i
        <5>1. AddCall(wanted, n, i).op = "add" /\ ChangeCall(wanted, n, i).op = "change"
          BY CallFields
        <5>2. DeleteCall(n, i).op = "delete"
          BY DEF DeleteCall, Call
        <5> QED BY <1>14, <5>1, <5>2
      <4>4. \A i : /\ AddCall(wanted, n, i) \notin Left(s) /\ DeleteCall(n, i) \notin Left(s)
                   /\ ChangeCall(wanted, n, i) \notin Left(s)
        BY <2>7, <4>3
      <4>5. Halfway(orig, wanted, n, ls, {})
        BY ONLY <4>2, <4>4 DEF Halfway
      <4> QED BY <4>1, <4>5
    <3> QED BY <3>1 DEF AllHalfway
  <2>9. \A n \in Name : ValuesIn(hs, n) = Wanted(n)
    BY <1>2, <1>10, <2>8, EndHalfway
  <2>10. TypeInv'
    BY <1>1, <1>2, <2>6 DEF MilterInv, TypeInv
  <2>11. \A n \in Name : Wanted(n)' = Wanted(n)
    BY <1>1 DEF Wanted
  <2>12. BodyLast'
    BY <1>1, <1>6, <1>r, <2>3, <2>6, <2>9, <2>11 DEF BodyLast
  <2>13. originalValues(original') = orig /\ CallSet(orig, wanted') = S /\ calls' = r /\ wanted' = wanted
    BY <1>1, <1>4, <1>5, <1>6, <1>r
  <2>14. Lines(queued'.headers, Unchanged') = Lines(original', Unchanged')
    BY <1>1, <1>9, <1>u, <2>6
  <2>15. Applying'
    BY ONLY <1>12, <2>4, <2>6, <2>8, <2>13, <2>14 DEF Applying
  <2> QED BY <2>10, <2>12, <2>15 DEF MilterInv
<1> QED BY <1>13, <1>14

(* Every step keeps the invariant.                                         *)
LEMMA MilterNext == MilterInv /\ [Next]_vars => MilterInv'
<1> SUFFICES ASSUME MilterInv, [Next]_vars PROVE MilterInv'
  OBVIOUS
<1>t. /\ pc \in {"receive", "apply", "done"} /\ original \in Seq(Header) /\ Block(wanted)
      /\ queued = [headers |-> queued.headers, body |-> queued.body] /\ queued.headers \in Seq(Header)
  BY DEF MilterInv, TypeInv
<1>b. queued.body = "rewritten" => pc # "receive" /\ calls = <<>>
  BY DEF MilterInv, BodyLast
<1>p. \A hs \in Seq(Header) : /\ Pending(hs) = [headers |-> Pending(hs).headers, body |-> Pending(hs).body]
                              /\ Pending(hs).headers \in Seq(Header) /\ Pending(hs).body # "rewritten"
  BY PendingIs
<1>w. Block(NothingWanted) /\ <<>> \in Seq(Header)
  <2>1. <<>> \in Seq(Header) /\ \A n \in Name : <<>> \in Seq(Value)
    OBVIOUS
  <2> QED BY <2>1 DEF Block, NothingWanted
<1>1. ASSUME NEW h \in [name : Name, value : SentValue], HeaderCallback(h) PROVE MilterInv'
  <2>0. h \in Header
    BY MilterAssumption DEF Header, Value, SentValue
  <2>1. pc = "receive" /\ pc' = pc /\ original' = Append(original, h) /\ wanted' = wanted /\ queued' = queued
    BY <1>1 DEF HeaderCallback
  <2>2. original' \in Seq(Header)
    BY <1>t, <2>0, <2>1
  <2>3. TypeInv'
    BY <1>t, <2>1, <2>2 DEF TypeInv
  <2> QED BY <1>b, <2>1, <2>3, NoneLeft
<1>2. ASSUME NEW n \in ChunkSize, BodyChunk(n) PROVE MilterInv'
  <2>1. pc = "receive" /\ pc' \in {"receive", "done"} /\ original' = original /\ wanted' = wanted /\ queued' = queued
    BY <1>2, Zenon DEF BodyChunk
  <2>3. TypeInv'
    BY <1>t, <2>1 DEF TypeInv
  <2> QED BY <1>b, <2>1, <2>3, NoneLeft
<1>3. CASE NextMessage
  <2>1. pc' = "receive" /\ original' = <<>> /\ wanted' = NothingWanted /\ queued' = Pending(<<>>)
    BY <1>3 DEF NextMessage
  <2>3. TypeInv'
    BY <1>p, <1>w, <2>1 DEF TypeInv
  <2> QED BY <1>p, <1>w, <2>1, <2>3, NoneLeft
<1>4. CASE ProcessFails \/ RewriteRefused \/ \E answer \in {"accept", "reject", "tempfail"} : PlainVerdict(answer)
  <2>1. pc' = "done" /\ original' = original /\ wanted' = wanted /\ queued' = Pending(original)
    BY <1>4 DEF ProcessFails, RewriteRefused, PlainVerdict, resolveFailure
  <2>3. TypeInv'
    BY <1>p, <1>t, <2>1 DEF TypeInv
  <2> QED BY <1>p, <1>t, <2>1, <2>3, NoneLeft
<1>5. ASSUME NEW block \in RewrittenHeader, RewriteVerdict(block) PROVE MilterInv'
  BY <1>5, VerdictStep
<1>6. CASE ModifierCall
  BY <1>6, CallKeeps
<1>7. CASE ModifierFails
  <2>1. /\ pc = "apply" /\ calls # <<>> /\ pc' = "done" /\ original' = original /\ wanted' = wanted
        /\ queued' = queued \/ queued' = [queued EXCEPT !.body = "partial"]
    BY <1>7 DEF ModifierFails, resolveFailure
  <2>2. /\ queued' = [headers |-> queued'.headers, body |-> queued'.body] /\ queued'.headers \in Seq(Header)
        /\ queued'.body # "rewritten"
    <3>1. CASE queued' = queued
      BY <1>b, <1>t, <2>1, <3>1
    <3>2. CASE queued' = [queued EXCEPT !.body = "partial"]
      <4>1. queued' = [headers |-> queued.headers, body |-> "partial"]
        BY <1>t, <3>2
      <4> QED BY <1>t, <4>1
    <3> QED BY <2>1, <3>1, <3>2
  <2>3. TypeInv'
    BY <1>t, <2>1, <2>2 DEF TypeInv
  <2> QED BY <2>1, <2>2, <2>3, NoneLeft
<1>8. CASE ConnectionLost \/ Accepted
  <2>1. pc = "apply" /\ pc' = "done" /\ original' = original /\ wanted' = wanted /\ queued' = queued /\ calls' = <<>>
    BY <1>8 DEF ConnectionLost, Accepted
  <2>3. TypeInv'
    BY <1>t, <2>1 DEF TypeInv
  <2> QED BY <2>1, <2>3, NoneLeft
<1>9. CASE UNCHANGED vars
  <2>1. /\ pc' = pc /\ original' = original /\ wanted' = wanted /\ queued' = queued /\ calls' = calls
    BY <1>9 DEF vars
  <2>2. TypeInv'
    BY <2>1 DEF MilterInv, TypeInv
  <2>3. BodyLast'
    BY <2>1 DEF MilterInv, BodyLast, ValuesIn, Wanted
  <2>4. Applying'
    BY <2>1 DEF MilterInv, Applying, Unchanged
  <2> QED BY <2>2, <2>3, <2>4 DEF MilterInv
<1> QED BY <1>1, <1>2, <1>3, <1>4, <1>5, <1>6, <1>7, <1>8, <1>9 DEF Next

(* The invariant holds in every reachable state.                           *)
LEMMA MilterAlways == Spec => []MilterInv
BY MilterInit, MilterNext, PTL DEF Spec

(* replaceMessage is exact: when it replaced the body, after the header    *)
(* modifications, each name has the values of the rewritten block, in its  *)
(* order, whatever the number of its occurrences on either side.           *)
THEOREM ReconciledExactly == Spec => []ReconcileExact
<1>1. MilterInv => ReconcileExact
  BY DEF MilterInv, BodyLast, ReconcileExact
<1> QED BY <1>1, MilterAlways, PTL

(* Half-way through the calls an occurrence passed through is the original.*)
LEMMA HalfwayKept ==
  ASSUME original \in Seq(Header), Block(wanted), queued.headers \in Seq(Header),
         AllHalfway(originalValues(original), wanted, queued.headers, Left(calls)), NEW n \in Name
  PROVE  OccurrencesKept(n)
<1>1. PICK orig, nowAll : orig = originalValues(original) /\ nowAll = originalValues(queued.headers)
  OBVIOUS
<1>2. PICK hs \in Seq(Header) : hs = queued.headers
  OBVIOUS
<1>3. PICK ls \in Seq(Header) : ls = Lines(hs, {n})
  BY LinesAre
<1>4. PICK sent, now : sent = orig[n] /\ now = nowAll[n]
  OBVIOUS
<1>5. Block(orig) /\ sent \in Seq(Value) /\ wanted[n] \in Seq(Value)
  BY <1>1, <1>4, OriginalValues DEF Block
<1>6. Block(nowAll) /\ Len(now) = Len(ls) /\ \A i \in 1 .. Len(now) : now[i] = ls[i].value
  BY <1>1, <1>2, <1>3, <1>4, OriginalValues
<1>7. PICK left : left = Left(calls)
  OBVIOUS
<1>8. Halfway(orig, wanted, n, ls, left)
  BY <1>1, <1>2, <1>3, <1>7 DEF AllHalfway
<1>9. /\ Spared(orig, wanted, n, ls)
      /\ \/ Len(orig[n]) <= Len(ls) /\ Len(ls) <= Len(wanted[n])
         \/ Len(wanted[n]) <= Len(ls) /\ Len(ls) <= Len(orig[n])
  BY <1>8 DEF Halfway
<1>10. ASSUME NEW i \in DOMAIN sent \cap DOMAIN wanted[n], PassedThrough(sent[i], wanted[n][i])
       PROVE  i \in DOMAIN now /\ now[i] = sent[i]
  <2>1. i \in 1 .. Len(sent) /\ i \in 1 .. Len(wanted[n]) /\ Len(sent) \in Nat /\ Len(wanted[n]) \in Nat
    BY <1>5
  <2>2. Len(ls) \in Nat
    OBVIOUS
  <2>3. i \in 1 .. Len(ls)
    BY ONLY <1>4, <1>9, <2>1, <2>2
  <2>4. sent[i] \in Value /\ wanted[n][i] \in Value
    BY <1>5, <2>1
  <2>5. Same(sent[i], wanted[n][i])
    BY ONLY <1>10, <2>4, PassedSame
  <2>6. ~Differs(orig, wanted, n, i)
    BY <1>4, <2>5 DEF Differs
  <2>7. ls[i].value = sent[i]
    BY <1>4, <1>9, <2>1, <2>3, <2>6 DEF Spared
  <2>8. now \in Seq(Value)
    BY <1>4, <1>6 DEF Block
  <2> QED BY <1>6, <2>3, <2>7, <2>8
<1> QED BY <1>1, <1>4, <1>10 DEF OccurrencesKept

(* Between any two modifier calls of replaceMessage the headers the rewrite*)
(* passes through are the original lines: all of a name in their order, and*)
(* one occurrence at its number whatever becomes of the others.            *)
THEOREM UntouchedKept == Spec => []UnchangedUntouched
<1>1. MilterInv => UnchangedUntouched
  <2> SUFFICES ASSUME MilterInv, pc = "apply"
               PROVE  /\ Lines(queued.headers, Unchanged) = Lines(original, Unchanged)
                      /\ \A n \in Name : OccurrencesKept(n)
    BY DEF UnchangedUntouched
  <2>1. /\ original \in Seq(Header) /\ Block(wanted) /\ queued.headers \in Seq(Header)
        /\ AllHalfway(originalValues(original), wanted, queued.headers, Left(calls))
        /\ Lines(queued.headers, Unchanged) = Lines(original, Unchanged)
    BY DEF MilterInv, TypeInv, Applying
  <2>2. \A n \in Name : OccurrencesKept(n)
    BY <2>1, HalfwayKept
  <2> QED BY <2>1, <2>2
<1> QED BY <1>1, MilterAlways, PTL
=============================================================================
